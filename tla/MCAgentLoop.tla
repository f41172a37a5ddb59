----------------------------- MODULE MCAgentLoop ------------------------------
(* The agent's loop for TLC, in the configuration of a bounty: fifteen messages are kept. *)
EXTENDS AgentLoop

BountySessions == {[preserve |-> 15, mode |-> 1, overrides |-> <<>>]}
BountyHistories == {<<>>, <<Text("user"), Text("assistant")>>}
RequiredLevels == [t \in Tools |-> 1]
=============================================================================
