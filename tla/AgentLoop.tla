------------------------------- MODULE AgentLoop -------------------------------
(***************************************************************************)
(* The agent's loop (amos-agent/src/agent_loop.rs, with compact.rs, the    *)
(* harness client, and permissions.rs and hooks.rs of amos-core): a        *)
(* conversation is sent to a model; while it answers with calls of tools,  *)
(* the tools are run one after the other and their results sent with the   *)
(* next turn.  A long history is cut when it is loaded, and a conversation *)
(* that has grown large is compacted before a turn.                        *)
(*                                                                         *)
(* A message is known by its role, by the turn whose calls it holds and by *)
(* the turn whose results it holds; turns of earlier conversations, which  *)
(* the history tells of, have numbers below zero.  What a message weighs is*)
(* not modelled: a conversation may be over the threshold at any turn.     *)
(***************************************************************************)
EXTENDS Integers, Sequences

CONSTANTS
  Sessions,       \* configurations: preserve_recent, active_mode and tool_overrides
  Tools,
  Required,       \* default_tool_permission, 0 .. 2
  Histories,      \* what may be handed over as history
  MaxIterations,  \* max_iterations
  MaxCalls        \* bound of the model: calls in one answer

Message == [role : {"system", "user", "assistant", "tool"}, uses : Int, results : Int]

\* A message of an earlier conversation; its calls may be of any role and need no results.
Earlier == {x \in Message : x.uses <= 0 /\ x.results <= 0}

ASSUME AgentAssumption ==
  /\ \A s \in Sessions :
       /\ s.preserve \in Nat /\ s.mode \in 0 .. 2
       /\ DOMAIN s.overrides \subseteq Tools
       /\ \A t \in DOMAIN s.overrides : s.overrides[t] \in 0 .. 2
  /\ Required \in [Tools -> 0 .. 2]
  /\ \A h \in Histories : h \in Seq(Earlier)
  /\ MaxIterations \in Nat /\ MaxCalls \in Nat

VARIABLES
  session,   \* LoopConfig of this conversation
  messages,  \* the conversation
  turn,      \* iterations begun
  phase,     \* where the loop is
  calls,     \* calls of this turn that have no result yet
  sent,      \* requests to the harness for the call at hand that were lost
  limited,   \* retries after rate limits in this turn
  orderly    \* history: what the conversation was begun with pairs calls with results

agentVars == <<session, messages, turn, phase, calls, sent, limited, orderly>>

Text(role)   == [role |-> role, uses |-> 0, results |-> 0]
Calling(t)   == [role |-> "assistant", uses |-> t, results |-> 0]
Answering(t) == [role |-> "user", uses |-> 0, results |-> t]

AgentTypeOK ==
  /\ session \in Sessions
  /\ messages \in Seq(Message)
  /\ turn \in 0 .. MaxIterations
  /\ phase \in {"turn", "model", "tools", "harness", "completed", "failed"}
  /\ calls \in Seq(Tools)
  /\ sent \in 0 .. 3 /\ limited \in 0 .. 3
  /\ orderly \in BOOLEAN

-----------------------------------------------------------------------------
\* Loading a conversation.

\* The first two and the last twenty of a history of more than forty, and a note between.
window_history(h) ==
  IF Len(h) <= 40 THEN h
  ELSE SubSeq(h, 1, 2) \o <<Text("user")>> \o SubSeq(h, Len(h) - 19, Len(h))

\* A history that is kept whole: the assistant, who has the last word, and the user take
\* turns, and the assistant's calls are followed by their results, which the user's messages
\* hold.
Orderly(h) ==
  /\ Len(h) <= 40
  /\ \A k \in 1 .. Len(h) :
       /\ h[k].role = IF (Len(h) - k) % 2 = 0 THEN "assistant" ELSE "user"
       /\ h[k].uses # 0 =>
            h[k].role = "assistant" /\ k < Len(h) /\ h[k + 1].results = h[k].uses
       /\ h[k].results # 0 =>
            h[k].role = "user" /\ k > 1 /\ h[k - 1].uses = h[k].results

\* The history, what memory recalls, if anything, and the message.
AgentInit ==
  /\ session \in Sessions
  /\ \E h \in Histories, recalled \in {<<>>, <<Text("user")>>} :
       /\ messages = window_history(h) \o recalled \o <<Text("user")>>
       /\ orderly = (Orderly(h) /\ recalled = <<>>)
  /\ turn = 0 /\ phase = "turn" /\ calls = <<>> /\ sent = 0 /\ limited = 0

-----------------------------------------------------------------------------
\* A turn.

compact_one_more(m, preserve) ==
  IF Len(m) <= preserve + 1 THEN m
  ELSE <<Text("user")>> \o SubSeq(m, Len(m) - preserve, Len(m))

\* A summary, and the most recent messages.
compact(m, preserve) ==
  IF Len(m) <= preserve + 1 THEN m
  ELSE <<Text("user")>> \o SubSeq(m, Len(m) - preserve + 1, Len(m))

\* Compacted, if it is over the threshold; without turns left the last text is the result.
begin_turn ==
  /\ phase = "turn"
  /\ \/ /\ turn < MaxIterations
        /\ turn' = turn + 1 /\ phase' = "model"
        /\ messages' \in {messages, compact(messages, session.preserve)}
     \/ /\ turn = MaxIterations /\ phase' = "completed" /\ UNCHANGED <<turn, messages>>
  /\ limited' = 0
  /\ UNCHANGED <<session, calls, sent, orderly>>

\* An answer with calls, an answer without, a rate limit that is waited for up to three
\* times, or an error.
converse ==
  /\ phase = "model"
  /\ \/ \E n \in 1 .. MaxCalls : \E wanted \in [1 .. n -> Tools] :
          /\ messages' = Append(messages, Calling(turn))
          /\ calls' = wanted /\ phase' = "tools" /\ UNCHANGED limited
     \/ /\ messages' = Append(messages, Text("assistant"))
        /\ phase' = "completed" /\ UNCHANGED <<calls, limited>>
     \/ /\ limited < 3 /\ limited' = limited + 1
        /\ UNCHANGED <<messages, calls, phase>>
     \/ phase' = "failed" /\ UNCHANGED <<messages, calls, limited>>
  /\ UNCHANGED <<session, turn, sent, orderly>>

allows_tool(tool) ==
  session.mode >= IF tool \in DOMAIN session.overrides THEN session.overrides[tool]
                  ELSE Required[tool]

\* The result of the call at hand; the results of a turn are one message.
Result ==
  /\ calls' = Tail(calls)
  /\ sent' = 0
  /\ IF Len(calls) = 1
     THEN messages' = Append(messages, Answering(turn)) /\ phase' = "turn"
     ELSE UNCHANGED messages /\ phase' = "tools"

Hand == Head(calls)

\* Refused for want of permission, or by a hook that runs before the tool.
refuse_tool ==
  /\ phase = "tools"
  /\ Result
  /\ UNCHANGED <<session, turn, limited, orderly>>

\* A local tool, or one nobody knows, gives its result at once.
run_local_tool ==
  /\ phase = "tools" /\ allows_tool(Hand)
  /\ Result
  /\ UNCHANGED <<session, turn, limited, orderly>>

\* A tool of the harness that is permitted and that no hook denies; a hook that fails or does
\* not end in time denies nothing.
execute_tool ==
  /\ phase = "tools" /\ allows_tool(Hand)
  /\ phase' = "harness"
  /\ UNCHANGED <<session, messages, turn, calls, sent, limited, orderly>>

\* One request.  If it or its answer is lost on the way there are three more, whether or not
\* the harness has run the tool; whatever the harness answers is the result, and so is the
\* last failure.
send_request ==
  /\ phase = "harness"
  /\ \/ /\ sent < 3 /\ sent' = sent + 1
        /\ UNCHANGED <<messages, calls, phase>>
     \/ Result
  /\ UNCHANGED <<session, turn, limited, orderly>>

AgentNext ==
  \/ begin_turn \/ converse
  \/ refuse_tool \/ run_local_tool \/ execute_tool \/ send_request

AgentSpec == AgentInit /\ [][AgentNext]_agentVars

-----------------------------------------------------------------------------
\* Properties.

\* The calls and results that must stay together: those of this conversation, and those of
\* a history that paired them.
Kept(t, paired) == t > 0 \/ (paired /\ t # 0)

\* What is sent to the model is a conversation it accepts: whatever history it began with and
\* whenever it was compacted, a message with results stands right after the message with the
\* calls they belong to, and no calls are without results.  Of the calls of the history this
\* is so if it paired them, was kept whole, and nothing was put between it and the message.
CallsAreAnswered ==
  phase = "model" =>
    \A k \in DOMAIN messages :
      /\ Kept(messages[k].uses, orderly) =>
           k < Len(messages) /\ messages[k + 1].results = messages[k].uses
      /\ Kept(messages[k].results, orderly) =>
           k > 1 /\ messages[k - 1].uses = messages[k].results
=============================================================================
