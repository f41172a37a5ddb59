\* "Add tool results as a user message (matching the Bedrock/Anthropic pattern)": refuted in a
\* bounty's session, where compaction cuts between a call and its result.
SPECIFICATION AgentSpec
CONSTANTS
  Sessions <- BountySessions
  Tools = {"remember", "shell"}
  Required <- RequiredLevels
  Histories <- BountyHistories
  MaxIterations = 9
  MaxCalls = 1
INVARIANT CallsAreAnswered
CHECK_DEADLOCK FALSE
