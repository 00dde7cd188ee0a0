--------------------------- MODULE MCConversation ---------------------------
(* Conversation for TLC, and what the texts of the repository claim of the *)
(* conversation.                                                           *)
EXTENDS Conversation

\* Every crash shortens the log that is followed by one message.
CrashesCount == Len(log) + crashes <= MaxEvents

\* "never fold a call whose result stays raw" (memory/tier1.py, MEMORY_SPEC M-I3)
PairsStayTogether ==
    \A i, j \in DOMAIN log : log[j].of = i => ~ (i <= watermark /\ watermark < j)

\* "no orphan `tool_call_started` without a `tool_call_finished` in the restored state"
\* (docs/TEST_PLAN.md): a request answers every tool call it shows, after a crash too.
RestoredCallsAnswered ==
    \A i \in request : Cardinality({j \in request : log[j].of = i}) = log[i].calls

\* "Never send a messages-less request" (runtime/agent.py)
NeverEmpty == pc = "llm" /\ scope = Chat => request # {}
=============================================================================
