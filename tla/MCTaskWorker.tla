----------------------------- MODULE MCTaskWorker -----------------------------
(***************************************************************************)
(* TaskWorker for TLC.  Below, next to the properties of TaskWorker, what  *)
(* the documents say of the worker where the code does something else:     *)
(* each fails for the reason the README gives.                             *)
(***************************************************************************)
EXTENDS TaskWorker

-----------------------------------------------------------------------------
(* Claims of the documents that the code does not keep *)

\* TASK_SPEC section 4.1: when a root reaches a terminal state in a
\* scheduler-driven run, that run records its <task_result> in the chat.
FinishedRootIsTold ==
    [][/\ task # NoTask /\ task' = NoTask /\ pc' = "idle"
       /\ task \in DOMAIN forest'
       /\ forest'[task].parent = NoTask /\ is_terminal(forest'[task].status)
       => results'[task] = results[task] + 1]_vars

\* TASK_SPEC section 3, live-descendant rules: no live task is left below a
\* finished one (where the scheduler never looks), once cascades are through.
NoLiveBelowFinished ==
    (\A a \in Actors : cascade[a] = <<>>) =>
      \A t \in DOMAIN forest :
        is_terminal(forest[t].status) => live_descendants(forest, t) = <<>>

\* TASK_SPEC section 3: suspended is not auto-resumed, it waits for an
\* explicit resume.  (Requests and tool calls leave pc alone.)
SuspendedWaitsForResume ==
    [][pc' # pc =>
         \A t \in by_status(forest, "suspended") :
           forest'[t].status \in {"suspended"} \cup Terminal]_vars

\* TASK_SPEC section 2: when all children are terminal the parent gets its
\* synthesis turn; unless someone suspended it, it must be pickable for it.
SynthesisIsDue ==
    \A t \in DOMAIN forest :
      synthesis_ready(forest, t) /\ ~ is_terminal(forest[t].status) /\ t # task =>
        forest[t].status \in {"pending", "blocked"}

\* TASK_SPEC section 2: a node is blocked while children run; nothing else
\* ever unblocks it.
BlockedHasChildren ==
    \A t \in by_status(forest, "blocked") : t # task => ~ is_leaf(forest, t)

\* design-review-fixes.md, P2: serial execution guarantees at most one task
\* can legitimately be active.
AtMostOneActive == Cardinality(by_status(forest, "active")) <= 1

\* TASK_SPEC section 5.2: a queued user message preempts the running task
\* unconditionally, at its next turn boundary.  (worker_live, which is fair.)
NeverWaitsForAnswers ==
    pending_interactive > 0 ~> pc = "turn" /\ task = NoTask /\ turn_origin = "user"
=============================================================================
