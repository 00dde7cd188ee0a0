----------------------------- MODULE TaskLifecycle -----------------------------
(***************************************************************************)
(* What a worker promises about the life of its tasks (TASK_SPEC sections  *)
(* 3 and 4), without a word on queues, turns, requests or trees: one task  *)
(* at a time, started only from a state that waits for the scheduler;      *)
(* done and cancelled for ever; a result told once, after the end.         *)
(***************************************************************************)
EXTENDS Naturals

CONSTANT Tasks

VARIABLES life,   \* per task: "absent", one of its statuses, or "deleted"
          told    \* per task: how often its result was told

vars == <<life, told>>

Live     == {"pending", "active", "suspended", "blocked"}
Finished == {"done", "cancelled"}

Init == life = [t \in Tasks |-> "absent"] /\ told = [t \in Tasks |-> 0]

Move(t, to) == life' = [life EXCEPT ![t] = to] /\ UNCHANGED told

Create(t) == life[t] = "absent" /\ Move(t, "pending")

\* The worker is one: nothing else is active.
Start(t) ==
    /\ life[t] \in {"pending", "blocked"}
    /\ \A u \in Tasks : life[u] # "active"
    /\ Move(t, "active")

Park(t) ==
    /\ life[t] \in Live
    /\ \E to \in Live \ {"active"} : Move(t, to)

Finish(t) == life[t] \in Live /\ \E to \in Finished : Move(t, to)

Delete(t) == life[t] \in Live \cup Finished /\ Move(t, "deleted")

Tell(t) ==
    /\ life[t] \in Finished /\ told[t] = 0
    /\ told' = [told EXCEPT ![t] = 1] /\ UNCHANGED life

Next == \E t \in Tasks :
          Create(t) \/ Start(t) \/ Park(t) \/ Finish(t) \/ Delete(t) \/ Tell(t)

Spec == Init /\ [][Next]_vars
=============================================================================
