---------------------------- MODULE TriggerSchedule ----------------------------
(***************************************************************************)
(* What a worker promises of the fires of its triggers (TRIGGER_SPEC       *)
(* sections 3 and 4), without a word on plans, files, sleeps or restarts:  *)
(* no fire before its time; a recurring trigger fires for instants of its  *)
(* schedule, each later than all before; a one-shot fires for its one      *)
(* instant, again only after its removal was undone.                       *)
(***************************************************************************)
EXTENDS Integers

CONSTANTS Cron, Once,   \* the triggers, by kind
          Period,       \* of each recurring one
          Instants      \* the instants of the clock

VARIABLES now,
          fires,        \* per trigger and due instant: how often it fired
          undone        \* per one-shot: removals that were undone

vars == <<now, fires, undone>>

OnSchedule(i, d) == d % Period[i] = 0

Fired(i) == {d \in Instants : fires[i][d] > 0}

Init ==
    /\ now \in Instants
    /\ fires = [i \in Cron \cup Once |-> [d \in Instants |-> 0]]
    /\ undone = [i \in Once |-> 0]

FireFor(i, d) ==
    /\ d <= now
    /\ fires' = [fires EXCEPT ![i][d] = @ + 1]
    /\ UNCHANGED <<now, undone>>

FireCron(i, d) == OnSchedule(i, d) /\ (\A e \in Fired(i) : e < d) /\ FireFor(i, d)

FireOnce(i, d) == Fired(i) \subseteq {d} /\ fires[i][d] <= undone[i] /\ FireFor(i, d)

Undo(S) ==
    /\ undone' = [i \in Once |-> IF i \in S THEN undone[i] + 1 ELSE undone[i]]
    /\ UNCHANGED <<now, fires>>

Pass == now' \in Instants /\ now < now' /\ UNCHANGED <<fires, undone>>

Next ==
    \/ \E i \in Cron, d \in Instants : FireCron(i, d)
    \/ \E i \in Once, d \in Instants : FireOnce(i, d)
    \/ \E S \in SUBSET Once : Undo(S)
    \/ Pass

Spec == Init /\ [][Next]_vars
================================================================================
