---------------------------- MODULE CronScheduler ----------------------------
(***************************************************************************)
(* The cron scheduler of one worker (triggers/scheduler.py) over its       *)
(* trigger file (triggers/dynamic_store.py) and the table trigger_state    *)
(* (runtime/store.py): catch-up at startup, the loop that sleeps until the *)
(* soonest fire, and the requests (schedule tool, task tool, IPC) that     *)
(* change the plan under it.                                               *)
(*                                                                         *)
(* The file has an asynchronous lock; taking it yields once even when it   *)
(* is free, so a request is two steps: what it does before the lock, and   *)
(* its body with what follows the lock.  now = k stands for an instant in  *)
(* [k, k+1); a recurring trigger is due at every multiple of its period.   *)
(***************************************************************************)
EXTENDS Integers, Sequences, FiniteSets, Functions

CONSTANTS
    Static,                \* cron triggers of agent.yaml
    Recurring, Once,       \* ids of dynamic triggers yet to be minted, by kind
    Templates,             \* recurring ones that hatch tasks
    Clients,               \* callers of the scheduler: connections, the run's tools
    Ops,                   \* what they ask for
    Period,                \* of each recurring trigger
    Grace,                 \* grace_period
    MaxTime, MaxFailures,  \* bounds on the clock and on consecutive_failures
    MAX_DYNAMIC_TRIGGERS, QUEUE_CAPACITY,
    SlowBoot,              \* the clock may advance while the worker starts
    MaxCrashes,            \* bound on the crashes of the worker
    None                   \* no trigger, no target

Cron    == Static \cup Recurring
Dynamic == Recurring \cup Once
Ids     == Cron \cup Once
Time    == 0..MaxTime
Loop    == "loop"          \* run() and catch_up_missed as a holder of the lock
Never   == -1

ASSUME CronConstants ==
    /\ Static \cap Dynamic = {} /\ Recurring \cap Once = {} /\ Templates \subseteq Recurring
    /\ Period \in [Cron -> Nat \ {0}]
    /\ Grace \in Nat /\ MaxTime \in Nat /\ MaxFailures \in Nat
    /\ MAX_DYNAMIC_TRIGGERS \in Nat \ {0} /\ QUEUE_CAPACITY \in Nat \ {0}
    /\ SlowBoot \in BOOLEAN /\ MaxCrashes \in Nat
    /\ IsFiniteSet(Clients) /\ Loop \notin Clients /\ None \notin Ids
    /\ None \notin [id : Ids, at : Nat, skip : Nat, stale : BOOLEAN]

VARIABLES
    now,
    store,         \* dynamic_triggers.json (and its cache): id -> enabled, fire_at
    minted,        \* dynamic ids handed out
    trigger_state, \* last_fired_at, consecutive_failures
    items,         \* _items: id -> next_fire, skip_remaining, enabled
    wake,          \* _wake is set
    pc,            \* where catch_up_missed or run() is
    target,        \* next_item, captured before the sleep
    todo,          \* ids catch_up_missed has still to look at
    lock,          \* holder of the file's lock, then those waiting for it
    queue,         \* ids of the TriggerItems in the worker's queue
    running,       \* the trigger whose run is in progress
    crashes,
    fires,         \* history: fires of each trigger for each due instant
    torn           \* history: consumptions of a one-shot that were undone

planVars == <<items, wake, pc, target, todo>>
fileVars == <<store, minted, lock>>
runVars  == <<queue, running>>
history  == <<fires, torn>>
vars     == <<now, crashes, trigger_state, planVars, fileVars, runVars, history>>

\* down     no process            catchup  catch_up_missed, before serving
\* top      run() between waits   idle     waiting for a first trigger
\* sleep    until target is due   due      the timer of target has gone off
\* consume  run() awaits the lock to remove a one-shot from the file
\* drop     the same, in catch_up_missed
Serving == pc \in {"top", "idle", "sleep", "due", "consume"}

Item     == [at : Nat, skip : Nat, enabled : BOOLEAN]
Record   == [enabled : BOOLEAN, at : Nat]
Target   == [id : Ids, at : Nat, skip : Nat, stale : BOOLEAN]
Request  == [actor : Clients \cup {Loop}, op : {"add", "remove", "enable", "disable", "clear", "consume"},
             id : Ids \cup {None}, at : Nat]

TypeOK ==
    /\ now \in Time /\ crashes \in 0..MaxCrashes
    /\ minted \subseteq Dynamic
    /\ DOMAIN store \subseteq minted /\ store \in [DOMAIN store -> Record]
    /\ trigger_state \in [Ids -> [last : Time \cup {Never}, failures : 0..MaxFailures]]
    /\ DOMAIN items \subseteq Ids /\ items \in [DOMAIN items -> Item]
    /\ wake \in BOOLEAN
    /\ pc \in {"down", "catchup", "drop", "top", "idle", "sleep", "due", "consume"}
    /\ target \in Target \cup {None} /\ (pc \in {"sleep", "due"} => target # None)
    /\ todo \subseteq Ids
    /\ lock \in Seq(Request)
    /\ queue \in Seq(Ids) /\ Len(queue) <= QUEUE_CAPACITY
    /\ running \in Ids \cup {None}
    /\ fires \in [Ids -> [Time -> Nat]]
    /\ torn \in [Once -> Nat]

Init ==
    /\ now = 0 /\ crashes = 0
    /\ store = <<>> /\ minted = {} /\ lock = <<>>
    /\ trigger_state = [i \in Ids |-> [last |-> Never, failures |-> 0]]
    /\ items = <<>> /\ wake = FALSE /\ pc = "down" /\ target = None /\ todo = {}
    /\ queue = <<>> /\ running = None
    /\ fires = [i \in Ids |-> [d \in Time |-> 0]]
    /\ torn = [i \in Once |-> 0]

-----------------------------------------------------------------------------
(* The plan *)

\* croniter.get_next and get_prev, seen from the instant t.
NextFire(i, t) == Period[i] * (t \div Period[i] + 1)
PrevFire(i, t) == Period[i] * (t \div Period[i])

Planned(at) == [at |-> at, skip |-> 0, enabled |-> TRUE]

With(f, i, v) == [j \in DOMAIN f \cup {i} |-> IF j = i THEN v ELSE f[j]]
Without(f, S) == Restrict(f, DOMAIN f \ S)

\* run() keeps the object it chose even when the plan drops it.
KeepTarget(S) ==
    target' = IF target # None /\ target.id \in S \cap DOMAIN items /\ ~ target.stale
              THEN [target EXCEPT !.skip = items[target.id].skip, !.stale = TRUE]
              ELSE target

Uninstall(S) == items' = Without(items, S) /\ KeepTarget(S)

\* mutant: the queue has no limit
FireUnbounded(i, due) ==
    /\ trigger_state' = [trigger_state EXCEPT ![i].last = now]
    /\ fires' = [fires EXCEPT ![i][due] = @ + 1]
    /\ queue' = Append(queue, i)

\* _fire: the state and the event first, then the queue, if it has room.
Fire(i, due) ==
    /\ trigger_state' = [trigger_state EXCEPT ![i].last = now]
    /\ fires' = [fires EXCEPT ![i][due] = @ + 1]
    /\ queue' = IF Len(queue) < QUEUE_CAPACITY THEN Append(queue, i) ELSE queue

\* _consume_once, up to the lock.
StartConsume(i) ==
    /\ items' = Without(items, {i})
    /\ lock' = Append(lock, [actor |-> Loop, op |-> "consume", id |-> i, at |-> 0])

-----------------------------------------------------------------------------
(* Startup *)

\* CronScheduler.__init__ and load_dynamic.
Boot ==
    /\ pc = "down"
    /\ LET enabled == Static \cup {i \in DOMAIN store : store[i].enabled}
       IN  /\ items' = [i \in enabled |->
                           Planned(IF i \in Once THEN store[i].at ELSE NextFire(i, now))]
           /\ todo' = enabled
    /\ pc' = "catchup"
    /\ UNCHANGED <<now, crashes, trigger_state, wake, target, fileVars, runVars, history>>

Skip == UNCHANGED <<trigger_state, queue, fires>>

\* A one-shot whose time passed is consumed, fired or not.
CatchUpOnce(i) ==
    LET at == items[i].at
    IN  \/ /\ at > now
           /\ Skip /\ UNCHANGED <<items, lock, pc>>
        \/ /\ at <= now
           /\ IF now - at <= Grace THEN Fire(i, at) ELSE Skip
           /\ StartConsume(i) /\ pc' = "drop"

\* mutant: it does not look at last_fired_at
CatchUpCronAgain(i) ==
    /\ IF now - PrevFire(i, now) <= Grace THEN Fire(i, PrevFire(i, now)) ELSE Skip
    /\ UNCHANGED <<items, lock, pc>>

\* A recurring trigger that has not fired since it was last due.
CatchUpCron(i) ==
    LET prev == PrevFire(i, now)
        last == trigger_state[i].last
    IN  /\ IF last < prev /\ now - prev <= Grace THEN Fire(i, prev) ELSE Skip
        /\ UNCHANGED <<items, lock, pc>>

CatchUp(i) ==
    /\ pc = "catchup" /\ i \in todo
    /\ todo' = todo \ {i}
    /\ IF i \in Once THEN CatchUpOnce(i) ELSE CatchUpCron(i)
    /\ UNCHANGED <<now, crashes, wake, target, store, minted, running, torn>>

\* The task group starts.
Serve ==
    /\ pc = "catchup" /\ todo = {}
    /\ pc' = "top"
    /\ UNCHANGED <<now, crashes, trigger_state, items, wake, target, todo, fileVars, runVars, history>>

-----------------------------------------------------------------------------
(* run() *)

AnyPlanned == DOMAIN items            \* mutant: the first of the list
Soonest == {i \in DOMAIN items : \A j \in DOMAIN items : items[i].at <= items[j].at}

\* The item of i moved to its next fire; a stale target is no item of the plan.
Advance(i, skip, stale) ==
    items' = IF stale THEN items
             ELSE [items EXCEPT ![i].at = NextFire(i, now), ![i].skip = skip]

\* Nothing in memory survives the process.
Die ==
    /\ pc' = "down" /\ items' = <<>> /\ wake' = FALSE /\ target' = None /\ todo' = {}
    /\ lock' = <<>> /\ queue' = <<>> /\ running' = None

\* What follows the sleep.  _advance asserts that it is given a cron trigger:
\* a one-shot that backs off takes the worker down.
Handle(i, due, skip, stale) ==
    \/ /\ skip > 0 /\ i \in Once
       /\ Die
       /\ UNCHANGED <<trigger_state, fires>>
    \/ /\ skip > 0 /\ i \in Cron
       /\ Advance(i, skip - 1, stale) /\ pc' = "top" /\ target' = None
       /\ UNCHANGED <<wake, todo, lock, runVars, trigger_state, fires>>
    \/ /\ skip = 0 /\ i \in Cron
       /\ Fire(i, due)
       /\ Advance(i, 0, stale) /\ pc' = "top" /\ target' = None
       /\ UNCHANGED <<wake, todo, lock, running>>
    \/ /\ skip = 0 /\ i \in Once
       /\ Fire(i, due)
       /\ StartConsume(i) /\ pc' = "consume" /\ target' = None
       /\ UNCHANGED <<wake, todo, running>>

\* Nothing planned: wait for a change.
Idle ==
    /\ pc = "top" /\ items = <<>>
    /\ pc' = "idle"
    /\ UNCHANGED <<now, crashes, trigger_state, items, wake, target, todo, fileVars, runVars, history>>

Sleep ==
    /\ pc = "top"
    /\ \E i \in Soonest :
          /\ items[i].at > now
          /\ target' = [id |-> i, at |-> items[i].at, skip |-> 0, stale |-> FALSE]
    /\ pc' = "sleep"
    /\ UNCHANGED <<now, crashes, trigger_state, items, wake, todo, fileVars, runVars, history>>

Overdue ==
    /\ pc = "top"
    /\ \E i \in Soonest : items[i].at <= now /\ Handle(i, items[i].at, items[i].skip, FALSE)
    /\ UNCHANGED <<now, crashes, store, minted, torn>>

WakeUp ==
    /\ pc \in {"idle", "sleep"} /\ wake
    /\ wake' = FALSE /\ pc' = "top" /\ target' = None
    /\ UNCHANGED <<now, crashes, trigger_state, items, todo, fileVars, runVars, history>>

\* The deadline passes while nobody has kicked; the loop runs one step later.
TimerFires ==
    /\ pc = "sleep" /\ ~ wake /\ target.at <= now
    /\ pc' = "due"
    /\ UNCHANGED <<now, crashes, trigger_state, items, wake, target, todo, fileVars, runVars, history>>

HandleTarget ==
    /\ pc = "due"
    /\ Handle(target.id, target.at,
              IF target.stale THEN target.skip ELSE items[target.id].skip, target.stale)
    /\ UNCHANGED <<now, crashes, store, minted, torn>>

-----------------------------------------------------------------------------
(* Requests *)

Free(c) == Serving /\ \A k \in DOMAIN lock : lock[k].actor # c

Ask(c, op, i, at) ==
    /\ Free(c) /\ op \in Ops
    /\ lock' = Append(lock, [actor |-> c, op |-> op, id |-> i, at |-> at])
    /\ UNCHANGED <<now, crashes, trigger_state, planVars, store, runVars, history>>

\* mutant: no cap
AskAddUncapped(c, i) ==
    /\ i \notin minted
    /\ minted' = minted \cup {i}
    /\ IF i \in Once THEN \E at \in Time : Ask(c, "add", i, at)
       ELSE Ask(c, "add", i, NextFire(i, now))

\* add_dynamic and add_once_dynamic under a fresh id: the cap is checked here.
AskAdd(c, i) ==
    /\ i \notin minted
    /\ Cardinality(DOMAIN store) < MAX_DYNAMIC_TRIGGERS
    /\ minted' = minted \cup {i}
    /\ IF i \in Once THEN \E at \in Time : Ask(c, "add", i, at)
       ELSE Ask(c, "add", i, NextFire(i, now))

AskRemove(c, i) == i \in minted /\ Ask(c, "remove", i, 0) /\ UNCHANGED minted

AskEnable(c, i, on) ==
    i \in minted /\ Ask(c, IF on THEN "enable" ELSE "disable", i, 0) /\ UNCHANGED minted

AskClear(c) == Ask(c, "clear", None, 0) /\ UNCHANGED minted

\* set_enabled of a trigger of agent.yaml: in memory, and without the lock.
EnableStatic(c, i, on) ==
    /\ Free(c) /\ "static" \in Ops /\ i \in Static
    /\ items' = [items EXCEPT ![i].enabled = on] /\ wake' = TRUE
    /\ UNCHANGED <<now, crashes, trigger_state, pc, target, todo, fileVars, runVars, history>>

\* trigger.fire bypasses the plan and its state.
FireNow(c, i) ==
    /\ Free(c) /\ "fire" \in Ops /\ i \in DOMAIN items
    /\ Len(queue) < QUEUE_CAPACITY
    /\ queue' = Append(queue, i)
    /\ UNCHANGED <<now, crashes, trigger_state, planVars, fileVars, running, history>>

-----------------------------------------------------------------------------
(* What a request does once it holds the lock *)

Asked == Head(lock)

Unlock(op) == lock # <<>> /\ Asked.op = op /\ lock' = Tail(lock)

\* mutant: the loop is not woken
AddSilent ==
    /\ Unlock("add")
    /\ store' = With(store, Asked.id, [enabled |-> TRUE, at |-> Asked.at])
    /\ items' = With(items, Asked.id, Planned(Asked.at))
    /\ UNCHANGED <<now, crashes, trigger_state, wake, pc, target, todo, minted, runVars, history>>

Add ==
    /\ Unlock("add")
    /\ store' = With(store, Asked.id, [enabled |-> TRUE, at |-> Asked.at])
    /\ items' = With(items, Asked.id, Planned(Asked.at))
    /\ wake' = TRUE
    /\ UNCHANGED <<now, crashes, trigger_state, pc, target, todo, minted, runVars, history>>

\* remove_dynamic: the plan drops the id in any case, the kick is for a removal.
Remove ==
    /\ Unlock("remove")
    /\ store' = Without(store, {Asked.id})
    /\ Uninstall({Asked.id})
    /\ wake' = (wake \/ Asked.id \in DOMAIN store)
    /\ UNCHANGED <<now, crashes, trigger_state, pc, todo, minted, runVars, history>>

NoSuchTrigger ==
    /\ Unlock(Asked.op) /\ Asked.op \in {"enable", "disable"} /\ Asked.id \notin DOMAIN store
    /\ UNCHANGED <<now, crashes, trigger_state, planVars, store, minted, runVars, history>>

Consuming(i) == \E k \in DOMAIN lock : lock[k].op = "consume" /\ lock[k].id = i

\* set_enabled(True): a trigger that the plan has already is not planned anew.
Enable ==
    LET i == Asked.id IN
    /\ Unlock("enable") /\ i \in DOMAIN store
    /\ store' = [store EXCEPT ![i].enabled = TRUE]
    /\ items' = IF i \in DOMAIN items THEN [items EXCEPT ![i].enabled = TRUE]
                ELSE With(items, i, Planned(IF i \in Once THEN store[i].at ELSE NextFire(i, now)))
    /\ wake' = TRUE
    /\ torn' = IF Consuming(i) THEN [torn EXCEPT ![i] = @ + 1] ELSE torn
    /\ UNCHANGED <<now, crashes, trigger_state, pc, target, todo, minted, runVars, fires>>

\* mutant: the plan is left to the next restart
DisableInFile ==
    /\ Unlock("disable") /\ Asked.id \in DOMAIN store
    /\ store' = [store EXCEPT ![Asked.id].enabled = FALSE]
    /\ UNCHANGED <<now, crashes, trigger_state, planVars, minted, runVars, history>>

Disable ==
    LET i == Asked.id IN
    /\ Unlock("disable") /\ i \in DOMAIN store
    /\ store' = [store EXCEPT ![i].enabled = FALSE]
    /\ Uninstall({i})
    /\ wake' = TRUE
    /\ UNCHANGED <<now, crashes, trigger_state, pc, todo, minted, runVars, history>>

Clear ==
    /\ Unlock("clear")
    /\ store' = <<>>
    /\ Uninstall(Dynamic)
    /\ wake' = (wake \/ store # <<>>)
    /\ UNCHANGED <<now, crashes, trigger_state, pc, todo, minted, runVars, history>>

\* The rest of _consume_once.
Consume ==
    /\ Unlock("consume")
    /\ store' = Without(store, {Asked.id})
    /\ pc' = IF pc = "drop" THEN "catchup" ELSE "top"
    /\ UNCHANGED <<now, crashes, trigger_state, items, wake, target, todo, minted, runVars, history>>

-----------------------------------------------------------------------------
(* The main loop of the worker, as far as triggers go *)

\* A fire of a template is a new task, whose end is not reported here.
Take ==
    /\ Serving /\ running = None /\ queue # <<>>
    /\ queue' = Tail(queue)
    /\ running' = IF Head(queue) \in Templates THEN None ELSE Head(queue)
    /\ UNCHANGED <<now, crashes, trigger_state, planVars, fileVars, history>>

\* record_outcome: a trigger that has left the plan keeps its counters.
Unplanned ==
    /\ running # None /\ running \notin DOMAIN items
    /\ running' = None
    /\ UNCHANGED <<now, crashes, trigger_state, planVars, fileVars, queue, history>>

\* mutant: the skips go on after a success
SucceededStillSkips ==
    /\ running \in DOMAIN items
    /\ trigger_state' = [trigger_state EXCEPT ![running].failures = 0]
    /\ running' = None
    /\ UNCHANGED <<now, crashes, planVars, fileVars, queue, history>>

Succeeded ==
    /\ running \in DOMAIN items
    /\ trigger_state' = [trigger_state EXCEPT ![running].failures = 0]
    /\ items' = [items EXCEPT ![running].skip = 0]
    /\ running' = None
    /\ UNCHANGED <<now, crashes, wake, pc, target, todo, fileVars, queue, history>>

Failed ==
    /\ running \in DOMAIN items
    /\ LET failures == trigger_state[running].failures + 1
       IN  /\ failures <= MaxFailures
           /\ trigger_state' = [trigger_state EXCEPT ![running].failures = failures]
           /\ items' = IF failures >= 3 THEN [items EXCEPT ![running].skip = failures - 2] ELSE items
    /\ running' = None
    /\ UNCHANGED <<now, crashes, wake, pc, target, todo, fileVars, queue, history>>

-----------------------------------------------------------------------------
(* Time and crashes *)

Tick ==
    /\ now < MaxTime
    /\ pc \in {"catchup", "drop"} => SlowBoot
    /\ now' = now + 1
    /\ UNCHANGED <<crashes, trigger_state, planVars, fileVars, runVars, history>>

\* The file and trigger_state survive.
Crash ==
    /\ crashes < MaxCrashes /\ pc # "down"
    /\ crashes' = crashes + 1
    /\ torn' = [i \in Once |-> IF Consuming(i) THEN torn[i] + 1 ELSE torn[i]]
    /\ Die
    /\ UNCHANGED <<now, trigger_state, store, minted, fires>>

-----------------------------------------------------------------------------
Run == Idle \/ Sleep \/ Overdue \/ WakeUp \/ TimerFires \/ HandleTarget

Locked == Add \/ Remove \/ NoSuchTrigger \/ Enable \/ Disable \/ Clear \/ Consume

ClientStep(c) ==
    \/ \E i \in Dynamic : AskAdd(c, i) \/ AskRemove(c, i)
    \/ \E i \in Dynamic, on \in BOOLEAN : AskEnable(c, i, on)
    \/ AskClear(c)
    \/ \E i \in Static, on \in BOOLEAN : EnableStatic(c, i, on)
    \/ \E i \in Ids : FireNow(c, i)

Next ==
    \/ Boot \/ Serve \/ \E i \in Ids : CatchUp(i)
    \/ Run \/ Locked
    \/ \E c \in Clients : ClientStep(c)
    \/ Take \/ Unplanned \/ Succeeded \/ Failed
    \/ Tick \/ Crash

Spec == Init /\ [][Next]_vars

\* The event loop is fair to the scheduler and to whoever is handed the lock.
FairSpec == Spec /\ WF_vars(Boot \/ Serve \/ \E i \in Ids : CatchUp(i))
                 /\ WF_vars(Run) /\ WF_vars(Locked)

-----------------------------------------------------------------------------
(* A sleeping loop that nobody has kicked sleeps for the soonest trigger   *)
(* of the plan, and one that waits for a first trigger has none: no        *)
(* request changes the plan without waking run() if it matters.            *)
LoopKnowsSoonest ==
    ~ wake => /\ pc = "idle" => items = <<>>
              /\ pc = "sleep" => target.id \in Soonest /\ items[target.id].at = target.at

(* The plan in memory and the trigger file agree on what is enabled, up to *)
(* a one-shot whose consumption awaits the lock, or was undone.            *)
PlanMatchesFile ==
    pc # "down" => \A i \in Dynamic :
        \/ Consuming(i) \/ (i \in Once /\ torn[i] > 0)
        \/ i \in DOMAIN items <=> i \in DOMAIN store /\ store[i].enabled

(* No due instant of a trigger is fired twice, across requests, crashes    *)
(* and catch-up; a one-shot is, only if the step between its fire and its  *)
(* removal from the file was cut off by a crash or undone by set_enabled.  *)
OncePerDue ==
    \A i \in Ids, d \in Time : fires[i][d] <= 1 + (IF i \in Once THEN torn[i] ELSE 0)

(* The cap is checked before the lock is taken, so callers that race may   *)
(* exceed it, by one each and no more.                                     *)
CapOvershoot == Cardinality(DOMAIN store) < MAX_DYNAMIC_TRIGGERS + Cardinality(Clients)

(* A trigger is skipped only for failures that it still has.               *)
SkipsAreOwed ==
    \A i \in DOMAIN items : items[i].skip > 0 =>
        items[i].skip + 2 <= trigger_state[i].failures

Due(i) == Serving /\ i \in DOMAIN items /\ items[i].at <= now

(* Whatever requests come, a planned trigger does not stay due: it fires,  *)
(* is skipped, leaves the plan, or the worker dies.                        *)
DueIsHandled == \A i \in Ids : Due(i) ~> ~ Due(i)

-----------------------------------------------------------------------------
(* The abstract schedule *)

Schedule == INSTANCE TriggerSchedule WITH Instants <- Time, undone <- torn

(* Whatever requests change the plan under the loop's sleep, whatever a    *)
(* crash leaves behind and catch-up makes up for: nothing fires early, off *)
(* its schedule, out of order or for an instant it has fired for.  This    *)
(* holds as long as the clock passes no due instant between the planning   *)
(* and the catch-up of a boot (~ SlowBoot): the missed instant fires twice *)
(* if it does.                                                             *)
KeepsSchedule == Schedule!Spec
==============================================================================
