--------------------------- MODULE TaskWorkerProofs ---------------------------
(***************************************************************************)
(* Theorems of TaskWorker, for any number of clients and tasks, any caps   *)
(* and any length of run.                                                  *)
(*                                                                         *)
(* Every theorem follows the same line: what the task events do to a       *)
(* forest is stated once, in the lemmas of the first section; what each    *)
(* action does to the forest is one of these events; the invariant at hand *)
(* is then checked event by event.                                         *)
(***************************************************************************)
EXTENDS TaskWorker, TaskForestProofs, SequenceTheorems, FiniteSetTheorems, TLAPS

IsForest(f) == f \in [DOMAIN f -> TaskRecord(TaskId)]

-----------------------------------------------------------------------------
(* The task events *)

\* A new id is added as pending, the other nodes stay.
LEMMA CreatedFacts ==
    ASSUME NEW f, IsForest(f), NEW id \in TaskId, id \notin DOMAIN f,
           NEW parent \in TaskId \cup {NoTask}, NEW priority \in Int, NEW origin \in Origins
    PROVE  LET g == task_created(f, id, parent, priority, origin)
           IN  /\ IsForest(g)
               /\ DOMAIN g = DOMAIN f \cup {id}
               /\ g[id] = [parent |-> parent, status |-> "pending",
                           priority |-> priority, origin |-> origin]
               /\ \A n \in DOMAIN f : g[n] = f[n]
  BY DEF IsForest, task_created, TaskRecord, Statuses

\* A transition changes the status of one node only, to the state asked for;
\* a terminal node is left alone.
LEMMA TransitionedFacts ==
    ASSUME NEW f, IsForest(f), NEW id, NEW to \in Statuses
    PROVE  LET g == task_transitioned(f, id, to)
           IN  /\ IsForest(g)
               /\ DOMAIN g = DOMAIN f
               /\ \A n \in DOMAIN f :
                    /\ g[n].parent = f[n].parent
                    /\ g[n].priority = f[n].priority
                    /\ g[n].origin = f[n].origin
                    /\ g[n].status # f[n].status => n = id /\ g[n].status = to
                    /\ is_terminal(f[n].status) => g[n].status = f[n].status
               /\ id \in DOMAIN f /\ ~ is_terminal(f[id].status) => g[id].status = to
<1>1. CASE id \in DOMAIN f /\ can_transition(f[id].status, to)
  <2>1. task_transitioned(f, id, to) = [f EXCEPT ![id].status = to]
    BY <1>1 DEF task_transitioned
  <2>2. f[id] \in TaskRecord(TaskId)
    BY <1>1 DEF IsForest
  <2>3. is_terminal(f[id].status) => f[id].status = to
    BY <1>1, <2>2 DEF can_transition, Allowed, is_terminal, TaskRecord
  <2> QED
    BY <2>1, <2>2, <2>3, <1>1 DEF IsForest, TaskRecord
<1>2. CASE ~ (id \in DOMAIN f /\ can_transition(f[id].status, to))
  <2>1. task_transitioned(f, id, to) = f
    BY <1>2 DEF task_transitioned
  <2>2. ~ (id \in DOMAIN f /\ ~ is_terminal(f[id].status)) \/ f[id].status = to
    BY <1>2 DEF IsForest, TaskRecord, can_transition, Allowed, is_terminal
  <2> QED
    BY <2>1, <2>2
<1> QED
  BY <1>1, <1>2

\* An update changes the priority of one node only.
LEMMA UpdatedFacts ==
    ASSUME NEW f, IsForest(f), NEW id, NEW priority \in Int
    PROVE  LET g == task_updated(f, id, priority)
           IN  /\ IsForest(g)
               /\ DOMAIN g = DOMAIN f
               /\ \A n \in DOMAIN f :
                    /\ g[n].parent = f[n].parent
                    /\ g[n].status = f[n].status
                    /\ g[n].origin = f[n].origin
                    /\ n # id => g[n] = f[n]
  BY DEF IsForest, task_updated, TaskRecord

\* A deletion removes one node and leaves the others as they are.
LEMMA DeletedFacts ==
    ASSUME NEW f, IsForest(f), NEW id
    PROVE  LET g == task_deleted(f, id)
           IN  /\ IsForest(g)
               /\ DOMAIN g = DOMAIN f \ {id}
               /\ \A n \in DOMAIN g : g[n] = f[n]
  BY DEF IsForest, task_deleted

-----------------------------------------------------------------------------
(* What a step does to the forest *)

\* One of the task events, other than an activation; a task is created where the caps
\* have room for it.
Event ==
    \/ UNCHANGED forestVars
    \/ \E parent \in DOMAIN forest \cup {NoTask}, priority \in Int, origin \in Origins :
         /\ parent # NoTask => priority = 0 /\ origin = "agent"
         /\ ~ creation_guard_error(forest, parent, max_tree_depth, max_fanout)
         /\ Create(parent, priority, origin)
    \/ \E t : \E to \in Statuses \ {"active"} :
         forest' = task_transitioned(forest, t, to) /\ UNCHANGED created
    \/ \E t \in DOMAIN forest, priority \in Int :
         /\ forest[t].parent = NoTask
         /\ forest' = task_updated(forest, t, priority) /\ UNCHANGED created
    \/ \E t : forest' = task_deleted(forest, t) /\ UNCHANGED created

ForestTypeOK ==
    /\ created \in 0..MaxTasks
    /\ DOMAIN forest \subseteq 1..created
    /\ IsForest(forest)

\* What an event may do to a node: delete it, weigh it if it has no parent,
\* move it to a state other than active; a terminal status stays; the only
\* new id is the next one, as pending.
Effect ==
    /\ ForestTypeOK'
    /\ created' \in {created, created + 1}
    /\ \A n \in DOMAIN forest' \ DOMAIN forest :
         /\ n = created + 1 /\ created' = n
         /\ forest'[n].status = "pending"
         /\ forest'[n].parent # NoTask =>
              forest'[n].priority = 0 /\ forest'[n].origin = "agent"
    /\ \A n \in DOMAIN forest' \cap DOMAIN forest :
         /\ forest'[n].parent = forest[n].parent
         /\ forest'[n].origin = forest[n].origin
         /\ forest[n].parent # NoTask => forest'[n].priority = forest[n].priority
         /\ forest'[n].status = "active" => forest[n].status = "active"
         /\ is_terminal(forest[n].status) => forest'[n].status = forest[n].status

LEMMA EventEffect ==
    ASSUME ForestTypeOK, Event
    PROVE  Effect
<1> USE DEF ForestTypeOK
<1>0. TaskId = 1..MaxTasks /\ MaxTasks \in Nat /\ NoTask = 0
  BY WorkerConstants DEF TaskId, NoTask
<1>1. CASE UNCHANGED forestVars
  BY <1>1 DEF forestVars, Effect, IsForest
<1>2. ASSUME NEW parent \in DOMAIN forest \cup {NoTask}, NEW priority \in Int,
             NEW origin \in Origins,
             parent # NoTask => priority = 0 /\ origin = "agent",
             ~ creation_guard_error(forest, parent, max_tree_depth, max_fanout),
             Create(parent, priority, origin)
      PROVE  Effect
  <2>1. created + 1 \in TaskId /\ created + 1 \notin DOMAIN forest
    BY <1>0, <1>2 DEF Create
  <2>2. parent \in TaskId \cup {NoTask}
    BY <1>0
  <2>3. /\ IsForest(forest') /\ DOMAIN forest' = DOMAIN forest \cup {created + 1}
        /\ forest'[created + 1] = [parent |-> parent, status |-> "pending",
                                   priority |-> priority, origin |-> origin]
        /\ \A n \in DOMAIN forest : forest'[n] = forest[n]
    <3>1. forest' = task_created(forest, created + 1, parent, priority, origin)
      BY <1>2 DEF Create
    <3>2. IsForest(forest)
      OBVIOUS
    <3> QED
      BY <2>1, <2>2, <3>1, <3>2, CreatedFacts
  <2>4. created' = created + 1 /\ created < MaxTasks
    BY <1>2 DEF Create
  <2>5. ForestTypeOK'
    BY <1>0, <2>1, <2>3, <2>4
  <2>6. \A n \in DOMAIN forest' \ DOMAIN forest :
          /\ n = created + 1 /\ created' = n
          /\ forest'[n].status = "pending" /\ forest'[n].parent = parent
          /\ forest'[n].priority = priority /\ forest'[n].origin = origin
    BY <2>3, <2>4
  <2>7. \A n \in DOMAIN forest' \cap DOMAIN forest : forest'[n] = forest[n]
    BY <2>3
  <2> QED
    BY <1>2, <2>4, <2>5, <2>6, <2>7 DEF Effect
<1>3. ASSUME NEW t, NEW to \in Statuses \ {"active"},
             forest' = task_transitioned(forest, t, to), UNCHANGED created
      PROVE  Effect
  BY <1>3, TransitionedFacts DEF Effect
<1>4. ASSUME NEW t \in DOMAIN forest, NEW priority \in Int, forest[t].parent = NoTask,
             forest' = task_updated(forest, t, priority), UNCHANGED created
      PROVE  Effect
  BY <1>4, UpdatedFacts DEF Effect
<1>5. ASSUME NEW t, forest' = task_deleted(forest, t), UNCHANGED created
      PROVE  Effect
  <2>1. /\ IsForest(forest') /\ DOMAIN forest' = DOMAIN forest \ {t}
        /\ \A n \in DOMAIN forest' : forest'[n] = forest[n]
    BY <1>5, DeletedFacts
  <2> QED
    BY <1>5, <2>1 DEF Effect
<1> QED
  BY <1>1, <1>2, <1>3, <1>4, <1>5 DEF Event

LEMMA CreateEvent ==
    ASSUME NEW parent \in DOMAIN forest \cup {NoTask}, NEW priority \in Priorities,
           NEW origin \in Origins, AddTask(parent, priority, origin)
    PROVE  Event
<1>1. priority \in Int /\ 0 \in Int /\ "agent" \in Origins
  BY WorkerConstants DEF Origins
<1>2. CASE parent = NoTask
  BY <1>1, <1>2 DEF AddTask, Event
<1>3. CASE parent # NoTask
  BY <1>1, <1>3 DEF AddTask, Event
<1> QED
  BY <1>2, <1>3

LEMMA HandleEvent ==
    ASSUME TypeOK, NEW kind, Handle(kind)
    PROVE  Event
<1>1. ASSUME NEW p \in Priorities, Create(NoTask, p, "trigger")
      PROVE  Event
  <2>1. ~ creation_guard_error(forest, NoTask, max_tree_depth, max_fanout)
    BY DEF TypeOK, NoTask, creation_guard_error
  <2> QED
    BY <1>1, <2>1, WorkerConstants DEF Event, Origins
<1> QED
  BY <1>1 DEF Handle, Event

LEMMA OutcomeEvent ==
    ASSUME Outcome, UNCHANGED created
    PROVE  Event
<1>1. forest' \in {forest, task_transitioned(forest, task, "blocked"),
                  task_transitioned(forest, task, "cancelled")}
  BY DEF Outcome
<1>2. {"blocked", "cancelled"} \subseteq Statuses \ {"active"}
  BY DEF Statuses
<1> QED
  BY <1>1, <1>2 DEF Event, forestVars

LEMMA EndRunEvent ==
    ASSUME EndRun
    PROVE  Event
<1>1. CASE task = NoTask
  BY <1>1 DEF EndRun, Event, forestVars
<1>2. CASE task # NoTask
  BY <1>2, OutcomeEvent DEF EndRun
<1> QED
  BY <1>1, <1>2

\* Every step records one event at most, but for the activation of the task
\* the scheduler picked and the recovery at startup.
LEMMA StepEvent ==
    ASSUME TypeOK, Next
    PROVE  Event \/ PickTask \/ Restart
<1>a. \A t : \A to \in Statuses \ {"active"} :
        forest' = task_transitioned(forest, t, to) /\ UNCHANGED created => Event
  BY DEF Event
<1>b. \A t \in DOMAIN forest, p \in Priorities :
        forest[t].parent = NoTask /\ forest' = task_updated(forest, t, p) /\ UNCHANGED created => Event
  BY WorkerConstants DEF Event
<1>c. \A t : forest' = task_deleted(forest, t) /\ UNCHANGED created => Event
  BY DEF Event
<1>d. UNCHANGED forestVars => Event
  BY DEF Event
<1>e. {"pending", "suspended", "blocked", "done", "cancelled"} \subseteq Statuses \ {"active"}
  BY DEF Statuses
<1>f. ASSUME NEW parent \in DOMAIN forest \cup {NoTask}, NEW p \in Priorities,
             NEW o \in {"user", turn_origin}, AddTask(parent, p, o)
      PROVE  Event
  BY <1>f, CreateEvent DEF TypeOK, Origins
<1>1. CASE MainLoop
  BY <1>1, <1>d, HandleEvent DEF MainLoop, TakeTrigger, Receive, BlockOnQueue, PollTimeout
<1>2. CASE Run
  <2>1. CASE Framed
    BY <2>1, <1>d DEF Framed
  <2>2. CASE PauseCheck
    BY <2>2, <1>d, EndRunEvent
       DEF PauseCheck, PauseGone, PauseForUser, Pause, BudgetSpent, PreemptForTree,
           AskConsent, Proceed, BeginTurn
  <2>3. CASE Respond \/ TurnEndsRun
    BY <2>3, <1>d, EndRunEvent DEF Respond, TurnEndsRun
  <2>4. CASE ToolsDone
    BY <2>4, <1>d, EndRunEvent DEF ToolsDone, BeginTurn
  <2>5. CASE FinishPause
    BY <2>5, <1>a, <1>e DEF FinishPause
  <2>6. CASE FinishYield
    BY <2>6, <1>a, <1>e DEF FinishYield
  <2>7. CASE FinishSurface
    BY <2>7, <1>d DEF FinishSurface
  <2> QED
    BY <1>2, <2>1, <2>2, <2>3, <2>4, <2>5, <2>6, <2>7 DEF Run
<1>3. CASE Consent \/ RunFails
  BY <1>3, <1>d DEF Consent, Answered, ToolAsks, ToolAnswered, Pause, BeginTurn, RunFails
<1>4. CASE TaskTool
  <2>1. CASE ToolAdd
    BY <2>1, <1>f DEF ToolAdd
  <2>2. CASE ToolDone
    BY <2>2, <1>a, <1>e DEF ToolDone
  <2>3. CASE ToolCancel
    BY <2>3, <1>a, <1>e DEF ToolCancel, StartCascade
  <2>4. CASE ToolResume
    BY <2>4, <1>a, <1>e DEF ToolResume
  <2>5. CASE ToolUpdate
    BY <2>5, <1>b DEF ToolUpdate
  <2>6. CASE ToolDelete
    BY <2>6, <1>c DEF ToolDelete
  <2> QED
    BY <1>4, <2>1, <2>2, <2>3, <2>4, <2>5, <2>6 DEF TaskTool
<1>5. ASSUME NEW c \in Clients, Control(c)
      PROVE  Event
  <2>1. CASE CtlAdd(c)
    BY <2>1, <1>f DEF CtlAdd
  <2>2. CASE CtlDone(c)
    BY <2>2, <1>a, <1>e DEF CtlDone
  <2>3. CASE CtlCancel(c)
    BY <2>3, <1>a, <1>e DEF CtlCancel, StartCascade
  <2>4. CASE CtlSuspend(c) \/ CtlResume(c)
    BY <2>4, <1>a, <1>e DEF CtlSuspend, CtlResume, CtlMove
  <2>5. CASE CtlUpdate(c)
    BY <2>5, <1>b DEF CtlUpdate
  <2>6. CASE CtlDelete(c)
    BY <2>6, <1>c DEF CtlDelete
  <2>7. CASE CtlQuery(c) \/ CtlReply(c) \/ SendMessage(c)
    BY <2>7, <1>d DEF CtlQuery, CtlReply, SendMessage
  <2> QED
    BY <1>5, <2>1, <2>2, <2>3, <2>4, <2>5, <2>6, <2>7 DEF Control
<1>6. ASSUME NEW a \in Actors, CascadeStep(a)
      PROVE  Event
  BY <1>6, <1>a, <1>e DEF CascadeStep
<1>7. ASSUME NEW kind, FireTrigger(kind)
      PROVE  Event
  BY <1>7, <1>d DEF FireTrigger
<1>8. CASE Crash
  BY <1>8, <1>d DEF Crash
<1> QED
  BY <1>1, <1>2, <1>3, <1>4, <1>5, <1>6, <1>7, <1>8 DEF Next

\* Activation: the picked task waited for the scheduler, and is the only one
\* whose status changes.
LEMMA PickTaskEffect ==
    ASSUME TypeOK, PickTask
    PROVE  /\ ForestTypeOK' /\ created' = created
           /\ DOMAIN forest' = DOMAIN forest
           /\ task' \in DOMAIN forest
           /\ forest[task'].status \in {"pending", "blocked"}
           /\ forest'[task'].status = "active"
           /\ \A n \in DOMAIN forest :
                /\ forest'[n].parent = forest[n].parent
                /\ forest'[n].priority = forest[n].priority
                /\ forest'[n].origin = forest[n].origin
                /\ n # task' => forest'[n].status = forest[n].status
<1>1. IsForest(forest)
  BY DEF TypeOK, IsForest
<1>2. PICK t \in DOMAIN forest :
        workable(forest, t) /\ forest' = task_transitioned(forest, t, "active") /\ task' = t
  BY DEF PickTask
<1>3. forest[t].status \in {"pending", "blocked"}
  BY <1>2 DEF workable, leaf_runnable
<1>4. ~ is_terminal(forest[t].status)
  BY <1>3 DEF is_terminal, Terminal
<1>5. "active" \in Statuses
  BY DEF Statuses
<1>6. created' = created
  BY DEF PickTask
<1> QED
  BY <1>1, <1>2, <1>3, <1>4, <1>5, <1>6, TransitionedFacts DEF TypeOK, ForestTypeOK

\* Recovery: what was active waits again, nothing else changes.
LEMMA RestartEffect ==
    ASSUME TypeOK, Restart
    PROVE  /\ ForestTypeOK' /\ created' = created
           /\ DOMAIN forest' = DOMAIN forest
           /\ \A n \in DOMAIN forest :
                /\ forest'[n].parent = forest[n].parent
                /\ forest'[n].priority = forest[n].priority
                /\ forest'[n].origin = forest[n].origin
                /\ forest'[n].status = IF forest[n].status = "active" THEN "pending"
                                       ELSE forest[n].status
  BY DEF Restart, TypeOK, ForestTypeOK, IsForest, TaskRecord, Statuses

-----------------------------------------------------------------------------
(* Type correctness *)

LEMMA ForestTyped ==
    ASSUME TypeOK, [Next]_vars
    PROVE  ForestTypeOK'
<1>1. ForestTypeOK
  BY DEF TypeOK, ForestTypeOK, IsForest
<1>2. CASE Next
  BY <1>1, <1>2, StepEvent, EventEffect, PickTaskEffect, RestartEffect DEF Effect
<1>3. CASE UNCHANGED vars
  BY <1>1, <1>3 DEF vars, ForestTypeOK, IsForest
<1> QED
  BY <1>2, <1>3

\* The types of all variables but the forest.
RunTypeOK ==
    /\ results \in [TaskId -> Nat]
    /\ pc \in PC
    /\ task \in TaskId \cup {NoTask}
    /\ steps \in 0..max_steps_per_run
    /\ turn_origin \in Origins
QueueTypeOK ==
    /\ queue \in Seq(Kinds) /\ Len(queue) <= QUEUE_CAPACITY
    /\ pending_interactive \in Nat
ControlTypeOK ==
    /\ cascade \in [Actors -> Seq(TaskId)]
    /\ busy \subseteq Clients

LEMMA RunTypeUnchanged ==
    ASSUME TypeOK, UNCHANGED <<results, runVars>>
    PROVE  RunTypeOK'
  BY DEF TypeOK, RunTypeOK, runVars

LEMMA QueueTypeUnchanged ==
    ASSUME TypeOK, UNCHANGED queueVars
    PROVE  QueueTypeOK'
  BY DEF TypeOK, QueueTypeOK, queueVars

LEMMA ControlTypeUnchanged ==
    ASSUME TypeOK, UNCHANGED ctlVars
    PROVE  ControlTypeOK'
  BY DEF TypeOK, ControlTypeOK, ctlVars

LEMMA SurfaceTyped ==
    ASSUME TypeOK, Surface
    PROVE  results' \in [TaskId -> Nat]
<1>1. task \in DOMAIN forest => task \in TaskId
  BY DEF TypeOK, NoTask
<1> QED
  BY <1>1 DEF TypeOK, Surface

LEMMA IdleTyped ==
    ASSUME TypeOK, BackToIdle, results' \in [TaskId -> Nat]
    PROVE  RunTypeOK'
  BY WorkerConstants DEF TypeOK, BackToIdle, RunTypeOK, PC, Origins

LEMMA EndRunTyped ==
    ASSUME TypeOK, EndRun
    PROVE  RunTypeOK'
<1>1. CASE task = NoTask
  BY <1>1, IdleTyped DEF EndRun, TypeOK
<1>2. CASE task # NoTask
  <2>1. CASE BackToIdle
    BY <1>2, <2>1, IdleTyped, SurfaceTyped DEF EndRun, Outcome, TypeOK
  <2>2. CASE pc' \in {"surface", "yield"} /\ UNCHANGED <<task, steps, turn_origin, results>>
    BY <2>2 DEF TypeOK, RunTypeOK, PC
  <2> QED
    BY <1>2, <2>1, <2>2 DEF EndRun, Outcome
<1> QED
  BY <1>1, <1>2

LEMMA HandleTyped ==
    ASSUME TypeOK, NEW kind, Handle(kind), UNCHANGED results
    PROVE  RunTypeOK' /\ pending_interactive' \in Nat
<1>1. 1 \in 0..max_steps_per_run
  BY WorkerConstants
<1>2. pc' \in {"idle", "turn"} /\ task' = task
  BY DEF Handle
<1>3. steps' \in {steps, 1} /\ turn_origin' \in {turn_origin, "user", "trigger"}
  BY DEF Handle
<1>4. pending_interactive' \in Nat
  BY DEF Handle, ClearMark, TypeOK
<1> QED
  BY <1>1, <1>2, <1>3, <1>4 DEF TypeOK, RunTypeOK, PC, Origins

\* A turn is begun only below the step limit: steps is reset when a run ends,
\* and pause_check is reached from the activation, or after a turn that was
\* not the last.
StepsInv ==
    /\ pc \in {"idle", "blocked", "framing", "down"} => steps = 0
    /\ pc \in {"check", "asking"} => steps < max_steps_per_run

LEMMA BeginTurnTyped ==
    ASSUME TypeOK, BeginTurn, steps < max_steps_per_run
    PROVE  RunTypeOK'
  BY WorkerConstants DEF TypeOK, BeginTurn, RunTypeOK, PC

\* Children are younger than their parents; nobody has a child before it is minted.
OlderInv == \A n \in DOMAIN forest : forest[n].parent < n

LEMMA ForestWellFormed ==
    ASSUME TypeOK, OlderInv
    PROVE  WellFormed(forest)
<1>1. created \in Nat /\ DOMAIN forest \subseteq 1..created
  BY WorkerConstants DEF TypeOK
<1> QED
  BY <1>1, WorkerConstants DEF TypeOK, OlderInv, WellFormed, TaskRecord, TaskId, NoTask

\* No node is new, and every node left keeps its parent.
Thins ==
    /\ DOMAIN forest' \subseteq DOMAIN forest
    /\ \A n \in DOMAIN forest' : forest'[n].parent = forest[n].parent

\* Task p gets one new child, or the forest a new root, where the caps have room for it.
Grows(p) ==
    /\ ~ creation_guard_error(forest, p, max_tree_depth, max_fanout)
    /\ DOMAIN forest' = DOMAIN forest \cup {created + 1}
    /\ forest'[created + 1].parent = p
    /\ \A n \in DOMAIN forest : forest'[n].parent = forest[n].parent

LEMMA ThinsOrGrows ==
    ASSUME TypeOK, [Next]_vars
    PROVE  Thins \/ \E p \in DOMAIN forest \cup {NoTask} : Grows(p)
<1>0. IsForest(forest) /\ created \in Nat /\ DOMAIN forest \subseteq 1..created
  BY DEF TypeOK, IsForest
<1>1. CASE UNCHANGED vars
  BY <1>1 DEF vars, Thins
<1>2. CASE Next
  <2>1. CASE Event
    <3>1. ASSUME NEW p \in DOMAIN forest \cup {NoTask}, NEW priority \in Int, NEW origin \in Origins,
                 ~ creation_guard_error(forest, p, max_tree_depth, max_fanout),
                 Create(p, priority, origin)
          PROVE  Grows(p)
      <4>1. forest' = task_created(forest, created + 1, p, priority, origin) /\ created < MaxTasks
        BY <3>1 DEF Create
      <4>2. created + 1 \in TaskId /\ created + 1 \notin DOMAIN forest
        BY <1>0, <4>1, WorkerConstants DEF TaskId
      <4>3. forest' = [n \in DOMAIN forest \cup {created + 1} |->
                         IF n = created + 1
                         THEN [parent |-> p, status |-> "pending",
                               priority |-> priority, origin |-> origin]
                         ELSE forest[n]]
        BY <4>1, <4>2 DEF task_created
      <4>4. /\ DOMAIN forest' = DOMAIN forest \cup {created + 1}
            /\ forest'[created + 1].parent = p
            /\ \A n \in DOMAIN forest : forest'[n].parent = forest[n].parent
        BY <4>2, <4>3
      <4> QED
        BY <3>1, <4>4 DEF Grows
    <3>2. ASSUME NEW t, NEW to \in Statuses \ {"active"}, forest' = task_transitioned(forest, t, to)
          PROVE  Thins
      BY <1>0, <3>2, TransitionedFacts DEF Thins
    <3>3. ASSUME NEW t, NEW priority \in Int, forest' = task_updated(forest, t, priority)
          PROVE  Thins
      BY <1>0, <3>3, UpdatedFacts DEF Thins
    <3>4. ASSUME NEW t, forest' = task_deleted(forest, t)
          PROVE  Thins
      <4>1. DOMAIN forest' = DOMAIN forest \ {t} /\ \A n \in DOMAIN forest' : forest'[n] = forest[n]
        BY <1>0, <3>4, DeletedFacts
      <4> QED
        BY <4>1 DEF Thins
    <3>5. CASE UNCHANGED forestVars
      BY <3>5 DEF forestVars, Thins
    <3> QED
      BY <2>1, <3>1, <3>2, <3>3, <3>4, <3>5 DEF Event
  <2>2. CASE PickTask
    BY <2>2, PickTaskEffect DEF Thins
  <2>3. CASE Restart
    BY <2>3, RestartEffect DEF Thins
  <2> QED
    BY <1>2, <2>1, <2>2, <2>3, StepEvent
<1> QED
  BY <1>1, <1>2

\* New nodes are younger than all others, so a step never puts a child under a younger one.
LEMMA OlderStep ==
    ASSUME TypeOK, OlderInv, [Next]_vars
    PROVE  OlderInv'
<1>1. created \in Nat /\ DOMAIN forest \subseteq 1..created
  BY WorkerConstants DEF TypeOK
<1>2. CASE Thins
  BY <1>2 DEF Thins, OlderInv
<1>3. ASSUME NEW p \in DOMAIN forest \cup {NoTask}, Grows(p) PROVE OlderInv'
  <2>1. p < created + 1
    BY <1>1 DEF NoTask
  <2> QED
    BY <1>1, <1>3, <2>1 DEF Grows, OlderInv
<1> QED
  BY <1>2, <1>3, ThinsOrGrows

\* TypeOK alone is not inductive: pause_check would count past the limit, and the walk of
\* a cascade might not end in a forest where a node is below itself.
TypeInv == TypeOK /\ StepsInv /\ OlderInv

LEMMA StepsStep ==
    ASSUME TypeInv, [Next]_vars
    PROVE  StepsInv'
<1> USE WorkerConstants DEF TypeInv, StepsInv
<1>1. BackToIdle => StepsInv'
  BY DEF BackToIdle
<1>2. UNCHANGED runVars => StepsInv'
  BY DEF runVars
<1>3. BeginTurn => StepsInv'
  BY DEF BeginTurn
<1>4. EndRun => StepsInv'
  BY <1>1 DEF EndRun, Outcome
<1>5. Pause => StepsInv'
  BY DEF Pause
<1>6. CASE MainLoop
  <2>1. ASSUME NEW kind, Handle(kind), pc \in {"idle", "blocked"}
        PROVE  StepsInv'
    BY <2>1 DEF Handle
  <2> QED
    BY <1>6, <2>1 DEF MainLoop, TakeTrigger, PickTask, BlockOnQueue, Receive, PollTimeout
<1>7. CASE Run
  <2>1. CASE Framed
    BY <2>1, <1>7 DEF Framed
  <2>2. CASE PauseCheck
    BY <2>2, <1>1, <1>3, <1>4, <1>5
       DEF PauseCheck, PauseGone, PauseForUser, BudgetSpent, PreemptForTree, AskConsent,
           Undisturbed, Proceed
  <2>3. CASE Respond \/ TurnEndsRun
    BY <2>3, <1>4 DEF Respond, TurnEndsRun
  <2>4. CASE ToolsDone
    BY <2>4, <1>3, <1>4 DEF ToolsDone
  <2>5. CASE FinishPause \/ FinishYield \/ FinishSurface
    BY <2>5, <1>1 DEF FinishPause, FinishYield, FinishSurface
  <2> QED
    BY <1>7, <2>1, <2>2, <2>3, <2>4, <2>5 DEF Run
<1>8. CASE Consent \/ RunFails
  BY <1>8, <1>1, <1>3, <1>5 DEF Consent, Answered, ToolAsks, ToolAnswered, RunFails
<1>9. CASE TaskTool \/ \E c \in Clients : Control(c)
  BY <1>9, <1>2
     DEF TaskTool, ToolAdd, ToolDone, ToolCancel, ToolResume, ToolUpdate, ToolDelete,
         ToolUnchanged, Control, CtlAdd, CtlDone, CtlCancel, CtlMove, CtlSuspend, CtlResume,
         CtlUpdate, CtlDelete, CtlQuery, CtlUnchanged, CtlReply, SendMessage
<1>10. CASE (\E a \in Actors : CascadeStep(a)) \/ (\E kind \in {"cron", "task_hatch"} : FireTrigger(kind))
  BY <1>10, <1>2 DEF CascadeStep, FireTrigger
<1>11. CASE Crash \/ Restart
  BY <1>11 DEF Crash, Restart
<1>12. CASE UNCHANGED vars
  BY <1>12, <1>2 DEF vars, runVars
<1> QED
  BY <1>6, <1>7, <1>8, <1>9, <1>10, <1>11, <1>12 DEF Next

LEMMA RunTyped ==
    ASSUME TypeInv, [Next]_vars
    PROVE  RunTypeOK'
<1> USE DEF TypeInv
<1>1. results \in [TaskId -> Nat]
  BY DEF TypeOK
<1>2. UNCHANGED <<results, runVars>> => RunTypeOK'
  BY RunTypeUnchanged
<1>3. BackToIdle /\ UNCHANGED results => RunTypeOK'
  BY <1>1, IdleTyped
<1>4. EndRun => RunTypeOK'
  BY EndRunTyped
<1>5. ASSUME NEW p \in PC, pc' = p, UNCHANGED <<results, task, steps>>,
             turn_origin' \in {turn_origin, "agent"}
      PROVE  RunTypeOK'
  BY <1>5 DEF TypeOK, RunTypeOK, Origins
<1>6. Pause => RunTypeOK'
  BY <1>5 DEF Pause, PC
<1>7. CASE MainLoop
  <2>1. CASE TakeTrigger \/ Receive
    BY <2>1, HandleTyped DEF TakeTrigger, Receive
  <2>2. CASE PickTask
    <3>1. task' \in TaskId
      BY <2>2, PickTaskEffect, WorkerConstants DEF TypeOK, TaskId
    <3> QED
      BY <1>1, <2>2, <3>1 DEF PickTask, TypeOK, RunTypeOK, PC
  <2>3. CASE BlockOnQueue \/ PollTimeout
    BY <2>3, <1>5 DEF BlockOnQueue, PollTimeout, PC
  <2> QED
    BY <1>7, <2>1, <2>2, <2>3 DEF MainLoop
<1>8. CASE Run
  <2>1. CASE Framed
    BY <2>1, <1>5 DEF Framed, PC
  <2>2. CASE PauseCheck
    <3>1. BeginTurn /\ pc = "check" => RunTypeOK'
      BY BeginTurnTyped DEF StepsInv
    <3>2. CASE AskConsent
      BY <3>2, <1>5 DEF AskConsent, PC
    <3> QED
      BY <2>2, <3>1, <3>2, <1>3, <1>4, <1>6
         DEF PauseCheck, PauseGone, PauseForUser, BudgetSpent, PreemptForTree,
             Undisturbed, Proceed
  <2>3. CASE Respond \/ TurnEndsRun
    BY <2>3, <1>4, <1>5 DEF Respond, TurnEndsRun, PC
  <2>4. CASE ToolsDone
    BY <2>4, <1>4, <1>5, BeginTurnTyped DEF ToolsDone, PC
  <2>5. CASE FinishPause \/ FinishYield
    BY <2>5, <1>3 DEF FinishPause, FinishYield
  <2>6. CASE FinishSurface
    BY <2>6, SurfaceTyped, IdleTyped DEF FinishSurface
  <2> QED
    BY <1>8, <2>1, <2>2, <2>3, <2>4, <2>5, <2>6 DEF Run
<1>9. CASE Consent \/ RunFails
  <2>1. CASE Answered \/ RunFails
    BY <2>1, <1>3, <1>6, BeginTurnTyped DEF Answered, RunFails, StepsInv
  <2>2. CASE ToolAsks \/ ToolAnswered
    BY <2>2, <1>5 DEF ToolAsks, ToolAnswered, PC
  <2> QED
    BY <1>9, <2>1, <2>2 DEF Consent
<1>10. CASE TaskTool \/ \E c \in Clients : Control(c)
  BY <1>10, <1>2
     DEF TaskTool, ToolAdd, ToolDone, ToolCancel, ToolResume, ToolUpdate, ToolDelete,
         ToolUnchanged, Control, CtlAdd, CtlDone, CtlCancel, CtlMove, CtlSuspend, CtlResume,
         CtlUpdate, CtlDelete, CtlQuery, CtlUnchanged, CtlReply, SendMessage
<1>11. CASE (\E a \in Actors : CascadeStep(a)) \/ (\E kind \in {"cron", "task_hatch"} : FireTrigger(kind))
  BY <1>11, <1>2 DEF CascadeStep, FireTrigger
<1>12. CASE Crash \/ Restart
  BY <1>12, WorkerConstants DEF Crash, Restart, TypeOK, RunTypeOK, PC, Origins
<1>13. CASE UNCHANGED vars
  BY <1>13, <1>2 DEF vars, runVars
<1> QED
  BY <1>7, <1>8, <1>9, <1>10, <1>11, <1>12, <1>13 DEF Next

LEMMA EnqueueTyped ==
    ASSUME TypeOK, NEW kind \in Kinds, Len(queue) < QUEUE_CAPACITY,
           queue' = Append(queue, kind), pending_interactive' \in Nat
    PROVE  QueueTypeOK'
<1>1. queue \in Seq(Kinds) /\ QUEUE_CAPACITY \in Nat
  BY WorkerConstants DEF TypeOK
<1>2. Append(queue, kind) \in Seq(Kinds) /\ Len(Append(queue, kind)) = Len(queue) + 1
  BY <1>1, AppendProperties
<1>3. Len(queue) + 1 <= QUEUE_CAPACITY
  BY <1>1
<1> QED
  BY <1>2, <1>3 DEF QueueTypeOK

LEMMA QueueTyped ==
    ASSUME TypeInv, [Next]_vars
    PROVE  QueueTypeOK'
<1> USE DEF TypeInv
<1>1. queue \in Seq(Kinds) /\ Len(queue) <= QUEUE_CAPACITY /\ pending_interactive \in Nat
  BY DEF TypeOK
<1>2. UNCHANGED queueVars => QueueTypeOK'
  BY QueueTypeUnchanged
<1>3. QUEUE_CAPACITY \in Nat
  BY WorkerConstants
<1>4. queue' = <<>> /\ pending_interactive' \in Nat => QueueTypeOK'
  BY <1>3, EmptySeq DEF QueueTypeOK
<1>5. CASE TakeTrigger
  <2>1. PICK i \in DOMAIN queue :
          queue' = SubSeq(queue, i + 1, Len(queue)) /\ Handle(queue[i])
    BY <1>5 DEF TakeTrigger
  <2>2. pending_interactive' \in Nat
    BY <1>5, <2>1, HandleTyped DEF TakeTrigger
  <2>3. i \in 1..Len(queue) /\ Len(queue) \in Nat
    BY <1>1, <2>1, LenProperties
  <2>4. \A j \in (i + 1)..Len(queue) : queue[j] \in Kinds
    BY <1>1, <2>3, ElementOfSeq
  <2>5. /\ SubSeq(queue, i + 1, Len(queue)) \in Seq(Kinds)
        /\ Len(SubSeq(queue, i + 1, Len(queue))) = IF i + 1 <= Len(queue) THEN Len(queue) - i ELSE 0
    BY <1>1, <2>3, <2>4, SubSeqProperties
  <2>6. Len(SubSeq(queue, i + 1, Len(queue))) <= QUEUE_CAPACITY
    BY <1>1, <1>3, <2>3, <2>5
  <2> QED
    BY <2>1, <2>2, <2>5, <2>6 DEF QueueTypeOK
<1>6. CASE Receive
  <2>1. queue # <<>> /\ queue' = Tail(queue) /\ Handle(Head(queue)) /\ UNCHANGED results
    BY <1>6 DEF Receive
  <2>2. Tail(queue) \in Seq(Kinds) /\ Len(Tail(queue)) = Len(queue) - 1 /\ Len(queue) \in Nat
    BY <1>1, <2>1, HeadTailProperties, LenProperties
  <2>3. Len(Tail(queue)) <= QUEUE_CAPACITY
    BY <1>1, <1>3, <2>2
  <2> QED
    BY <2>1, <2>2, <2>3, HandleTyped DEF QueueTypeOK
<1>7. CASE PickTask \/ BlockOnQueue \/ PollTimeout
  BY <1>1, <1>2, <1>4, <1>7 DEF PickTask, BlockOnQueue, PollTimeout
<1>8. CASE Run \/ Consent \/ RunFails
  BY <1>2, <1>8
     DEF Run, Framed, PauseCheck, PauseGone, PauseForUser, Pause, BudgetSpent, PreemptForTree,
         AskConsent, Proceed, BeginTurn, EndRun, Respond, TurnEndsRun, ToolsDone, FinishPause,
         FinishYield, FinishSurface, Consent, Answered, ToolAsks, ToolAnswered, RunFails
<1>9. CASE TaskTool
  BY <1>2, <1>9
     DEF TaskTool, ToolAdd, ToolDone, ToolCancel, ToolResume, ToolUpdate, ToolDelete,
         ToolUnchanged
<1>10. ASSUME NEW c \in Clients, Control(c)
       PROVE  QueueTypeOK'
  <2>1. {"task_wake", "interactive"} \subseteq Kinds /\ pending_interactive + 1 \in Nat
    BY <1>1 DEF Kinds
  <2>2. CASE CtlReply(c)
    BY <2>1, <2>2, <1>1, <1>2, EnqueueTyped DEF CtlReply, queueVars
  <2>3. CASE SendMessage(c)
    BY <2>1, <2>3, EnqueueTyped DEF SendMessage
  <2>4. CASE ~ (CtlReply(c) \/ SendMessage(c))
    BY <1>10, <2>4, <1>2
       DEF Control, CtlAdd, CtlDone, CtlCancel, CtlMove, CtlSuspend, CtlResume,
           CtlUpdate, CtlDelete, CtlQuery, CtlUnchanged
  <2> QED
    BY <2>2, <2>3, <2>4
<1>11. ASSUME NEW kind \in {"cron", "task_hatch"}, FireTrigger(kind)
       PROVE  QueueTypeOK'
  BY <1>11, <1>1, EnqueueTyped DEF FireTrigger, Kinds
<1>12. CASE (\E a \in Actors : CascadeStep(a)) \/ Restart \/ UNCHANGED vars
  BY <1>12, <1>2 DEF CascadeStep, Restart, vars, queueVars
<1>13. CASE Crash
  BY <1>13, <1>4 DEF Crash
<1> QED
  BY <1>5, <1>6, <1>7, <1>8, <1>9, <1>10, <1>11, <1>12, <1>13 DEF Next, MainLoop

LEMMA StartCascadeTyped ==
    ASSUME TypeInv, NEW a \in Actors, NEW t \in DOMAIN forest, StartCascade(a, t)
    PROVE  cascade' \in [Actors -> Seq(TaskId)]
<1> DEFINE below == live_descendants(forest, t)
<1> USE DEF TypeInv
<1>1. DOMAIN forest \subseteq TaskId
  BY WorkerConstants DEF TypeOK, TaskId
<1>2. below \in Seq(TaskId)
  <2>1. below \in Seq(DOMAIN forest)
    BY ForestWellFormed, LiveDescendantsAre
  <2> HIDE DEF below
  <2> QED
    BY <1>1, <2>1
<1>3. <<t>> \in Seq(TaskId) /\ Len(<<t>>) = 1
  BY <1>1
<1>4. /\ below \o <<t>> \in Seq(TaskId)
      /\ Len(below \o <<t>>) = Len(below) + 1
      /\ Len(below) \in Nat
  BY <1>2, <1>3, ConcatProperties, LenProperties
<1>5. below \o <<t>> # <<>>
  BY <1>4, EmptySeq
<1>6. Tail(below \o <<t>>) \in Seq(TaskId)
  BY <1>4, <1>5, HeadTailProperties
<1>7. cascade' = [cascade EXCEPT ![a] = Tail(below \o <<t>>)]
  BY DEF StartCascade
<1> QED
  BY <1>6, <1>7 DEF TypeOK

LEMMA ControlTyped ==
    ASSUME TypeInv, [Next]_vars
    PROVE  ControlTypeOK'
<1> USE DEF TypeInv
<1>1. cascade \in [Actors -> Seq(TaskId)] /\ busy \subseteq Clients
  BY DEF TypeOK
<1>2. UNCHANGED ctlVars => ControlTypeOK'
  BY ControlTypeUnchanged
<1>3. cascade' \in [Actors -> Seq(TaskId)] /\ busy' \subseteq Clients => ControlTypeOK'
  BY DEF ControlTypeOK
<1>4. <<>> \in Seq(TaskId)
  BY EmptySeq
<1>5. Agent \in Actors /\ Clients \subseteq Actors
  BY DEF Actors
<1>6. CASE MainLoop \/ Run \/ Consent
  BY <1>2, <1>6
     DEF MainLoop, TakeTrigger, PickTask, BlockOnQueue, Receive, PollTimeout,
         Run, Framed, PauseCheck, PauseGone, PauseForUser, Pause, BudgetSpent, PreemptForTree,
         AskConsent, Proceed, BeginTurn, EndRun, Respond, TurnEndsRun, ToolsDone, FinishPause,
         FinishYield, FinishSurface, Consent, Answered, ToolAsks, ToolAnswered
<1>7. CASE RunFails
  BY <1>1, <1>3, <1>4, <1>7 DEF RunFails
<1>8. CASE TaskTool
  <2>1. CASE ToolCancel
    BY <1>1, <1>3, <1>5, <2>1, StartCascadeTyped DEF ToolCancel, ToolUnchanged
  <2>2. CASE ~ ToolCancel
    BY <1>8, <2>2, <1>1, <1>3
       DEF TaskTool, ToolAdd, ToolDone, ToolResume, ToolUpdate, ToolDelete, ToolUnchanged
  <2> QED
    BY <2>1, <2>2
<1>9. ASSUME NEW c \in Clients, Control(c)
      PROVE  ControlTypeOK'
  <2>1. CASE CtlCancel(c)
    BY <1>1, <1>3, <1>5, <2>1, StartCascadeTyped DEF CtlCancel, Request
  <2>2. CASE CtlReply(c)
    BY <1>1, <1>3, <2>2 DEF CtlReply
  <2>3. CASE SendMessage(c)
    BY <1>2, <2>3 DEF SendMessage
  <2>4. CASE ~ (CtlCancel(c) \/ CtlReply(c) \/ SendMessage(c))
    BY <1>1, <1>3, <1>9, <2>4
       DEF Control, CtlAdd, CtlDone, CtlMove, CtlSuspend, CtlResume, CtlUpdate, CtlDelete,
           CtlQuery, Request
  <2> QED
    BY <2>1, <2>2, <2>3, <2>4
<1>10. ASSUME NEW a \in Actors, CascadeStep(a)
       PROVE  ControlTypeOK'
  <2>1. cascade[a] \in Seq(TaskId) /\ cascade[a] # <<>>
    BY <1>1, <1>10 DEF CascadeStep
  <2>2. Tail(cascade[a]) \in Seq(TaskId)
    BY <2>1, HeadTailProperties
  <2> QED
    BY <1>1, <1>3, <1>10, <2>2 DEF CascadeStep
<1>11. CASE (\E kind \in {"cron", "task_hatch"} : FireTrigger(kind)) \/ Restart \/ UNCHANGED vars
  BY <1>2, <1>11 DEF FireTrigger, Restart, vars, ctlVars
<1>12. CASE Crash
  BY <1>3, <1>4, <1>12 DEF Crash
<1> QED
  BY <1>6, <1>7, <1>8, <1>9, <1>10, <1>11, <1>12 DEF Next

LEMMA TypeInit ==
    ASSUME Init
    PROVE  TypeInv
<1>1. DOMAIN forest = {} /\ forest \in [DOMAIN forest -> TaskRecord(TaskId)]
  BY DEF Init
<1>2. queue \in Seq(Kinds) /\ Len(queue) = 0 /\ <<>> \in Seq(TaskId)
  BY EmptySeq DEF Init
<1>3. OlderInv
  BY <1>1 DEF OlderInv
<1> QED
  BY <1>1, <1>2, <1>3, WorkerConstants DEF Init, TypeInv, TypeOK, StepsInv, PC, Origins

LEMMA TypeStep ==
    ASSUME TypeInv, [Next]_vars
    PROVE  TypeInv'
<1>1. TypeOK'
  BY ForestTyped, RunTyped, QueueTyped, ControlTyped
     DEF TypeInv, TypeOK, ForestTypeOK, IsForest, RunTypeOK, QueueTypeOK, ControlTypeOK
<1> QED
  BY <1>1, StepsStep, OlderStep DEF TypeInv

LEMMA TypeInvariant == Spec => []TypeInv
  BY TypeInit, TypeStep, PTL DEF Spec

\* Type correctness.  No interleaving of runs, requests and cascades takes a
\* variable out of its range: the queue stays within its capacity, a run
\* within its step limit, and every node of the forest is a minted one.
THEOREM TypeCorrect == Spec => []TypeOK
<1>1. TypeInv => TypeOK
  BY DEF TypeInv
<1> QED
  BY <1>1, TypeInvariant, PTL

-----------------------------------------------------------------------------
(* Safety.  Every step is of one of seven kinds (StepKinds), told apart by *)
(* what it does to the run in progress; the invariants about runs are then *)
(* checked kind by kind.                                                   *)

-----------------------------------------------------------------------------
(* The kinds of steps *)

\* The run in progress, if any, goes on; others may record an event.
GoesOn ==
    /\ Event /\ UNCHANGED <<results, task>>
    /\ pc \in TaskPCs => pc' \in TaskPCs
    /\ pc' = "surface" => pc = "surface"
    /\ pc' = "down" <=> pc = "down"

\* The run stops, or is left with telling its result, and its task is not
\* active any more.
Stops ==
    /\ Event /\ UNCHANGED results /\ pc \in TaskPCs
    /\ task \in DOMAIN forest' => forest'[task].status # "active"
    /\ \/ pc' = "idle" /\ task' = NoTask
       \/ /\ pc' = "surface" /\ task' = task /\ task # NoTask
          /\ task \in DOMAIN forest' => is_terminal(forest'[task].status)

\* The run of a finished task tells its result and stops.
Tells ==
    /\ UNCHANGED forestVars /\ pc \in TaskPCs /\ task # NoTask
    /\ TaskGone /\ Surface /\ BackToIdle

Fails == RunsCanFail /\ UNCHANGED <<forestVars, results>> /\ BackToIdle

\* The task of a run was minted (its id is not given to another task when it
\* is deleted meanwhile), and a backlog-cancelled one stays cancelled until
\* its result is told.
RunInv ==
    /\ task # NoTask => task <= created
    /\ pc = "surface" => TaskGone /\ task # NoTask

LEMMA TransitionedTask ==
    ASSUME TypeOK, NEW to \in Statuses \ {"active"},
           forest' = task_transitioned(forest, task, to)
    PROVE  /\ task \in DOMAIN forest' => forest'[task].status # "active"
           /\ to \in Terminal => (task \in DOMAIN forest' => is_terminal(forest'[task].status))
<1>1. IsForest(forest)
  BY DEF TypeOK, IsForest
<1>2. /\ DOMAIN forest' = DOMAIN forest
      /\ \A n \in DOMAIN forest : is_terminal(forest[n].status) => forest'[n].status = forest[n].status
      /\ task \in DOMAIN forest /\ ~ is_terminal(forest[task].status) => forest'[task].status = to
  BY <1>1, TransitionedFacts
<1> QED
  BY <1>2 DEF is_terminal, Terminal

LEMMA NoTaskIsNoNode ==
    ASSUME TypeOK
    PROVE  NoTask \notin DOMAIN forest
  BY DEF TypeOK, NoTask

LEMMA EndRunKind ==
    ASSUME TypeOK, RunInv, pc \in TaskPCs \ {"surface"}, EndRun
    PROVE  GoesOn \/ Stops \/ Tells
<1>1. Event
  BY EndRunEvent
<1>2. CASE task = NoTask
  <2>1. UNCHANGED forest /\ BackToIdle /\ UNCHANGED results
    BY <1>2 DEF EndRun
  <2> QED
    BY <1>1, <1>2, <2>1, NoTaskIsNoNode DEF BackToIdle, Stops
<1>3. CASE task # NoTask /\ classify_post_run(forest, task) = "gone"
  <2>1. task \notin DOMAIN forest
    BY <1>3 DEF classify_post_run
  <2>2. BackToIdle /\ UNCHANGED <<forest, results>>
    BY <1>3 DEF EndRun, Outcome
  <2> QED
    BY <1>1, <2>1, <2>2 DEF BackToIdle, Stops
<1>4. CASE task # NoTask /\ classify_post_run(forest, task) = "done"
  <2>1. TaskGone
    BY <1>4 DEF classify_post_run, TaskGone
  <2> QED
    BY <1>4, <2>1 DEF EndRun, Outcome, Tells, forestVars
<1>5. CASE task # NoTask /\ classify_post_run(forest, task) = "decomposed"
  <2>1. forest' = task_transitioned(forest, task, "blocked") /\ BackToIdle /\ UNCHANGED results
    BY <1>5 DEF EndRun, Outcome
  <2>2. "blocked" \in Statuses \ {"active"}
    BY DEF Statuses
  <2> QED
    BY <1>1, <2>1, <2>2, TransitionedTask DEF BackToIdle, Stops
<1>6. CASE task # NoTask /\ classify_post_run(forest, task) = "yielded" /\ BacklogFull
  <2>1. /\ forest' = task_transitioned(forest, task, "cancelled")
        /\ pc' = "surface" /\ UNCHANGED <<task, results>>
    BY <1>6 DEF EndRun, Outcome
  <2>2. "cancelled" \in Statuses \ {"active"} /\ "cancelled" \in Terminal
    BY DEF Statuses, Terminal
  <2> QED
    BY <1>1, <1>6, <2>1, <2>2, TransitionedTask DEF Stops
<1>7. CASE task # NoTask /\ classify_post_run(forest, task) = "yielded" /\ ~ BacklogFull
  <2>1. pc' = "yield" /\ UNCHANGED <<task, results>>
    BY <1>7 DEF EndRun, Outcome
  <2> QED
    BY <1>1, <2>1 DEF GoesOn, TaskPCs
<1>8. classify_post_run(forest, task) \in {"gone", "done", "decomposed", "yielded"}
  BY DEF classify_post_run
<1> QED
  BY <1>2, <1>3, <1>4, <1>5, <1>6, <1>7, <1>8

LEMMA StepKinds ==
    ASSUME TypeInv, RunInv, Next
    PROVE  GoesOn \/ Stops \/ Tells \/ Fails \/ Crash \/ PickTask \/ Restart
<1> USE DEF TypeInv
<1>1. Event \/ PickTask \/ Restart
  BY StepEvent
<1>2. ASSUME Event, UNCHANGED <<results, pc, task>>
      PROVE  GoesOn
  BY <1>2 DEF GoesOn
<1>3. ASSUME Event, UNCHANGED <<results, task>>, pc \in TaskPCs \ {"surface"},
             pc' \in TaskPCs \ {"surface"}
      PROVE  GoesOn
  BY <1>3 DEF GoesOn, TaskPCs
<1>4. BeginTurn \/ Pause => UNCHANGED <<results, task>> /\ pc' \in TaskPCs \ {"surface"}
  BY DEF BeginTurn, Pause, TaskPCs
<1>5. CASE MainLoop
  <2>1. CASE PickTask
    BY <2>1
  <2>2. CASE ~ PickTask
    <3>1. UNCHANGED <<results, task>> /\ pc \in {"idle", "blocked"} /\ pc' \in {"idle", "blocked", "turn"}
      BY <1>5, <2>2 DEF MainLoop, TakeTrigger, Receive, Handle, BlockOnQueue, PollTimeout
    <3>2. ~ Restart
      BY <3>1 DEF Restart
    <3> QED
      BY <1>1, <2>2, <3>1, <3>2 DEF GoesOn, TaskPCs
  <2> QED
    BY <2>1, <2>2
<1>6. CASE Run
  <2>1. pc \in TaskPCs
    BY <1>6
       DEF Run, Framed, PauseCheck, PauseGone, PauseForUser, BudgetSpent, PreemptForTree,
           AskConsent, Undisturbed, Proceed, Respond, TurnEndsRun, ToolsDone, FinishPause,
           FinishYield, FinishSurface, TaskPCs
  <2>2. Event
    BY <1>1, <2>1 DEF PickTask, Restart, TaskPCs
  <2>3. CASE Framed
    BY <1>3, <2>2, <2>3 DEF Framed, TaskPCs
  <2>4. CASE PauseCheck
    <3>1. CASE PauseGone
      BY <2>1, <2>2, <3>1, NoTaskIsNoNode DEF PauseGone, TaskGone, BackToIdle, Stops, is_terminal, Terminal, forestVars
    <3>2. CASE BudgetSpent
      BY <3>2, EndRunKind DEF BudgetSpent, TaskPCs
    <3>3. CASE PauseForUser \/ PreemptForTree \/ AskConsent \/ Proceed
      BY <1>3, <1>4, <2>2, <3>3
         DEF PauseForUser, PreemptForTree, AskConsent, Undisturbed, Proceed, TaskPCs
    <3> QED
      BY <2>4, <3>1, <3>2, <3>3 DEF PauseCheck
  <2>5. CASE Respond
    BY <1>3, <2>2, <2>5 DEF Respond, TaskPCs
  <2>6. CASE TurnEndsRun
    BY <2>6, EndRunKind DEF TurnEndsRun, TaskPCs
  <2>7. CASE ToolsDone
    <3>1. CASE EndRun
      BY <2>7, <3>1, EndRunKind DEF ToolsDone, TaskPCs
    <3>2. CASE ~ EndRun
      BY <1>3, <1>4, <2>2, <2>7, <3>2 DEF ToolsDone, TaskPCs
    <3> QED
      BY <3>1, <3>2
  <2>8. CASE FinishPause
    <3>1. "pending" \in Statuses \ {"active"}
      BY DEF Statuses
    <3> QED
      BY <2>1, <2>2, <2>8, <3>1, TransitionedTask DEF FinishPause, BackToIdle, Stops
  <2>9. CASE FinishYield
    <3>1. "suspended" \in Statuses \ {"active"}
      BY DEF Statuses
    <3> QED
      BY <2>1, <2>2, <2>9, <3>1, TransitionedTask DEF FinishYield, BackToIdle, Stops
  <2>10. CASE FinishSurface
    BY <2>1, <2>10 DEF FinishSurface, RunInv, Tells
  <2> QED
    BY <1>6, <2>3, <2>4, <2>5, <2>6, <2>7, <2>8, <2>9, <2>10 DEF Run
<1>7. CASE Consent
  <2>1. CASE Answered
    BY <1>1, <1>3, <1>4, <2>1 DEF Answered, PickTask, Restart, TaskPCs
  <2>2. CASE ToolAsks \/ ToolAnswered
    BY <1>1, <1>3, <2>2 DEF ToolAsks, ToolAnswered, Tool, PickTask, Restart, TaskPCs
  <2> QED
    BY <1>7, <2>1, <2>2 DEF Consent
<1>8. CASE RunFails
  BY <1>8 DEF RunFails, Fails
<1>9. CASE TaskTool \/ (\E c \in Clients : Control(c)) \/ (\E a \in Actors : CascadeStep(a))
           \/ (\E kind \in {"cron", "task_hatch"} : FireTrigger(kind))
  <2>1. UNCHANGED <<results, pc, task>>
    BY <1>9
       DEF TaskTool, ToolAdd, ToolDone, ToolCancel, ToolResume, ToolUpdate, ToolDelete,
           ToolUnchanged, Control, CtlAdd, CtlDone, CtlCancel, CtlMove, CtlSuspend, CtlResume,
           CtlUpdate, CtlDelete, CtlQuery, CtlUnchanged, CtlReply, SendMessage, runVars,
           CascadeStep, FireTrigger
  <2> QED
    BY <1>1, <1>2, <2>1
<1> QED
  BY <1>5, <1>6, <1>7, <1>8, <1>9 DEF Next

LEMMA EventForest ==
    ASSUME TypeOK, Event
    PROVE  Effect
  BY EventEffect DEF TypeOK, ForestTypeOK, IsForest

LEMMA RunStep ==
    ASSUME TypeInv, RunInv, [Next]_vars
    PROVE  RunInv'
<1> USE DEF TypeInv
<1>0. /\ created \in Nat /\ DOMAIN forest \subseteq 1..created
      /\ task \in TaskId \cup {NoTask} /\ TaskId \subseteq Int /\ NoTask = 0
  BY DEF TypeOK, TaskId, NoTask
<1>1. CASE GoesOn
  <2>1. Effect /\ task' = task /\ (pc' = "surface" => pc = "surface")
    BY <1>1, EventForest DEF GoesOn
  <2>2. created' \in {created, created + 1}
    BY <2>1 DEF Effect
  <2>3. task # NoTask => task <= created /\ task <= created'
    BY <1>0, <2>2 DEF RunInv
  <2>4. pc = "surface" /\ task \in DOMAIN forest' => task \in DOMAIN forest
    BY <1>0, <2>1, <2>3 DEF Effect, RunInv
  <2> QED
    BY <2>1, <2>3, <2>4 DEF RunInv, TaskGone, Effect
<1>2. CASE Stops
  <2>1. Effect /\ task' \in {task, NoTask}
    BY <1>2, EventForest DEF Stops
  <2>2. task' # NoTask => task' <= created'
    BY <1>0, <2>1 DEF Effect, RunInv
  <2> QED
    BY <1>2, <2>2 DEF Stops, RunInv, TaskGone
<1>3. CASE Tells \/ Fails \/ Crash
  BY <1>3 DEF Tells, Fails, BackToIdle, Crash, RunInv
<1>4. CASE PickTask
  <2>1. task' <= created'
    BY <1>0, <1>4, PickTaskEffect
  <2> QED
    BY <1>4, <2>1 DEF PickTask, RunInv
<1>5. CASE Restart
  BY <1>5 DEF Restart, RunInv
<1>6. CASE UNCHANGED vars
  BY <1>6 DEF vars, RunInv, TaskGone
<1> QED
  BY <1>1, <1>2, <1>3, <1>4, <1>5, <1>6, StepKinds

-----------------------------------------------------------------------------
(* One worker, one task *)

LEMMA ActiveStep ==
    ASSUME TypeInv, RunInv, ActiveIsRunning, [Next]_vars
    PROVE  ActiveIsRunning'
<1> USE DEF TypeInv
<1>1. CASE RunsCanFail
  BY <1>1 DEF ActiveIsRunning
<1>2. CASE ~ RunsCanFail
  <2> USE <1>2
  <2>1. CASE GoesOn
    BY <2>1, EventForest DEF GoesOn, Effect, ActiveIsRunning
  <2>2. CASE Stops
    BY <2>2, EventForest DEF Stops, Effect, ActiveIsRunning, TaskPCs
  <2>3. CASE Tells
    BY <2>3 DEF Tells, forestVars, TaskGone, is_terminal, Terminal, ActiveIsRunning, TaskPCs
  <2>4. CASE PickTask
    <3>1. pc = "idle" /\ pc' = "framing"
      BY <2>4 DEF PickTask
    <3>2. \A t \in DOMAIN forest : forest[t].status # "active"
      BY <3>1 DEF ActiveIsRunning, TaskPCs
    <3> QED
      BY <2>4, <3>1, <3>2, PickTaskEffect DEF ActiveIsRunning, TaskPCs
  <2>5. CASE Crash
    BY <2>5 DEF Crash, ActiveIsRunning
  <2>6. CASE Restart
    <3>1. \A t \in DOMAIN forest' : forest'[t].status # "active"
      BY <2>6, RestartEffect
    <3> QED
      BY <3>1 DEF ActiveIsRunning
  <2>7. CASE UNCHANGED vars
    BY <2>7 DEF vars, ActiveIsRunning
  <2> QED
    BY <2>1, <2>2, <2>3, <2>4, <2>5, <2>6, <2>7, StepKinds DEF Fails
<1> QED
  BY <1>1, <1>2

LEMMA RunInvariant == Spec => []RunInv
<1>1. Init => RunInv
  BY DEF Init, RunInv
<1> QED
  BY <1>1, TypeInvariant, RunStep, PTL DEF Spec

\* One worker, one task: however the control plane changes the forest during
\* a run, and wherever crashes fall, no task is active but the one whose run
\* is in progress (as long as no exception escapes from a run).
THEOREM Serial == Spec => []ActiveIsRunning
<1>1. Init => ActiveIsRunning
  BY DEF Init, ActiveIsRunning
<1> QED
  BY <1>1, TypeInvariant, RunInvariant, ActiveStep, PTL DEF Spec

-----------------------------------------------------------------------------
(* Subtasks carry no weight *)

LEMMA UnweightedStep ==
    ASSUME TypeOK, SubtaskUnweighted, [Next]_vars
    PROVE  SubtaskUnweighted'
<1>1. CASE Event
  BY <1>1, EventForest DEF Effect, SubtaskUnweighted
<1>2. CASE PickTask
  BY <1>2, PickTaskEffect DEF SubtaskUnweighted
<1>3. CASE Restart
  BY <1>3, RestartEffect DEF SubtaskUnweighted
<1>4. CASE UNCHANGED vars
  BY <1>4 DEF vars, SubtaskUnweighted
<1> QED
  BY <1>1, <1>2, <1>3, <1>4, StepEvent

\* Whoever adds or updates tasks, in a chat turn, in a run or over IPC, only
\* trees are weighed: a subtask has priority 0 and the agent as its origin.
THEOREM Unweighted == Spec => []SubtaskUnweighted
<1>1. Init => SubtaskUnweighted
  BY DEF Init, SubtaskUnweighted
<1> QED
  BY <1>1, TypeCorrect, UnweightedStep, PTL DEF Spec

-----------------------------------------------------------------------------
(* Results are told once *)

\* What makes ResultToldOnce inductive: the result of the task in the run is
\* not told yet, and ids that are not minted yet have none.
TellInv ==
    /\ ResultToldOnce
    /\ task # NoTask => task <= created /\ results[task] = 0
    /\ \A t \in TaskId : results[t] > 0 => t <= created

LEMMA TellStep ==
    ASSUME TypeInv, RunInv, TellInv, [Next]_vars
    PROVE  TellInv'
<1> USE DEF TypeInv
<1>0. /\ created \in Nat /\ results \in [TaskId -> Nat] /\ DOMAIN forest \subseteq 1..created
      /\ TaskId = 1..MaxTasks /\ MaxTasks \in Nat /\ NoTask = 0
      /\ task \in TaskId \cup {NoTask}
  BY WorkerConstants DEF TypeOK, TaskId, NoTask
<1>1. ASSUME Effect, UNCHANGED results, task' \in {task, NoTask}
      PROVE  TellInv'
  <2>1. created' \in {created, created + 1}
    BY <1>1 DEF Effect
  <2>2. \A t \in TaskId : results[t] > 0 => t <= created'
    BY <1>0, <2>1 DEF TellInv
  <2>3. task' # NoTask => task' <= created' /\ results[task'] = 0
    BY <1>0, <1>1, <2>1 DEF TellInv
  <2>4. ASSUME NEW t \in TaskId, results[t] > 0, t \in DOMAIN forest'
        PROVE  forest'[t].parent = NoTask /\ is_terminal(forest'[t].status)
    <3>1. t <= created
      BY <2>4 DEF TellInv
    <3>2. t \in DOMAIN forest
      BY <1>0, <1>1, <2>4, <3>1 DEF Effect
    <3>3. forest[t].parent = NoTask /\ is_terminal(forest[t].status)
      BY <2>4, <3>2 DEF TellInv, ResultToldOnce
    <3> QED
      BY <1>1, <2>4, <3>2, <3>3 DEF Effect
  <2> QED
    BY <1>1, <2>2, <2>3, <2>4 DEF TellInv, ResultToldOnce
<1>2. CASE GoesOn
  BY <1>1, <1>2, EventForest DEF GoesOn
<1>3. CASE Stops
  BY <1>1, <1>3, EventForest DEF Stops
<1>4. CASE Tells
  <2>1. UNCHANGED <<forest, created>> /\ task' = NoTask /\ task \in TaskId /\ TaskGone
    BY <1>0, <1>4 DEF Tells, BackToIdle, forestVars
  <2>2. \A t \in TaskId : t # task => results'[t] = results[t]
    BY <1>0, <1>4 DEF Tells, Surface
  <2>3. /\ results'[task] \in {0, 1}
        /\ results'[task] > 0 => task \in DOMAIN forest /\ forest[task].parent = NoTask
    BY <1>0, <1>4, <2>1 DEF Tells, Surface, TellInv
  <2> QED
    BY <1>0, <2>1, <2>2, <2>3 DEF TellInv, ResultToldOnce, TaskGone
<1>5. CASE Fails \/ Crash
  BY <1>5 DEF Fails, BackToIdle, Crash, forestVars, TellInv, ResultToldOnce
<1>6. CASE PickTask
  <2>1. UNCHANGED <<results, created>> /\ task' \in DOMAIN forest
        /\ ~ is_terminal(forest[task'].status)
    BY <1>6, PickTaskEffect DEF PickTask, is_terminal, Terminal
  <2>2. task' \in TaskId /\ task' <= created /\ results[task'] = 0
    <3>1. task' \in TaskId /\ task' <= created
      BY <1>0, <2>1 DEF TypeOK
    <3>2. ~ (results[task'] > 0)
      BY <2>1, <3>1 DEF TellInv, ResultToldOnce
    <3>3. results[task'] \in Nat
      BY <1>0, <3>1
    <3> QED
      BY <3>1, <3>2, <3>3
  <2>3. ASSUME NEW t \in TaskId, results[t] > 0, t \in DOMAIN forest'
        PROVE  forest'[t].parent = NoTask /\ is_terminal(forest'[t].status)
    <3>1. t \in DOMAIN forest /\ t # task'
      BY <1>6, <2>2, <2>3, PickTaskEffect
    <3> QED
      BY <1>6, <2>3, <3>1, PickTaskEffect DEF TellInv, ResultToldOnce
  <2> QED
    BY <2>1, <2>2, <2>3 DEF TellInv, ResultToldOnce
<1>7. CASE Restart
  <2>1. UNCHANGED <<results, created, task>>
    BY <1>7 DEF Restart
  <2> QED
    BY <1>7, <2>1, RestartEffect DEF TellInv, ResultToldOnce, is_terminal, Terminal
<1>8. CASE UNCHANGED vars
  BY <1>8 DEF vars, TellInv, ResultToldOnce
<1> QED
  BY <1>2, <1>3, <1>4, <1>5, <1>6, <1>7, <1>8, StepKinds

LEMMA TellInvariant == Spec => []TellInv
<1>1. Init => TellInv
  BY DEF Init, TellInv, ResultToldOnce
<1> QED
  BY <1>1, TypeInvariant, RunInvariant, TellStep, PTL DEF Spec

\* The conversation learns the result of a task once at most, of a root only,
\* and never of a task that could still run, across pauses, crashes, requests
\* that finish or delete the task during its run, and backlog cancellations.
THEOREM ToldOnce == Spec => []ResultToldOnce
<1>1. TellInv => ResultToldOnce
  BY DEF TellInv
<1> QED
  BY <1>1, TellInvariant, PTL

-----------------------------------------------------------------------------
(* The interrupt mark and the queue *)

Waiting(q) == {i \in DOMAIN q : q[i] = "interactive"}

LEMMA WaitingFinite ==
    ASSUME NEW q \in Seq(Kinds)
    PROVE  IsFiniteSet(Waiting(q)) /\ Cardinality(Waiting(q)) \in Nat
<1>1. DOMAIN q = 1..Len(q) /\ Len(q) \in Nat
  BY LenProperties
<1>2. IsFiniteSet(1..Len(q))
  BY <1>1, FS_Interval
<1>3. Waiting(q) \in SUBSET (1..Len(q))
  BY <1>1 DEF Waiting
<1> QED
  BY <1>2, <1>3, FS_Subset, FS_CardinalityType

\* A queued item adds to the waiting ones if it is a message.
LEMMA WaitingAppend ==
    ASSUME NEW q \in Seq(Kinds), NEW kind \in Kinds
    PROVE  Cardinality(Waiting(Append(q, kind))) =
             Cardinality(Waiting(q)) + (IF kind = "interactive" THEN 1 ELSE 0)
<1>1. /\ DOMAIN q = 1..Len(q) /\ Len(q) \in Nat
      /\ DOMAIN Append(q, kind) = 1..(Len(q) + 1)
      /\ \A i \in 1..Len(q) : Append(q, kind)[i] = q[i]
      /\ Append(q, kind)[Len(q) + 1] = kind
  BY LenProperties, AppendProperties
<1>2. Waiting(Append(q, kind)) =
        IF kind = "interactive" THEN Waiting(q) \cup {Len(q) + 1} ELSE Waiting(q)
  BY <1>1 DEF Waiting
<1>3. Len(q) + 1 \notin Waiting(q)
  BY <1>1 DEF Waiting
<1>4. Cardinality(Waiting(q) \cup {Len(q) + 1}) = Cardinality(Waiting(q)) + 1
  BY <1>3, WaitingFinite, FS_AddElement
<1>5. Cardinality(Waiting(q)) \in Nat
  BY WaitingFinite
<1> QED
  BY <1>2, <1>4, <1>5

\* Taking the first trigger of the queue, and the wakes before it, leaves the
\* messages but for the one taken.
LEMMA WaitingRest ==
    ASSUME NEW q \in Seq(Kinds), NEW i \in DOMAIN q,
           \A j \in 1..(i - 1) : ~ IsTrigger(q[j]),
           NEW r \in Seq(Kinds), Len(r) = Len(q) - i,
           \A j \in DOMAIN r : r[j] = q[j + i]
    PROVE  Cardinality(Waiting(q)) =
             Cardinality(Waiting(r)) + (IF q[i] = "interactive" THEN 1 ELSE 0)
<1> DEFINE S == Waiting(q) \ {i}
           T == Waiting(r)
<1>1. /\ DOMAIN q = 1..Len(q) /\ Len(q) \in Nat /\ i \in 1..Len(q)
      /\ DOMAIN r = 1..(Len(q) - i)
  BY LenProperties
<1>2. \A j \in Waiting(q) : j >= i
  BY <1>1 DEF Waiting, IsTrigger
<1>3. \A j \in T : j + i \in S
  BY <1>1 DEF Waiting
<1>4. \A j \in S : j - i \in T /\ j \in Nat
  BY <1>1, <1>2 DEF Waiting
<1>5. ExistsBijection(T, S)
  <2> DEFINE shift == [j \in T |-> j + i]
  <2>0. \A j \in T : j \in Nat
    BY <1>1 DEF Waiting
  <2>1. shift \in [T -> S]
    BY <1>3
  <2>2. \A j, k \in T : shift[j] = shift[k] => j = k
    BY <2>0, <1>1
  <2>3. \A k \in S : \E j \in T : shift[j] = k
    <3>1. ASSUME NEW k \in S PROVE k - i \in T /\ shift[k - i] = k
      BY <1>1, <1>4, <3>1
    <3> QED
      BY <3>1
  <2>4. shift \in Bijection(T, S)
    BY <2>1, <2>2, <2>3 DEF Bijection, Injection, Surjection, IsInjective
  <2> QED
    BY <2>4 DEF ExistsBijection
<1>6. Cardinality(S) = Cardinality(T)
  BY <1>5, WaitingFinite, FS_Bijection
<1>7. Cardinality(S) = IF i \in Waiting(q) THEN Cardinality(Waiting(q)) - 1 ELSE Cardinality(Waiting(q))
  BY WaitingFinite, FS_RemoveElement
<1>8. i \in Waiting(q) <=> q[i] = "interactive"
  BY <1>1 DEF Waiting
<1> QED
  BY <1>6, <1>7, <1>8, WaitingFinite

\* What a step does to the queue.
Enqueues(kind) ==
    /\ queue' = Append(queue, kind)
    /\ pending_interactive' = pending_interactive + (IF kind = "interactive" THEN 1 ELSE 0)
Dequeues(i) ==
    /\ \A j \in 1..(i - 1) : ~ IsTrigger(queue[j])
    /\ Len(queue') = Len(queue) - i /\ \A j \in DOMAIN queue' : queue'[j] = queue[j + i]
    /\ ClearMark(queue[i])

LEMMA HandleMark ==
    ASSUME NEW kind, Handle(kind), pending_interactive \in Nat
    PROVE  ClearMark(kind)
  BY DEF Handle, ClearMark

LEMMA QueueKinds ==
    ASSUME TypeInv, Next
    PROVE  \/ UNCHANGED queueVars
           \/ \E kind \in Kinds : Enqueues(kind)
           \/ \E i \in DOMAIN queue : Dequeues(i)
           \/ NoTrigger /\ queue' = <<>> /\ UNCHANGED pending_interactive
           \/ queue' = <<>> /\ pending_interactive' = 0
<1> USE DEF TypeInv
<1>1. queue \in Seq(Kinds) /\ pending_interactive \in Nat
  BY DEF TypeOK
<1>2. DOMAIN queue = 1..Len(queue) /\ Len(queue) \in Nat
  BY <1>1, LenProperties
<1>3. {"task_wake", "interactive", "cron", "task_hatch"} = Kinds
  BY DEF Kinds
<1>4. CASE TakeTrigger
  <2>1. PICK i \in DOMAIN queue :
          /\ \A j \in 1..(i - 1) : ~ IsTrigger(queue[j])
          /\ queue' = SubSeq(queue, i + 1, Len(queue)) /\ Handle(queue[i])
    BY <1>4 DEF TakeTrigger
  <2>2. i \in 1..Len(queue) /\ \A j \in (i + 1)..Len(queue) : queue[j] \in Kinds
    BY <1>1, <1>2, <2>1, ElementOfSeq
  <2>3. /\ queue' \in Seq(Kinds)
        /\ Len(queue') = IF i + 1 <= Len(queue) THEN Len(queue) - (i + 1) + 1 ELSE 0
        /\ \A j \in 1..(Len(queue) - (i + 1) + 1) : queue'[j] = queue[i + 1 + j - 1]
    BY <1>2, <2>1, <2>2, SubSeqProperties
  <2>4. DOMAIN queue' = 1..Len(queue') /\ Len(queue') = Len(queue) - i
    BY <1>2, <2>2, <2>3, LenProperties
  <2>5. \A j \in DOMAIN queue' : queue'[j] = queue[j + i]
    BY <1>2, <2>2, <2>3, <2>4
  <2> QED
    BY <1>1, <2>1, <2>4, <2>5, HandleMark DEF Dequeues
<1>5. CASE Receive
  <2>1. queue # <<>> /\ queue' = Tail(queue) /\ Handle(Head(queue)) /\ Head(queue) = queue[1]
    BY <1>5 DEF Receive
  <2>2. Len(queue') = Len(queue) - 1 /\ queue' \in Seq(Kinds)
        /\ \A j \in 1..Len(queue') : queue'[j] = queue[j + 1]
    BY <1>1, <2>1, HeadTailProperties
  <2>3. 1 \in DOMAIN queue /\ DOMAIN queue' = 1..Len(queue')
    BY <1>1, <2>1, <2>2, LenProperties, EmptySeq
  <2>4. Dequeues(1)
    BY <1>1, <2>1, <2>2, <2>3, HandleMark DEF Dequeues
  <2> QED
    BY <2>3, <2>4
<1>6. CASE PickTask \/ BlockOnQueue \/ PollTimeout
  BY <1>6 DEF PickTask, BlockOnQueue, PollTimeout, queueVars
<1>7. CASE Run \/ Consent \/ RunFails
  BY <1>7
     DEF Run, Framed, PauseCheck, PauseGone, PauseForUser, Pause, BudgetSpent, PreemptForTree,
         AskConsent, Proceed, BeginTurn, EndRun, Respond, TurnEndsRun, ToolsDone, FinishPause,
         FinishYield, FinishSurface, Consent, Answered, ToolAsks, ToolAnswered, RunFails
<1>8. CASE TaskTool
  BY <1>8
     DEF TaskTool, ToolAdd, ToolDone, ToolCancel, ToolResume, ToolUpdate, ToolDelete,
         ToolUnchanged
<1>9. ASSUME NEW c \in Clients, Control(c)
      PROVE  UNCHANGED queueVars \/ \E kind \in Kinds : Enqueues(kind)
  <2>1. CASE CtlReply(c)
    BY <1>1, <1>3, <2>1 DEF CtlReply, queueVars, Enqueues
  <2>2. CASE SendMessage(c)
    BY <1>3, <2>2 DEF SendMessage, Enqueues
  <2>3. CASE ~ (CtlReply(c) \/ SendMessage(c))
    BY <1>9, <2>3
       DEF Control, CtlAdd, CtlDone, CtlCancel, CtlMove, CtlSuspend, CtlResume,
           CtlUpdate, CtlDelete, CtlQuery, CtlUnchanged
  <2> QED
    BY <2>1, <2>2, <2>3
<1>10. ASSUME NEW kind \in {"cron", "task_hatch"}, FireTrigger(kind)
       PROVE  \E k \in Kinds : Enqueues(k)
  BY <1>1, <1>3, <1>10 DEF FireTrigger, Enqueues
<1>11. CASE (\E a \in Actors : CascadeStep(a)) \/ Restart
  BY <1>11 DEF CascadeStep, Restart
<1>12. CASE Crash
  BY <1>12 DEF Crash
<1> QED
  BY <1>4, <1>5, <1>6, <1>7, <1>8, <1>9, <1>10, <1>11, <1>12 DEF Next, MainLoop

LEMMA NobodyWaits ==
    ASSUME NoTrigger
    PROVE  Cardinality(Waiting(queue)) = 0
<1>1. Waiting(queue) = {}
  BY DEF NoTrigger, IsTrigger, Waiting
<1> QED
  BY <1>1, FS_EmptySet

LEMMA NoneInEmpty == Cardinality(Waiting(<<>>)) = 0
<1>1. Waiting(<<>>) = {}
  BY DEF Waiting
<1> QED
  BY <1>1, FS_EmptySet

LEMMA PendingStep ==
    ASSUME TypeInv, TypeInv', PendingMatchesQueue, [Next]_vars
    PROVE  PendingMatchesQueue'
<1>0. /\ queue \in Seq(Kinds) /\ queue' \in Seq(Kinds)
      /\ PendingMatchesQueue <=> pending_interactive = Cardinality(Waiting(queue))
      /\ PendingMatchesQueue' <=> pending_interactive' = Cardinality(Waiting(queue'))
      /\ Cardinality(Waiting(queue)) \in Nat /\ Cardinality(Waiting(queue')) \in Nat
  BY WaitingFinite DEF TypeInv, TypeOK, PendingMatchesQueue, Waiting
<1>1. CASE UNCHANGED queueVars \/ UNCHANGED vars
  BY <1>0, <1>1 DEF queueVars, vars
<1>2. ASSUME NEW kind \in Kinds, Enqueues(kind)
      PROVE  PendingMatchesQueue'
  BY <1>0, <1>2, WaitingAppend DEF Enqueues
<1>3. ASSUME NEW i \in DOMAIN queue, Dequeues(i)
      PROVE  PendingMatchesQueue'
  <2>1. Cardinality(Waiting(queue)) =
          Cardinality(Waiting(queue')) + (IF queue[i] = "interactive" THEN 1 ELSE 0)
    BY <1>0, <1>3, WaitingRest DEF Dequeues
  <2> QED
    BY <1>0, <1>3, <2>1 DEF Dequeues, ClearMark
<1>4. CASE NoTrigger /\ queue' = <<>> /\ UNCHANGED pending_interactive
  BY <1>0, <1>4, NobodyWaits, NoneInEmpty
<1>5. CASE queue' = <<>> /\ pending_interactive' = 0
  BY <1>0, <1>5, NoneInEmpty
<1> QED
  BY <1>1, <1>2, <1>3, <1>4, <1>5, QueueKinds

\* The mark that pause_check reads counts the messages in the queue: whatever
\* is queued, taken, dropped with a wake or lost with the process.
THEOREM MarkIsQueue == Spec => []PendingMatchesQueue
<1>1. Init => PendingMatchesQueue
  BY NoneInEmpty DEF Init, PendingMatchesQueue, Waiting
<1> QED
  BY <1>1, TypeInvariant, PendingStep, PTL DEF Spec

LEMMA OnlyPickActivates ==
    ASSUME Next, pc = "idle", pc' = "framing"
    PROVE  PickTask
<1>1. CASE MainLoop
  BY <1>1 DEF MainLoop, TakeTrigger, Receive, Handle, BlockOnQueue, PollTimeout
<1>2. CASE Run \/ Consent \/ RunFails \/ TaskTool
  BY <1>2
     DEF Run, Framed, PauseCheck, PauseGone, PauseForUser, BudgetSpent, PreemptForTree,
         AskConsent, Proceed, Undisturbed, Respond, TurnEndsRun, ToolsDone, FinishPause,
         FinishYield, FinishSurface, Consent, Answered, ToolAsks, ToolAnswered, RunFails, TaskPCs, TaskTool, Tool, ToolAdd,
         ToolDone, ToolCancel, ToolResume, ToolUpdate, ToolDelete
<1>3. ASSUME NEW c \in Clients, Control(c) PROVE UNCHANGED pc
  BY <1>3 DEF Control, CtlAdd, CtlDone, CtlCancel, CtlMove, CtlSuspend, CtlResume, CtlUpdate,
         CtlDelete, CtlQuery, CtlReply, SendMessage, CtlUnchanged, runVars
<1>4. CASE (\E a \in Actors : CascadeStep(a)) \/ \E kind \in {"cron", "task_hatch"} : FireTrigger(kind)
  BY <1>4 DEF CascadeStep, FireTrigger, runVars
<1>5. CASE Crash \/ Restart
  BY <1>5 DEF Crash, Restart
<1> QED
  BY <1>1, <1>2, <1>3, <1>4, <1>5 DEF Next

\* A queued message is handled before a further task is started.
THEOREM MessagesGoFirst == Spec => MessageBeforeTask
<1>1. TypeInv /\ PendingMatchesQueue /\ [Next]_vars => [pc = "idle" /\ pc' = "framing" => pending_interactive = 0]_vars
  <2> SUFFICES ASSUME PendingMatchesQueue, Next, pc = "idle", pc' = "framing"
               PROVE  pending_interactive = 0
    BY DEF vars
  <2>1. NoTrigger
    BY OnlyPickActivates DEF PickTask
  <2> QED
    BY <2>1, NobodyWaits DEF PendingMatchesQueue, Waiting
<1> QED
  BY <1>1, TypeInvariant, MarkIsQueue, PTL DEF Spec, MessageBeforeTask

-----------------------------------------------------------------------------
(* The suspended backlog *)

Suspended == by_status(forest, "suspended")

\* A yielding run checked the cap before its checkpoint, and nobody else
\* suspends a task meanwhile.
BacklogInv ==
    max_suspended > 0 /\ "suspend" \notin ControlOps =>
      /\ Cardinality(Suspended) <= max_suspended
      /\ pc = "yield" => Cardinality(Suspended) < max_suspended

\* No task becomes suspended; yielding starts only below the cap.
Recedes ==
    /\ Suspended' \subseteq Suspended
    /\ pc' = "yield" => pc = "yield" \/ (UNCHANGED forest /\ ~ BacklogFull)

LEMMA CreateRecedes ==
    ASSUME TypeOK, NEW parent, NEW priority, NEW origin, Create(parent, priority, origin)
    PROVE  Suspended' \subseteq Suspended
  BY DEF TypeOK, Create, task_created, Suspended, by_status

LEMMA AddRecedes ==
    ASSUME TypeOK, NEW parent, NEW priority, NEW origin, AddTask(parent, priority, origin)
    PROVE  Suspended' \subseteq Suspended
  BY CreateRecedes DEF AddTask

LEMMA MoveRecedes ==
    ASSUME TypeOK, NEW t, NEW to \in Statuses \ {"suspended"}, forest' = task_transitioned(forest, t, to)
    PROVE  Suspended' \subseteq Suspended
<1>1. IsForest(forest) /\ to \in Statuses
  BY DEF TypeOK, IsForest
<1>2. /\ DOMAIN forest' = DOMAIN forest
      /\ \A n \in DOMAIN forest : forest'[n].status # forest[n].status => forest'[n].status = to
  BY <1>1, TransitionedFacts
<1> QED
  BY <1>2 DEF Suspended, by_status

LEMMA UpdateRecedes ==
    ASSUME TypeOK, NEW t, NEW p \in Priorities, forest' = task_updated(forest, t, p)
    PROVE  Suspended' \subseteq Suspended
<1>1. DOMAIN forest' = DOMAIN forest /\ \A n \in DOMAIN forest : forest'[n].status = forest[n].status
  BY UpdatedFacts, WorkerConstants DEF TypeOK, IsForest
<1> QED
  BY <1>1 DEF Suspended, by_status

LEMMA DeleteRecedes ==
    ASSUME TypeOK, NEW t, forest' = task_deleted(forest, t)
    PROVE  Suspended' \subseteq Suspended
<1>1. IsForest(forest)
  BY DEF TypeOK, IsForest
<1>2. DOMAIN forest' \subseteq DOMAIN forest /\ \A n \in DOMAIN forest' : forest'[n] = forest[n]
  BY <1>1, DeletedFacts
<1> QED
  BY <1>2 DEF Suspended, by_status

LEMMA EndRunRecedes ==
    ASSUME TypeOK, EndRun
    PROVE  Recedes
<1>1. CASE task = NoTask
  BY <1>1 DEF EndRun, BackToIdle, Recedes, Suspended
<1>2. CASE Outcome
  <2>1. CASE UNCHANGED forest
    BY <1>2, <2>1 DEF Outcome, BackToIdle, Recedes, Suspended
  <2>2. CASE ~ UNCHANGED forest
    <3>1. PICK to \in {"blocked", "cancelled"} : forest' = task_transitioned(forest, task, to)
      BY <1>2, <2>2 DEF Outcome
    <3>2. Suspended' \subseteq Suspended
      BY <3>1, MoveRecedes DEF Statuses
    <3>3. pc' # "yield"
      BY <1>2, <2>2 DEF Outcome, BackToIdle
    <3> QED
      BY <3>2, <3>3 DEF Recedes
  <2> QED
    BY <2>1, <2>2
<1> QED
  BY <1>1, <1>2 DEF EndRun

LEMMA BacklogKinds ==
    ASSUME TypeInv, Next, "suspend" \notin ControlOps
    PROVE  FinishYield \/ Recedes
<1> USE DEF TypeInv
<1>a. {"pending", "active", "blocked", "done", "cancelled"} \subseteq Statuses \ {"suspended"}
  BY DEF Statuses
<1>b. UNCHANGED forest /\ (pc' = "yield" => pc = "yield") => Recedes
  BY DEF Recedes, Suspended
<1>c. Suspended' \subseteq Suspended /\ (pc' = "yield" => pc = "yield") => Recedes
  BY DEF Recedes
<1>1. ASSUME NEW kind, Handle(kind)
      PROVE  Recedes
  <2>1. CASE UNCHANGED forest
    BY <1>1, <1>b, <2>1 DEF Handle
  <2>2. CASE ~ UNCHANGED forest
    <3>1. pc' # "yield" /\ \E p \in Priorities : Create(NoTask, p, "trigger")
      BY <1>1, <2>2 DEF Handle, forestVars
    <3> QED
      BY <3>1, <1>c, CreateRecedes
  <2> QED
    BY <2>1, <2>2
<1>2. CASE TakeTrigger \/ Receive
  BY <1>1, <1>2 DEF TakeTrigger, Receive
<1>3. CASE PickTask
  BY <1>3, <1>a, <1>c, MoveRecedes DEF PickTask
<1>4. CASE BlockOnQueue \/ PollTimeout
  BY <1>4, <1>b DEF BlockOnQueue, PollTimeout, forestVars
<1>5. CASE Run /\ ~ FinishYield
  <2>1. CASE Framed \/ Respond \/ FinishSurface
    BY <2>1, <1>b DEF Framed, Respond, FinishSurface, BackToIdle, forestVars
  <2>2. CASE PauseCheck
    BY <2>2, <1>b, EndRunRecedes
       DEF PauseCheck, PauseGone, PauseForUser, Pause, BudgetSpent, PreemptForTree,
           AskConsent, Proceed, BeginTurn, BackToIdle, forestVars
  <2>3. CASE TurnEndsRun
    BY <2>3, EndRunRecedes DEF TurnEndsRun
  <2>4. CASE ToolsDone
    BY <2>4, <1>b, EndRunRecedes DEF ToolsDone, BeginTurn, forestVars
  <2>5. CASE FinishPause
    BY <2>5, <1>a, <1>c, MoveRecedes DEF FinishPause, BackToIdle
  <2> QED
    BY <1>5, <2>1, <2>2, <2>3, <2>4, <2>5 DEF Run
<1>6. CASE Consent \/ RunFails
  BY <1>6, <1>b DEF Consent, Answered, ToolAsks, ToolAnswered, Pause, BeginTurn, RunFails, BackToIdle, forestVars
<1>7. CASE TaskTool
  <2>0. pc' = pc
    BY <1>7 DEF TaskTool, ToolAdd, ToolDone, ToolCancel, ToolResume, ToolUpdate, ToolDelete,
         ToolUnchanged, runVars
  <2>1. CASE ToolAdd
    BY <2>0, <2>1, <1>c, AddRecedes DEF ToolAdd
  <2>2. CASE ToolDone \/ ToolCancel \/ ToolResume
    BY <2>0, <2>2, <1>a, <1>c, MoveRecedes DEF ToolDone, ToolCancel, StartCascade, ToolResume
  <2>3. CASE ToolUpdate
    BY <2>0, <2>3, <1>c, UpdateRecedes DEF ToolUpdate
  <2>4. CASE ToolDelete
    BY <2>0, <2>4, <1>c, DeleteRecedes DEF ToolDelete
  <2> QED
    BY <1>7, <2>1, <2>2, <2>3, <2>4 DEF TaskTool
<1>8. ASSUME NEW c \in Clients, Control(c)
      PROVE  Recedes
  <2>0. pc' = pc
    BY <1>8 DEF Control, CtlAdd, CtlDone, CtlCancel, CtlMove, CtlSuspend, CtlResume, CtlUpdate,
         CtlDelete, CtlQuery, CtlReply, SendMessage, CtlUnchanged, runVars
  <2>1. CASE CtlAdd(c)
    BY <2>0, <2>1, <1>c, AddRecedes DEF CtlAdd
  <2>2. CASE CtlDone(c) \/ CtlCancel(c)
    BY <2>0, <2>2, <1>a, <1>c, MoveRecedes DEF CtlDone, CtlCancel, StartCascade
  <2>3. CASE CtlResume(c)
    BY <2>0, <2>3, <1>a, <1>c, MoveRecedes DEF CtlResume, CtlMove
  <2>4. CASE CtlUpdate(c)
    BY <2>0, <2>4, <1>c, UpdateRecedes DEF CtlUpdate
  <2>5. CASE CtlDelete(c)
    BY <2>0, <2>5, <1>c, DeleteRecedes DEF CtlDelete
  <2>6. CASE CtlQuery(c) \/ CtlReply(c) \/ SendMessage(c)
    BY <2>0, <2>6, <1>b DEF CtlQuery, CtlReply, SendMessage, forestVars
  <2>7. ~ CtlSuspend(c)
    BY DEF CtlSuspend, CtlMove, Request
  <2> QED
    BY <1>8, <2>1, <2>2, <2>3, <2>4, <2>5, <2>6, <2>7 DEF Control
<1>9. ASSUME NEW a \in Actors, CascadeStep(a)
      PROVE  Recedes
  BY <1>9, <1>a, <1>c, MoveRecedes DEF CascadeStep, runVars
<1>10. ASSUME NEW kind, FireTrigger(kind)
       PROVE  Recedes
  BY <1>10, <1>b DEF FireTrigger, forestVars, runVars
<1>11. CASE Crash
  BY <1>11, <1>b DEF Crash, forestVars
<1>12. CASE Restart
  <2>1. Suspended' \subseteq Suspended
    BY <1>12, RestartEffect DEF Suspended, by_status
  <2> QED
    BY <1>12, <2>1, <1>c DEF Restart
<1> QED
  BY <1>2, <1>3, <1>4, <1>5, <1>6, <1>7, <1>8, <1>9, <1>10, <1>11, <1>12 DEF Next, MainLoop

LEMMA SuspendedFinite ==
    ASSUME NEW f, NEW n \in Nat, DOMAIN f \subseteq 1..n
    PROVE  /\ IsFiniteSet(by_status(f, "suspended"))
           /\ Cardinality(by_status(f, "suspended")) \in Nat
<1>1. by_status(f, "suspended") \in SUBSET (1..n)
  BY DEF by_status
<1>2. IsFiniteSet(1..n)
  BY FS_Interval
<1> QED
  BY <1>1, <1>2, FS_Subset, FS_CardinalityType

LEMMA BacklogStep ==
    ASSUME TypeInv, TypeInv', BacklogInv, [Next]_vars
    PROVE  BacklogInv'
<1> USE DEF TypeInv
<1> SUFFICES ASSUME max_suspended > 0, "suspend" \notin ControlOps
             PROVE  /\ Cardinality(Suspended') <= max_suspended
                    /\ pc' = "yield" => Cardinality(Suspended') < max_suspended
  BY DEF BacklogInv
<1>a. /\ created \in Nat /\ DOMAIN forest \subseteq 1..created
      /\ created' \in Nat /\ DOMAIN forest' \subseteq 1..created'
  BY DEF TypeOK
<1>0. /\ max_suspended \in Nat
      /\ IsFiniteSet(Suspended) /\ Cardinality(Suspended) \in Nat
      /\ IsFiniteSet(Suspended') /\ Cardinality(Suspended') \in Nat
      /\ Cardinality(Suspended) <= max_suspended
      /\ pc = "yield" => Cardinality(Suspended) < max_suspended
  BY <1>a, WorkerConstants, SuspendedFinite DEF BacklogInv, Suspended
<1>1. CASE FinishYield
  <2>1. forest' = task_transitioned(forest, task, "suspended") /\ pc = "yield" /\ pc' = "idle"
    BY <1>1 DEF FinishYield, BackToIdle
  <2>0. IsForest(forest) /\ "suspended" \in Statuses
    BY DEF TypeOK, IsForest, Statuses
  <2>2. /\ DOMAIN forest' = DOMAIN forest
        /\ \A n \in DOMAIN forest : forest'[n].status # forest[n].status => n = task
    BY <2>0, <2>1, TransitionedFacts
  <2>3. Suspended' \in SUBSET (Suspended \cup {task})
    BY <2>2 DEF Suspended, by_status
  <2>4. IsFiniteSet(Suspended \cup {task}) /\ Cardinality(Suspended \cup {task}) <= Cardinality(Suspended) + 1
    BY <1>0, FS_AddElement
  <2>5. Cardinality(Suspended') <= Cardinality(Suspended \cup {task})
    BY <2>3, <2>4, FS_Subset
  <2>6. Cardinality(Suspended \cup {task}) \in Nat
    BY <2>4, FS_CardinalityType
  <2> QED
    BY <1>0, <2>1, <2>4, <2>5, <2>6
<1>2. CASE Recedes
  <2>1. Cardinality(Suspended') <= Cardinality(Suspended)
    BY <1>0, <1>2, FS_Subset DEF Recedes
  <2>2. ~ BacklogFull => Cardinality(Suspended) < max_suspended
    BY <1>0 DEF BacklogFull, Backlog, Suspended
  <2> QED
    BY <1>0, <1>2, <2>1, <2>2 DEF Recedes
<1>3. CASE UNCHANGED vars
  BY <1>0, <1>3 DEF vars, runVars, forestVars, Suspended
<1> QED
  BY <1>1, <1>2, <1>3, BacklogKinds

\* As long as no client suspends tasks, the runs that yield keep the backlog
\* of suspended tasks within its cap, although they check it a checkpoint early.
THEOREM BacklogKept == Spec => []BacklogBounded
<1>1. Init => BacklogInv
  <2>1. Init => Suspended = {} /\ pc # "yield"
    BY DEF Init, Suspended, by_status
  <2>2. Cardinality({}) = 0 /\ max_suspended \in Nat
    BY FS_EmptySet, WorkerConstants
  <2> QED
    BY <2>1, <2>2 DEF BacklogInv
<1>2. BacklogInv => BacklogBounded
  BY DEF BacklogInv, BacklogBounded, Suspended
<1> QED
  BY <1>1, <1>2, TypeInvariant, BacklogStep, PTL DEF Spec

-----------------------------------------------------------------------------
(* No wake-up is lost *)

\* A cascade belongs to a request in flight or to the tool call of a run.
WakeInv ==
    /\ \A c \in Clients : cascade[c] # <<>> => c \in busy
    /\ cascade[Agent] # <<>> => pc = "tools"
    /\ NoLostWakeup

LEMMA WakeStep ==
    ASSUME TypeInv, WakeInv, [Next]_vars
    PROVE  WakeInv'
<1> USE DEF TypeInv
<1>0. /\ cascade \in [Actors -> Seq(TaskId)] /\ busy \subseteq Clients
      /\ queue \in Seq(Kinds) /\ Len(queue) <= QUEUE_CAPACITY
      /\ QUEUE_CAPACITY \in Nat \ {0}
      /\ Agent \in Actors /\ Agent \notin Clients /\ Clients \subseteq Actors
  BY WorkerConstants DEF TypeOK, Actors
<1>1. CASE UNCHANGED vars
  BY <1>1 DEF vars, WakeInv, NoLostWakeup
<1>2. ASSUME pc \notin {"tools", "blocked"} \/ cascade[Agent] = <<>>, UNCHANGED ctlVars,
             pc' # "blocked"
      PROVE  WakeInv'
  BY <1>2 DEF WakeInv, NoLostWakeup, ctlVars
<1>3. CASE MainLoop
  <2>1. CASE BlockOnQueue
    BY <2>1 DEF BlockOnQueue, WakeInv, NoLostWakeup, forestVars, ctlVars
  <2>2. CASE TakeTrigger \/ PickTask \/ Receive \/ PollTimeout
    <3>1. pc' # "blocked" /\ UNCHANGED ctlVars /\ pc # "tools"
      BY <2>2 DEF TakeTrigger, PickTask, Receive, PollTimeout, Handle
    <3> QED
      BY <3>1 DEF WakeInv, NoLostWakeup, ctlVars
  <2> QED
    BY <1>3, <2>1, <2>2 DEF MainLoop
<1>4. ASSUME EndRun PROVE pc' # "blocked" /\ UNCHANGED ctlVars
  BY <1>4 DEF EndRun, Outcome, BackToIdle
<1>5. CASE Run \/ Consent
  <2>1. pc' # "blocked" /\ UNCHANGED ctlVars /\ (pc # "tools" \/ cascade[Agent] = <<>>)
    BY <1>4, <1>5 DEF Run, Framed, PauseCheck, PauseGone, PauseForUser, Pause, BudgetSpent,
       Undisturbed, PreemptForTree, AskConsent, Proceed, BeginTurn, Respond, TurnEndsRun, ToolsDone,
       FinishPause, FinishYield, FinishSurface, BackToIdle, Consent, Answered, ToolAsks, Tool, ToolAnswered
  <2> QED
    BY <2>1 DEF WakeInv, NoLostWakeup, ctlVars
<1>6. CASE RunFails
  BY <1>0, <1>6 DEF RunFails, BackToIdle, WakeInv, NoLostWakeup
<1>7. CASE TaskTool
  <2>1. pc = "tools" /\ pc' = "tools" /\ busy' = busy
    BY <1>7 DEF TaskTool, ToolAdd, ToolDone, ToolCancel, ToolResume, ToolUpdate, ToolDelete,
                Tool, ToolUnchanged, runVars
  <2>2. \A c \in Clients : cascade'[c] = cascade[c]
    <3>1. CASE ToolCancel
      BY <1>0, <3>1 DEF ToolCancel, StartCascade
    <3>2. CASE UNCHANGED cascade
      BY <3>2
    <3> QED
      BY <1>7, <3>1, <3>2 DEF TaskTool, ToolAdd, ToolDone, ToolResume, ToolUpdate, ToolDelete
  <2> QED
    BY <2>1, <2>2 DEF WakeInv, NoLostWakeup
<1>8. ASSUME NEW c \in Clients, Control(c) PROVE WakeInv'
  <2>1. ASSUME NEW op, Request(c, op), pc' = pc, cascade'[Agent] = cascade[Agent],
               \A d \in Clients \ {c} : cascade'[d] = cascade[d]
        PROVE  WakeInv'
    BY <2>1 DEF Request, WakeInv, NoLostWakeup
  <2>2. CASE CtlAdd(c) \/ CtlDone(c) \/ CtlSuspend(c) \/ CtlResume(c) \/ CtlUpdate(c)
             \/ CtlDelete(c) \/ CtlQuery(c)
    <3>1. cascade' = cascade /\ pc' = pc /\ \E op : Request(c, op)
      BY <2>2 DEF CtlAdd, CtlDone, CtlSuspend, CtlResume, CtlMove, CtlUpdate, CtlDelete, CtlQuery,
                  CtlUnchanged, runVars
    <3> QED
      BY <2>1, <3>1
  <2>3. CASE CtlCancel(c)
    <3>1. pc' = pc /\ Request(c, "cancel")
      BY <2>3 DEF CtlCancel, CtlUnchanged, runVars
    <3>2. PICK t \in DOMAIN forest : StartCascade(c, t)
      BY <2>3 DEF CtlCancel
    <3>3. PICK rest : cascade' = [cascade EXCEPT ![c] = rest]
      BY <3>2 DEF StartCascade
    <3> QED
      BY <1>0, <2>1, <3>1, <3>3
  <2>4. CASE CtlReply(c)
    <3>1. queue' # <<>>
      <4>1. CASE Len(queue) < QUEUE_CAPACITY
        BY <1>0, <2>4, <4>1 DEF CtlReply
      <4>2. CASE ~ (Len(queue) < QUEUE_CAPACITY)
        <5>1. queue' = queue /\ Len(queue) # 0
          BY <1>0, <2>4, <4>2 DEF CtlReply
        <5> QED
          BY <5>1
      <4> QED
        BY <4>1, <4>2
    <3> QED
      BY <2>4, <3>1 DEF CtlReply, WakeInv, NoLostWakeup, runVars
  <2>5. CASE SendMessage(c)
    <3>1. queue' # <<>>
      BY <1>0, <2>5 DEF SendMessage
    <3> QED
      BY <2>5, <3>1 DEF SendMessage, WakeInv, NoLostWakeup, runVars, ctlVars
  <2> QED
    BY <1>8, <2>2, <2>3, <2>4, <2>5 DEF Control
<1>9. ASSUME NEW a \in Actors, CascadeStep(a) PROVE WakeInv'
  <2>1. /\ cascade[a] # <<>> /\ UNCHANGED <<pc, busy>>
        /\ cascade' = [cascade EXCEPT ![a] = Tail(cascade[a])]
    BY <1>9 DEF CascadeStep, runVars
  <2>2. \A b \in Actors : cascade'[b] # <<>> => cascade[b] # <<>>
    BY <1>0, <2>1
  <2>3. pc = "blocked" => a \in busy
    BY <1>0, <2>1 DEF WakeInv, Actors
  <2> QED
    BY <1>0, <2>1, <2>2, <2>3 DEF WakeInv, NoLostWakeup
<1>10. ASSUME NEW kind \in {"cron", "task_hatch"}, FireTrigger(kind) PROVE WakeInv'
  <2>1. queue' # <<>>
    BY <1>0, <1>10 DEF FireTrigger
  <2> QED
    BY <1>10, <2>1 DEF FireTrigger, WakeInv, NoLostWakeup, runVars, ctlVars
<1>11. CASE Crash \/ Restart
  BY <1>0, <1>11 DEF Crash, Restart, WakeInv, NoLostWakeup, ctlVars
<1> QED
  BY <1>1, <1>3, <1>5, <1>6, <1>7, <1>8, <1>9, <1>10, <1>11 DEF Next

\* The main loop never waits on an empty queue while there is a task to run and no request
\* is in flight whose reply will wake it: every change of the forest from outside comes
\* with such a request, the cancellations of a cascade included.
THEOREM WakeupsKept == Spec => []NoLostWakeup
<1>1. Init => WakeInv
  BY DEF Init, WakeInv, NoLostWakeup, Actors
<1>2. WakeInv => NoLostWakeup
  BY DEF WakeInv
<1> QED
  BY <1>1, <1>2, TypeInvariant, WakeStep, PTL DEF Spec

-----------------------------------------------------------------------------
(* The caps *)

\* The nodes of g other than x stand where they stood in f, or became roots.
Pruned(f, g, x) ==
    \A n \in DOMAIN g \ {x} :
      /\ n \in DOMAIN f /\ g[n].parent = f[n].parent
      /\ ~ is_root(g, n) => ~ is_root(f, n) /\ f[n].parent # x

LEMMA DepthShrinks ==
    ASSUME NEW f, NEW g, NEW x, WellFormed(f), WellFormed(g), Pruned(f, g, x)
    PROVE  \A n \in DOMAIN g \ {x} : depth(g, n) <= depth(f, n)
<1> DEFINE Bad == {n \in DOMAIN g \ {x} : ~ (depth(g, n) <= depth(f, n))}
<1>1. SUFFICES ASSUME Bad # {} PROVE FALSE
  OBVIOUS
<1>2. Bad \subseteq Nat
  BY IdsAreNats
<1>3. PICK n \in Bad : \A k \in Bad : n <= k
  BY <1>1, <1>2, LeastNat
<1>4. /\ n \in DOMAIN g \ {x} /\ n \in DOMAIN f /\ n \in Nat
      /\ ~ (depth(g, n) <= depth(f, n)) /\ g[n].parent = f[n].parent
  BY <1>2, <1>3 DEF Pruned
<1>5. depth(f, n) \in Nat \ {0} /\ depth(g, n) \in Nat \ {0}
  BY <1>4, DepthPositive
<1>6. depth(g, n) = IF is_root(g, n) THEN 1 ELSE 1 + depth(g, g[n].parent)
  BY <1>4, DepthUnfolds DEF Parent
<1>7. CASE is_root(g, n)
  BY <1>4, <1>5, <1>6, <1>7
<1>8. CASE ~ is_root(g, n)
  <2> DEFINE p == f[n].parent
  <2>1. ~ is_root(f, n) /\ p # x
    BY <1>4, <1>8 DEF Pruned
  <2>2. p \in DOMAIN g /\ p \in DOMAIN f /\ p \in Nat /\ p < n
    BY <1>4, <1>8, <2>1 DEF WellFormed, is_root
  <2>3. p \notin Bad
    BY <1>3, <1>4, <2>2
  <2>4. depth(g, p) <= depth(f, p)
    BY <2>1, <2>2, <2>3
  <2>5. depth(f, n) = 1 + depth(f, p)
    BY <1>4, <2>1, DepthUnfolds DEF Parent
  <2>6. depth(f, p) \in Nat /\ depth(g, p) \in Nat
    BY <2>2, DepthPositive
  <2>7. depth(g, n) = 1 + depth(g, p)
    BY <1>4, <1>6, <1>8
  <2> HIDE DEF p, Bad
  <2> QED
    BY <1>4, <2>4, <2>5, <2>6, <2>7
<1> QED
  BY <1>7, <1>8

LEMMA ChildrenFinite ==
    ASSUME NEW f, NEW n \in Nat, DOMAIN f \subseteq 1..n, NEW t
    PROVE  IsFiniteSet(children(f, t)) /\ Cardinality(children(f, t)) \in Nat
<1>1. IsFiniteSet(1..n)
  BY FS_Interval
<1>2. children(f, t) \subseteq 1..n
  BY DEF children
<1> QED
  BY <1>1, <1>2, FS_Subset, FS_CardinalityType

\* With parents older than their children, a node cannot be handed the children of
\* another, and the walk that creation_guard_error makes is the whole line of ancestors.
CapInv == OlderInv /\ CapsHold

LEMMA CapsStep ==
    ASSUME TypeOK, TypeOK', CapInv, [Next]_vars
    PROVE  CapInv'
<1> DEFINE f == forest
           g == forest'
           x == created + 1
<1>0. /\ created \in Nat /\ DOMAIN f \subseteq 1..created /\ x \in Nat
      /\ created' \in Nat /\ DOMAIN g \subseteq 1..created'
      /\ 0 \notin DOMAIN f /\ x \notin DOMAIN f /\ NoTask = 0
      /\ max_tree_depth \in Nat /\ max_fanout \in Nat
  <2>1. /\ created \in Nat /\ DOMAIN f \subseteq 1..created
        /\ created' \in Nat /\ DOMAIN g \subseteq 1..created'
    BY DEF TypeOK
  <2> HIDE DEF f, g
  <2> QED
    BY <2>1, WorkerConstants DEF NoTask
<1>1. /\ WellFormed(f) /\ OlderInv
      /\ max_tree_depth > 0 => \A t \in DOMAIN f : depth(f, t) <= max_tree_depth
      /\ max_fanout > 0 => \A t \in DOMAIN f : Cardinality(children(f, t)) <= max_fanout
  BY ForestWellFormed DEF CapInv, CapsHold
<1>2. ASSUME OlderInv' PROVE WellFormed(g)
  <2>0. TaskId \cup {NoTask} \subseteq Nat
    BY WorkerConstants DEF TaskId, NoTask
  <2>1. \A n \in DOMAIN g : forest'[n].parent \in Nat /\ forest'[n].priority \in Int
    <3>1. \A n \in DOMAIN forest' : forest'[n] \in TaskRecord(TaskId)
      BY DEF TypeOK
    <3> QED
      BY <2>0, <3>1 DEF TaskRecord
  <2> QED
    BY <1>0, <1>2, <2>1 DEF OlderInv, WellFormed
<1>3. CASE Thins
  <2>1. DOMAIN g \subseteq DOMAIN f /\ \A n \in DOMAIN g : g[n].parent = f[n].parent
    BY <1>3 DEF Thins
  <2>2. OlderInv'
    BY <1>1, <2>1 DEF OlderInv
  <2>3. WellFormed(g)
    BY <1>2, <2>2
  <2> HIDE DEF f, g, x
  <2>4. Pruned(f, g, 0)
    BY <1>0, <2>1 DEF Pruned, is_root
  <2>5. \A n \in DOMAIN g \ {0} : depth(g, n) <= depth(f, n)
    BY <1>1, <2>3, <2>4, DepthShrinks
  <2>6. \A n \in DOMAIN g : depth(g, n) <= depth(f, n) /\ n \in DOMAIN f
    BY <1>0, <2>1, <2>5
  <2>7. \A n \in DOMAIN g : depth(g, n) \in Nat /\ depth(f, n) \in Nat
    BY <1>1, <2>1, <2>3, DepthPositive
  <2>8. ASSUME NEW t \in DOMAIN g
        PROVE  Cardinality(children(g, t)) <= Cardinality(children(f, t))
    <3>1. children(g, t) \subseteq children(f, t)
      BY <2>1 DEF children
    <3>2. IsFiniteSet(children(f, t))
      BY <1>0, ChildrenFinite
    <3> QED
      BY <3>1, <3>2, FS_Subset
  <2>9. \A t \in DOMAIN g : Cardinality(children(g, t)) \in Nat /\ Cardinality(children(f, t)) \in Nat
    BY <1>0, ChildrenFinite
  <2>10. max_tree_depth > 0 => \A t \in DOMAIN g : depth(g, t) <= max_tree_depth
    BY <1>0, <1>1, <2>6, <2>7
  <2>11. max_fanout > 0 => \A t \in DOMAIN g : Cardinality(children(g, t)) <= max_fanout
    BY <1>0, <1>1, <2>1, <2>8, <2>9
  <2> QED
    BY <2>2, <2>10, <2>11 DEF CapInv, CapsHold, g
<1>4. ASSUME NEW p \in DOMAIN f \cup {NoTask}, Grows(p) PROVE CapInv'
  <2>1. /\ DOMAIN g = DOMAIN f \cup {x} /\ g[x].parent = p
        /\ \A n \in DOMAIN f : g[n].parent = f[n].parent
        /\ ~ creation_guard_error(f, p, max_tree_depth, max_fanout)
    BY <1>4 DEF Grows
  <2>2. p \in Nat /\ p < x /\ p # x
    BY <1>0
  <2>3. \A n \in DOMAIN f : f[n].parent < n /\ n \in Nat /\ n < x /\ f[n].parent \in Nat
    BY <1>0, <1>1 DEF WellFormed
  <2>4. OlderInv'
    BY <2>1, <2>2, <2>3 DEF OlderInv
  <2>5. WellFormed(g)
    BY <1>2, <2>4
  <2> HIDE DEF f, g, x
  <2>6. Pruned(f, g, x)
    <3> SUFFICES ASSUME NEW n \in DOMAIN g \ {x}
                 PROVE  /\ n \in DOMAIN f /\ g[n].parent = f[n].parent
                        /\ ~ is_root(g, n) => ~ is_root(f, n) /\ f[n].parent # x
      BY DEF Pruned
    <3>1. n \in DOMAIN f /\ g[n].parent = f[n].parent
      BY <2>1
    <3>2. f[n].parent # x
      BY <1>0, <2>3, <3>1
    <3> QED
      BY <2>1, <3>1, <3>2 DEF is_root
  <2>7. \A n \in DOMAIN f : depth(g, n) <= depth(f, n)
    <3>1. \A n \in DOMAIN g \ {x} : depth(g, n) <= depth(f, n)
      BY <1>1, <2>5, <2>6, DepthShrinks
    <3> QED
      BY <1>0, <2>1, <3>1
  <2>8. /\ \A n \in DOMAIN g : depth(g, n) \in Nat
        /\ \A n \in DOMAIN f : depth(f, n) \in Nat
    BY <1>1, <2>5, DepthPositive
  <2>9. p \in DOMAIN f =>
          /\ max_tree_depth > 0 => depth(f, p) + 1 <= max_tree_depth
          /\ max_fanout > 0 => Cardinality(children(f, p)) < max_fanout
    <3>1. Cardinality(children(f, p)) \in Nat
      BY <1>0, ChildrenFinite
    <3> QED
      BY <1>0, <2>1, <2>8, <3>1 DEF creation_guard_error
  <2>10. x \in DOMAIN g /\ (max_tree_depth > 0 => depth(g, x) <= max_tree_depth)
    <3>1. x \in DOMAIN g
      BY <2>1
    <3>2. depth(g, x) = IF is_root(g, x) THEN 1 ELSE 1 + depth(g, p)
      BY <2>1, <2>5, <3>1, DepthUnfolds DEF Parent
    <3>3. CASE is_root(g, x)
      BY <1>0, <3>1, <3>2, <3>3
    <3>4. CASE ~ is_root(g, x)
      <4>1. p \in DOMAIN f
        BY <2>1, <2>2, <3>4 DEF is_root
      <4>2. depth(g, p) <= depth(f, p) /\ depth(g, p) \in Nat /\ depth(f, p) \in Nat
        BY <2>1, <2>7, <2>8, <4>1
      <4> QED
        BY <1>0, <2>9, <3>1, <3>2, <3>4, <4>1, <4>2
    <3> QED
      BY <3>3, <3>4
  <2>11. max_tree_depth > 0 => \A t \in DOMAIN g : depth(g, t) <= max_tree_depth
    <3>1. ASSUME max_tree_depth > 0, NEW t \in DOMAIN f PROVE depth(g, t) <= max_tree_depth
      <4>1. depth(g, t) <= depth(f, t) /\ depth(f, t) <= max_tree_depth
        BY <1>1, <2>7, <3>1
      <4>2. depth(g, t) \in Nat /\ depth(f, t) \in Nat
        BY <2>1, <2>8
      <4> QED
        BY <1>0, <4>1, <4>2
    <3> QED
      BY <2>1, <2>10, <3>1
  <2>12. max_fanout > 0 => \A t \in DOMAIN g : Cardinality(children(g, t)) <= max_fanout
    <3> SUFFICES ASSUME max_fanout > 0, NEW t \in DOMAIN g
                 PROVE  Cardinality(children(g, t)) <= max_fanout
      OBVIOUS
    <3>1. CASE t = x
      <4>1. children(g, t) = {}
        BY <2>1, <2>2, <2>3, <3>1 DEF children
      <4> QED
        BY <1>0, <4>1, FS_EmptySet
    <3>2. CASE t \in DOMAIN f /\ t # p
      <4>1. children(g, t) = children(f, t)
        BY <1>0, <2>1, <3>2 DEF children
      <4> QED
        BY <1>1, <3>2, <4>1
    <3>3. CASE t \in DOMAIN f /\ t = p
      <4>1. children(g, t) = children(f, t) \cup {x} /\ x \notin children(f, t)
        BY <1>0, <2>1, <3>3 DEF children
      <4>2. IsFiniteSet(children(f, t)) /\ Cardinality(children(f, t)) \in Nat
        BY <1>0, ChildrenFinite
      <4>3. Cardinality(children(g, t)) = Cardinality(children(f, t)) + 1
        BY <4>1, <4>2, FS_AddElement
      <4> QED
        BY <1>0, <2>9, <3>3, <4>2, <4>3
    <3> QED
      BY <2>1, <3>1, <3>2, <3>3
  <2> QED
    BY <2>4, <2>11, <2>12 DEF CapInv, CapsHold, g
<1> QED
  BY <1>3, <1>4, ThinsOrGrows

\* No tree is ever deeper, and no node ever has more children, than its cap allows,
\* whoever adds tasks and however deletions make roots of orphans meanwhile.
THEOREM CapsKept == Spec => []CapsHold
<1>1. Init => CapInv
  BY DEF Init, CapInv, OlderInv, CapsHold
<1>2. TypeOK /\ TypeOK' /\ CapInv /\ [Next]_vars => CapInv'
  BY CapsStep
<1>3. CapInv => CapsHold
  BY DEF CapInv
<1> QED
  BY <1>1, <1>2, <1>3, TypeCorrect, PTL DEF Spec

-----------------------------------------------------------------------------
(* TaskWorker implements TaskLifecycle: every step of the worker, seen     *)
(* through the life of each task and the results told, is one step in the  *)
(* life of one task, or none at all.                                       *)

\* Only one task is active, also while the worker is down.
OneActive ==
    \A t, u \in DOMAIN forest :
      forest[t].status = "active" /\ forest[u].status = "active" => t = u

LEMMA OneActiveStep ==
    ASSUME TypeInv, RunInv, ActiveIsRunning, OneActive, ~ RunsCanFail, [Next]_vars
    PROVE  OneActive'
<1> USE DEF TypeInv
<1>1. CASE Event
  BY <1>1, EventForest DEF Effect, OneActive
<1>2. CASE PickTask
  <2>1. \A t \in DOMAIN forest : forest[t].status # "active"
    BY <1>2 DEF PickTask, ActiveIsRunning, TaskPCs
  <2> QED
    BY <1>2, <2>1, PickTaskEffect DEF OneActive
<1>3. CASE Restart
  <2>1. \A t \in DOMAIN forest' : forest'[t].status # "active"
    BY <1>3, RestartEffect
  <2> QED
    BY <2>1 DEF OneActive
<1>4. CASE UNCHANGED vars
  BY <1>4 DEF vars, OneActive
<1> QED
  BY <1>1, <1>2, <1>3, <1>4, StepEvent

-----------------------------------------------------------------------------
(* Steps seen through the mapping *)

LEMMA SameLife ==
    ASSUME TypeOK, UNCHANGED created, DOMAIN forest' = DOMAIN forest,
           \A n \in DOMAIN forest : forest'[n].status = forest[n].status
    PROVE  life' = life
  BY DEF life

\* One node moves from one status to another.
LEMMA OneMove ==
    ASSUME TypeOK, UNCHANGED <<created, results>>, DOMAIN forest' = DOMAIN forest,
           NEW t \in DOMAIN forest, NEW to, forest'[t].status = to,
           \A n \in DOMAIN forest \ {t} : forest'[n].status = forest[n].status
    PROVE  t \in TaskId /\ life[t] = forest[t].status /\ Lifecycle!Move(t, to)
<1>1. t \in TaskId
  BY WorkerConstants DEF TypeOK, TaskId
<1>2. life' = [life EXCEPT ![t] = to]
  BY <1>1 DEF life
<1> QED
  BY <1>1, <1>2 DEF life, Lifecycle!Move

LEMMA TransitionIsLifeStep ==
    ASSUME TypeOK, NEW t, NEW to \in Statuses \ {"active"}, UNCHANGED <<created, results>>,
           forest' = task_transitioned(forest, t, to)
    PROVE  [Lifecycle!Next]_Lifecycle!vars
<1>1. IsForest(forest) /\ to \in Statuses
  BY DEF TypeOK, IsForest
<1>2. /\ DOMAIN forest' = DOMAIN forest
      /\ \A n \in DOMAIN forest :
           /\ forest'[n].status # forest[n].status => n = t /\ forest'[n].status = to
           /\ is_terminal(forest[n].status) => forest'[n].status = forest[n].status
  BY <1>1, TransitionedFacts
<1>3. CASE \A n \in DOMAIN forest : forest'[n].status = forest[n].status
  BY <1>2, <1>3, SameLife DEF Lifecycle!vars
<1>4. CASE t \in DOMAIN forest /\ forest'[t].status # forest[t].status
  <2>1. t \in TaskId /\ life[t] = forest[t].status /\ Lifecycle!Move(t, to)
    BY <1>2, <1>4, OneMove
  <2>2. forest[t].status \in Statuses /\ ~ is_terminal(forest[t].status)
    BY <1>1, <1>2, <1>4 DEF IsForest, TaskRecord
  <2>3. life[t] \in Lifecycle!Live
    BY <2>1, <2>2 DEF Statuses, is_terminal, Terminal, Lifecycle!Live
  <2>4. to \in (Lifecycle!Live \ {"active"}) \cup Lifecycle!Finished
    BY DEF Statuses, Lifecycle!Live, Lifecycle!Finished
  <2>5. Lifecycle!Park(t) \/ Lifecycle!Finish(t)
    BY <2>1, <2>3, <2>4 DEF Lifecycle!Park, Lifecycle!Finish
  <2> QED
    BY <2>1, <2>5 DEF Lifecycle!Next
<1> QED
  BY <1>2, <1>3, <1>4

LEMMA EventIsLifeStep ==
    ASSUME TypeOK, Event, UNCHANGED results
    PROVE  [Lifecycle!Next]_Lifecycle!vars
<1>0. /\ IsForest(forest) /\ created \in Nat /\ DOMAIN forest \subseteq 1..created
      /\ TaskId = 1..MaxTasks /\ MaxTasks \in Nat /\ NoTask = 0
      /\ \A t \in DOMAIN forest : t \in TaskId
  BY WorkerConstants DEF TypeOK, TaskId, NoTask, IsForest
<1>1. CASE UNCHANGED forestVars
  BY <1>1 DEF forestVars, life, Lifecycle!vars
<1>2. ASSUME NEW parent \in DOMAIN forest \cup {NoTask}, NEW priority \in Int,
             NEW origin \in Origins, Create(parent, priority, origin)
      PROVE  [Lifecycle!Next]_Lifecycle!vars
  <2>1. PICK t \in TaskId : t = created + 1 /\ t \notin DOMAIN forest /\ created' = t
    BY <1>0, <1>2 DEF Create
  <2>2. parent \in TaskId \cup {NoTask}
    BY <1>0
  <2>3. forest' = task_created(forest, t, parent, priority, origin)
    BY <1>2, <2>1 DEF Create
  <2>4. /\ DOMAIN forest' = DOMAIN forest \cup {t}
        /\ forest'[t] = [parent |-> parent, status |-> "pending",
                         priority |-> priority, origin |-> origin]
        /\ \A n \in DOMAIN forest : forest'[n] = forest[n]
    <3>1. IsForest(forest) /\ t \in TaskId /\ t \notin DOMAIN forest
      BY <1>0, <2>1
    <3> QED
      BY <2>2, <2>3, <3>1, CreatedFacts
  <2>5. (\A n \in TaskId \ {t} : n <= created' <=> n <= created) /\ ~ (t <= created)
    BY <1>0, <2>1
  <2>6. ASSUME NEW n \in TaskId
        PROVE  life'[n] = IF n = t THEN "pending" ELSE life[n]
    <3>1. life'[n] = IF n \in DOMAIN forest' THEN forest'[n].status
                     ELSE IF n <= created' THEN "deleted" ELSE "absent"
      BY DEF life
    <3>2. CASE n = t
      BY <2>4, <3>1, <3>2
    <3>3. CASE n # t
      BY <2>4, <2>5, <3>1, <3>3 DEF life
    <3> QED
      BY <3>2, <3>3
  <2>7. life' = [life EXCEPT ![t] = "pending"] /\ life[t] = "absent"
    BY <2>1, <2>5, <2>6 DEF life
  <2>8. Lifecycle!Create(t)
    BY <2>7 DEF Lifecycle!Create, Lifecycle!Move
  <2> QED
    BY <2>1, <2>8 DEF Lifecycle!Next
<1>3. ASSUME NEW t, NEW to \in Statuses \ {"active"},
             forest' = task_transitioned(forest, t, to), UNCHANGED created
      PROVE  [Lifecycle!Next]_Lifecycle!vars
  BY <1>3, TransitionIsLifeStep
<1>4. ASSUME NEW t \in DOMAIN forest, NEW priority \in Int,
             forest' = task_updated(forest, t, priority), UNCHANGED created
      PROVE  [Lifecycle!Next]_Lifecycle!vars
  <2>1. /\ DOMAIN forest' = DOMAIN forest
        /\ \A n \in DOMAIN forest : forest'[n].status = forest[n].status
    BY <1>0, <1>4, UpdatedFacts
  <2> QED
    BY <1>4, <2>1, SameLife DEF Lifecycle!vars
<1>5. ASSUME NEW t, forest' = task_deleted(forest, t), UNCHANGED created
      PROVE  [Lifecycle!Next]_Lifecycle!vars
  <2>1. /\ DOMAIN forest' = DOMAIN forest \ {t}
        /\ \A n \in DOMAIN forest' : forest'[n] = forest[n]
    BY <1>0, <1>5, DeletedFacts
  <2>2. CASE t \notin DOMAIN forest
    BY <1>5, <2>1, <2>2 DEF life, Lifecycle!vars
  <2>3. CASE t \in DOMAIN forest
    <3>1. t \in TaskId /\ t <= created
      BY <1>0, <2>3
    <3>2. life' = [life EXCEPT ![t] = "deleted"] /\ life[t] = forest[t].status
      BY <1>5, <2>1, <2>3, <3>1 DEF life
    <3>3. forest[t].status \in Statuses
      BY <1>0, <2>3 DEF IsForest, TaskRecord
    <3>4. Lifecycle!Delete(t)
      BY <3>2, <3>3 DEF Lifecycle!Delete, Lifecycle!Move, Lifecycle!Live, Lifecycle!Finished, Statuses
    <3> QED
      BY <3>1, <3>4 DEF Lifecycle!Next
  <2> QED
    BY <2>2, <2>3
<1> QED
  BY <1>1, <1>2, <1>3, <1>4, <1>5 DEF Event

\* Telling a result is one Tell of the abstract life, or nothing.
LEMMA TellIsLifeStep ==
    ASSUME TypeOK, TellInv, Tells
    PROVE  [Lifecycle!Next]_Lifecycle!vars
<1>1. /\ UNCHANGED <<forest, created>> /\ life' = life
      /\ task \in TaskId /\ results \in [TaskId -> Nat]
  BY DEF TypeOK, Tells, forestVars, life
<1>2. CASE task \in DOMAIN forest /\ forest[task].parent = NoTask
  <2>1. results' = [results EXCEPT ![task] = 1]
    BY <1>1, <1>2 DEF Tells, Surface, TellInv
  <2>2. life[task] \in Lifecycle!Finished
    BY <1>1, <1>2 DEF Tells, TaskGone, is_terminal, Terminal, life, Lifecycle!Finished
  <2>3. results[task] = 0
    BY <1>2 DEF Tells, TellInv
  <2>4. Lifecycle!Tell(task)
    BY <1>1, <2>1, <2>2, <2>3 DEF Lifecycle!Tell
  <2> QED
    BY <1>1, <2>4 DEF Lifecycle!Next
<1>3. CASE ~ (task \in DOMAIN forest /\ forest[task].parent = NoTask)
  BY <1>1, <1>3 DEF Tells, Surface, Lifecycle!vars
<1> QED
  BY <1>2, <1>3

LEMMA PickTaskIsLifeStep ==
    ASSUME TypeOK, ActiveIsRunning, ~ RunsCanFail, PickTask
    PROVE  [Lifecycle!Next]_Lifecycle!vars
<1>1. UNCHANGED <<created, results>> /\ pc = "idle"
  BY DEF PickTask
<1>2. PICK t \in DOMAIN forest :
        /\ task' = t /\ forest[t].status \in {"pending", "blocked"}
        /\ forest'[t].status = "active"
        /\ DOMAIN forest' = DOMAIN forest
        /\ \A n \in DOMAIN forest \ {t} : forest'[n].status = forest[n].status
  BY PickTaskEffect
<1>3. t \in TaskId /\ life[t] = forest[t].status /\ Lifecycle!Move(t, "active")
  BY <1>1, <1>2, OneMove
<1>4. \A n \in DOMAIN forest : forest[n].status # "active"
  BY <1>1 DEF ActiveIsRunning, TaskPCs
<1>5. \A u \in TaskId : life[u] # "active"
  BY <1>4 DEF life
<1>6. Lifecycle!Start(t)
  BY <1>2, <1>3, <1>5 DEF Lifecycle!Start
<1> QED
  BY <1>3, <1>6 DEF Lifecycle!Next

\* Crash recovery parks the one task that was active, if any.
LEMMA RestartIsLifeStep ==
    ASSUME TypeOK, OneActive, Restart
    PROVE  [Lifecycle!Next]_Lifecycle!vars
<1>1. UNCHANGED <<created, results>>
  BY DEF Restart
<1>2. /\ DOMAIN forest' = DOMAIN forest
      /\ \A n \in DOMAIN forest :
           forest'[n].status = IF forest[n].status = "active" THEN "pending" ELSE forest[n].status
  BY RestartEffect
<1>3. CASE \A n \in DOMAIN forest : forest[n].status # "active"
  BY <1>1, <1>2, <1>3, SameLife DEF Lifecycle!vars
<1>4. ASSUME NEW t \in DOMAIN forest, forest[t].status = "active"
      PROVE  [Lifecycle!Next]_Lifecycle!vars
  <2>1. \A n \in DOMAIN forest \ {t} : forest'[n].status = forest[n].status
    BY <1>2, <1>4 DEF OneActive
  <2>2. t \in TaskId /\ life[t] = "active" /\ Lifecycle!Move(t, "pending")
    BY <1>1, <1>2, <1>4, <2>1, OneMove
  <2>3. Lifecycle!Park(t)
    BY <2>2 DEF Lifecycle!Park, Lifecycle!Live
  <2> QED
    BY <2>2, <2>3 DEF Lifecycle!Next
<1> QED
  BY <1>3, <1>4

-----------------------------------------------------------------------------

RefinementInv == TypeInv /\ RunInv /\ ActiveIsRunning /\ TellInv /\ OneActive

LEMMA StepIsLifeStep ==
    ASSUME RefinementInv, ~ RunsCanFail, [Next]_vars
    PROVE  [Lifecycle!Next]_Lifecycle!vars
<1> USE DEF RefinementInv, TypeInv
<1>1. CASE GoesOn \/ Stops
  BY <1>1, EventIsLifeStep DEF GoesOn, Stops
<1>2. CASE Tells
  BY <1>2, TellIsLifeStep
<1>3. CASE Crash
  BY <1>3 DEF Crash, forestVars, life, Lifecycle!vars
<1>4. CASE PickTask
  BY <1>4, PickTaskIsLifeStep
<1>5. CASE Restart
  BY <1>5, RestartIsLifeStep
<1>6. CASE UNCHANGED vars
  BY <1>6 DEF vars, life, Lifecycle!vars
<1> QED
  BY <1>1, <1>2, <1>3, <1>4, <1>5, <1>6, StepKinds DEF Fails

\* The worker keeps to the life of a task: it starts one at a time and only
\* what waits for the scheduler, never takes back an end, and tells a result
\* once after it, unless an exception escapes from a run.
THEOREM Refinement ==
    ASSUME ~ RunsCanFail
    PROVE  Spec => KeepsLifecycle
<1>1. Init => Lifecycle!Init
  BY DEF Init, Lifecycle!Init, life
<1>2. Init => OneActive
  BY DEF Init, OneActive
<1>3. TypeInv /\ RunInv /\ ActiveIsRunning /\ OneActive /\ [Next]_vars => OneActive'
  BY OneActiveStep
<1>4. RefinementInv /\ [Next]_vars => [Lifecycle!Next]_Lifecycle!vars
  BY StepIsLifeStep
<1>5. Spec => []RefinementInv
  <2>1. Spec => []OneActive
    BY <1>2, <1>3, TypeInvariant, RunInvariant, Serial, PTL DEF Spec
  <2> QED
    BY <2>1, TypeInvariant, RunInvariant, Serial, TellInvariant, PTL DEF RefinementInv
<1> QED
  BY <1>1, <1>4, <1>5, PTL DEF Spec, KeepsLifecycle, Lifecycle!Spec
=============================================================================
