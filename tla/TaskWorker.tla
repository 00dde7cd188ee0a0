------------------------------ MODULE TaskWorker ------------------------------
(***************************************************************************)
(* The compute core and the control plane of one worker (worker/main.py).  *)
(*                                                                         *)
(* _main_loop is a single coroutine that alternates between chat turns and *)
(* task-scoped runs; IPC connections, one coroutine per client, add,       *)
(* change and delete tasks and queue messages while a run is in progress;  *)
(* the cron scheduler queues triggers.  Coroutines switch only at an       *)
(* await, so a step below is the code between two awaits.  Every task      *)
(* event is committed to the event log and reduced into the forest before  *)
(* the await that broadcasts it: the forest survives a crash, everything   *)
(* else is lost with the process.                                          *)
(***************************************************************************)
EXTENDS TaskScheduler

CONSTANTS
    Clients,               \* IPC connections
    MaxTasks,              \* bound on the tasks ever created
    Priorities,            \* the root priorities anyone asks for
    max_steps_per_run,     \* runtime.max_steps_per_run
    QUEUE_CAPACITY,        \* of the trigger queue
    max_tree_depth, max_fanout, max_suspended,   \* anti-runaway caps, 0 = off
    per_task_budget,       \* TRUE iff per_task_budget_tokens is set
    preempt,               \* "off", "ask" or "auto_by_priority"
    ControlOps,            \* the requests the clients send
    AgentOps,              \* the task-tool actions the model calls; "ask": calls that need
                           \* the user's consent
    RunsCanFail,           \* an exception may escape from a run
    WorkerCanCrash         \* the process may be killed, and is then restarted

TaskId == 1..MaxTasks
Agent  == "agent"          \* the tool call of the run itself, as a cascade's actor
Actors == Clients \cup {Agent}

ASSUME WorkerConstants ==
    /\ MaxTasks \in Nat /\ Priorities \subseteq Int
    /\ max_steps_per_run \in Nat \ {0} /\ QUEUE_CAPACITY \in Nat \ {0}
    /\ max_tree_depth \in Nat /\ max_fanout \in Nat /\ max_suspended \in Nat
    /\ per_task_budget \in BOOLEAN /\ RunsCanFail \in BOOLEAN /\ WorkerCanCrash \in BOOLEAN
    /\ preempt \in {"off", "ask", "auto_by_priority"}
    /\ Agent \notin Clients

VARIABLES
    forest,              \* runtime.task_forest
    created,             \* tasks minted so far; the next id is created + 1
    results,             \* per task, the <task_result> envelopes recorded in chat
    pc,                  \* where the compute core is, see PC
    task,                \* the task of the current run, NoTask in a chat turn
    steps,               \* turns begun in the current run
    turn_origin,         \* runtime.turn_origin
    queue,               \* kinds of the queued TriggerItems
    pending_interactive, \* runtime.pending_interactive
    cascade,             \* per actor, the cancellations its request has yet to record
    busy                 \* clients whose task.* request is not answered yet

forestVars == <<forest, created>>
runVars    == <<pc, task, steps, turn_origin>>
queueVars  == <<queue, pending_interactive>>
ctlVars    == <<cascade, busy>>
vars       == <<forest, created, results, pc, task, steps, turn_origin,
                queue, pending_interactive, cascade, busy>>

\* idle     between two beats          blocked  waiting on the empty queue
\* framing  activated, trace pending   check    pause_check at a turn boundary
\* asking   awaiting preempt consent   turn     awaiting the model
\* tools    executing its tool calls   consent  a tool call awaits the user's answer
\* pause    checkpoint, to re-queue    yield    checkpoint before suspend
\* surface  cancelled, to be told      down     no process
PC == {"idle", "blocked", "framing", "check", "asking", "turn", "tools", "consent",
       "pause", "yield", "surface", "down"}
TaskPCs == {"framing", "check", "asking", "turn", "tools", "consent", "pause", "yield",
            "surface"}

Kinds == {"interactive", "cron", "task_hatch", "task_wake"}

TypeOK ==
    /\ created \in 0..MaxTasks
    /\ DOMAIN forest \subseteq 1..created
    /\ forest \in [DOMAIN forest -> TaskRecord(TaskId)]
    /\ results \in [TaskId -> Nat]
    /\ pc \in PC
    /\ task \in TaskId \cup {NoTask}
    /\ steps \in 0..max_steps_per_run
    /\ turn_origin \in Origins
    /\ queue \in Seq(Kinds) /\ Len(queue) <= QUEUE_CAPACITY
    /\ pending_interactive \in Nat
    /\ cascade \in [Actors -> Seq(TaskId)]
    /\ busy \subseteq Clients

Init ==
    /\ forest = <<>> /\ created = 0
    /\ results = [t \in TaskId |-> 0]
    /\ pc = "idle" /\ task = NoTask /\ steps = 0 /\ turn_origin = "user"
    /\ queue = <<>> /\ pending_interactive = 0
    /\ cascade = [a \in Actors |-> <<>>] /\ busy = {}

-----------------------------------------------------------------------------
(* Creating a task: the part shared by the tool, the control plane and a   *)
(* hatching trigger.                                                       *)

Create(parent, priority, origin) ==
    /\ created < MaxTasks
    /\ forest' = task_created(forest, created + 1, parent, priority, origin)
    /\ created' = created + 1

\* Mutant: a subtask keeps the priority asked for.
AddTaskWeighted(parent, priority, root_origin) ==
    /\ ~ creation_guard_error(forest, parent, max_tree_depth, max_fanout)
    /\ Create(parent, priority, IF parent = NoTask THEN root_origin ELSE "agent")

\* A subtask carries no priority and is attributed to the agent.
AddTask(parent, priority, root_origin) ==
    /\ ~ creation_guard_error(forest, parent, max_tree_depth, max_fanout)
    /\ IF parent = NoTask THEN Create(parent, priority, root_origin)
       ELSE Create(parent, 0, "agent")

\* Cancelling t: the live subtree in pre-order, then t, one record each.  The
\* first is recorded in the step that computed the list.
StartCascade(a, t) ==
    LET doomed == live_descendants(forest, t) \o <<t>>
    IN  /\ forest' = task_transitioned(forest, Head(doomed), "cancelled")
        /\ cascade' = [cascade EXCEPT ![a] = Tail(doomed)]

CascadeStep(a) ==
    /\ cascade[a] # <<>>
    /\ forest' = task_transitioned(forest, Head(cascade[a]), "cancelled")
    /\ cascade' = [cascade EXCEPT ![a] = Tail(@)]
    /\ UNCHANGED <<created, results, runVars, queueVars, busy>>

-----------------------------------------------------------------------------
(* The main loop between runs *)

IsTrigger(kind) == kind # "task_wake"
NoTrigger == \A i \in DOMAIN queue : ~ IsTrigger(queue[i])

BackToIdle ==
    /\ pc' = "idle" /\ task' = NoTask /\ steps' = 0 /\ turn_origin' = "user"

\* The interactive-interrupt mark this item satisfies.
KeepMark(kind) == UNCHANGED pending_interactive   \* mutant: it is never cleared
ClearMark(kind) ==
    pending_interactive' = IF kind = "interactive" /\ pending_interactive > 0
                           THEN pending_interactive - 1 ELSE pending_interactive

\* The beat for one dequeued item.
Handle(kind) ==
    \/ /\ kind = "task_wake"
       /\ pc' = "idle"
       /\ UNCHANGED <<forestVars, task, steps, turn_origin, pending_interactive>>
    \/ /\ kind = "task_hatch"        \* _hatch_task; an empty template is skipped
       /\ pc' = "idle"
       /\ \/ \E p \in Priorities : Create(NoTask, p, "trigger")
          \/ UNCHANGED forestVars
       /\ UNCHANGED <<task, steps, turn_origin, pending_interactive>>
    \/ /\ kind \in {"interactive", "cron"}
       /\ pc' = "turn" /\ steps' = 1
       /\ turn_origin' = IF kind = "interactive" THEN "user" ELSE "trigger"
       /\ ClearMark(kind)
       /\ UNCHANGED <<forestVars, task>>

\* _try_receive: wakes before the first real item are dropped with it.
TakeTrigger ==
    /\ pc = "idle"
    /\ \E i \in DOMAIN queue :
         /\ IsTrigger(queue[i]) /\ \A j \in 1..(i - 1) : ~ IsTrigger(queue[j])
         /\ queue' = SubSeq(queue, i + 1, Len(queue))
         /\ Handle(queue[i])
    /\ UNCHANGED <<results, ctlVars>>

\* Mutant: task work goes first, triggers wait.
PickTaskFirst ==
    /\ pc = "idle"
    /\ \E t \in {n \in DOMAIN forest : workable(forest, n)} :
         /\ t = next_runnable(forest, NoTask)
         /\ forest' = task_transitioned(forest, t, "active")
         /\ task' = t
    /\ pc' = "framing"
    /\ UNCHANGED <<created, results, steps, turn_origin, queueVars, ctlVars>>

\* No trigger is queued: the scheduler's choice is activated.
PickTask ==
    /\ pc = "idle" /\ NoTrigger
    /\ \E t \in {n \in DOMAIN forest : workable(forest, n)} :
         /\ t = next_runnable(forest, NoTask)
         /\ forest' = task_transitioned(forest, t, "active")
         /\ task' = t
    /\ pc' = "framing" /\ queue' = <<>>
    /\ UNCHANGED <<created, results, steps, turn_origin, pending_interactive, ctlVars>>

BlockOnQueue ==
    /\ pc = "idle" /\ NoTrigger
    /\ next_runnable(forest, NoTask) = NoTask
    /\ pc' = "blocked" /\ queue' = <<>>
    /\ UNCHANGED <<forestVars, results, task, steps, turn_origin, pending_interactive, ctlVars>>

Receive ==
    /\ pc = "blocked" /\ queue # <<>>
    /\ queue' = Tail(queue)
    /\ Handle(Head(queue))
    /\ UNCHANGED <<results, ctlVars>>

\* SCHED_POLL_S elapsed with nothing received.
PollTimeout ==
    /\ pc = "blocked" /\ queue = <<>>
    /\ pc' = "idle"
    /\ UNCHANGED <<forestVars, results, task, steps, turn_origin, queueVars, ctlVars>>

-----------------------------------------------------------------------------
(* A task-scoped run: _run_task around _run_until_end *)

\* _ensure_framing awaits a model on the first dispatch and records a text no scheduling
\* decision reads; then the kickoff prompt, and the scope of the run is installed.
Framed ==
    /\ pc = "framing"
    /\ pc' = "check" /\ turn_origin' = "agent"
    /\ UNCHANGED <<forestVars, results, task, steps, queueVars, ctlVars>>

TaskGone == task \in DOMAIN forest => is_terminal(forest[task].status)

\* Mutant: the result of a subtask is told as well.
SurfaceAny ==
    results' = IF task \in DOMAIN forest
               THEN [results EXCEPT ![task] = @ + 1] ELSE results

\* _surface_root_result
Surface ==
    results' = IF task \in DOMAIN forest /\ forest[task].parent = NoTask
               THEN [results EXCEPT ![task] = @ + 1] ELSE results

Backlog == Cardinality(by_status(forest, "suspended"))
BacklogFullLate == max_suspended > 0 /\ Backlog > max_suspended   \* mutant: off by one
BacklogFull == max_suspended > 0 /\ Backlog >= max_suspended

\* The run of a task is over and was not paused: classify_post_run.
Outcome ==
    LET outcome == classify_post_run(forest, task)
    IN  \/ outcome = "gone" /\ BackToIdle /\ UNCHANGED <<forest, results>>
        \/ outcome = "done" /\ BackToIdle /\ Surface /\ UNCHANGED forest
        \/ /\ outcome = "decomposed"
           /\ forest' = task_transitioned(forest, task, "blocked")
           /\ BackToIdle /\ UNCHANGED results
        \/ /\ outcome = "yielded" /\ BacklogFull
           /\ forest' = task_transitioned(forest, task, "cancelled")
           /\ pc' = "surface" /\ UNCHANGED <<task, steps, turn_origin, results>>
        \/ /\ outcome = "yielded" /\ ~ BacklogFull
           /\ pc' = "yield" /\ UNCHANGED <<task, steps, turn_origin, forest, results>>

EndRun ==
    /\ IF task = NoTask THEN BackToIdle /\ UNCHANGED <<forest, results>> ELSE Outcome
    /\ UNCHANGED <<created, queueVars, ctlVars>>

\* The cases of pause_check, in its order.  The first: the task was cancelled,
\* finished or deleted, and the run just stops.
PauseGone ==
    /\ pc = "check" /\ TaskGone
    /\ BackToIdle
    /\ UNCHANGED <<forestVars, results, queueVars, ctlVars>>

Pause ==
    /\ pc' = "pause"
    /\ UNCHANGED <<forestVars, results, task, steps, turn_origin, queueVars, ctlVars>>

PauseForUser == pc = "check" /\ ~ TaskGone /\ pending_interactive > 0 /\ Pause

BudgetSpent ==
    /\ pc = "check" /\ ~ TaskGone /\ pending_interactive = 0
    /\ per_task_budget
    /\ EndRun

Undisturbed == pc = "check" /\ ~ TaskGone /\ pending_interactive = 0
Contender   == preemptor(forest, task)
ByUser      == forest[root_of(forest, Contender)].origin = "user"

PreemptForTree ==
    /\ Undisturbed /\ Contender # NoTask
    /\ ByUser \/ preempt = "auto_by_priority"
    /\ Pause

AskConsent ==
    /\ Undisturbed /\ Contender # NoTask
    /\ ~ ByUser /\ preempt = "ask"
    /\ pc' = "asking"
    /\ UNCHANGED <<forestVars, results, task, steps, turn_origin, queueVars, ctlVars>>

BeginTurn ==
    /\ pc' = "turn" /\ steps' = steps + 1
    /\ UNCHANGED <<forestVars, results, task, turn_origin, queueVars, ctlVars>>

\* No contender, or an agent's tree with preemption off or within the cooldown.
Proceed == Undisturbed /\ (Contender # NoTask => ~ ByUser) /\ BeginTurn

\* The answer is applied to the task as it was when the question was asked.
Answered == pc = "asking" /\ (Pause \/ BeginTurn)

\* The stream of the model's reply has ended with tool calls, or the run ends:
\* no tool calls, or an error of the provider.
Respond ==
    /\ pc = "turn" /\ pc' = "tools"
    /\ UNCHANGED <<forestVars, results, task, steps, turn_origin, queueVars, ctlVars>>

TurnEndsRun == pc = "turn" /\ EndRun

\* All tool calls of the turn are executed: the next turn, or the step limit
\* (or the third turn in a row with malformed arguments) ends the run.
ToolsDone ==
    /\ pc = "tools" /\ cascade[Agent] = <<>>
    /\ \/ /\ steps < max_steps_per_run
          /\ IF task = NoTask THEN BeginTurn
             ELSE /\ pc' = "check"
                  /\ UNCHANGED <<forestVars, results, task, steps, turn_origin,
                                 queueVars, ctlVars>>
       \/ (steps = max_steps_per_run \/ steps >= 3) /\ EndRun

\* Mutant: a paused task is not re-queued.
FinishPauseNoRequeue ==
    /\ pc = "pause"
    /\ BackToIdle
    /\ UNCHANGED <<forestVars, results, queueVars, ctlVars>>

FinishPause ==
    /\ pc = "pause"
    /\ forest' = task_transitioned(forest, task, "pending")
    /\ BackToIdle
    /\ UNCHANGED <<created, results, queueVars, ctlVars>>

FinishYield ==
    /\ pc = "yield"
    /\ forest' = task_transitioned(forest, task, "suspended")
    /\ BackToIdle
    /\ UNCHANGED <<created, results, queueVars, ctlVars>>

FinishSurface ==
    /\ pc = "surface"
    /\ Surface /\ BackToIdle
    /\ UNCHANGED <<forestVars, queueVars, ctlVars>>

\* An exception leaves the run; the main loop logs it and goes on.
RunFails ==
    /\ RunsCanFail /\ pc \in TaskPCs
    /\ BackToIdle
    /\ cascade' = [cascade EXCEPT ![Agent] = <<>>]
    /\ UNCHANGED <<forestVars, results, queueVars, busy>>

-----------------------------------------------------------------------------
(* The task tool, called by the model in a chat turn or a task run *)

Tool(op) == op \in AgentOps /\ pc = "tools" /\ cascade[Agent] = <<>>

ToolUnchanged == UNCHANGED <<results, runVars, queueVars, busy>>

\* A destructive call in ask mode, or a proposal to compact, waits for the attached
\* user without a timeout, and with it the turn.
ToolAsks ==
    /\ Tool("ask") /\ pc' = "consent"
    /\ UNCHANGED <<forestVars, results, task, steps, turn_origin, queueVars, ctlVars>>

\* Approved or declined, the turn goes on.
ToolAnswered ==
    /\ pc = "consent" /\ pc' = "tools"
    /\ UNCHANGED <<forestVars, results, task, steps, turn_origin, queueVars, ctlVars>>

\* Without an explicit parent or top_level the new task goes under the run's.
ToolAdd ==
    /\ Tool("add")
    /\ \E parent \in DOMAIN forest \cup {NoTask}, p \in Priorities :
         AddTask(parent, p, turn_origin)
    /\ UNCHANGED cascade /\ ToolUnchanged

ToolDone ==
    /\ Tool("done")
    /\ \E t \in DOMAIN forest :
         /\ forest[t].status # "done"
         /\ can_transition(forest[t].status, "done")
         /\ live_descendants(forest, t) = <<>>
         /\ forest' = task_transitioned(forest, t, "done")
    /\ UNCHANGED <<created, cascade>> /\ ToolUnchanged

ToolCancel ==
    /\ Tool("cancel")
    /\ \E t \in DOMAIN forest :
         /\ forest[t].status # "cancelled"
         /\ can_transition(forest[t].status, "cancelled")
         /\ StartCascade(Agent, t)
    /\ UNCHANGED created /\ ToolUnchanged

ToolResume ==
    /\ Tool("resume")
    /\ \E t \in by_status(forest, "suspended") :
         forest' = task_transitioned(forest, t, "pending")
    /\ UNCHANGED <<created, cascade>> /\ ToolUnchanged

ToolUpdate ==
    /\ Tool("update")
    /\ \E t \in DOMAIN forest, p \in Priorities :
         forest[t].parent = NoTask /\ forest' = task_updated(forest, t, p)
    /\ UNCHANGED <<created, cascade>> /\ ToolUnchanged

ToolDelete ==
    /\ Tool("delete")
    /\ \E t \in DOMAIN forest : forest' = task_deleted(forest, t)
    /\ UNCHANGED <<created, cascade>> /\ ToolUnchanged

-----------------------------------------------------------------------------
(* The control plane: one request of client c at a time *)

Ready(c) == pc # "down" /\ c \notin busy
Request(c, op) == op \in ControlOps /\ Ready(c) /\ busy' = busy \cup {c}

CtlUnchanged == UNCHANGED <<results, runVars, queueVars>>

CtlAdd(c) ==
    /\ Request(c, "add")
    /\ \E parent \in DOMAIN forest \cup {NoTask}, p \in Priorities :
         AddTask(parent, p, "user")
    /\ UNCHANGED cascade /\ CtlUnchanged

CtlDone(c) ==
    /\ Request(c, "done")
    /\ \E t \in DOMAIN forest :
         /\ can_transition(forest[t].status, "done")
         /\ live_descendants(forest, t) = <<>>
         /\ forest' = task_transitioned(forest, t, "done")
    /\ UNCHANGED <<created, cascade>> /\ CtlUnchanged

CtlCancel(c) ==
    /\ Request(c, "cancel")
    /\ \E t \in DOMAIN forest :
         can_transition(forest[t].status, "cancelled") /\ StartCascade(c, t)
    /\ UNCHANGED created /\ CtlUnchanged

CtlMove(c, op, dst) ==
    /\ Request(c, op)
    /\ \E t \in DOMAIN forest :
         /\ can_transition(forest[t].status, dst)
         /\ forest' = task_transitioned(forest, t, dst)
    /\ UNCHANGED <<created, cascade>> /\ CtlUnchanged

CtlSuspend(c) == CtlMove(c, "suspend", "suspended")
CtlResume(c)  == CtlMove(c, "resume", "pending")

CtlUpdate(c) ==
    /\ Request(c, "update")
    /\ \E t \in DOMAIN forest, p \in Priorities :
         forest[t].parent = NoTask /\ forest' = task_updated(forest, t, p)
    /\ UNCHANGED <<created, cascade>> /\ CtlUnchanged

CtlDelete(c) ==
    /\ Request(c, "delete")
    /\ \E t \in DOMAIN forest : forest' = task_deleted(forest, t)
    /\ UNCHANGED <<created, cascade>> /\ CtlUnchanged

\* A query, or a request the checks above refuse.
CtlQuery(c) ==
    /\ Request(c, "query")
    /\ UNCHANGED <<forestVars, cascade>> /\ CtlUnchanged

\* Mutant: the loop is not woken.
CtlReplySilent(c) ==
    /\ c \in busy /\ cascade[c] = <<>>
    /\ busy' = busy \ {c}
    /\ UNCHANGED <<forestVars, results, runVars, queueVars, cascade>>

\* Every task.* request ends by poking the loop; a full queue swallows it.
CtlReply(c) ==
    /\ c \in busy /\ cascade[c] = <<>>
    /\ busy' = busy \ {c}
    /\ queue' = IF Len(queue) < QUEUE_CAPACITY THEN Append(queue, "task_wake") ELSE queue
    /\ UNCHANGED <<forestVars, results, runVars, pending_interactive, cascade>>

\* Mutant: the queue takes any number of messages.
SendMessageUnbounded(c) ==
    /\ "message" \in ControlOps /\ Ready(c)
    /\ queue' = Append(queue, "interactive")
    /\ pending_interactive' = pending_interactive + 1
    /\ UNCHANGED <<forestVars, results, runVars, ctlVars>>

\* message.send: refused when the queue is full.
SendMessage(c) ==
    /\ "message" \in ControlOps /\ Ready(c)
    /\ Len(queue) < QUEUE_CAPACITY
    /\ queue' = Append(queue, "interactive")
    /\ pending_interactive' = pending_interactive + 1
    /\ UNCHANGED <<forestVars, results, runVars, ctlVars>>

\* trigger.fire, or the cron scheduler: dropped when the queue is full.
FireTrigger(kind) ==
    /\ kind \in ControlOps /\ pc # "down"
    /\ Len(queue) < QUEUE_CAPACITY
    /\ queue' = Append(queue, kind)
    /\ UNCHANGED <<forestVars, results, runVars, pending_interactive, ctlVars>>

-----------------------------------------------------------------------------
(* The process *)

Crash ==
    /\ WorkerCanCrash /\ pc # "down"
    /\ pc' = "down" /\ task' = NoTask /\ steps' = 0 /\ turn_origin' = "user"
    /\ queue' = <<>> /\ pending_interactive' = 0
    /\ cascade' = [a \in Actors |-> <<>>] /\ busy' = {}
    /\ UNCHANGED <<forestVars, results>>

\* Mutant: no crash recovery.
RestartOnly ==
    /\ pc = "down" /\ pc' = "idle"
    /\ UNCHANGED <<forestVars, results, task, steps, turn_origin, queueVars, ctlVars>>

\* The forest is folded from the log; _recover_stale_tasks then re-queues
\* what was active, before any client can connect.
Restart ==
    /\ pc = "down" /\ pc' = "idle"
    /\ forest' = [t \in DOMAIN forest |->
                    IF forest[t].status = "active"
                    THEN [forest[t] EXCEPT !.status = "pending"] ELSE forest[t]]
    /\ UNCHANGED <<created, results, task, steps, turn_origin, queueVars, ctlVars>>

-----------------------------------------------------------------------------

MainLoop == TakeTrigger \/ PickTask \/ BlockOnQueue \/ Receive \/ PollTimeout

PauseCheck ==
    PauseGone \/ PauseForUser \/ BudgetSpent \/ PreemptForTree \/ AskConsent \/ Proceed

Run ==
    \/ Framed \/ PauseCheck \/ Respond \/ TurnEndsRun \/ ToolsDone
    \/ FinishPause \/ FinishYield \/ FinishSurface

\* Questions of a tool call, and the answers to any: at the user's pace.
Consent == Answered \/ ToolAsks \/ ToolAnswered

TaskTool == ToolAdd \/ ToolDone \/ ToolCancel \/ ToolResume \/ ToolUpdate \/ ToolDelete

\* What the /task command of an attach screen, or any other client, may request; the id a
\* fragment was resolved to may be gone by the time the request is served.
Control(c) ==
    \/ CtlAdd(c) \/ CtlDone(c) \/ CtlCancel(c) \/ CtlSuspend(c) \/ CtlResume(c)
    \/ CtlUpdate(c) \/ CtlDelete(c) \/ CtlQuery(c) \/ CtlReply(c) \/ SendMessage(c)

Next ==
    \/ MainLoop \/ Run \/ Consent \/ RunFails \/ TaskTool
    \/ \E c \in Clients : Control(c)
    \/ \E a \in Actors : CascadeStep(a)
    \/ \E kind \in {"cron", "task_hatch"} : FireTrigger(kind)
    \/ Crash \/ Restart

Spec == Init /\ [][Next]_vars

\* The event loop is fair to its coroutines: the core and every request in
\* flight move on, and clients read what they are sent.  The calls of a turn
\* come to an end, though any of them may stop for a question first: hence the
\* strong fairness.  Nobody has to send, answer a question, fail or crash.
Fairness ==
    /\ WF_vars(MainLoop) /\ WF_vars(Run) /\ SF_vars(ToolsDone)
    /\ \A a \in Actors : WF_vars(CascadeStep(a))
    /\ \A c \in Clients : WF_vars(CtlReply(c))

FairSpec == Spec /\ Fairness

-----------------------------------------------------------------------------
(* Properties *)

\* One worker, one task: while the process is up a task is active only while
\* the core is inside the run of that very task, whatever the control plane
\* does to the forest meanwhile; no path leaves a task active behind (such a
\* task is never picked again).  Runs that die of an exception are excepted.
ActiveIsRunning ==
    ~ RunsCanFail /\ pc # "down" =>
      \A t \in DOMAIN forest :
        forest[t].status = "active" => pc \in TaskPCs /\ task = t

\* Only trees are weighed (TASK_SPEC section 4): no sequence of additions and
\* updates by the model and the clients gives a subtask a priority, or lets
\* it pass for a user's task.
SubtaskUnweighted ==
    \A t \in DOMAIN forest :
      forest[t].parent # NoTask => forest[t].priority = 0 /\ forest[t].origin = "agent"

\* The caps bound the forest at all times, not just the additions that were
\* checked against it.
CapsHold ==
    \A t \in DOMAIN forest :
      /\ max_tree_depth > 0 => depth(forest, t) <= max_tree_depth
      /\ max_fanout > 0 => Cardinality(children(forest, t)) <= max_fanout

\* Yielding runs alone never grow the suspended backlog past its cap, though
\* a checkpoint separates the count from the transition.
BacklogBounded ==
    max_suspended > 0 /\ "suspend" \notin ControlOps =>
      Cardinality(by_status(forest, "suspended")) <= max_suspended

\* The interrupt mark that pause_check reads agrees with the queue: a run
\* neither ignores a waiting user nor pauses for a message already handled.
PendingMatchesQueue ==
    pending_interactive = Cardinality({i \in DOMAIN queue : queue[i] = "interactive"})

\* The poll is a safety net only: when the loop waits on its queue although
\* a task is runnable, an item to wake it is there or on its way.
NoLostWakeup ==
    pc = "blocked" /\ next_runnable(forest, NoTask) # NoTask =>
      queue # <<>> \/ busy # {}

\* The conversation is told the result of a task once at most, of a root
\* only, and only when the task is finished for good.
ResultToldOnce ==
    \A t \in TaskId :
      /\ results[t] <= 1
      /\ results[t] > 0 /\ t \in DOMAIN forest =>
           forest[t].parent = NoTask /\ is_terminal(forest[t].status)

\* A queued user message is handled before any further task is started.
MessageBeforeTask ==
    [][pc = "idle" /\ pc' = "framing" => pending_interactive = 0]_vars

\* Of liveness the program can promise only what does not hang on its users: no
\* question, to preempt or of a tool call, stays open for ever.
Asked == pc \in {"asking", "consent"}
QuestionsEnd == []<>~ Asked

\* If no question is left open for ever, a user who sends a message, possibly while one
\* is open, is attended to, however long the task in progress and the tasks behind
\* it would go on.
UserAttended ==
    QuestionsEnd =>
      (pending_interactive > 0 ~> pc = "turn" /\ task = NoTask /\ turn_origin = "user")

\* If no question is left open for ever, every activation ends: no task stays active
\* for ever, however often its run asks.
ActivationEnds ==
    QuestionsEnd =>
      \A t \in TaskId :
        t \in by_status(forest, "active") ~> t \notin by_status(forest, "active")

-----------------------------------------------------------------------------
(* The abstract life of a task *)

life ==
    [t \in TaskId |-> IF t \in DOMAIN forest THEN forest[t].status
                      ELSE IF t <= created THEN "deleted" ELSE "absent"]

Lifecycle == INSTANCE TaskLifecycle WITH Tasks <- TaskId, told <- results, life <- life

\* Under every interleaving of the run, the requests and the cascades, the
\* worker keeps to the life of a task: serial starts, sticky ends, results
\* told once.
KeepsLifecycle == Lifecycle!Spec
=============================================================================
