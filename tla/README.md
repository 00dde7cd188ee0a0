# A TLA+ model of the eonlet worker

eonlet runs one long-lived agent ("an eonlet") per worker process. This directory
holds TLA+ modules translated from its Python source (`src/src/eonlet/`), TLC
configurations that check them on small instances, and TLAPS proofs. Paths below are
relative to `src/src/eonlet/`; documents are those of `src/docs/`.

1. [Inventory](#1-inventory) 2. [Modules](#2-modules) 3. [Runs](#3-runs)
4. [Where documents and code part](#4-where-documents-and-code-part)
5. [Proofs](#5-proofs) 6. [Not modelled](#6-not-modelled)

## 1. Inventory

A worker is one process with one event loop. Coroutines switch only at an `await`;
everything between two awaits is atomic for the other coroutines, and a killed
process may stop between any two durable writes.

| component | state | operations | hard parts | module |
|---|---|---|---|---|
| Task forest (`tasks/forest.py`) | nodes by id; a fold of the event log | `reduce_task`, tree walks | events for missing, finished or repeated ids; orphans of deleted parents | `TaskForest`, `TaskReplay` |
| Task scheduler (`tasks/scheduler.py`) | none | `next_runnable`, `preemptor`, `creation_guard_error`, `classify_post_run` | walk order, pruning, strictness of priority | `TaskScheduler` |
| Main loop, task runs (`worker/main.py`, `runtime/agent.py`) | trigger queue, interrupt mark, the run | receive, activate, pause, classify, checkpoint, surface, recover | requests that change the task under the run; crash while active; starvation of the user | `TaskWorker` |
| Control plane and task tool (`worker/main.py`, `worker/ipc.py`, `tools/builtin/task.py`) | one request in flight per connection | `task.*`, `message.send`, `trigger.fire`, the tool's actions | awaits inside a request; lost wake-ups | `TaskWorker` |
| Cron scheduler (`triggers/scheduler.py`, `dynamic_store.py`) | the plan, the trigger file, failure counters | catch-up, fire loop, backoff, one-shots, enable, cap | a plan that goes stale during the sleep; crash between fire and consumption; a check before the lock | `CronScheduler` |
| Decision broker, sessions, gate (`worker/decisions.py`, `ipc.py`, `permissions/gate.py`) | open question, sessions, mode | `ask`, `resolve`, `evaluate`, broadcast, attach and detach | no timeout; the last session leaving between check and wait; late and double answers | `DecisionBroker` |
| Memory tiers, window, briefs (`memory/tier*.py`, `stm.py`, `ltm.py`, `watermark.py`, `runtime/agent.py`, `tasks/brief.py`) | log, watermarks, two documents, the window of a request | three compaction steps, each by the cascade, by tool or by request; the turns of a run | awaits of a model inside read-modify-write; crash between two files; a watermark inside a tool pair | `Conversation` |
| Knowledge store, recall index (`memory/knowledge.py`, `memory/recall.py`) | tree, map file, index rows, log | write, edit, move, delete; index, catch up | file, map and event in three steps; holes in the index | `KnowledgeStore` |
| Instance lifecycle (`cli/commands.py`, `worker/lifecycle.py`) | directory, pid, status and socket files; processes | create, start, stop, rm, recreate, pause, resume | no file is a lock; clean-up of another's files | `Lifecycle` |

What makes each correct: the scheduler picks the first runnable task in the order its
callers rely on; at most the task of the run is active; finished is for ever; a result
is told once; caps hold for the forest and not just for the addition; a queued message
is never overtaken by task work; a change of the forest wakes the loop; a due time
fires once; a question has one answer and does not outlive its listeners; a compaction
repeats nothing and loses nothing to an overlap; a request of the model is well formed;
tree, map and index tell what the log tells; one instance has one writer.

## 2. Modules

| module | role |
|---|---|
| `TaskForest`, `TaskScheduler` | pure operators: reads of the forest, the effect of each task event, the scheduler's decisions |
| `TaskReplay` | state machine of `fold_tasks` over arbitrary task events; compares the recursive walks with definitions that do not walk |
| `TaskWorker` | state machine: main loop, task run, task tool, control plane, queue, crash and recovery |
| `TaskLifecycle` | abstract specification: what the worker promises of the life of a task |
| `CronScheduler` | state machine over a clock: plan, file and its lock, fire loop, requests, outcomes, crash |
| `TriggerSchedule` | abstract specification: what the scheduler promises of the fires of its triggers |
| `Conversation` | state machine: runs, tool calls, the window of each model request, three tiers, crash |
| `DecisionBroker` | state machine: connections, sessions, gate, one question after another |
| `UserQuestion` | abstract specification: what `ask` promises of a question |
| `KnowledgeStore` | state machine: the knowledge tree and the recall index against the log, crashes inside an operation |
| `Lifecycle` | state machine: the steps of the shell commands against the workers' |
| `MC*` | definitions for TLC, and claims of the documents the code does not keep (section 4) |
| `*Proofs` | theorems (section 5); `TaskForestProofs` holds the lemmas on the walks that the others share |

How they meet: a cron trigger that `CronScheduler` fires is an item of `TaskWorker`'s queue
(`FireTrigger` there, any number of them at any time); `Conversation` is the log written by the runs
whose position `TaskWorker` tracks; `DecisionBroker` gives the answer that `TaskWorker.Answered` (a
preemption), `TaskWorker.ToolAnswered` (a tool call) and `Conversation.Approve`/`Decline` (a
proposed compaction) receive at any time or never. Each module lets its neighbours do anything the
interface allows, so what it shows holds in the composition.

### TaskWorker

- `forest`, `created`, `results` are what the event log holds. `_record` appends,
  reduces and then awaits the listener: the change of forest and log is one step and
  survives a crash.
- Each value of `pc` is one await (or several with nothing changed between them): `framing` is the
  broadcast of the activation and `_ensure_framing`; `check` the turn boundary before `pause_check`;
  `asking` is its `broker.ask`; `turn` the model; `tools` the tool calls; `consent` the `broker.ask`
  of a tool call, for permission or for a proposed compaction; `pause` and `yield` the checkpoints;
  `surface` the broadcast of a backlog cancellation before its envelope.
- `queue` and `pending_interactive` are the memory stream and the interrupt mark;
  `cascade[a]` is the rest of a cancel that actor `a` has still to record; `busy` are the
  clients whose request is not answered.
- Actions: `PickTask`, `Framed`, the six cases of `pause_check` in its order, `Respond`,
  `TurnEndsRun`, `ToolAsks`, `ToolAnswered`, `ToolsDone`, `Outcome` with the four results of `classify_post_run`,
  `FinishPause`, `FinishYield`, `FinishSurface`, `RunFails`, one `Tool...` per tool action,
  one `Ctl...` per request, `Crash`, `Restart`.
- Abstractions: an id is a creation ordinal (ids are taken to be fresh, creations to fall
  in different seconds; both are listed as hazards). Text is left out. `scheduling.enabled`
  is TRUE. The preemption cooldown may or may not have passed, a budget may be spent at
  any boundary. SIGTERM cancels the coroutines wherever they are, which the log cannot
  tell from a crash.

### CronScheduler

`now = k` is an instant in `[k, k+1)`; a recurring trigger is due at the multiples of its
period. `items` is `_items`, `store` the trigger file, `trigger_state` the table of the
event store. The file's lock yields once even when it is free: a request is two steps,
`Ask...` before the lock and the body with what follows (`Add`, `Remove`, `Enable`, ...),
in the order in which they were queued. `target` is the object `run()` captured before its sleep; the
plan may drop it meanwhile. `Take`, `Succeeded`, `Failed`, `Unplanned` are the main loop
that runs a fired trigger and records its outcome. Cron syntax, time zones and prompts
are left out.

`TriggerSchedule` knows the clock, the fires of each trigger per due instant, and how often a
removal of a one-shot was undone (`torn` here): by a crash between fire and removal, or by
`set_enabled(True)` in between. Its steps are a fire of a recurring trigger (on its beat, not early, later than
all before), a fire of a one-shot (for its one instant, again only after a removal was undone), an
undoing, and the passing of time. `KeepsSchedule` says that `CronScheduler` implements it;
it contains `OncePerDue`, which is proved of its own and no longer checked by a run.

### Conversation

Events are the conversation events, every message weighs one token, budgets are counts.
`scope` is `current_task_id`; the one task has its own watermark `brief`. A tier-1 pass of
caller `c` is `pass[c]`: asked for, then (under the lock) awaiting its model, then `Fold`,
which appends the sections and writes the watermark with no await between, or `FoldFails`.
`Begin` re-reads log and watermark under the lock, as `run_tier1` does. `Promote` and
`Replace` are the two halves of tier 2 around its await. A crash may fall between the two
writes of a fold (`CrashInFold`). `propose_compact` may propose any cut past the
watermark: its floor and cooldown only refuse, and a refusal is a `Plain` call.
`times` and `torn` are history.

### DecisionBroker

`conn`, `gone`, `busy` are what the server and the clients know of a connection; `sessions`
and `interactive` the server's; `session_attached` and `mode` the gate's. `evaluate` is
the gate's verdict on a call, of which it reads three traits: a rule denies it, it
requires confirmation, it is destructive. `Ask` registers a question, `Snapshot`,
`Notify`, `Sent` are the broadcast that awaits one client after the other, `Decide` the
return. `Closed` is the end of a connection with its hook, `Prune` a broadcast that drops
a session without it. `Answer` is the line a user types at whatever question the screen
has stashed, `Respond` its arrival. Ids of questions count within one process; a restart
ends every connection, so the model has none.

`UserQuestion` knows whether somebody listens (`HasListener`), which answers to the open question are under way
(`UnderWay`) and what settled it (`Settled`). `KeepsPromise` says that `DecisionBroker` implements it: no
answer to the open question is lost while it counts, the first to arrive settles it, a decline needs
an empty room. It contains `FirstAnswerWins`, which is proved of its own and no longer checked by a run.

### KnowledgeStore

A write, delete or move holds the lock of the map and is recorded with no await after it: one step
for the other coroutines. An edit opens the file again before it records (`Edit`, then
`EditRecorded`), and anything may happen between. `CrashIn...` cuts an operation off after each of
its writes. `Odd` paths are names with a `)`, whose line of the map the reader does not recognise. A
body is its words with two traits of its line ends: whether it ends in one newline (`tidy`) and
whether it has carriage returns (`cr`). `Stored` is what `content.rstrip("\n") + "\n"` leaves in the
file, while the event of a write carries the content as given; `AsRead` is `read_text`, which turns
carriage returns into newlines, and is what an edit records and a move writes. `Text` records a
text-bearing event and indexes it, or fails to; `CatchUp` re-indexes past the highest indexed id at
the start.

### Lifecycle

One action per step of a command: between a check and what it was for, the workers and other shells
move. A worker is spawned, opens the log, writes its pid and status, serves, fails or gets its
SIGTERM and ends with its clean-up, or is killed at any of these. The clean-up is one step (section
6). A halted worker (`pause`) keeps a SIGTERM until it is resumed. A pid is not reused.

## 3. Runs

| run | checks | instance and why it is enough |
|---|---|---|
| `replay` | `TypeOK`, `LiveDescendantsAreTheLiveSubtree`, `DepthAndRootFollowTheLine`, `NextIsFirstRunnable`, `ExclusionPrunesSubtree`, `PreemptorIsBestOutranking`, `PausedYieldsToContender` | four ids: the smallest number with two trees of two, or a chain with a sibling; nodes pending, blocked or done |
| `worker_queue` | `TypeOK`, `PendingMatchesQueue`, `NoLostWakeup`, `MessageBeforeTask` | two clients, a queue of three, crashes, failing runs |
| `worker_trees` | `ActiveIsRunning`, `ResultToldOnce`, `KeepsLifecycle` | three tasks, depth three (a chain, or a parent with two children), crashes, `preempt: ask` and tool calls that ask |
| `worker_caps` | `SubtaskUnweighted`, `CapsHold`, `BacklogBounded` | four tasks against caps 2, 2 and 1: one more than fits under a parent |
| `worker_live` | `UserAttended`, `ActivationEnds` | two tasks of different priority, `preempt: ask`, tool calls that ask, endless messages and triggers, additions and cancels |
| `cron_plan` | `TypeOK`, `LoopKnowsSoonest`, `PlanMatchesFile`, `KeepsSchedule` | a static trigger of period two, a recurring one of period one, a one-shot, every request, one crash, three instants: catch-up, a missed fire and the grace period all occur |
| `cron_live` | `CapOvershoot`, `SkipsAreOwed`, `DueIsHandled` | two clients against a cap of one, three failures (the first count with a backoff), a queue of one |
| `memory` | `TypeOK`, `FoldedOnce`, `NoOrphanResult`, `CallsAnswered`, `WatermarkAdvances` | five messages (a question, two replies with calls, their results), window of two, all tiers at the lowest budget; each of up to two crashes shortens the log by one message (`CrashesCount`) |
| `sessions` | `TypeOK`, `GateSeesListener`, `KeepsPromise`, `HeadlessNeverHangs` | two interactive clients and a one-shot one, two questions (so that an answer can be to the older), both modes |
| `knowledge` | `TypeOK`, `TreeIsReplay`, `MapListsTree`, `RecallHolesAreFailures` | three paths, one `Odd`, two contents (without a last newline; with carriage returns), three events, one crash; the other two paths are symmetric |
| `lifecycle` | `SingleWriter` | one shell, three workers, two kills, any command may outlast its wait |
| `claim_listener` | `QuestionEnds`, expected to fail | one read-only viewer (section 4) |

The bounds are small because the properties relate at most two tasks of one line and one
of another tree, two actors on one file, and one item more than a queue or a cap holds.
Those that do not count or walk are also proved for every value of the constants.
Deadlock is checked in every run. Cut-offs: `MaxTasks`, `MaxTime`, `MaxFailures`,
`MaxEvents`, `MaxCalls`, `MaxCrashes`, `MaxQuestions`, `MaxProcs` bound what the code
leaves unbounded; `max_steps_per_run`, `QUEUE_CAPACITY`, caps and budgets are parameters
of the code.

### Fairness

- `TaskWorker!FairSpec`: weak fairness of the main loop, of the run up to a question, of every
  cascade step and every reply: the event loop is fair to its ready coroutines, model and provider
  calls end or time out, a stream wakes its receiver. The calls of a turn come to an end, but any of
  them may stop for a question first (`ToolAsks`), which takes `ToolsDone` away until the answer:
  its fairness is strong. Nothing is asked of the model's choices, of crashes and exceptions, nor of
  users: no message, request or answer has to come (`broker.ask` has no timeout, so `Consent` is not
  fair). Clients are asked one thing, to read what is broadcast, since a stalled one blocks every
  broadcast (section 4). What hangs on an answer is stated as what it is: `UserAttended` and
  `ActivationEnds` hold if no question stays open for ever (`QuestionsEnd`), however many are asked;
  without that premise they fail (section 4).
- `CronScheduler!FairSpec`: the scheduler's own coroutine and whoever is handed the lock
  move on. The clock need not advance.
- `DecisionBroker!FairSpec`: broadcast, return, handlers and slow requests move on, and a
  user answers a question that stays on the screen. The last is asked because
  `QuestionEnds` is about the program, not about users who never answer;
  `HeadlessNeverHangs` does not depend on it: with nobody left it is `Closed` that
  declines.

## 4. Where documents and code part

Met while modelling. One has a run; the others are described here, and the properties that
state them, named in parentheses, can be checked with the run's configuration.

**Questions.** `claim_listener`: `attach --readonly` declares itself interactive and reads no
input, so it counts as a listener (`worker/decisions.py:59` says such clients must not) and
a question waits as long as the viewer stays. Nearby: with two ordinary clients the one that
attaches after a question was broadcast is never shown it, and keeps it waiting once the other
has left; a question answered by somebody else stays stashed on the screen, which takes the next line typed as
an answer and prints "approved" or "denied" whatever the worker returned (`commands.py:848`);
a client that stops reading blocks every broadcast (`ipc.py:100`); the gate's docstring says
yolo allows "unless `requires_confirmation`", which `evaluate` looks at only when nobody is
attached.

**Tasks** (`MCTaskWorker`). A root that calls `task(done)` on itself and reaches another turn
boundary is taken for one removed by the control plane, and its `<task_result>` is not
recorded (`FinishedRootIsTold`, TASK_SPEC 4.1). A subtask may be added under a finished parent,
where the scheduler never looks (`NoLiveBelowFinished`, section 3). A running task suspended by
request is re-queued when its run pauses, without a resume (`SuspendedWaitsForResume`). A
suspended parent never gets its synthesis turn (`SynthesisIsDue`, section 2). Deleting the last
child leaves the parent blocked for ever (`BlockedHasChildren`). A run that dies of an exception
leaves its task active while the loop activates another (`AtMostOneActive`,
plans/design-review-fixes.md). A message that arrives while the run waits for an answer, to
a preemption or to a tool call that needs permission, is not attended to until somebody gives it, and the task
stays active as long (`NeverWaitsForAnswers`, section 5.2; checked with `worker_live`).

**Cron** (`MCCronScheduler`). `run()` and catch-up ignore that a static trigger is disabled
(`DisabledDoesNotFire`, TRIGGER_SPEC 2.2). A one-shot fired by hand gets the backoff that
`scheduler.py:84` reserves for cron, and three failures make `_advance` assert
(`BackoffIsCronOnly`). If the clock passes a due instant between construction and catch-up it is fired twice
(`KeepsSchedule` and `OncePerDue` with `SlowBoot`). A one-shot past its grace that is added while running fires all
the same; `set_enabled(True)` while a fired one-shot awaits its removal plans it again; a trigger
removed while due may fire once more; catch-up fires for an instant before the trigger
existed; `skip_remaining` is lost in a restart; TRIGGER_SPEC 4.2 (`max_concurrent_runs`,
`max_queued`, `trigger_dropped`) is not implemented.

**Memory** (`MCConversation`). A call may be folded while its result stays raw
(`PairsStayTogether`: `tier1.py:103`, M-I3) when a client forces a full pass in the middle of a
tool call; the window's trimming is what keeps `NoOrphanResult` true. A request may have no
message after such a pass (`NeverEmpty`, `agent.py:576`). A crash between a call and its result
leaves the call unanswered in the restored window (`RestoredCallsAnswered`, TEST_PLAN). A section
appended by a request while tier 2 awaits its model is lost by `replace` (`tier2.py:163`). The
id before the first event, tier 1's "nothing", may exceed the watermark and cost a model call
that cannot succeed (`tier1.py:94`). The preamble is cached when a run starts while the watermark
moves under it (`agent.py:184`). The brief prompt takes the last 120 events of what it marks as
folded (`brief.py:80`). Out-of-range boundaries abort the pass where MEMORY_SPEC 4.1.3 has it
fall back.

**Knowledge** (`MCKnowledgeStore`). Replay does not reproduce the tree exactly, as I-S1 and M-I1 say
it does (`ExactReplay`): `kb_written` carries the raw content of a write, while the file is stripped
and ends in a newline (`knowledge.py:193`), so every write of a content that does not end in one
newline makes them differ. `TreeIsReplay` therefore promises less than M-I1, that the two say the
same up to line ends. Nor does it reproduce the whole tree (`WholeTreeIsReplay`): an edit overtaken
by a delete or move before it is recorded, a delete recorded under another spelling of its path, and
a crash between file and event leave a file the log does not tell, and nothing repairs it (the set
`astray`; what the property says is that no other file is affected, and that the next write of the
file heals it). An exception of the index is swallowed and its hole never caught up (`failed`). A
name with a `)` loses its line of the map at the next write (`Odd`).

**Lifecycle.** The wait of `start` (`commands.py:273`) is ended by the socket file a killed worker
left, before the new worker has written its pid; a second `start` then spawns another writer
(the `premature` disjunct of `SingleWriter`; `memory/storage.py` relies on a single one). A slow boot
or two shells do the same. `rm` is allowed during a boot, since `start` writes `created`; the
clean-up of one worker removes the files of another. `run_worker` writes `dead` before it cleans up and closes the log
last: `rm` or `recreate` right after the one, `start` right after the other meet a worker that is not gone, if it
ended by itself; `stop` waits for its exit. `resume` writes `running` for a worker
that was still booting.

## 5. Proofs

Eight modules, checked by tlapm to the last leaf, from the named assumptions on the constants
alone (`WorkerConstants`, `BrokerConstants`, `KnowledgeConstants`, `ConversationConstants`,
`CronConstants`).

`TaskForestProofs` and `TaskReplayProofs`, on any forest and any log of task events:

1. *The walks have their equations.* A recursive definition says something only once a function
   satisfies it (`WalkExists` for walks to the parent, `TableExists` for walks to the children).
   This, and every induction below, is an argument by a least or greatest counterexample
   (`LeastNat`, `GreatestNat`): a parent is older than its children (`WellFormed`).
2. *The line of ancestors.* `LineOf` is a chain with one root; `DepthAndRoot`
   (`DepthAndRootFollowTheLine`) follows.
3. *The order of the walk.* Two lines part once (`PartOnce`), so `Before` is asymmetric and a set of
   nodes has at most one first.
4. *What the walk finds.* `FoundStep`: if the walks below the children found the first node with
   work there, so does the walk below their parent; `FirstRunnableIs` does the same for the trees.
5. `NextIsFirst`, `ExclusionIsLocal`, `PreemptorIsBest` (`NextIsFirstRunnable`,
   `ExclusionPrunesSubtree`, `PreemptorIsBestOutranking`) are the three uses of that lemma;
   `TypeCorrect` and `TerminalIsKept` (`ReplayKeepsTerminal`) go event by event, with
   `ParentsOlder`, which is what makes every forest of the replay well formed.
6. `PauseYields` (`PausedYieldsToContender`). The code asks `preemptor` before the pause and
   `next_runnable` after it, which skips nothing. The pause changes one status and no line (`SameShape`,
   `SameLines`), so the other trees offer the same work (`OtherTreesStay`), and the paused task is at best
   the first of its own tree, which the contender's outranks.
7. `LiveSubtree` (`LiveDescendantsAreTheLiveSubtree`). The list of a node is its live children, each followed by
   its own list: such a table of lists exists (`ListExists`), and joining lists of disjoint
   subtrees keeps every node once, after the nodes above it (`ListedFacts`, `JoinedLists`).

`TaskWorkerProofs`:

1. *Events.* What each task event does to any forest: `CreatedFacts`, `TransitionedFacts`,
   `UpdatedFacts`, `DeletedFacts`.
2. *Effects.* Every action changes the forest by one event or not at all (`Event`, `Effect`,
   `StepEvent`); the only exception is `Restart`.
3. `TypeCorrect`. `TypeOK` is inductive together with `StepsInv` and `OlderInv` (parents are older): the
   list a cascade works off is a sequence of ids only where the walk below its target ends.
4. `Serial` (`ActiveIsRunning`). `RunInv` adds that the task of a run was minted (its id is not
   given to another when it is deleted meanwhile). By kinds of step (`StepKinds`): one goes on
   with a run, stops it, tells its result, or fails.
5. `Unweighted` (`SubtaskUnweighted`), from the events alone.
6. `ToldOnce`. `TellInv` adds: in position `surface` the task is gone or finished, and a task
   still in its run has no result told.
7. `MarkIsQueue` (`PendingMatchesQueue`) and `MessagesGoFirst` (`MessageBeforeTask`), by what a step
   does to the queue (`QueueKinds`): taking the first trigger drops wakes, and nothing that the
   mark counts.
8. `BacklogKept` (`BacklogBounded`). `BacklogInv` adds that in position `yield` the backlog is still below its
   cap: nobody but the run itself suspends a task, as long as no client may.
9. `WakeupsKept` (`NoLostWakeup`). `WakeInv` says that the loop begins to wait only when the forest has
   nothing to run, and that what changes the forest afterwards is a request that will poke the queue.
10. `CapsKept` (`CapsHold`), with `OlderInv`. A step adds one child where the caps have room
   or only removes nodes (`ThinsOrGrows`), and removal makes no line longer
   (`DepthShrinks`): the hazard is an orphan that becomes a root and is counted anew.
11. `Refinement`. Without failing runs every step is one of `TaskLifecycle`'s or a stutter, with
   `life[t]` the status of `t`, `"absent"` before its creation and `"deleted"` after its end.
   Activation needs `Serial`, surfacing `ToldOnce`, `Restart` that at most one task is active.

`DecisionBrokerProofs`: `TypeCorrect`; `GateFollowsListeners` (`GateSeesListener`), which needs that
an interactive session still belongs to a connection (`InteractiveIsConnected`), or a session
accepted anew could be a listener the gate has not heard of; `FirstAnswerIsReturned`
(`FirstAnswerWins`), from `OpenQuestion`: as long as its event is not set a question has no answer,
then the first one or the default. `PromiseKept` (`KeepsPromise`): `PromiseInv` adds that nobody is shown or answers a
question before it is asked (`AskedBefore`), so a new question starts without answers; each step
is one of `UserQuestion` (`PromiseStep`). `DeclineIsComing` is the safety half of
`HeadlessNeverHangs`: a question without listeners has an ended connection whose hook has still to run
(`UnheardIsClosing`), because only a client that is gone is dropped without its hook (`DeadAreGone`) and no
client takes its declaration back (`OneShotIsSilent`).

`KnowledgeStoreProofs`: `MapIsExact` (`MapListsTree`), by the lines an operation removes and adds
(`MapEffect`, `MapOperation`), and `RecallIsComplete` (`RecallHolesAreFailures`), whose invariant says
that a text missing without a failure is past all that are indexed, and only while the worker is
not up: what catch-up looks at. `TypeCorrect` (`TypeOK`). `TreeIsReplayed` (`TreeIsReplay`): the replay is the
last entry of a table of trees by length of log, which exists and is unique (`TableExists`, `TablesAgree`), so that
one more event is one more step of it (`ReplayAppend`); a file changes with the record that tells it, or it goes
astray (`TreeStep`). File and record agree up to line ends (`Agreement`), which every conversion keeps (`Converted`).

`ConversationProofs`: `TypeCorrect` (`TypeOK`; the trimmed window is the recursive function `Kept`, whose
type follows its equation). `FoldedOnceAlways` (`FoldedOnce`) and `WatermarksAdvance`. `FoldInv` says that one
pass at most awaits its model and holds every message from the watermark up to its last
(`PassInv`, the reason for the lock), that the messages past the watermark were written at most
once per crash (`TimesInv`), and that a reply has reserved the room of its results (`RoomInv`).
`NoOrphanShown` and `EveryCallAnswered` (`NoOrphanResult`, `CallsAnswered`): `CallInv` relates the log to the
run, a result follows its call (`Paired`), the reply under way is the last (`LastReply`) and has as
many results as it has got (`Counted`); `ShownInv` carries it to the window that was cut at a
watermark and trimmed.

`CronSchedulerProofs`, for any triggers, periods, clients,
failures and crashes:

1. `TypeCorrect`, with `RequestsTyped`: what a waiting request may name, by its operation.
2. `NoUnearnedSkip` (`SkipsAreOwed`), by induction with the types alone.
3. `CapIsNearlyKept` (`CapOvershoot`). The triggers in the file and the callers whose add waits for the lock
   together stay below the cap plus all callers (`CapInv`); a caller has one request in the queue (`OneEach`),
   which is what bounds the race of the check before the lock.
4. `PlanIsTheFile` and `NoMissedWakeup` (`PlanMatchesFile`, `LoopKnowsSoonest`) are one induction, `PlanInv`. The
   loop waits for its one consumption (`LockTidy`, `LoopWaits`); no id is known before it is added
   (`Fresh`); a consumed one-shot is back in the plan only if it was undone (`Undone`); and file,
   plan and target hold the same instant for a one-shot (`SameInstant`), so what is in the plan
   but no longer in the file is due (`LeftoverIsDue`) and the loop is past its sleep.
5. `FiredOncePerDue` (`OncePerDue`), only for `~ SlowBoot`: otherwise it fails (section 4). `DueInv` says that a
   planned instant of a recurring trigger lies past every one fired (`CronFired`, `BootIsNow`), that a one-shot that
   was fired and is live again was undone by a request or a crash (`OneShotFired`), and what a
   target may still be once the plan has dropped it (`StaleTarget`).
6. `ScheduleKept` (`KeepsSchedule`), for `~ SlowBoot` as well. `MeantInv` says that every instant
   plan, target, file or a waiting request holds for a trigger (`Meant`) lies on its beat if it is
   recurring, and for a one-shot is the same one everywhere, the one it fired for if it did. Only a
   fresh add means something new (`MeansStep`); each step then has one `Effect`, and each effect is
   a step of `TriggerSchedule` (`EffectIsOnSchedule`).

`LifecycleProofs`: `OneWriter` (`SingleWriter`), for one shell (`OneShell`; two break it, section 4) and any number
of workers and crashes. `WriterInv` says that every live worker is on file, or its shell still
waits for it (`Known`), that there is one (`Alone`), and that what a command checked before it spawns
or removes still holds then (`Cleared`). A command's steps are a sequence; that a step comes right after
the one it relies on (`Ordered`) survives the concatenations of `recreate`.

Every safety property of the runs is stated by a theorem. Only model-checked: liveness
(`UserAttended`, `ActivationEnds`, `DueIsHandled`, `HeadlessNeverHangs`), since fairness speaks of `ENABLED`,
which is out of the prover's reach. `KeepsLifecycle`, `KeepsSchedule` and `KeepsPromise` are refinements of
safety alone: their abstract specifications state no fairness.

## 6. Not modelled

- Reads that change nothing: `events.replay`, `memory.show`, `triggers.list`, the CLI's views and
  status screen, the assembly of the injected memory text, full-text search.
- The context tracer, the LLM and web adapters, file, shell, mail and skill tools: input and
  output, no state the parts above read.
- Configuration parsing and the definition's hot reload between turns: values are constants.
- The text of prompts, briefs and summaries, the matching of a rule pattern, cron syntax, time
  zones, the truncation of results.
- The moments inside a worker's clean-up: `Lifecycle.End` writes the status, removes the files and
  closes the log in one step. With a stop, the shell waits until it is over; for a worker that ends
  by an exception section 4 names what this hides.
- Not in the composition: the modules are checked apart, each against everything its neighbours
  may do; a joint instance of the worker with its memory is beyond TLC.

What is left to do: an abstract specification of the tiers, refined by `Conversation`; what short-term
memory may lose while tier 2 awaits its model, as a property.
