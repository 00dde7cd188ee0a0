---------------------------- MODULE Conversation ----------------------------
(***************************************************************************)
(* The conversation of one agent: the event log, the window each model     *)
(* request is built from (runtime/agent.py), and the three compaction      *)
(* tiers that fold the log into short- and long-term memory                *)
(* (memory/tier1.py, tier2.py, tier3.py, driven by worker/main.py and by   *)
(* the memory tool).                                                       *)
(*                                                                         *)
(* The main loop runs one turn or one tier at a time.  An IPC client may   *)
(* force a full tier-1 pass (`/compact`) at any await of the main loop: in *)
(* the middle of a run, of a tool call, or of an automatic pass.  The log, *)
(* the watermark and the two documents are files and survive a crash.      *)
(*                                                                         *)
(* Events are the conversation events: a call event and the permission     *)
(* records beside it weigh nothing and are part of the message they belong *)
(* to.  Every message weighs one token; budgets are counts.                *)
(***************************************************************************)
EXTENDS Integers, Sequences, FiniteSets

CONSTANTS
    MaxEvents,                   \* bound on the log
    MaxCalls,                    \* bound on the tool calls of one reply
    MaxCrashes,
    ToolOps,                     \* what the model's tool calls do, see Tool
    max_steps_per_run,
    working_memory_tokens,
    keep_recent_messages_min,
    short_term_tokens,           \* in sections
    long_term_tokens,            \* in bullets
    auto_compact                 \* memory.episodic.auto_compact

Chat == "chat"                   \* task_id is None
Task == "task"                   \* the task_id of the one task that runs
Main == "main"                   \* the main loop, as the caller of a tier-1 pass
Ipc  == "ipc"                    \* the client that forces one
Callers == {Main, Ipc}
Event   == 1..MaxEvents

ASSUME ConversationConstants ==
    /\ MaxEvents \in Nat \ {0} /\ MaxCalls \in Nat /\ MaxCrashes \in Nat
    /\ ToolOps \subseteq {"plain", "compact", "propose", "compact_ltm", "pause", "resume"}
    /\ max_steps_per_run \in Nat \ {0}
    /\ working_memory_tokens \in Nat \ {0} /\ keep_recent_messages_min \in Nat \ {0}
    /\ short_term_tokens \in Nat \ {0} /\ long_term_tokens \in Nat \ {0}
    /\ auto_compact \in BOOLEAN

VARIABLES
    log,          \* the event log; the id of an event is its position
    watermark,    \* memory/watermark
    brief,        \* brief_watermark of the task
    stm,          \* short_term.md: per section, the events it summarises
    ltm,          \* long_term.md: the number of its bullets
    pc,           \* where the main loop is, see PC
    scope,        \* current_task_id of the run
    steps,        \* turns begun in the run
    left,         \* tool calls of the last reply that are still to be answered
    request,      \* the window of the outstanding model request
    auto,         \* runtime.auto_compact_enabled
    pass,         \* per caller, its tier-1 pass
    seen,         \* the sections the tier-2 pass has read, then those it keeps
    crashes,
    torn,         \* history: replies whose tool calls a crash cut short
    times         \* history: per event, the sections ever written that cover it

files == <<log, watermark, brief, stm, ltm>>
run   == <<scope, steps, left, request>>
vars  == <<log, watermark, brief, stm, ltm, pc, scope, steps, left, request, auto,
           pass, seen, crashes, torn, times>>

PC == {"idle", "turn", "llm", "tools", "consent", "tier1", "tier2", "replace", "tier3",
       "after1", "after2"}

Message == [kind : {"user", "assistant", "tool"}, scope : {Chat, Task},
            calls : 0..MaxCalls, of : 0..MaxEvents]

\* A tier-1 pass: idle, waiting for the lock of the directory, or awaiting its model.
Off            == [state |-> "off", mode |-> "tail", boundary |-> 0, events |-> {}]
Asked(mode, b) == [state |-> "ask", mode |-> mode, boundary |-> b, events |-> {}]

---------------------------------------------------------------------------
(* Scopes, pairs and boundaries.  A batch of events is the set of their ids. *)

Latest(events) == CHOOSE i \in events : \A j \in events : j <= i
Oldest(events) == CHOOSE i \in events : \A j \in events : i <= j
Newest(events, n) == {i \in events : Cardinality({j \in events : j > i}) < n}
Greater(a, b) == IF a > b THEN a ELSE b

\* What these messages weigh against the budget, all kinds alike.
Tokens(events) == Cardinality(events)

\* store.read(since=since, task_id=s)
Read(s, since) == {i \in DOMAIN log : i > since /\ log[i].scope = s}

\* Folding the events up to cut would orphan the result of a call among them.
SplitsToolPair(events, cut) ==
    \E i, j \in events : /\ i <= cut /\ cut < j
                        /\ log[j].kind = "tool" /\ log[j].of = i

\* The last of these candidate cuts that is safe; none leaves the id before the first.
SafeCut(events, cuts) ==
    LET safe == {i \in cuts : ~ SplitsToolPair(events, i)}
    IN  IF safe = {} THEN Oldest(events) - 1 ELSE Latest(safe)

\* compute_suggested_boundary: the tail keeps enough messages and 30% of the budget.
SuggestedBoundary(events) ==
    LET floor == Greater((working_memory_tokens * 3) \div 10, 1)
        tail  == Newest(events, Greater(keep_recent_messages_min, floor))
    IN  IF events = {} THEN 0 ELSE SafeCut(events, events \ tail)

\* snap_boundary_safe: an id that is not among the events passes unchanged.
Snap(events, b) == IF b \in events THEN SafeCut(events, {i \in events : i <= b}) ELSE b

Suggested(mode, events, b) == CASE mode = "explicit" -> Snap(events, b)
                                [] mode = "full"     -> Latest(events)
                                [] mode = "tail"     -> SuggestedBoundary(events)

\* mutant: the cut of the window may orphan a result
WindowUntrimmed(s) ==
    LET eligible == Read(s, IF s = Chat THEN watermark ELSE brief)
    IN  Newest(eligible, Greater(keep_recent_messages_min, working_memory_tokens))

\* The window of a request: the newest unfolded messages of the scope that fit the
\* budget, never starting with the result of a call that is out of the window.
Window(s) ==
    LET eligible == Read(s, IF s = Chat THEN watermark ELSE brief)
        newest   == Newest(eligible, Greater(keep_recent_messages_min, working_memory_tokens))
    IN  {i \in newest : \E j \in newest : j <= i /\ log[j].kind # "tool"}

Say(kind, s, n, of) ==
    log' = Append(log, [kind |-> kind, scope |-> s, calls |-> n, of |-> of])
Room(n) == Len(log) + n <= MaxEvents
\* The reply whose tool calls are being run.
Caller == Latest({i \in DOMAIN log : log[i].kind = "assistant" /\ log[i].scope = scope})

Init ==
    /\ log = <<>> /\ watermark = 0 /\ brief = 0 /\ stm = <<>> /\ ltm = 0
    /\ pc = "idle" /\ scope = Chat /\ steps = 0 /\ left = 0 /\ request = {}
    /\ auto = auto_compact /\ pass = [c \in Callers |-> Off] /\ seen = <<>>
    /\ crashes = 0 /\ torn = {} /\ times = [e \in Event |-> 0]

---------------------------------------------------------------------------
(* One run: handle_user_message and _run_until_end.                        *)

EndRun == pc' = "after1" /\ scope' = Chat /\ steps' = 0

\* A user or cron turn, or the kickoff of a task run.
StartRun(s) ==
    /\ pc = "idle" /\ Room(1)
    /\ Say("user", s, 0, 0)
    /\ pc' = "turn" /\ scope' = s /\ steps' = 0
    /\ UNCHANGED <<watermark, brief, stm, ltm, left, request, auto, pass, seen,
                   crashes, torn, times>>

\* The run of a task fails or finishes a root: its envelope is a chat message.
Deliver ==
    /\ pc = "idle" /\ Room(1)
    /\ Say("user", Chat, 0, 0)
    /\ UNCHANGED <<watermark, brief, stm, ltm, pc, scope, steps, left, request, auto,
                   pass, seen, crashes, torn, times>>

\* _maybe_compact_task at a turn boundary of a task: an over-budget window is folded
\* into the brief, if there is anything to fold up to a cut past the brief's watermark.
\* The model may fail; nobody else touches this scope meanwhile.
FoldTask ==
    LET unfolded == Read(Task, brief)
        cut      == SuggestedBoundary(unfolded)
    IN  /\ pc = "turn" /\ scope = Task
        /\ Tokens(unfolded) >= working_memory_tokens
        /\ cut \in unfolded
        /\ brief' = cut
        /\ UNCHANGED <<log, watermark, stm, ltm, pc, scope, steps, left, request, auto,
                       pass, seen, crashes, torn, times>>

\* The run is paused at the boundary: the whole scope goes into the brief, if the model
\* answers; the structural fallback and a user's interrupt leave the window as it is.
PauseRun ==
    /\ pc = "turn" /\ scope = Task
    /\ brief' \in {brief} \cup {i \in Read(Task, brief) : i = Latest(Read(Task, brief))}
    /\ EndRun
    /\ UNCHANGED <<log, watermark, stm, ltm, left, request, auto, pass, seen, crashes,
                   torn, times>>

\* mutant: the loop does not count its steps
RequestUnbounded ==
    /\ pc = "turn"
    /\ request' = Window(scope) /\ steps' = steps + 1 /\ pc' = "llm"
    /\ UNCHANGED <<log, watermark, brief, stm, ltm, scope, left, auto, pass, seen,
                   crashes, torn, times>>

Request ==
    /\ pc = "turn"
    /\ steps < max_steps_per_run
    /\ request' = Window(scope) /\ steps' = steps + 1 /\ pc' = "llm"
    /\ UNCHANGED <<log, watermark, brief, stm, ltm, scope, left, auto, pass, seen,
                   crashes, torn, times>>

\* The loop has used up its steps, or aborts at the third reply in a row whose calls are
\* malformed.
StepsSpent ==
    /\ pc = "turn"
    /\ steps = max_steps_per_run \/ steps >= 3
    /\ EndRun
    /\ UNCHANGED <<log, watermark, brief, stm, ltm, left, request, auto, pass, seen,
                   crashes, torn, times>>

\* The reply is recorded; without tool calls it ends the run.
Reply(n) ==
    /\ pc = "llm" /\ Room(1 + n)
    /\ Say("assistant", scope, n, 0)
    /\ left' = n /\ request' = {}
    /\ IF n = 0 THEN EndRun ELSE pc' = "tools" /\ UNCHANGED <<scope, steps>>
    /\ UNCHANGED <<watermark, brief, stm, ltm, auto, pass, seen, crashes, torn, times>>

\* The provider raised: an ERROR event, and the end of the run.
ReplyFails ==
    /\ pc = "llm"
    /\ request' = {} /\ EndRun
    /\ UNCHANGED <<log, watermark, brief, stm, ltm, left, auto, pass, seen, crashes,
                   torn, times>>

\* mutant: only the first call of a reply is run
AnsweredFirst == Say("tool", scope, 0, Caller) /\ left' = left - 1 /\ pc' = "turn"

\* The result, or the error, of the tool call that is being run.
Answered ==
    /\ Say("tool", scope, 0, Caller)
    /\ left' = left - 1
    /\ pc' = IF left = 1 THEN "turn" ELSE "tools"

\* A tool that leaves memory alone, a refused or malformed call, a tool that raises.
Plain ==
    /\ pc = "tools" /\ "plain" \in ToolOps
    /\ Answered
    /\ UNCHANGED <<watermark, brief, stm, ltm, scope, steps, request, auto, pass, seen,
                   crashes, torn, times>>

\* memory(action="pause") and memory(action="resume")
SwitchAuto(on) ==
    /\ pc = "tools" /\ (IF on THEN "resume" ELSE "pause") \in ToolOps
    /\ auto' = on
    /\ Answered
    /\ UNCHANGED <<watermark, brief, stm, ltm, scope, steps, request, pass, seen,
                   crashes, torn, times>>

\* memory.pause and memory.resume on an IPC connection, at any await of the main loop
SwitchByRequest(on) ==
    /\ auto # on /\ auto' = on
    /\ UNCHANGED <<files, pc, run, pass, seen, crashes, torn, times>>

\* memory(action="compact")
Compact ==
    /\ pc = "tools" /\ "compact" \in ToolOps
    /\ pass' = [pass EXCEPT ![Main] = Asked("tail", 0)]
    /\ pc' = "tier1"
    /\ UNCHANGED <<files, run, auto, seen, crashes, torn, times>>

\* memory(action="propose_compact"): the cut is chosen now and used after the consent.
Propose(b) ==
    /\ pc = "tools" /\ "propose" \in ToolOps
    /\ b > watermark /\ b <= Len(log)
    /\ pass' = [pass EXCEPT ![Main] = [Off EXCEPT !.mode = "explicit", !.boundary = b]]
    /\ pc' = "consent"
    /\ UNCHANGED <<files, run, auto, seen, crashes, torn, times>>

Approve ==
    /\ pc = "consent"
    /\ pass' = [pass EXCEPT ![Main] = Asked("explicit", @.boundary)]
    /\ pc' = "tier1"
    /\ UNCHANGED <<files, run, auto, seen, crashes, torn, times>>

Decline ==
    /\ pc = "consent"
    /\ pass' = [pass EXCEPT ![Main] = Off]
    /\ Answered
    /\ UNCHANGED <<watermark, brief, stm, ltm, scope, steps, request, auto, seen,
                   crashes, torn, times>>

\* memory(action="compact_ltm")
CompactLtm ==
    /\ pc = "tools" /\ "compact_ltm" \in ToolOps
    /\ ltm >= long_term_tokens
    /\ pc' = "tier3"
    /\ UNCHANGED <<files, run, auto, pass, seen, crashes, torn, times>>

---------------------------------------------------------------------------
(* Tier 1: the log into short-term memory.                                 *)

\* The end of a pass of caller c, which leaves the next steps to its caller.
EndPass(c) ==
    /\ pass' = [pass EXCEPT ![c] = Off]
    /\ IF c = Ipc      THEN UNCHANGED <<log, left, pc>>
       ELSE IF left > 0 THEN Answered
       ELSE pc' = "after2" /\ UNCHANGED <<log, left>>

NoLock == TRUE                 \* mutant: passes may overlap
\* run_tier1 under its lock, up to the await of the model: nothing to do, or a request.
LockFree == \A c \in Callers : pass[c].state # "llm"

Begin(c, mode, b) ==
    LET events == Read(Chat, watermark)
        cut    == Suggested(mode, events, b)
    IN  /\ LockFree
        /\ IF events = {} \/ cut <= watermark
           THEN EndPass(c)
           ELSE /\ pass' = [pass EXCEPT ![c] = [state |-> "llm", mode |-> mode,
                                                boundary |-> cut, events |-> events]]
                /\ UNCHANGED <<log, left, pc>>
        /\ UNCHANGED <<watermark, brief, stm, ltm, scope, steps, request, auto, seen,
                       crashes, torn, times>>

BeginMain == pass[Main].state = "ask" /\ Begin(Main, pass[Main].mode, pass[Main].boundary)

\* memory.compact on an IPC connection, once it has the lock
ForceCompact == Begin(Ipc, "full", 0)

AnswersUnchecked(p) == 0..p.boundary          \* mutant: any number up to the cut
\* The model may answer with any known id up to the cut it was given.
Answers(p) == {b \in p.events : b <= p.boundary}
Covered(p, b) == {i \in p.events : i <= b}

WriteSection(p, b) ==
    /\ stm' = Append(stm, Covered(p, b))
    /\ times' = [e \in Event |-> IF e \in Covered(p, b) THEN times[e] + 1 ELSE times[e]]

\* The sections are appended, then the watermark is written, with no await between.
Fold(c) ==
    /\ pass[c].state = "llm"
    /\ \E b \in Answers(pass[c]) : WriteSection(pass[c], b) /\ watermark' = b
    /\ EndPass(c)
    /\ UNCHANGED <<brief, ltm, scope, steps, request, auto, seen, crashes, torn>>

\* The model fails or answers out of bounds: no change.
FoldFails(c) ==
    /\ pass[c].state = "llm"
    /\ EndPass(c)
    /\ UNCHANGED <<watermark, brief, stm, ltm, scope, steps, request, auto, seen,
                   crashes, torn, times>>

---------------------------------------------------------------------------
(* The cascade after a run: _run_cascade.                                  *)

AutoTier1 ==
    /\ pc = "after1"
    /\ IF auto /\ Tokens(Read(Chat, watermark)) >= working_memory_tokens
       THEN pass' = [pass EXCEPT ![Main] = Asked("tail", 0)] /\ pc' = "tier1"
       ELSE pc' = "after2" /\ UNCHANGED pass
    /\ UNCHANGED <<files, run, auto, seen, crashes, torn, times>>

\* run_tier2 reads every section, then awaits its model.
AutoTier2 ==
    /\ pc = "after2"
    /\ IF auto /\ Len(stm) >= short_term_tokens
       THEN seen' = stm /\ pc' = "tier2"
       ELSE /\ pc' = IF auto /\ ltm >= long_term_tokens THEN "tier3" ELSE "idle"
            /\ UNCHANGED seen
    /\ UNCHANGED <<files, run, auto, pass, crashes, torn, times>>

AutoTier3 == IF auto /\ ltm >= long_term_tokens THEN "tier3" ELSE "idle"

\* A bullet goes under its section, which is added when it is absent.
AppendBullet == ltm' = ltm + 1

\* The sections that were read and whose header is among these, in their order.
Kept(keep) ==
    LET kept[n \in 0..Len(seen)] ==
          IF n = 0 THEN <<>>
          ELSE IF seen[n] \in keep THEN Append(kept[n - 1], seen[n]) ELSE kept[n - 1]
    IN  kept[Len(seen)]

\* The model keeps the sections of these headers; a bullet may speak of the others.
Promote(keep) ==
    /\ pc = "tier2"
    /\ \/ ltm' = ltm
       \/ (\E i \in DOMAIN seen : seen[i] \notin keep) /\ AppendBullet
    /\ seen' = Kept(keep)
    /\ pc' = "replace"
    /\ UNCHANGED <<log, watermark, brief, stm, run, auto, pass, crashes, torn, times>>

\* stm_store.replace: the file becomes the kept sections, whatever it has become.
Replace ==
    /\ pc = "replace"
    /\ stm' = seen /\ seen' = <<>>
    /\ pc' = AutoTier3 /\ UNCHANGED ltm
    /\ UNCHANGED <<log, watermark, brief, run, auto, pass, crashes, torn, times>>

PromoteFails ==
    /\ pc = "tier2"
    /\ seen' = <<>>
    /\ pc' = AutoTier3 /\ UNCHANGED ltm
    /\ UNCHANGED <<log, watermark, brief, stm, run, auto, pass, crashes, torn, times>>

\* run_tier3: the kept bullets, merged or not, replace the document.
Forget(kept) ==
    /\ pc = "tier3"
    /\ ltm' = kept
    /\ IF left > 0 THEN Answered ELSE pc' = "idle" /\ UNCHANGED <<log, left>>
    /\ UNCHANGED <<watermark, brief, stm, scope, steps, request, auto, pass, seen,
                   crashes, torn, times>>

ForgetFails ==
    /\ pc = "tier3"
    /\ IF left > 0 THEN Answered ELSE pc' = "idle" /\ UNCHANGED <<log, left>>
    /\ UNCHANGED <<watermark, brief, stm, ltm, scope, steps, request, auto, pass, seen,
                   crashes, torn, times>>

---------------------------------------------------------------------------
(* The process is killed and restarted: only the files survive.            *)

Restart ==
    /\ crashes < MaxCrashes /\ crashes' = crashes + 1
    /\ pc' = "idle" /\ scope' = Chat /\ steps' = 0 /\ left' = 0 /\ request' = {}
    /\ auto' = auto_compact /\ pass' = [c \in Callers |-> Off] /\ seen' = <<>>
    /\ torn' = torn \cup (IF left > 0 THEN {Caller} ELSE {})

Crash == Restart /\ UNCHANGED <<files, times>>

\* Killed after the sections are in the file and before the watermark is.
CrashInFold(c) ==
    /\ pass[c].state = "llm"
    /\ \E b \in Answers(pass[c]) : WriteSection(pass[c], b)
    /\ Restart
    /\ UNCHANGED <<log, watermark, brief, ltm>>

Tool == Plain \/ Compact \/ (\E b \in Event : Propose(b)) \/ Approve \/ Decline \/ CompactLtm
        \/ \E on \in BOOLEAN : SwitchAuto(on) \/ SwitchByRequest(on)

Turn == \/ \E s \in {Chat, Task} : StartRun(s)
        \/ Deliver \/ FoldTask \/ PauseRun \/ Request \/ StepsSpent \/ ReplyFails
        \/ \E n \in 0..MaxCalls : Reply(n)

Tier1 == BeginMain \/ ForceCompact \/ \E c \in Callers : Fold(c) \/ FoldFails(c)

Cascade == \/ AutoTier1 \/ AutoTier2 \/ Replace \/ PromoteFails \/ ForgetFails
           \/ \E keep \in SUBSET {seen[i] : i \in DOMAIN seen} : Promote(keep)
           \/ \E kept \in 0..ltm : Forget(kept)

Next == Turn \/ Tool \/ Tier1 \/ Cascade \/ Crash \/ \E c \in Callers : CrashInFold(c)

Spec == Init /\ [][Next]_vars

---------------------------------------------------------------------------
(* Properties.                                                             *)

\* Every variable holds a value of its kind.
TypeOK ==
    /\ log \in Seq(Message) /\ Len(log) <= MaxEvents
    /\ watermark \in 0..MaxEvents /\ brief \in 0..MaxEvents
    /\ ltm \in Nat /\ stm \in Seq(SUBSET Event) /\ seen \in Seq(SUBSET Event)
    /\ pc \in PC /\ scope \in {Chat, Task} /\ steps \in 0..max_steps_per_run
    /\ left \in 0..MaxCalls /\ request \subseteq Event /\ auto \in BOOLEAN
    /\ pass \in [Callers -> [state : {"off", "ask", "llm"}, boundary : 0..MaxEvents,
                             mode : {"tail", "full", "explicit"}, events : SUBSET Event]]
    /\ crashes \in 0..MaxCrashes /\ torn \subseteq Event /\ times \in [Event -> Nat]

\* Every folded message of the conversation has been written to short-term memory, and no
\* message is summarised twice but for a crash between the two writes of a pass: the
\* lock of run_tier1 covers the read of the watermark, the model call and both writes.
FoldedOnce ==
    \A e \in DOMAIN log : log[e].scope = Chat =>
        /\ e <= watermark => times[e] >= 1
        /\ times[e] <= 1 + crashes

\* Neither watermark ever goes back, not across a restart and not when a forced and an
\* automatic pass overlap.
WatermarkAdvances == [][watermark' >= watermark /\ brief' >= brief]_vars

\* No request shows the model the result of a call it does not show, however the
\* watermark moved while the call ran.
NoOrphanResult ==
    \A i \in request : log[i].kind = "tool" => log[i].of \in request

\* Every tool call a request shows is answered in it, but for the calls a crash cut short.
CallsAnswered ==
    \A i \in request \ torn :
        Cardinality({j \in request : log[j].of = i}) = log[i].calls

=============================================================================
