---------------------------- MODULE DecisionBroker ----------------------------
(***************************************************************************)
(* The questions a run puts to its user: the broker (worker/decisions.py), *)
(* the sessions of the IPC server it broadcasts to (worker/ipc.py), the    *)
(* permission gate that decides whether to ask (permissions/gate.py), and  *)
(* the attach client that shows a question and routes the next typed line  *)
(* to it (cli/commands.py).                                                *)
(*                                                                         *)
(* The requests of one connection are served one at a time; a broadcast    *)
(* awaits each session of a snapshot in turn.  A session leaves the server *)
(* when its connection ends, which runs the disconnect hook, or earlier,   *)
(* without the hook, when a broadcast fails to reach it.  A client stands  *)
(* for one connection at a time.                                           *)
(***************************************************************************)
EXTENDS Integers, FiniteSets

CONSTANTS
    Clients,
    Readonly,        \* attach --readonly: declared interactive, reads no input
    OneShot,         \* send and tail: declared interactive: false
    MaxQuestions,    \* bound on the questions asked
    None             \* no answer, no question

Mode     == {"ask", "yolo"}
Choice   == {"approve", "deny"}
Question == 1..MaxQuestions

ASSUME BrokerConstants ==
    /\ Readonly \subseteq Clients /\ OneShot \subseteq Clients /\ Readonly \cap OneShot = {}
    /\ MaxQuestions \in Nat /\ None \notin Choice \cup {"decline"} /\ None \notin Question
    /\ None \notin [set : BOOLEAN, choice : Choice \cup {None}]
    /\ None \notin [id : Question, choice : Choice]

VARIABLES
    conn,             \* per client: off, open (accepted), on (session.start served)
    gone,             \* clients that have closed their end
    busy,             \* connections whose handler is in a long request
    sessions,         \* server.sessions
    interactive,      \* Session.interactive
    session_attached, \* of the gate
    mode,             \* of the gate
    pc,               \* of the run: idle, asked, broadcast, wait
    asked,            \* the questions asked so far; the last one may be open
    pending,          \* broker._pending: the open question's event and choice
    targets, dead,    \* of the broadcast in progress
    shown,            \* _DecisionPrompt.id of each client
    inbox,            \* decision.respond of each client, sent and not yet served
    first,            \* history: the first answer served for the last question
    verdict           \* history: what ask returned for the last question

server  == <<conn, gone, busy, sessions, interactive, session_attached, mode>>
broker  == <<pc, asked, pending, targets, dead>>
client  == <<shown, inbox>>
history == <<first, verdict>>
vars    == <<conn, gone, busy, sessions, interactive, session_attached, mode,
             pc, asked, pending, targets, dead, shown, inbox, first, verdict>>

Init ==
    /\ conn = [c \in Clients |-> "off"] /\ gone = {} /\ busy = {}
    /\ sessions = {} /\ interactive = {} /\ session_attached = FALSE /\ mode \in Mode
    /\ pc = "idle" /\ asked = 0 /\ pending = None /\ targets = {} /\ dead = {}
    /\ shown = [c \in Clients |-> None] /\ inbox = [c \in Clients |-> None]
    /\ first = None /\ verdict = None

\* has_listener
HasListener == sessions \cap interactive # {}

Attached(c) == conn[c] = "on" /\ c \notin gone

\* The input reader of the attach screen is at its prompt.
AtPrompt(c) == Attached(c) /\ c \notin busy \cup Readonly \cup OneShot /\ inbox[c] = None

-----------------------------------------------------------------------------
(* Connections *)

Connect(c) ==
    /\ conn[c] = "off"
    /\ conn' = [conn EXCEPT ![c] = "open"]
    /\ sessions' = sessions \cup {c}
    /\ UNCHANGED <<gone, busy, interactive, session_attached, mode, broker, client, history>>

\* session.start, on attaching and again on /status
Start(c) ==
    /\ conn[c] # "off" /\ c \notin gone \cup busy /\ inbox[c] = None
    /\ conn' = [conn EXCEPT ![c] = "on"]
    /\ interactive' = IF c \in OneShot THEN interactive \ {c} ELSE interactive \cup {c}
    /\ session_attached' = (sessions \cap interactive' # {})
    /\ UNCHANGED <<gone, busy, sessions, mode, broker, client, history>>

\* A request that takes its time: memory.compact, a cancel cascade.
SlowRequest(c) ==
    /\ AtPrompt(c) /\ shown[c] = None
    /\ busy' = busy \cup {c}
    /\ UNCHANGED <<conn, gone, sessions, interactive, session_attached, mode, broker,
                   client, history>>

SlowEnds(c) ==
    /\ c \in busy
    /\ busy' = busy \ {c}
    /\ UNCHANGED <<conn, gone, sessions, interactive, session_attached, mode, broker,
                   client, history>>

Detach(c) ==
    /\ conn[c] # "off" /\ c \notin gone
    /\ gone' = gone \cup {c}
    /\ shown' = [shown EXCEPT ![c] = None]
    /\ UNCHANGED <<conn, busy, sessions, interactive, session_attached, mode, broker,
                   inbox, history>>

\* mutant: only for a session that is still registered
DeclineUnheardLate(p, heard) ==
    IF p = None \/ heard \/ gone \cap sessions = {} THEN p ELSE [p EXCEPT !.set = TRUE]

\* on_session_closed: without a listener every open question is declined.
DeclineUnheard(p, heard) ==
    IF p = None \/ heard THEN p ELSE [p EXCEPT !.set = TRUE]

GateAfterClose(heard) == FALSE                  \* mutant: nobody is left

\* _on_disconnect: what the gate is told.
GateAfter(heard) == heard

\* The handler sees the end of the stream after it has served what was sent.  Session ids
\* are not used again: a broadcast that still holds this session reaches nobody.
Closed(c) ==
    LET heard == (sessions \ {c}) \cap interactive # {}
    IN  /\ c \in gone /\ c \notin busy /\ inbox[c] = None
        /\ conn' = [conn EXCEPT ![c] = "off"] /\ gone' = gone \ {c}
        /\ sessions' = sessions \ {c} /\ interactive' = interactive \ {c}
        /\ targets' = targets \ {c} /\ dead' = dead \ {c}
        /\ pending' = DeclineUnheard(pending, heard)
        /\ session_attached' = GateAfter(heard)
        /\ UNCHANGED <<busy, mode, pc, asked, client, history>>

\* The broadcast of some event fails to reach a session and drops it.
Prune(c) ==
    /\ c \in gone \cap sessions
    /\ sessions' = sessions \ {c}
    /\ UNCHANGED <<conn, gone, busy, interactive, session_attached, mode, broker, client,
                   history>>

-----------------------------------------------------------------------------
(* The permission gate *)

\* What evaluate reads of a tool call: a rule denies it, its tool requires confirmation,
\* its tool is destructive.
Call == SUBSET {"denied", "confirm", "destructive"}

\* A call that is denied for good, or that only a user could confirm and nobody is
\* attached; one that needs no question; and one that the attached user decides.
evaluate(call) ==
    IF "denied" \in call \/ ("confirm" \in call /\ ~ session_attached) THEN "deny"
    ELSE IF mode = "yolo" \/ "destructive" \notin call THEN "allow"
    ELSE IF session_attached THEN "prompt" ELSE "deny"

\* What a typed /ask, or /yolo with its argument, requests.
WantedMode(cmd, arg) ==
    IF cmd = "ask" \/ arg \in {"off", "ask"} THEN "ask"
    ELSE IF arg \in {"on", "yolo"} THEN "yolo" ELSE "toggle"

\* permissions.set_mode: for this worker only, and for the calls evaluated from now on.
SetMode(c, want) ==
    /\ AtPrompt(c) /\ shown[c] = None
    /\ mode' = IF want # "toggle" THEN want ELSE IF mode = "yolo" THEN "ask" ELSE "yolo"
    /\ UNCHANGED <<conn, gone, busy, sessions, interactive, session_attached, broker,
                   client, history>>

-----------------------------------------------------------------------------
(* One question: ask *)

\* A permission passes the gate first; the consent to a compaction (or, in mode ask, to a
\* preemption) does not.  Without a listener ask returns its default and nothing changes.
Ask(kind) ==
    /\ pc = "idle" /\ asked < MaxQuestions
    /\ kind = "permission" => \E call \in Call : evaluate(call) = "prompt"
    /\ HasListener
    /\ asked' = asked + 1
    /\ pending' = [set |-> FALSE, choice |-> None]
    /\ pc' = "asked"
    /\ first' = None /\ verdict' = None
    /\ UNCHANGED <<server, targets, dead, client>>

Snapshot ==
    /\ pc = "asked"
    /\ targets' = sessions /\ pc' = "broadcast"
    /\ UNCHANGED <<server, asked, pending, dead, client, history>>

\* The attach screen stashes the id, whatever it held; the one-shot clients ignore it.
Notify(c) ==
    /\ pc = "broadcast" /\ c \in targets
    /\ targets' = targets \ {c}
    /\ IF c \in gone
       THEN dead' = dead \cup {c} /\ UNCHANGED shown
       ELSE shown' = (IF c \in OneShot THEN shown ELSE [shown EXCEPT ![c] = asked])
            /\ UNCHANGED dead
    /\ UNCHANGED <<server, pc, asked, pending, inbox, history>>

Sent ==
    /\ pc = "broadcast" /\ targets = {}
    /\ sessions' = sessions \ dead /\ dead' = {}
    /\ pc' = "wait"
    /\ UNCHANGED <<conn, gone, busy, interactive, session_attached, mode, asked, pending,
                   targets, client, history>>

\* mutant: the question stays in the registry
DecideKeeps ==
    /\ pc = "wait" /\ pending.set
    /\ verdict' = IF pending.choice = None THEN "decline" ELSE pending.choice
    /\ pc' = "idle"
    /\ UNCHANGED <<server, asked, pending, targets, dead, client, first>>

\* The event is set: the question leaves the registry.
Decide ==
    /\ pc = "wait" /\ pending.set
    /\ verdict' = IF pending.choice = None THEN "decline" ELSE pending.choice
    /\ pending' = None /\ pc' = "idle"
    /\ UNCHANGED <<server, asked, targets, dead, client, first>>

\* The line typed at a question answers it.
Answer(c, choice) ==
    /\ AtPrompt(c) /\ shown[c] # None
    /\ inbox' = [inbox EXCEPT ![c] = [id |-> shown[c], choice |-> choice]]
    /\ shown' = [shown EXCEPT ![c] = None]
    /\ UNCHANGED <<server, broker, history>>

AcceptsLate(id) == pending # None /\ id = asked      \* mutant: the last answer wins

\* resolve accepts an answer to the open question as long as its event is not set.
Accepts(id) == pending # None /\ id = asked /\ ~ pending.set

\* decision.respond
Respond(c) ==
    /\ inbox[c] # None /\ c \notin busy
    /\ LET id == inbox[c].id
       IN  /\ pending' = IF Accepts(id) THEN [set |-> TRUE, choice |-> inbox[c].choice]
                         ELSE pending
           /\ first' = IF first = None /\ id = asked THEN inbox[c].choice ELSE first
    /\ inbox' = [inbox EXCEPT ![c] = None]
    /\ UNCHANGED <<server, pc, asked, targets, dead, shown, verdict>>

-----------------------------------------------------------------------------
Broadcast == Snapshot \/ Sent \/ \E c \in Clients : Notify(c)

Connection(c) ==
    \/ Connect(c) \/ Start(c) \/ Detach(c) \/ Closed(c) \/ Prune(c)
    \/ SlowRequest(c) \/ SlowEnds(c)
    \/ \E cmd \in {"ask", "yolo"}, arg \in {"", "on", "off"} : SetMode(c, WantedMode(cmd, arg))
    \/ Respond(c) \/ \E choice \in Choice : Answer(c, choice)

Next ==
    \/ \E kind \in {"permission", "consent"} : Ask(kind)
    \/ Broadcast \/ Decide
    \/ \E c \in Clients : Connection(c)

Spec == Init /\ [][Next]_vars

\* The event loop runs every task that can go on, clients read what they are sent, and a
\* user answers a question that stays on the screen.
FairSpec ==
    /\ Spec /\ WF_vars(Broadcast) /\ WF_vars(Decide)
    /\ \A c \in Clients : /\ WF_vars(SlowEnds(c)) /\ WF_vars(Closed(c)) /\ WF_vars(Respond(c))
                          /\ WF_vars(\E choice \in Choice : Answer(c, choice))

-----------------------------------------------------------------------------
\* Every variable holds a value of its kind, and a question is in the registry exactly
\* while the run is in ask.
TypeOK ==
    /\ conn \in [Clients -> {"off", "open", "on"}]
    /\ gone \subseteq Clients /\ busy \subseteq Clients
    /\ sessions \subseteq Clients /\ interactive \subseteq Clients
    /\ session_attached \in BOOLEAN /\ mode \in Mode
    /\ pc \in {"idle", "asked", "broadcast", "wait"} /\ asked \in 0..MaxQuestions
    /\ pending \in {None} \cup [set : BOOLEAN, choice : Choice \cup {None}]
    /\ pending = None <=> pc = "idle"
    /\ pc # "idle" => asked \in Question
    /\ targets \subseteq Clients /\ dead \subseteq Clients
    /\ shown \in [Clients -> Question \cup {None}]
    /\ inbox \in [Clients -> {None} \cup [id : Question, choice : Choice]]
    /\ first \in Choice \cup {None} /\ verdict \in Choice \cup {None, "decline"}

\* The gate never refuses a call for want of a session while one could confirm it,
\* whichever way sessions come and go: with a listener only the rules refuse.
GateSeesListener ==
    HasListener => \A call \in Call : evaluate(call) = "deny" => "denied" \in call

\* Several clients answer, late, twice or to an older question: what a question returns is
\* the first answer that was served for it, or the default.
FirstAnswerWins == verdict \in Choice => verdict = first

Waiting == pc = "wait"

\* "a headless worker never hangs" (docs/MEMORY_SPEC.md): no question stays open for ever
\* with nobody interactive attached, whether the last session left by its connection, in
\* the middle of the broadcast, or was dropped by a broadcast.
HeadlessNeverHangs == []<>(~ Waiting \/ HasListener)

\* A listener is somebody who can answer ("a client that can't answer a decision/request
\* must not make the worker block on one", worker/ipc.py): with users who answer whatever
\* they are shown, every question comes to an end.
QuestionEnds == Waiting ~> ~ Waiting

-----------------------------------------------------------------------------
(* The abstract question *)

UnderWay == {inbox[c].choice : c \in {d \in Clients : inbox[d] # None /\ inbox[d].id = asked}}

Settled ==
    IF pending = None \/ ~ pending.set THEN None
    ELSE IF pending.choice = None THEN "decline" ELSE pending.choice

Promise == INSTANCE UserQuestion WITH
    heard <- HasListener, open <- pending # None, said <- UnderWay, answer <- Settled,
    result <- verdict

\* However sessions come, go and are dropped, and whoever answers, late, twice or to an older
\* question: a question is put to a listener, is settled by the first answer to it that
\* arrives, is declined only when nobody listens, and returns what settled it.
KeepsPromise == Promise!Spec
=============================================================================
