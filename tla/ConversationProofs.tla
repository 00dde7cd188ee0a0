--------------------------- MODULE ConversationProofs ---------------------------
(* For any log, budgets, number of crashes and consents: a message of the      *)
(* conversation is folded into short-term memory exactly once, a crash between *)
(* the two writes of a pass apart, the watermarks never go back, and a request *)
(* shows a result with its call and a call with its results.                   *)
EXTENDS Conversation, SequenceTheorems, FiniteSetTheorems, WellFoundedInduction, TLAPS

\* The log is a sequence, whatever its messages are.
IsLog(s) == \E S : s \in Seq(S)

\* A reply reserves the room of its results, and only a batch of tool calls has results
\* to come.
RoomInv ==
    /\ IsLog(log) /\ left \in Nat
    /\ Len(log) + left <= MaxEvents
    /\ left > 0 => pc \in {"tools", "consent", "tier1", "tier3"}
    /\ pc \in {"tools", "consent"} => left > 0

\* What the passes of tier 1 hold: one of them at most awaits its model, and it holds
\* every message between the watermark and the last it read.
PassInv ==
    /\ DOMAIN pass = Callers
    /\ \A c, d \in Callers : pass[c].state = "llm" /\ pass[d].state = "llm" => c = d
    /\ \A c \in Callers : pass[c].state = "llm" =>
          /\ pass[c].events \subseteq Read(Chat, watermark)
          /\ \A i \in Read(Chat, watermark) \ pass[c].events :
                \A j \in pass[c].events : j < i

\* How often each message was written to short-term memory: those past the watermark
\* at most once for each crash.
TimesInv ==
    /\ watermark \in 0..Len(log) /\ crashes \in Nat /\ times \in [Event -> Nat]
    /\ \A e \in Event : e \notin DOMAIN log => times[e] = 0
    /\ \A e \in DOMAIN log : log[e].scope = Chat =>
          /\ e <= watermark => times[e] >= 1 /\ times[e] <= 1 + crashes
          /\ e > watermark => times[e] <= crashes

FoldInv == RoomInv /\ PassInv /\ TimesInv /\ brief \in Nat

\* The log as numbers.
LEMMA LogFacts ==
  ASSUME RoomInv
  PROVE  Len(log) \in Nat /\ DOMAIN log = 1..Len(log) /\ DOMAIN log \subseteq Event
  <1> PICK S : log \in Seq(S)
    BY DEF RoomInv, IsLog
  <1>1. Len(log) \in Nat /\ DOMAIN log = 1..Len(log)
    OBVIOUS
  <1> QED BY <1>1, ConversationConstants DEF RoomInv, Event

LEMMA Said ==
  ASSUME IsLog(log), NEW m, log' = Append(log, m)
  PROVE  /\ IsLog(log') /\ Len(log') = Len(log) + 1 /\ Len(log) \in Nat
         /\ DOMAIN log = 1..Len(log) /\ DOMAIN log' = 1..(Len(log) + 1)
         /\ \A i \in DOMAIN log : log'[i] = log[i]
         /\ log'[Len(log) + 1] = m
  <1> PICK S : log \in Seq(S)
    BY DEF IsLog
  <1> DEFINE T == S \cup {m}
  <1>1. log \in Seq(T)
    OBVIOUS
  <1>2. m \in T
    OBVIOUS
  <1> HIDE DEF T
  <1>3. log' \in Seq(T) /\ Len(log') = Len(log) + 1 /\ Len(log) \in Nat
        /\ DOMAIN log = 1..Len(log) /\ DOMAIN log' = 1..(Len(log) + 1)
        /\ \A i \in 1..Len(log) : log'[i] = log[i]
        /\ log'[Len(log) + 1] = m
    BY <1>1, <1>2
  <1> QED BY <1>3 DEF IsLog

\* A message more changes neither what was folded nor what a pass holds.
LEMMA MemoryAfterSay ==
  ASSUME FoldInv, RoomInv', NEW m, log' = Append(log, m),
         UNCHANGED <<watermark, brief, crashes, times>>,
         DOMAIN pass' = Callers,
         \A c \in Callers : pass'[c].state = "llm" => pass'[c] = pass[c]
  PROVE  FoldInv'
  <1> USE DEF FoldInv
  <1>1. /\ Len(log') = Len(log) + 1 /\ Len(log) \in Nat
        /\ DOMAIN log = 1..Len(log) /\ DOMAIN log' = 1..(Len(log) + 1)
        /\ \A i \in DOMAIN log : log'[i] = log[i]
    BY Said DEF RoomInv
  <1>2. Read(Chat, watermark) \subseteq Read(Chat, watermark)'
        /\ \A i \in Read(Chat, watermark)' \ Read(Chat, watermark) : i = Len(log) + 1
    BY <1>1 DEF Read
  <1>3. PassInv'
    <2>1. ASSUME NEW c \in Callers, pass'[c].state = "llm"
          PROVE  /\ pass'[c].events \subseteq Read(Chat, watermark)'
                 /\ \A i \in Read(Chat, watermark)' \ pass'[c].events :
                        \A j \in pass'[c].events : j < i
      <3>1. pass'[c] = pass[c] /\ pass[c].state = "llm"
        BY <2>1
      <3>2. pass[c].events \subseteq Read(Chat, watermark)
        BY <3>1 DEF PassInv
      <3>3. \A j \in pass[c].events : j \in Nat /\ j < Len(log) + 1
        BY <1>1, <3>2 DEF Read
      <3> QED BY <1>2, <3>1, <3>2, <3>3 DEF PassInv
    <2>2. \A c, d \in Callers : pass'[c].state = "llm" /\ pass'[d].state = "llm" => c = d
      BY DEF PassInv
    <2> QED BY <2>1, <2>2 DEF PassInv
  <1>4. TimesInv'
    <2>0. DOMAIN log' \subseteq Event
      BY <1>1, ConversationConstants DEF RoomInv, Event
    <2>1. ASSUME NEW e \in DOMAIN log', log'[e].scope = Chat
          PROVE  /\ e <= watermark => times[e] >= 1 /\ times[e] <= 1 + crashes
                 /\ e > watermark => times[e] <= crashes
      <3>1. CASE e \in DOMAIN log
        BY <1>1, <2>1, <3>1 DEF TimesInv
      <3>2. CASE e \notin DOMAIN log
        BY <1>1, <2>0, <2>1, <3>2 DEF TimesInv
      <3> QED BY <3>1, <3>2
    <2> QED BY <1>1, <2>1 DEF TimesInv
  <1> QED BY <1>3, <1>4

\* A step that leaves the files and the passes alone, or takes a pass away.
LEMMA MemoryUntouched ==
  ASSUME FoldInv, RoomInv',
         UNCHANGED <<log, watermark, crashes, times>>, brief' \in Nat,
         DOMAIN pass' = Callers,
         \A c \in Callers : pass'[c].state = "llm" => pass'[c] = pass[c]
  PROVE  FoldInv'
  <1> USE DEF FoldInv
  <1>1. Read(Chat, watermark)' = Read(Chat, watermark)
    BY DEF Read
  <1>2. PassInv'
    BY <1>1 DEF PassInv
  <1>3. TimesInv'
    BY DEF TimesInv
  <1> QED BY <1>2, <1>3

\* One of the results of a batch.
LEMMA AnsweredRoom ==
  ASSUME RoomInv, left > 0, Answered
  PROVE  RoomInv' /\ \E m : log' = Append(log, m)
  <1> DEFINE m == [kind |-> "tool", scope |-> scope, calls |-> 0, of |-> Caller]
  <1>1. log' = Append(log, m) /\ left' = left - 1
        /\ pc' = IF left = 1 THEN "turn" ELSE "tools"
    BY DEF Answered, Say
  <1> HIDE DEF m
  <1>2. IsLog(log') /\ Len(log') = Len(log) + 1 /\ Len(log) \in Nat
    BY <1>1, Said DEF RoomInv
  <1> QED BY <1>1, <1>2, ConversationConstants DEF RoomInv

LEMMA EndPassRoom ==
  ASSUME RoomInv, NEW c \in Callers, EndPass(c)
  PROVE  RoomInv' /\ (log' = log \/ \E m : log' = Append(log, m))
  <1>1. CASE c = Ipc
    BY <1>1 DEF EndPass, RoomInv
  <1>2. CASE c # Ipc /\ left > 0
    BY <1>2, AnsweredRoom DEF EndPass
  <1>3. CASE c # Ipc /\ ~ (left > 0)
    BY <1>3 DEF EndPass, RoomInv
  <1> QED BY <1>1, <1>2, <1>3

LEMMA SayRoom ==
  ASSUME RoomInv, pc = "idle" \/ pc = "llm", NEW kind, NEW s, NEW n, NEW of,
         Say(kind, s, n, of), left' \in Nat, Room(1 + left'),
         left' > 0 => pc' = "tools", pc' \in {"tools", "consent"} => left' > 0
  PROVE  RoomInv' /\ \E m : log' = Append(log, m)
  <1> DEFINE m == [kind |-> kind, scope |-> s, calls |-> n, of |-> of]
  <1>1. log' = Append(log, m)
    BY DEF Say
  <1> HIDE DEF m
  <1>2. IsLog(log') /\ Len(log') = Len(log) + 1 /\ Len(log) \in Nat
    BY <1>1, Said DEF RoomInv
  <1> QED BY <1>1, <1>2, ConversationConstants DEF RoomInv, Room

LEMMA TurnStep ==
  ASSUME FoldInv, Turn
  PROVE  FoldInv'
  <1> USE DEF FoldInv
  <1>1. ASSUME NEW s \in {Chat, Task}, StartRun(s) PROVE FoldInv'
    <2>1. left' = 0 /\ left = 0 /\ pass' = pass
      BY <1>1 DEF StartRun, RoomInv
    <2>2. RoomInv' /\ \E m : log' = Append(log, m)
      BY <1>1, <2>1, SayRoom DEF StartRun
    <2> QED BY <1>1, <2>1, <2>2, MemoryAfterSay DEF StartRun, PassInv
  <1>2. CASE Deliver
    <2>1. left' = 0 /\ left = 0 /\ pass' = pass
      BY <1>2 DEF Deliver, RoomInv
    <2>2. RoomInv' /\ \E m : log' = Append(log, m)
      BY <1>2, <2>1, SayRoom DEF Deliver
    <2> QED BY <1>2, <2>1, <2>2, MemoryAfterSay DEF Deliver, PassInv
  <1>3. ASSUME NEW n \in 0..MaxCalls, Reply(n) PROVE FoldInv'
    <2>1. left' = n /\ n \in Nat /\ pass' = pass
      BY <1>3, ConversationConstants DEF Reply
    <2>2. /\ pc = "llm" /\ Say("assistant", scope, n, 0) /\ Room(1 + left')
          /\ (left' > 0 => pc' = "tools") /\ (pc' \in {"tools", "consent"} => left' > 0)
      BY <1>3, <2>1 DEF Reply, EndRun
    <2>3. RoomInv' /\ \E m : log' = Append(log, m)
      BY <2>1, <2>2, SayRoom
    <2> QED BY <1>3, <2>1, <2>3, MemoryAfterSay DEF Reply, PassInv
  <1>4. CASE FoldTask
    <2>1. brief' \in Nat
      BY <1>4, LogFacts DEF FoldTask, Read
    <2> QED BY <1>4, <2>1, MemoryUntouched DEF FoldTask, RoomInv, PassInv
  <1>5. CASE PauseRun
    <2>1. brief' \in Nat
      BY <1>5, LogFacts DEF PauseRun, Read
    <2>2. RoomInv'
      BY <1>5 DEF PauseRun, EndRun, RoomInv
    <2> QED BY <1>5, <2>1, <2>2, MemoryUntouched DEF PauseRun, PassInv
  <1>6. CASE Request \/ StepsSpent \/ ReplyFails
    <2>1. RoomInv'
      BY <1>6 DEF Request, StepsSpent, ReplyFails, EndRun, RoomInv
    <2> QED BY <1>6, <2>1, MemoryUntouched DEF Request, StepsSpent, ReplyFails, PassInv
  <1> QED BY <1>1, <1>2, <1>3, <1>4, <1>5, <1>6 DEF Turn

LEMMA AnsweredStep ==
  ASSUME FoldInv, left > 0, Answered, UNCHANGED <<watermark, brief, crashes, times>>,
         DOMAIN pass' = Callers,
         \A c \in Callers : pass'[c].state = "llm" => pass'[c] = pass[c]
  PROVE  FoldInv'
  BY AnsweredRoom, MemoryAfterSay DEF FoldInv

LEMMA ToolStep ==
  ASSUME FoldInv, Tool
  PROVE  FoldInv'
  <1> USE DEF FoldInv
  <1>1. CASE Plain \/ \E on \in BOOLEAN : SwitchAuto(on)
    BY <1>1, AnsweredStep DEF Plain, SwitchAuto, RoomInv, PassInv
  <1>2. CASE Decline
    BY <1>2, AnsweredStep DEF Decline, RoomInv, PassInv, Off
  <1>3. CASE Compact \/ Approve \/ \E b \in Event : Propose(b)
    <2>1. RoomInv'
      BY <1>3 DEF Compact, Approve, Propose, RoomInv, files, run
    <2>2. /\ DOMAIN pass' = Callers
          /\ \A c \in Callers : pass'[c].state = "llm" => pass'[c] = pass[c]
      <3>1. PICK r : pass' = [pass EXCEPT ![Main] = r] /\ r.state # "llm"
        <4>1. ASSUME NEW mode, NEW b PROVE Asked(mode, b).state = "ask"
          BY DEF Asked
        <4>2. ASSUME NEW b PROVE [Off EXCEPT !.mode = "explicit", !.boundary = b].state = "off"
          BY DEF Off
        <4>3. CASE Compact \/ Approve
          BY <4>1, <4>3 DEF Compact, Approve
        <4>4. ASSUME NEW b \in Event, Propose(b)
              PROVE  pass' = [pass EXCEPT ![Main] =
                                  [Off EXCEPT !.mode = "explicit", !.boundary = b]]
          BY <4>4 DEF Propose
        <4> QED BY <1>3, <4>2, <4>3, <4>4
      <3> QED BY <3>1 DEF PassInv
    <2> QED BY <1>3, <2>1, <2>2, MemoryUntouched DEF Compact, Approve, Propose, files
  <1>4. CASE CompactLtm
    <2>1. RoomInv'
      BY <1>4 DEF CompactLtm, RoomInv, files, run
    <2> QED BY <1>4, <2>1, MemoryUntouched DEF CompactLtm, files, PassInv
  <1>5. CASE \E on \in BOOLEAN : SwitchByRequest(on)
    <2>1. RoomInv'
      BY <1>5 DEF SwitchByRequest, RoomInv, files, run
    <2> QED BY <1>5, <2>1, MemoryUntouched DEF SwitchByRequest, files, PassInv
  <1> QED BY <1>1, <1>2, <1>3, <1>4, <1>5 DEF Tool

\* The end of a pass that folded nothing.
LEMMA EndPassStep ==
  ASSUME FoldInv, NEW c \in Callers, EndPass(c),
         UNCHANGED <<watermark, brief, crashes, times>>
  PROVE  FoldInv'
  <1>1. RoomInv' /\ (log' = log \/ \E m : log' = Append(log, m))
    BY EndPassRoom DEF FoldInv
  <1>2. pass' = [pass EXCEPT ![c] = Off] /\ Off.state # "llm"
    BY DEF EndPass, Off
  <1>3. /\ DOMAIN pass' = Callers
        /\ \A d \in Callers : pass'[d].state = "llm" => pass'[d] = pass[d]
    BY <1>2 DEF FoldInv, PassInv
  <1> QED BY <1>1, <1>3, MemoryAfterSay, MemoryUntouched DEF FoldInv

LEMMA BeginStep ==
  ASSUME FoldInv, NEW c \in Callers, NEW mode, NEW b, Begin(c, mode, b)
  PROVE  FoldInv'
  <1> USE DEF FoldInv
  <1> DEFINE events == Read(Chat, watermark)
             cut    == Suggested(mode, events, b)
             p      == [state |-> "llm", mode |-> mode, boundary |-> cut, events |-> events]
  <1>1. CASE EndPass(c)
    BY <1>1, EndPassStep DEF Begin
  <1>2. CASE ~ EndPass(c)
    <2>1. /\ LockFree /\ pass' = [pass EXCEPT ![c] = p]
          /\ UNCHANGED <<log, left, pc, watermark, brief, crashes, times>>
      BY <1>2 DEF Begin
    <2>2. p.state = "llm" /\ p.events = events
      OBVIOUS
    <2>3. events' = events
      BY <2>1 DEF Read
    <2> HIDE DEF p, events
    <2>4. PassInv'
      <3>1. /\ DOMAIN pass' = Callers /\ pass'[c] = p
            /\ \A d \in Callers \ {c} : pass'[d].state # "llm"
        BY <2>1 DEF PassInv, LockFree
      <3> QED BY <2>2, <2>3, <3>1 DEF PassInv, events
    <2>5. RoomInv' /\ TimesInv'
      BY <2>1 DEF RoomInv, TimesInv
    <2> QED BY <2>1, <2>4, <2>5
  <1> QED BY <1>1, <1>2

\* The section that is written, and what it leaves of the counts.
LEMMA SectionWritten ==
  ASSUME FoldInv, NEW c \in Callers, pass[c].state = "llm", NEW b \in Answers(pass[c]),
         WriteSection(pass[c], b)
  PROVE  /\ b \in DOMAIN log /\ b > watermark /\ b \in Nat
         /\ times' \in [Event -> Nat]
         /\ \A e \in Event : e \notin DOMAIN log => times'[e] = 0
         /\ \A e \in DOMAIN log : log[e].scope = Chat =>
               /\ e <= watermark => times'[e] = times[e]
               /\ e > watermark /\ e <= b => times'[e] = times[e] + 1
               /\ e > b => times'[e] = times[e]
  <1> USE DEF FoldInv
  <1>1. DOMAIN log = 1..Len(log) /\ Len(log) \in Nat /\ DOMAIN log \subseteq Event
    BY LogFacts
  <1>2. pass[c].events \subseteq {i \in DOMAIN log : i > watermark /\ log[i].scope = Chat}
    BY DEF PassInv, Read
  <1>3. b \in pass[c].events
    BY DEF Answers
  <1>4. Event \subseteq Int /\ watermark \in Nat
    BY <1>1 DEF Event, TimesInv
  <1>5. ASSUME NEW e \in DOMAIN log, log[e].scope = Chat, e > watermark, e <= b
        PROVE  e \in Covered(pass[c], b)
    <2>1. e \in Read(Chat, watermark)
      BY <1>5 DEF Read
    <2>2. e \in pass[c].events
      BY <1>1, <1>2, <1>3, <1>5, <2>1 DEF PassInv
    <2> QED BY <1>5, <2>2 DEF Covered
  <1>6. ASSUME NEW e \in Covered(pass[c], b)
        PROVE  e \in DOMAIN log /\ e > watermark /\ e <= b
    BY <1>2, <1>6 DEF Covered
  <1>7. times' = [e \in Event |-> IF e \in Covered(pass[c], b) THEN times[e] + 1 ELSE times[e]]
    BY DEF WriteSection
  <1>8. times' \in [Event -> Nat]
    BY <1>7 DEF TimesInv
  <1>9. \A e \in Event : e \notin DOMAIN log => times'[e] = 0
    BY <1>6, <1>7 DEF TimesInv
  <1>10. ASSUME NEW e \in DOMAIN log, log[e].scope = Chat
         PROVE  /\ e <= watermark => times'[e] = times[e]
                /\ e > watermark /\ e <= b => times'[e] = times[e] + 1
                /\ e > b => times'[e] = times[e]
    <2>1. e \in Event /\ e \in Int /\ b \in Int
      BY <1>1, <1>2, <1>3
    <2>2. e \in Covered(pass[c], b) <=> e > watermark /\ e <= b
      BY <1>5, <1>6, <1>10
    <2> QED BY <1>4, <1>7, <2>1, <2>2
  <1>11. b \in DOMAIN log /\ b > watermark /\ b \in Nat
    BY <1>1, <1>2, <1>3
  <1> QED BY <1>8, <1>9, <1>10, <1>11

LEMMA FoldStep ==
  ASSUME FoldInv, NEW c \in Callers, Fold(c)
  PROVE  FoldInv' /\ watermark' >= watermark
  <1> USE DEF FoldInv
  <1>1. PICK b \in Answers(pass[c]) : WriteSection(pass[c], b) /\ watermark' = b
    BY DEF Fold
  <1>2. pass[c].state = "llm" /\ EndPass(c) /\ UNCHANGED <<brief, crashes>>
    BY DEF Fold
  <1>3. /\ b \in DOMAIN log /\ b > watermark /\ b \in Nat
        /\ times' \in [Event -> Nat]
        /\ \A e \in Event : e \notin DOMAIN log => times'[e] = 0
        /\ \A e \in DOMAIN log : log[e].scope = Chat =>
              /\ e <= watermark => times'[e] = times[e]
              /\ e > watermark /\ e <= b => times'[e] = times[e] + 1
              /\ e > b => times'[e] = times[e]
    BY <1>1, <1>2, SectionWritten
  <1>4. RoomInv' /\ (log' = log \/ \E m : log' = Append(log, m))
    BY <1>2, EndPassRoom
  <1>5. /\ DOMAIN log = 1..Len(log) /\ Len(log) \in Nat /\ DOMAIN log \subseteq Event
        /\ DOMAIN log' \subseteq Event
    BY <1>4, LogFacts, ConversationConstants DEF RoomInv, Event
  <1>6. /\ Len(log') \in Nat /\ Len(log') >= Len(log)
        /\ \A i \in DOMAIN log : i \in DOMAIN log' /\ log'[i] = log[i]
        /\ \A i \in DOMAIN log' : i \in Nat /\ (i \notin DOMAIN log => i > Len(log))
    BY <1>4, <1>5, Said DEF RoomInv
  <1>7. PassInv'
    <2>1. pass' = [pass EXCEPT ![c] = Off] /\ Off.state # "llm"
      BY <1>2 DEF EndPass, Off
    <2>2. DOMAIN pass' = Callers /\ \A d \in Callers : pass'[d].state # "llm"
      BY <1>2, <2>1 DEF PassInv
    <2> QED BY <2>2 DEF PassInv
  <1>8. TimesInv'
    <2>1. ASSUME NEW e \in DOMAIN log', log'[e].scope = Chat
          PROVE  /\ e <= b => times'[e] >= 1 /\ times'[e] <= 1 + crashes
                 /\ e > b => times'[e] <= crashes
      <3>1. CASE e \in DOMAIN log
        <4>1. log[e].scope = Chat /\ times[e] \in Nat /\ e \in Nat
          BY <1>5, <1>6, <2>1, <3>1 DEF TimesInv
        <4>2. /\ e <= watermark => times[e] >= 1 /\ times[e] <= 1 + crashes
              /\ e > watermark => times[e] <= crashes
          BY <3>1, <4>1 DEF TimesInv
        <4> QED BY <1>3, <1>5, <3>1, <4>1, <4>2 DEF TimesInv
      <3>2. CASE e \notin DOMAIN log
        <4>1. times'[e] = 0 /\ e > b
          BY <1>3, <1>5, <1>6, <2>1, <3>2
        <4> QED BY <1>3, <1>6, <4>1 DEF TimesInv
      <3> QED BY <3>1, <3>2
    <2>2. watermark' \in 0..Len(log') /\ crashes' \in Nat /\ times' \in [Event -> Nat]
      BY <1>1, <1>2, <1>3, <1>5, <1>6 DEF TimesInv
    <2>3. \A e \in Event : e \notin DOMAIN log' => times'[e] = 0
      BY <1>3, <1>6
    <2> QED BY <1>1, <1>2, <2>1, <2>2, <2>3 DEF TimesInv
  <1>9. watermark' >= watermark
    BY <1>1, <1>3, <1>5 DEF TimesInv
  <1> QED BY <1>2, <1>4, <1>7, <1>8, <1>9

LEMMA RestartRoom ==
  ASSUME RoomInv, Restart, log' = log
  PROVE  RoomInv' /\ DOMAIN pass' = Callers /\ \A c \in Callers : pass'[c].state # "llm"
  <1>1. RoomInv'
    <2>1. left' = 0 /\ pc' = "idle"
      BY DEF Restart
    <2>2. Len(log) \in Nat /\ Len(log) + 0 <= MaxEvents
      BY LogFacts, ConversationConstants DEF RoomInv
    <2>3. IsLog(log') /\ Len(log') + left' <= MaxEvents
      BY <2>1, <2>2 DEF RoomInv, IsLog
    <2> QED BY <2>1, <2>3 DEF RoomInv
  <1>2. pass' = [c \in Callers |-> Off] /\ Off.state # "llm"
    BY DEF Restart, Off
  <1> QED BY <1>1, <1>2

LEMMA CrashStep ==
  ASSUME FoldInv, Crash \/ \E c \in Callers : CrashInFold(c)
  PROVE  FoldInv' /\ watermark' = watermark /\ brief' = brief
  <1> USE DEF FoldInv
  <1>1. /\ Restart /\ UNCHANGED <<log, watermark, brief>> /\ crashes' = crashes + 1
        /\ crashes' \in Nat
    BY DEF Crash, CrashInFold, Restart, files, TimesInv
  <1>2. RoomInv' /\ PassInv'
    BY <1>1, RestartRoom DEF PassInv
  <1>3. CASE Crash
    BY <1>1, <1>2, <1>3, LogFacts DEF Crash, TimesInv
  <1>4. ASSUME NEW c \in Callers, CrashInFold(c) PROVE TimesInv'
    <2>1. PICK b \in Answers(pass[c]) : WriteSection(pass[c], b)
      BY <1>4 DEF CrashInFold
    <2>2. /\ b \in Nat /\ b > watermark /\ times' \in [Event -> Nat]
          /\ \A e \in Event : e \notin DOMAIN log => times'[e] = 0
          /\ \A e \in DOMAIN log : log[e].scope = Chat =>
                /\ e <= watermark => times'[e] = times[e]
                /\ e > watermark /\ e <= b => times'[e] = times[e] + 1
                /\ e > b => times'[e] = times[e]
      BY <1>4, <2>1, SectionWritten DEF CrashInFold
    <2>3. ASSUME NEW e \in DOMAIN log, log[e].scope = Chat
          PROVE  /\ e <= watermark => times'[e] >= 1 /\ times'[e] <= 1 + crashes'
                 /\ e > watermark => times'[e] <= crashes'
      <3>1. /\ e \in Nat /\ watermark \in Nat /\ times[e] \in Nat /\ crashes \in Nat
            /\ e <= watermark => times[e] >= 1 /\ times[e] <= 1 + crashes
            /\ e > watermark => times[e] <= crashes
        BY <2>3, LogFacts DEF TimesInv
      <3> QED BY <1>1, <2>2, <2>3, <3>1
    <2> QED BY <1>1, <2>2, <2>3 DEF TimesInv
  <1> QED BY <1>1, <1>2, <1>3, <1>4

LEMMA CascadeStep ==
  ASSUME FoldInv, Cascade
  PROVE  FoldInv'
  <1> USE DEF FoldInv
  <1>1. CASE AutoTier1
    <2>1. RoomInv'
      BY <1>1 DEF AutoTier1, RoomInv, files, run
    <2>2. /\ DOMAIN pass' = Callers
          /\ \A c \in Callers : pass'[c].state = "llm" => pass'[c] = pass[c]
      <3>1. Asked("tail", 0).state = "ask"
        BY DEF Asked
      <3> QED BY <1>1, <3>1 DEF AutoTier1, PassInv
    <2> QED BY <1>1, <2>1, <2>2, MemoryUntouched DEF AutoTier1, files
  <1>2. CASE AutoTier2
    <2>1. RoomInv'
      BY <1>2 DEF AutoTier2, RoomInv, files, run
    <2> QED BY <1>2, <2>1, MemoryUntouched DEF AutoTier2, PassInv, files
  <1>3. CASE Replace \/ PromoteFails
             \/ \E keep \in SUBSET {seen[i] : i \in DOMAIN seen} : Promote(keep)
    <2>1. /\ UNCHANGED <<log, watermark, brief, crashes, times, pass, left>>
          /\ pc \notin {"tools", "consent", "tier1", "tier3"} /\ pc' \notin {"tools", "consent"}
      BY <1>3 DEF Replace, PromoteFails, Promote, AutoTier3, run
    <2>2. RoomInv'
      BY <2>1 DEF RoomInv
    <2> QED BY <2>1, <2>2, MemoryUntouched DEF PassInv
  <1>4. CASE ForgetFails \/ \E kept \in 0..ltm : Forget(kept)
    <2>1. CASE left > 0
      BY <1>4, <2>1, AnsweredStep DEF Forget, ForgetFails, PassInv
    <2>2. CASE ~ (left > 0)
      <3>1. /\ UNCHANGED <<log, watermark, brief, crashes, times, pass, left>> /\ pc' = "idle"
        BY <1>4, <2>2 DEF Forget, ForgetFails
      <3>2. RoomInv'
        BY <2>2, <3>1 DEF RoomInv
      <3> QED BY <3>1, <3>2, MemoryUntouched DEF PassInv
    <2> QED BY <2>1, <2>2
  <1> QED BY <1>1, <1>2, <1>3, <1>4 DEF Cascade

LEMMA FoldInvStep ==
  ASSUME FoldInv, [Next]_vars
  PROVE  FoldInv'
  <1>1. CASE UNCHANGED vars
    BY <1>1 DEF vars, FoldInv, RoomInv, PassInv, TimesInv, Read
  <1>2. CASE Tier1
    <2>1. ASSUME NEW c \in Callers, FoldFails(c) PROVE FoldInv'
      BY <2>1, EndPassStep DEF FoldFails
    <2> QED BY <1>2, <2>1, BeginStep, FoldStep DEF Tier1, BeginMain, ForceCompact, Callers
  <1> QED BY <1>1, <1>2, TurnStep, ToolStep, CascadeStep, CrashStep DEF Next

LEMMA FoldInvariant == Spec => []FoldInv
  <1>1. Init => FoldInv
    <2> SUFFICES ASSUME Init PROVE FoldInv
      OBVIOUS
    <2>1. log \in Seq({}) /\ Len(log) = 0 /\ DOMAIN log = {}
      BY DEF Init
    <2>2. RoomInv
      BY <2>1, ConversationConstants DEF Init, RoomInv, IsLog
    <2>3. PassInv
      BY DEF Init, PassInv, Off
    <2>4. TimesInv
      BY <2>1 DEF Init, TimesInv
    <2> QED BY <2>2, <2>3, <2>4 DEF FoldInv, Init
  <1> QED BY <1>1, FoldInvStep, PTL DEF Spec

\* Whatever the consents, the overlaps of forced and automatic passes and the crashes:
\* every folded message is in short-term memory, and none more often than once for each
\* crash and once more.
THEOREM FoldedOnceAlways == Spec => []FoldedOnce
  <1>1. FoldInv => FoldedOnce
    <2> SUFFICES ASSUME FoldInv, NEW e \in DOMAIN log, log[e].scope = Chat
                 PROVE  (e <= watermark => times[e] >= 1) /\ times[e] <= 1 + crashes
      BY DEF FoldedOnce
    <2>1. e \in Nat /\ watermark \in Nat /\ crashes \in Nat /\ times[e] \in Nat
      BY LogFacts DEF FoldInv, TimesInv
    <2> QED BY <2>1 DEF FoldInv, TimesInv
  <1> QED BY <1>1, FoldInvariant, PTL

\* No step, a crash or a restart included, takes a watermark back.
THEOREM WatermarksAdvance == Spec => WatermarkAdvances
  <1>1. ASSUME FoldInv, FoldInv', [Next]_vars
        PROVE  [watermark' >= watermark /\ brief' >= brief]_vars
    <2>0. brief \in Nat /\ watermark \in Nat
      BY <1>1, LogFacts DEF FoldInv, TimesInv
    <2>1. CASE UNCHANGED vars
      BY <2>1
    <2>2. CASE Turn
      <3>1. watermark' = watermark
        BY <2>2 DEF Turn, StartRun, Deliver, FoldTask, PauseRun, Request, StepsSpent, ReplyFails,
                    Reply
      <3>2. CASE FoldTask \/ PauseRun
        BY <1>1, <2>0, <3>1, <3>2, LogFacts DEF FoldTask, PauseRun, Read, FoldInv
      <3>3. CASE ~ (FoldTask \/ PauseRun)
        BY <2>0, <2>2, <3>1, <3>3 DEF Turn, StartRun, Deliver, Request, StepsSpent, ReplyFails, Reply
      <3> QED BY <3>2, <3>3
    <2>3. CASE Tool
      <3>1. watermark' = watermark /\ brief' = brief
        BY <2>3 DEF Tool, Plain, SwitchAuto, SwitchByRequest, Compact, Propose, Approve, Decline,
                     CompactLtm, files
      <3> QED BY <2>0, <3>1
    <2>4. CASE BeginMain \/ ForceCompact \/ \E c \in Callers : FoldFails(c)
      BY <2>0, <2>4 DEF BeginMain, ForceCompact, Begin, FoldFails
    <2>5. ASSUME NEW c \in Callers, Fold(c) PROVE watermark' >= watermark /\ brief' >= brief
      BY <1>1, <2>0, <2>5, FoldStep DEF Fold
    <2>6. CASE Cascade
      <3>1. watermark' = watermark /\ brief' = brief
        BY <2>6 DEF Cascade, AutoTier1, AutoTier2, Replace, PromoteFails, ForgetFails, Promote,
                    Forget, files
      <3> QED BY <2>0, <3>1
    <2>7. CASE Crash \/ \E c \in Callers : CrashInFold(c)
      BY <1>1, <2>0, <2>7, CrashStep
    <2> QED BY <1>1, <2>1, <2>2, <2>3, <2>4, <2>5, <2>6, <2>7 DEF Next, Tier1
  <1> QED BY <1>1, FoldInvariant, PTL DEF Spec, WatermarkAdvances

---------------------------------------------------------------------------
(* A window that shows a call shows its results, and a result its call.    *)

\* The messages that answer a call of message i.
ResultsOf(l, i) == {j \in DOMAIN l : l[j].of = i}
Counted(l, i)   == Cardinality(ResultsOf(l, i)) = l[i].calls

\* A result follows its reply, in the same scope, with only other results between.
Paired(l) ==
    /\ \A i \in DOMAIN l : l[i].kind # "tool" => l[i].of = 0
    /\ \A i \in DOMAIN l : l[i].kind = "tool" =>
          /\ l[i].calls = 0
          /\ l[i].of \in 1..(i - 1) /\ l[l[i].of].scope = l[i].scope
          /\ \A j \in (l[i].of + 1)..i : l[j].kind = "tool"

\* The last reply is message c: everything since is the result of one of its calls.
LastReply(l, s, c) ==
    /\ c \in DOMAIN l /\ l[c].kind = "assistant" /\ l[c].scope = s
    /\ \A j \in DOMAIN l : j > c => l[j].kind = "tool"

\* Every reply has the results of all of its calls, the one that is being run and those
\* that a crash cut short apart.
CallInv ==
    /\ Paired(log)
    /\ left = 0 => \A k \in DOMAIN log \ torn : Counted(log, k)
    /\ left > 0 => \E c \in DOMAIN log :
          /\ LastReply(log, scope, c)
          /\ Cardinality(ResultsOf(log, c)) + left = log[c].calls
          /\ \A k \in DOMAIN log \ (torn \cup {c}) : Counted(log, k)

\* What a request shows.
ShownInv == request \subseteq DOMAIN log /\ NoOrphanResult /\ CallsAnswered

LEMMA ResultsFinite ==
  ASSUME NEW l, NEW n \in Nat, DOMAIN l = 1..n, NEW i
  PROVE  IsFiniteSet(ResultsOf(l, i)) /\ Cardinality(ResultsOf(l, i)) \in Nat
  <1>1. IsFiniteSet(1..n)
    BY FS_Interval
  <1>2. ResultsOf(l, i) \subseteq 1..n
    BY DEF ResultsOf
  <1> QED BY <1>1, <1>2, FS_Subset, FS_CardinalityType

\* A message that is no result changes no count.
LEMMA SaidPlain ==
  ASSUME NEW l, NEW f, NEW n \in Nat, DOMAIN l = 1..n, DOMAIN f = 1..(n + 1),
         \A i \in 1..n : f[i] = l[i],
         Paired(l), f[n + 1].kind # "tool", f[n + 1].of = 0
  PROVE  /\ Paired(f)
         /\ \A k \in 1..n : Counted(l, k) => Counted(f, k)
         /\ Cardinality(ResultsOf(f, n + 1)) = 0
  <1>1. Paired(f)
    <2>1. ASSUME NEW i \in DOMAIN f, f[i].kind = "tool"
          PROVE  /\ f[i].calls = 0
                 /\ f[i].of \in 1..(i - 1) /\ f[f[i].of].scope = f[i].scope
                 /\ \A j \in (f[i].of + 1)..i : f[j].kind = "tool"
      <3>1. i \in 1..n /\ f[i] = l[i]
        BY <2>1
      <3>2. /\ l[i].calls = 0
            /\ l[i].of \in 1..(i - 1) /\ l[l[i].of].scope = l[i].scope
            /\ \A j \in (l[i].of + 1)..i : l[j].kind = "tool"
        BY <2>1, <3>1 DEF Paired
      <3>3. l[i].of \in 1..n /\ \A j \in (l[i].of + 1)..i : j \in 1..n
        BY <3>1, <3>2
      <3> QED BY <3>1, <3>2, <3>3
    <2>2. ASSUME NEW i \in DOMAIN f, f[i].kind # "tool" PROVE f[i].of = 0
      <3>1. CASE i \in 1..n
        BY <2>2, <3>1 DEF Paired
      <3>2. CASE i = n + 1
        BY <3>2
      <3> QED BY <3>1, <3>2
    <2> QED BY <2>1, <2>2 DEF Paired
  <1>2. ASSUME NEW k \in 1..n, Counted(l, k) PROVE Counted(f, k)
    <2>1. ResultsOf(f, k) = ResultsOf(l, k)
      BY DEF ResultsOf
    <2> QED BY <1>2, <2>1 DEF Counted
  <1>3. ResultsOf(f, n + 1) = {}
    <2> SUFFICES ASSUME NEW j \in 1..(n + 1), f[j].of = n + 1 PROVE FALSE
      BY DEF ResultsOf
    <2>1. f[j].kind = "tool"
      BY <1>1 DEF Paired
    <2>2. f[j].of \in 1..(j - 1)
      BY <1>1, <2>1 DEF Paired
    <2> QED BY <2>2
  <1> QED BY <1>1, <1>2, <1>3, FS_EmptySet

\* A result counts for the last reply and for nothing else.
LEMMA SaidResult ==
  ASSUME NEW l, NEW f, NEW n \in Nat, DOMAIN l = 1..n, DOMAIN f = 1..(n + 1),
         \A i \in 1..n : f[i] = l[i], NEW s, NEW c,
         Paired(l), LastReply(l, s, c),
         f[n + 1].kind = "tool", f[n + 1].of = c, f[n + 1].scope = s, f[n + 1].calls = 0
  PROVE  /\ Paired(f) /\ LastReply(f, s, c)
         /\ Cardinality(ResultsOf(f, c)) = Cardinality(ResultsOf(l, c)) + 1
         /\ \A k \in (1..n) \ {c} : Counted(l, k) => Counted(f, k)
         /\ Counted(f, n + 1)
  <1>0. c \in 1..n /\ n + 1 # c /\ f[c] = l[c]
    BY DEF LastReply
  <1>1. LastReply(f, s, c)
    BY <1>0 DEF LastReply
  <1>2. Paired(f)
    <2>1. ASSUME NEW i \in DOMAIN f, f[i].kind = "tool"
          PROVE  /\ f[i].calls = 0
                 /\ f[i].of \in 1..(i - 1) /\ f[f[i].of].scope = f[i].scope
                 /\ \A j \in (f[i].of + 1)..i : f[j].kind = "tool"
      <3>1. CASE i \in 1..n
        <4>1. f[i] = l[i]
          BY <3>1
        <4>2. /\ l[i].calls = 0
              /\ l[i].of \in 1..(i - 1) /\ l[l[i].of].scope = l[i].scope
              /\ \A j \in (l[i].of + 1)..i : l[j].kind = "tool"
          BY <2>1, <3>1, <4>1 DEF Paired
        <4>3. l[i].of \in 1..n /\ \A j \in (l[i].of + 1)..i : j \in 1..n
          BY <3>1, <4>2
        <4> QED BY <4>1, <4>2, <4>3
      <3>2. CASE i = n + 1
        <4>1. f[i].of = c /\ f[i].scope = s /\ f[i].calls = 0 /\ f[c].scope = s
          BY <1>1, <3>2 DEF LastReply
        <4>2. \A j \in (c + 1)..(n + 1) : j \in DOMAIN f /\ j > c
          BY <1>0
        <4> QED BY <1>0, <1>1, <3>2, <4>1, <4>2 DEF LastReply
      <3> QED BY <3>1, <3>2
    <2>2. ASSUME NEW i \in DOMAIN f, f[i].kind # "tool" PROVE f[i].of = 0
      <3>1. i \in 1..n
        BY <2>2
      <3> QED BY <2>2, <3>1 DEF Paired
    <2> QED BY <2>1, <2>2 DEF Paired
  <1>3. Cardinality(ResultsOf(f, c)) = Cardinality(ResultsOf(l, c)) + 1
    <2>1. ResultsOf(f, c) = ResultsOf(l, c) \cup {n + 1} /\ n + 1 \notin ResultsOf(l, c)
      BY DEF ResultsOf
    <2>2. IsFiniteSet(ResultsOf(l, c))
      BY ResultsFinite
    <2> QED BY <2>1, <2>2, FS_AddElement
  <1>4. ASSUME NEW k \in (1..n) \ {c}, Counted(l, k) PROVE Counted(f, k)
    <2>1. ResultsOf(f, k) = ResultsOf(l, k)
      BY DEF ResultsOf
    <2> QED BY <1>4, <2>1 DEF Counted
  <1>5. Counted(f, n + 1)
    <2>1. ResultsOf(f, n + 1) = {}
      <3> SUFFICES ASSUME NEW j \in 1..(n + 1), f[j].of = n + 1 PROVE FALSE
        BY DEF ResultsOf
      <3>1. f[j].kind = "tool"
        BY <1>2 DEF Paired
      <3>2. f[j].of \in 1..(j - 1)
        BY <1>2, <3>1 DEF Paired
      <3> QED BY <3>2
    <2> QED BY <2>1, FS_EmptySet DEF Counted
  <1> QED BY <1>1, <1>2, <1>3, <1>4, <1>5

\* The call that is being run is one of the last reply.
LEMMA CallerIsLastReply ==
  ASSUME NEW c, LastReply(log, scope, c), NEW n \in Nat, DOMAIN log = 1..n
  PROVE  Caller = c
  <1> DEFINE R == {i \in DOMAIN log : log[i].kind = "assistant" /\ log[i].scope = scope}
  <1>1. c \in R /\ R \subseteq Nat
    BY DEF LastReply
  <1>2. \A j \in R : j <= c
    BY DEF LastReply
  <1>3. \A i \in R : (\A j \in R : j <= i) => i = c
    BY <1>1, <1>2
  <1> HIDE DEF R
  <1>4. Latest(R) = c
    BY <1>1, <1>2, <1>3 DEF Latest
  <1> QED BY <1>4 DEF Caller, R

\* A window holds a result only with its call, and with a call all its results.
LEMMA WindowPairs ==
  ASSUME RoomInv, Paired(log), watermark \in Nat, brief \in Nat, NEW s
  PROVE  /\ Window(s) \subseteq DOMAIN log
         /\ \A i \in Window(s) : log[i].kind = "tool" => log[i].of \in Window(s)
         /\ \A i \in Window(s) : ResultsOf(log, i) \subseteq Window(s)
  <1> DEFINE since    == IF s = Chat THEN watermark ELSE brief
             eligible == Read(s, since)
             room     == Greater(keep_recent_messages_min, working_memory_tokens)
             newest   == Newest(eligible, room)
             above(i) == {j \in eligible : j > i}
  <1>1. DOMAIN log = 1..Len(log) /\ Len(log) \in Nat /\ room \in Nat /\ since \in Nat
    BY LogFacts, ConversationConstants DEF Greater
  <1>2. Window(s) = {i \in newest : \E j \in newest : j <= i /\ log[j].kind # "tool"}
    BY DEF Window
  <1>3. /\ eligible = {i \in DOMAIN log : i > since /\ log[i].scope = s}
        /\ newest = {i \in eligible : Cardinality(above(i)) < room}
    BY DEF Read, Newest
  <1> HIDE DEF since, eligible, newest, room
  <1>4. eligible \subseteq 1..Len(log)
    BY <1>1, <1>3
  <1>5. ASSUME NEW j \in newest, NEW i \in eligible, j <= i PROVE i \in newest
    <2>1. above(i) \subseteq above(j)
      BY <1>1, <1>3, <1>5
    <2>2. IsFiniteSet(above(j)) /\ above(j) \subseteq 1..Len(log)
      <3>1. IsFiniteSet(1..Len(log))
        BY <1>1, FS_Interval
      <3>2. above(j) \subseteq 1..Len(log)
        BY <1>4
      <3> QED BY <3>1, <3>2, FS_Subset
    <2> HIDE DEF above
    <2>3. /\ IsFiniteSet(above(i)) /\ Cardinality(above(i)) <= Cardinality(above(j))
      BY <2>1, <2>2, FS_Subset
    <2>4. Cardinality(above(i)) \in Nat /\ Cardinality(above(j)) \in Nat
      BY <2>2, <2>3, FS_CardinalityType
    <2>5. Cardinality(above(j)) < room
      BY <1>3, <1>5
    <2> QED BY <1>1, <1>3, <1>5, <2>3, <2>4, <2>5
  <1>6. ASSUME NEW i \in Window(s), NEW k \in eligible, NEW j \in newest,
               log[j].kind # "tool", j <= k
        PROVE  k \in Window(s)
    BY <1>2, <1>5, <1>6
  <1>7. Window(s) \subseteq DOMAIN log /\ Window(s) \subseteq eligible
    BY <1>2, <1>3
  <1>8. ASSUME NEW i \in Window(s), log[i].kind = "tool" PROVE log[i].of \in Window(s)
    <2>1. PICK j \in newest : j <= i /\ log[j].kind # "tool"
      BY <1>2
    <2>2. i \in DOMAIN log /\ j \in DOMAIN log /\ i \in Nat /\ j \in Nat
      BY <1>1, <1>3, <1>7
    <2>3. /\ log[i].of \in 1..(i - 1) /\ log[log[i].of].scope = log[i].scope
          /\ \A k \in (log[i].of + 1)..i : log[k].kind = "tool"
      BY <1>8, <2>2 DEF Paired
    <2>4. j <= log[i].of
      <3> SUFFICES ASSUME ~ (j <= log[i].of) PROVE FALSE
        OBVIOUS
      <3>1. j \in (log[i].of + 1)..i
        BY <2>1, <2>2, <2>3
      <3> QED BY <2>1, <2>3, <3>1
    <2>5. log[i].of \in eligible
      <3>1. log[i].scope = s /\ j > since /\ log[i].of \in DOMAIN log
        BY <1>1, <1>3, <1>7, <2>2, <2>3
      <3>2. log[i].of > since
        BY <1>1, <2>2, <2>3, <2>4, <3>1
      <3> QED BY <1>3, <2>3, <3>1, <3>2
    <2> QED BY <1>6, <2>1, <2>4, <2>5
  <1>9. ASSUME NEW i \in Window(s), NEW k \in ResultsOf(log, i) PROVE k \in Window(s)
    <2>1. PICK j \in newest : j <= i /\ log[j].kind # "tool"
      BY <1>2
    <2>2. i \in DOMAIN log /\ i \in 1..Len(log) /\ k \in 1..Len(log) /\ log[k].of = i
      BY <1>1, <1>7, <1>9 DEF ResultsOf
    <2>3. log[k].kind = "tool"
      BY <1>1, <2>2 DEF Paired
    <2>4. i \in 1..(k - 1) /\ log[i].scope = log[k].scope
      BY <1>1, <2>2, <2>3 DEF Paired
    <2>5. k \in eligible
      <3>1. log[i].scope = s /\ i > since /\ k > i /\ i \in Nat /\ k \in Nat
        BY <1>3, <1>7, <2>2, <2>4
      <3>2. k > since
        BY <1>1, <3>1
      <3> QED BY <1>1, <1>3, <2>2, <2>4, <3>1, <3>2
    <2>6. j \in Nat /\ j <= k
      <3>1. j \in 1..Len(log)
        BY <1>1, <1>3
      <3> QED BY <1>1, <2>1, <2>2, <2>4, <3>1
    <2> QED BY <1>6, <2>1, <2>5, <2>6
  <1> QED BY <1>7, <1>8, <1>9

\* What a request shows is not disturbed by a message more.
LEMMA ShownKept ==
  ASSUME RoomInv, ShownInv, request' \in {request, {}}, torn \subseteq torn',
         log' = log \/ \E m : log' = Append(log, m)
  PROVE  ShownInv'
  <1>1. DOMAIN log \subseteq DOMAIN log' /\ \A i \in DOMAIN log : log'[i] = log[i]
    <2>1. CASE log' = log
      BY <2>1
    <2>2. CASE \E m : log' = Append(log, m)
      BY <2>2, Said DEF RoomInv
    <2> QED BY <2>1, <2>2
  <1>2. request' \subseteq DOMAIN log'
    BY <1>1 DEF ShownInv
  <1>3. NoOrphanResult'
    BY <1>1 DEF ShownInv, NoOrphanResult
  <1>4. CallsAnswered'
    <2> SUFFICES ASSUME NEW i \in request' \ torn'
                 PROVE  Cardinality({j \in request' : log'[j].of = i}) = log'[i].calls
      BY DEF CallsAnswered
    <2>1. request' = request /\ i \in request \ torn /\ log'[i] = log[i]
      BY <1>1 DEF ShownInv
    <2>2. {j \in request' : log'[j].of = i} = {j \in request : log[j].of = i}
      BY <1>1, <2>1 DEF ShownInv
    <2> QED BY <2>1, <2>2 DEF ShownInv, CallsAnswered
  <1> QED BY <1>2, <1>3, <1>4 DEF ShownInv

\* A step that neither speaks nor runs a call.
LEMMA CallsKept ==
  ASSUME RoomInv, CallInv, ShownInv, UNCHANGED <<log, left, torn>>,
         request' \in {request, {}}, left = 0 \/ scope' = scope
  PROVE  CallInv' /\ ShownInv'
  <1>1. CallInv'
    BY DEF CallInv, LastReply, RoomInv
  <1> QED BY <1>1, ShownKept

\* The result of one of the calls of the last reply.
LEMMA CallsAfterAnswer ==
  ASSUME RoomInv, CallInv, ShownInv, left > 0, Answered, UNCHANGED <<scope, request, torn>>
  PROVE  CallInv' /\ ShownInv'
  <1>1. PICK c \in DOMAIN log :
          /\ LastReply(log, scope, c)
          /\ Cardinality(ResultsOf(log, c)) + left = log[c].calls
          /\ \A k \in DOMAIN log \ (torn \cup {c}) : Counted(log, k)
    BY DEF CallInv
  <1>2. Len(log) \in Nat /\ DOMAIN log = 1..Len(log)
    BY LogFacts
  <1>3. Caller = c
    BY <1>1, <1>2, CallerIsLastReply
  <1> DEFINE n == Len(log)
             m == [kind |-> "tool", scope |-> scope, calls |-> 0, of |-> c]
  <1>4. log' = Append(log, m) /\ left' = left - 1 /\ left \in Nat
    BY <1>3 DEF Answered, Say, RoomInv
  <1>5. m.kind = "tool" /\ m.scope = scope /\ m.calls = 0 /\ m.of = c
    OBVIOUS
  <1> HIDE DEF m
  <1>6. /\ DOMAIN log' = 1..(n + 1) /\ log'[n + 1] = m
        /\ \A i \in 1..n : log'[i] = log[i]
    BY <1>4, Said DEF RoomInv
  <1>7. /\ Paired(log') /\ LastReply(log', scope, c)
        /\ Cardinality(ResultsOf(log', c)) = Cardinality(ResultsOf(log, c)) + 1
        /\ \A k \in (1..n) \ {c} : Counted(log, k) => Counted(log', k)
        /\ Counted(log', n + 1)
    <2> DEFINE l == log
               f == log'
    <2>1. Paired(l)
      BY DEF CallInv
    <2> HIDE DEF l, f
    <2>2. /\ DOMAIN l = 1..n /\ DOMAIN f = 1..(n + 1) /\ \A i \in 1..n : f[i] = l[i]
          /\ LastReply(l, scope, c)
          /\ f[n + 1].kind = "tool" /\ f[n + 1].of = c
          /\ f[n + 1].scope = scope /\ f[n + 1].calls = 0
      BY <1>1, <1>2, <1>5, <1>6 DEF l, f
    <2> HIDE DEF n
    <2>3. n \in Nat
      BY <1>2 DEF n
    <2>4. /\ Paired(f) /\ LastReply(f, scope, c)
          /\ Cardinality(ResultsOf(f, c)) = Cardinality(ResultsOf(l, c)) + 1
          /\ \A k \in (1..n) \ {c} : Counted(l, k) => Counted(f, k)
          /\ Counted(f, n + 1)
      BY <2>1, <2>2, <2>3, SaidResult
    <2> QED BY <2>4 DEF l, f
  <1>8. log'[c].calls = log[c].calls /\ c \in 1..n /\ Cardinality(ResultsOf(log, c)) \in Nat
    BY <1>1, <1>2, <1>6, ResultsFinite
  <1>9. ASSUME NEW k \in DOMAIN log' \ (torn \cup {c}) PROVE Counted(log', k)
    <2>1. CASE k = n + 1
      BY <1>7, <2>1
    <2>2. CASE k \in 1..n
      BY <1>1, <1>2, <1>7, <1>9, <2>2
    <2> QED BY <1>6, <1>9, <2>1, <2>2
  <1>10. Cardinality(ResultsOf(log', c)) + left' = log'[c].calls
    BY <1>1, <1>4, <1>7, <1>8
  <1>11. left' = 0 => Counted(log', c)
    BY <1>4, <1>7, <1>8, <1>10 DEF Counted
  <1>12. CallInv'
    <2>1. torn' = torn /\ scope' = scope
      OBVIOUS
    <2>2. c \in DOMAIN log'
      BY <1>6, <1>8
    <2>3. left' = 0 => \A k \in DOMAIN log' \ torn' : Counted(log', k)
      BY <1>9, <1>11, <2>1
    <2>4. Paired(log') /\ LastReply(log', scope', c)
      BY <1>7, <2>1
    <2>5. \A k \in DOMAIN log' \ (torn' \cup {c}) : Counted(log', k)
      BY <1>9, <2>1
    <2> QED BY <1>10, <2>2, <2>3, <2>4, <2>5 DEF CallInv
  <1>13. ShownInv'
    BY <1>4, ShownKept
  <1> QED BY <1>12, <1>13

\* A message of the user, or a reply with n calls.
LEMMA CallsAfterSay ==
  ASSUME RoomInv, CallInv, ShownInv, left = 0, NEW kind \in {"user", "assistant"}, NEW s,
         NEW n \in Nat, Say(kind, s, n, 0), left' = n,
         n > 0 => kind = "assistant" /\ scope' = s,
         request' \in {request, {}}, UNCHANGED torn
  PROVE  CallInv' /\ ShownInv'
  <1> DEFINE z == Len(log)
             m == [kind |-> kind, scope |-> s, calls |-> n, of |-> 0]
  <1>1. z \in Nat /\ DOMAIN log = 1..z
    BY LogFacts
  <1>2. log' = Append(log, m)
    BY DEF Say
  <1>3. m.kind = kind /\ m.scope = s /\ m.calls = n /\ m.of = 0
    OBVIOUS
  <1> HIDE DEF m, z
  <1>4. /\ DOMAIN log' = 1..(z + 1) /\ log'[z + 1] = m
        /\ \A i \in 1..z : log'[i] = log[i]
    BY <1>1, <1>2, Said DEF RoomInv, z
  <1>5. /\ Paired(log')
        /\ \A k \in 1..z : Counted(log, k) => Counted(log', k)
        /\ Cardinality(ResultsOf(log', z + 1)) = 0
    <2> DEFINE l == log
               f == log'
    <2>1. Paired(l)
      BY DEF CallInv
    <2>2. /\ DOMAIN l = 1..z /\ DOMAIN f = 1..(z + 1) /\ \A i \in 1..z : f[i] = l[i]
          /\ f[z + 1].kind # "tool" /\ f[z + 1].of = 0
      BY <1>1, <1>3, <1>4
    <2> HIDE DEF l, f
    <2>3. /\ Paired(f)
          /\ \A k \in 1..z : Counted(l, k) => Counted(f, k)
          /\ Cardinality(ResultsOf(f, z + 1)) = 0
      BY <1>1, <2>1, <2>2, SaidPlain
    <2> QED BY <2>3 DEF l, f
  <1>6. \A k \in 1..z : k \notin torn => Counted(log', k)
    BY <1>1, <1>5 DEF CallInv
  <1>7. z + 1 \in DOMAIN log' /\ \A k \in DOMAIN log' : k = z + 1 \/ k \in 1..z
    BY <1>1, <1>4
  <1>8. n = 0 => Counted(log', z + 1)
    BY <1>3, <1>4, <1>5 DEF Counted
  <1>9. n > 0 => /\ LastReply(log', s, z + 1)
                 /\ Cardinality(ResultsOf(log', z + 1)) + n = log'[z + 1].calls
    BY <1>1, <1>3, <1>4, <1>5, <1>7 DEF LastReply
  <1>10. CallInv'
    BY <1>5, <1>6, <1>7, <1>8, <1>9 DEF CallInv
  <1>11. ShownInv'
    BY <1>2, ShownKept
  <1> QED BY <1>10, <1>11

LEMMA CallsAfterRequest ==
  ASSUME RoomInv, CallInv, watermark \in Nat, brief \in Nat, Request
  PROVE  CallInv' /\ ShownInv'
  <1>1. /\ request' = Window(scope) /\ UNCHANGED <<log, left, torn, scope>>
        /\ left = 0
    BY DEF Request, RoomInv
  <1>2. /\ Window(scope) \subseteq DOMAIN log
        /\ \A i \in Window(scope) : log[i].kind = "tool" => log[i].of \in Window(scope)
        /\ \A i \in Window(scope) : ResultsOf(log, i) \subseteq Window(scope)
    BY WindowPairs DEF CallInv
  <1>3. CallInv'
    BY <1>1 DEF CallInv, LastReply
  <1>4. request' \subseteq DOMAIN log' /\ NoOrphanResult'
    BY <1>1, <1>2 DEF NoOrphanResult
  <1>5. CallsAnswered'
    <2> SUFFICES ASSUME NEW i \in request' \ torn'
                 PROVE  Cardinality({j \in request' : log'[j].of = i}) = log'[i].calls
      BY DEF CallsAnswered
    <2>1. Counted(log, i)
      BY <1>1, <1>2 DEF CallInv
    <2>2. {j \in request' : log'[j].of = i} = ResultsOf(log, i)
      BY <1>1, <1>2 DEF ResultsOf
    <2> QED BY <1>1, <2>1, <2>2 DEF Counted
  <1> QED BY <1>3, <1>4, <1>5 DEF ShownInv

\* A restart gives up the calls of the reply that was being run.
LEMMA CallsAfterRestart ==
  ASSUME RoomInv, CallInv, ShownInv, Restart, log' = log
  PROVE  CallInv' /\ ShownInv'
  <1>1. left' = 0 /\ request' = {} /\ torn \subseteq torn' /\ (left > 0 => Caller \in torn')
    BY DEF Restart
  <1>2. Len(log) \in Nat /\ DOMAIN log = 1..Len(log)
    BY LogFacts
  <1>3. ASSUME NEW k \in DOMAIN log \ torn' PROVE Counted(log, k)
    <2>1. CASE left = 0
      BY <1>1, <1>3, <2>1 DEF CallInv
    <2>2. CASE left > 0
      <3>1. PICK c \in DOMAIN log :
              /\ LastReply(log, scope, c)
              /\ \A i \in DOMAIN log \ (torn \cup {c}) : Counted(log, i)
        BY <2>2 DEF CallInv
      <3>2. Caller = c
        BY <1>2, <3>1, CallerIsLastReply
      <3> QED BY <1>1, <1>3, <2>2, <3>1, <3>2
    <2> QED BY <2>1, <2>2 DEF RoomInv
  <1>4. CallInv'
    BY <1>1, <1>3 DEF CallInv
  <1> QED BY <1>1, <1>4, ShownKept

LEMMA CallsAfterPass ==
  ASSUME RoomInv, CallInv, ShownInv, NEW c \in Callers, EndPass(c),
         UNCHANGED <<scope, request, torn>>
  PROVE  CallInv' /\ ShownInv'
  <1>1. CASE c # Ipc /\ left > 0
    BY <1>1, CallsAfterAnswer DEF EndPass
  <1>2. CASE c = Ipc \/ ~ (left > 0)
    BY <1>2, CallsKept DEF EndPass
  <1> QED BY <1>1, <1>2

LEMMA CallsStep ==
  ASSUME FoldInv, CallInv, ShownInv, [Next]_vars
  PROVE  CallInv' /\ ShownInv'
  <1>0. /\ RoomInv /\ watermark \in Nat /\ brief \in Nat
        /\ pc \in {"idle", "turn", "llm"} => left = 0
    BY LogFacts DEF FoldInv, TimesInv, RoomInv
  <1>1. CASE UNCHANGED vars
    BY <1>0, <1>1, CallsKept DEF vars
  <1>2. CASE Turn
    <2>1. ASSUME NEW s \in {Chat, Task}, StartRun(s) PROVE CallInv' /\ ShownInv'
      BY <1>0, <2>1, CallsAfterSay DEF StartRun
    <2>2. CASE Deliver
      BY <1>0, <2>2, CallsAfterSay DEF Deliver
    <2>3. ASSUME NEW n \in 0..MaxCalls, Reply(n) PROVE CallInv' /\ ShownInv'
      <3>1. n \in Nat /\ left = 0 /\ Say("assistant", scope, n, 0) /\ left' = n /\ request' = {}
            /\ UNCHANGED torn
        BY <1>0, <2>3, ConversationConstants DEF Reply
      <3>2. n > 0 => scope' = scope
        BY <2>3 DEF Reply
      <3> QED BY <1>0, <3>1, <3>2, CallsAfterSay
    <2>4. CASE Request
      BY <1>0, <2>4, CallsAfterRequest
    <2>5. CASE FoldTask \/ PauseRun \/ StepsSpent \/ ReplyFails
      BY <1>0, <2>5, CallsKept DEF FoldTask, PauseRun, StepsSpent, ReplyFails
    <2> QED BY <1>2, <2>1, <2>2, <2>3, <2>4, <2>5 DEF Turn
  <1>3. CASE Tool
    <2>1. CASE Plain \/ Decline \/ \E on \in BOOLEAN : SwitchAuto(on)
      <3>1. left > 0 /\ Answered /\ UNCHANGED <<scope, request, torn>>
        BY <1>0, <2>1 DEF Plain, Decline, SwitchAuto, RoomInv
      <3> QED BY <1>0, <3>1, CallsAfterAnswer
    <2>2. CASE ~ (Plain \/ Decline \/ \E on \in BOOLEAN : SwitchAuto(on))
      <3>1. UNCHANGED <<log, left, torn, request, scope>>
        BY <1>3, <2>2 DEF Tool, Compact, Propose, Approve, CompactLtm, SwitchByRequest, files, run
      <3> QED BY <1>0, <3>1, CallsKept
    <2> QED BY <2>1, <2>2
  <1>4. CASE Tier1
    <2>1. ASSUME NEW c \in Callers, NEW mode, NEW b, Begin(c, mode, b) PROVE CallInv' /\ ShownInv'
      <3>1. UNCHANGED <<scope, request, torn>> /\ (EndPass(c) \/ UNCHANGED <<log, left>>)
        BY <2>1 DEF Begin
      <3> QED BY <1>0, <3>1, CallsAfterPass, CallsKept
    <2>2. ASSUME NEW c \in Callers, Fold(c) \/ FoldFails(c) PROVE CallInv' /\ ShownInv'
      BY <1>0, <2>2, CallsAfterPass DEF Fold, FoldFails
    <2> QED BY <1>4, <2>1, <2>2 DEF Tier1, BeginMain, ForceCompact, Callers
  <1>5. CASE Cascade
    <2>1. CASE AutoTier1 \/ AutoTier2 \/ Replace \/ PromoteFails
               \/ \E keep \in SUBSET {seen[i] : i \in DOMAIN seen} : Promote(keep)
      <3>1. UNCHANGED <<log, left, torn, request, scope>>
        BY <2>1 DEF AutoTier1, AutoTier2, Replace, PromoteFails, Promote, files, run
      <3> QED BY <1>0, <3>1, CallsKept
    <2>2. CASE ForgetFails \/ \E kept \in 0..ltm : Forget(kept)
      <3>1. UNCHANGED <<scope, request, torn>>
        BY <2>2 DEF Forget, ForgetFails
      <3>2. CASE left > 0
        BY <1>0, <2>2, <3>1, <3>2, CallsAfterAnswer DEF Forget, ForgetFails
      <3>3. CASE ~ (left > 0)
        BY <1>0, <2>2, <3>1, <3>3, CallsKept DEF Forget, ForgetFails
      <3> QED BY <3>2, <3>3
    <2> QED BY <1>5, <2>1, <2>2 DEF Cascade
  <1>6. CASE Crash \/ \E c \in Callers : CrashInFold(c)
    BY <1>0, <1>6, CallsAfterRestart DEF Crash, CrashInFold, files
  <1> QED BY <1>1, <1>2, <1>3, <1>4, <1>5, <1>6 DEF Next

LEMMA CallsInvariant == Spec => [](CallInv /\ ShownInv)
  <1>1. Init => CallInv /\ ShownInv
    <2> SUFFICES ASSUME Init PROVE CallInv /\ ShownInv
      OBVIOUS
    <2>1. DOMAIN log = {} /\ left = 0 /\ request = {}
      BY DEF Init
    <2> QED BY <2>1 DEF CallInv, ShownInv, Paired, NoOrphanResult, CallsAnswered
  <1>2. FoldInv /\ CallInv /\ ShownInv /\ [Next]_vars => (CallInv /\ ShownInv)'
    BY CallsStep
  <1> QED BY <1>1, <1>2, FoldInvariant, PTL DEF Spec

\* No request shows the result of a call it does not show, for any budgets, any cut of a
\* compaction that ran in the middle of the call, and any crash.
THEOREM NoOrphanShown == Spec => []NoOrphanResult
  <1>1. ShownInv => NoOrphanResult
    BY DEF ShownInv
  <1> QED BY <1>1, CallsInvariant, PTL

\* Every call a request shows has its result in it, the replies a crash cut short apart.
THEOREM EveryCallAnswered == Spec => []CallsAnswered
  <1>1. ShownInv => CallsAnswered
    BY DEF ShownInv
  <1> QED BY <1>1, CallsInvariant, PTL

---------------------------------------------------------------------------
(* Every variable holds a value of its kind.                               *)

\* Every set of naturals that is not empty has a least member, and a greatest if bounded.
LEMMA LeastNat ==
  ASSUME NEW S, S \subseteq Nat, S # {}
  PROVE  \E x \in S : \A y \in S : x <= y
  <1> DEFINE R == OpToRel(<, Nat)
  <1>1. IsWellFoundedOn(R, Nat)
    BY NatLessThanWellFounded
  <1>2. \A x, y \in Nat : ~ (<<y, x>> \in R) => x <= y
    BY DEF OpToRel
  <1> HIDE DEF R
  <1>3. \E x \in S : \A y \in S : ~ (<<y, x>> \in R)
    BY <1>1, WFMin
  <1> QED BY <1>2, <1>3

LEMMA GreatestNat ==
  ASSUME NEW m \in Nat, NEW S, S \subseteq 1..m, S # {}
  PROVE  \E x \in S : \A y \in S : y <= x
  <1> DEFINE T == {m - y : y \in S}
  <1>1. T \subseteq Nat /\ T # {}
    <2>1. \A y \in S : m - y \in Nat
      OBVIOUS
    <2> QED BY <2>1
  <1>2. PICK z \in T : \A y \in T : z <= y
    BY <1>1, LeastNat
  <1>3. PICK x \in S : z = m - x
    OBVIOUS
  <1>4. ASSUME NEW y \in S PROVE y <= x
    <2>1. m - x <= m - y
      BY <1>2, <1>3
    <2> QED BY <2>1
  <1> QED BY <1>4

LEMMA EndsOf ==
  ASSUME NEW m \in Nat, NEW S, S \subseteq 1..m, S # {}
  PROVE  Latest(S) \in S /\ Oldest(S) \in S
  <1>1. S \subseteq Nat
    OBVIOUS
  <1>2. Latest(S) \in S
    BY GreatestNat DEF Latest
  <1>3. Oldest(S) \in S
    BY <1>1, LeastNat DEF Oldest
  <1> QED BY <1>2, <1>3

\* Where a pass cuts: at an event of its batch, just before it, or where it was told to.
LEMMA CutInRange ==
  ASSUME NEW mode, NEW b \in 0..MaxEvents, NEW events \in SUBSET Event, events # {},
         mode \in {"tail", "full", "explicit"}
  PROVE  Suggested(mode, events, b) \in 0..MaxEvents
  <1>0. MaxEvents \in Nat /\ Event = 1..MaxEvents
    BY ConversationConstants DEF Event
  <1>1. ASSUME NEW cuts \in SUBSET events PROVE SafeCut(events, cuts) \in 0..MaxEvents
    <2> DEFINE safe == {i \in cuts : ~ SplitsToolPair(events, i)}
    <2>1. safe # {} => Latest(safe) \in 1..MaxEvents
      BY <1>0, EndsOf
    <2>2. Oldest(events) \in 1..MaxEvents
      BY <1>0, EndsOf
    <2>3. SafeCut(events, cuts) = IF safe = {} THEN Oldest(events) - 1 ELSE Latest(safe)
      BY DEF SafeCut
    <2> HIDE DEF safe
    <2> QED BY <1>0, <2>1, <2>2, <2>3
  <1>2. CASE mode = "explicit"
    <2>1. Suggested(mode, events, b) = Snap(events, b)
      BY <1>2 DEF Suggested
    <2> QED BY <1>1, <2>1 DEF Snap
  <1>3. CASE mode = "full"
    <2>1. Suggested(mode, events, b) = Latest(events)
      BY <1>3 DEF Suggested
    <2>2. Latest(events) \in events
      BY <1>0, EndsOf
    <2>3. \A x \in events : x \in 0..MaxEvents
      BY <1>0
    <2> QED BY <2>1, <2>2, <2>3
  <1>4. CASE mode = "tail"
    <2>1. Suggested(mode, events, b) = SuggestedBoundary(events)
      BY <1>4 DEF Suggested
    <2>2. \E cuts \in SUBSET events : SuggestedBoundary(events) = SafeCut(events, cuts)
      BY DEF SuggestedBoundary
    <2> QED BY <1>1, <2>1, <2>2
  <1> QED BY <1>2, <1>3, <1>4

\* The sections kept of a sequence, one at a time.
KeptStage(s, keep, g, n) ==
    IF n = 0 THEN <<>>
    ELSE IF s[n] \in keep THEN Append(g[n - 1], s[n]) ELSE g[n - 1]

KeptTable(s, keep, m, g) == g = [n \in 0..m |-> KeptStage(s, keep, g, n)]

LEMMA KeptTableExists ==
  ASSUME NEW s, NEW keep
  PROVE  \A m \in Nat : \E g : KeptTable(s, keep, m, g)
  <1> DEFINE Bad == {m \in Nat : ~ \E g : KeptTable(s, keep, m, g)}
  <1>1. SUFFICES ASSUME Bad # {} PROVE FALSE
    OBVIOUS
  <1>2. PICK m \in Bad : \A k \in Bad : m <= k
    BY <1>1, LeastNat
  <1>3. m \in Nat
    OBVIOUS
  <1>4. m # 0
    <2> DEFINE g == [n \in 0..0 |-> <<>>]
    <2>1. g = [n \in 0..0 |-> KeptStage(s, keep, g, n)]
      BY DEF KeptStage
    <2> HIDE DEF g
    <2>2. KeptTable(s, keep, 0, g)
      BY <2>1 DEF KeptTable
    <2> QED BY <2>2
  <1>5. m - 1 \in Nat /\ ~ (m <= m - 1)
    BY <1>3, <1>4
  <1>6. m - 1 \notin Bad
    BY <1>2, <1>5
  <1>7. PICK g : KeptTable(s, keep, m - 1, g)
    BY <1>5, <1>6
  <1> DEFINE h == [n \in 0..m |-> KeptStage(s, keep, g, n)]
  <1>8. \A n \in 0..(m - 1) : g[n] = KeptStage(s, keep, g, n)
    BY <1>7 DEF KeptTable
  <1>9. \A n \in 0..(m - 1) : n \in 0..m /\ h[n] = g[n]
    BY <1>3, <1>8
  <1>10. h = [n \in 0..m |-> h[n]] /\ \A n \in 0..m : h[n] = KeptStage(s, keep, g, n)
    OBVIOUS
  <1> HIDE DEF h
  <1>11. \A n \in 0..m : h[n] = KeptStage(s, keep, h, n)
    <2> SUFFICES ASSUME NEW n \in 0..m PROVE h[n] = KeptStage(s, keep, h, n)
      OBVIOUS
    <2>1. n # 0 => n - 1 \in 0..(m - 1)
      BY <1>3
    <2> QED BY <1>9, <1>10, <2>1 DEF KeptStage
  <1>12. KeptTable(s, keep, m, h)
    BY <1>10, <1>11 DEF KeptTable
  <1> QED BY <1>12

\* What is kept of sections is a sequence of sections.
LEMMA KeptTyped ==
  ASSUME NEW S, seen \in Seq(S), NEW keep
  PROVE  Kept(keep) \in Seq(S)
  <1> DEFINE m == Len(seen)
             kept == CHOOSE g : KeptTable(seen, keep, m, g)
  <1>1. m \in Nat /\ \A n \in 1..m : seen[n] \in S
    OBVIOUS
  <1>2. KeptTable(seen, keep, m, kept)
    BY <1>1, KeptTableExists
  <1>3. Kept(keep) = kept[m]
    BY DEF Kept, KeptTable, KeptStage
  <1> HIDE DEF kept, m
  <1>4. \A n \in 0..m : kept[n] = KeptStage(seen, keep, kept, n)
    BY <1>2 DEF KeptTable
  <1> DEFINE Bad == {n \in 0..m : kept[n] \notin Seq(S)}
  <1>5. Bad = {}
    <2> SUFFICES ASSUME Bad # {} PROVE FALSE
      OBVIOUS
    <2>1. Bad \subseteq Nat
      BY <1>1
    <2>2. PICK n \in Bad : \A k \in Bad : n <= k
      BY <2>1, LeastNat
    <2>3. n \in 0..m /\ n \in Nat /\ kept[n] \notin Seq(S) /\ n # 0
      <3>1. n \in 0..m /\ kept[n] \notin Seq(S)
        OBVIOUS
      <3>2. 0 \in 0..m /\ KeptStage(seen, keep, kept, 0) = <<>> /\ <<>> \in Seq(S)
        BY <1>1 DEF KeptStage
      <3>3. kept[0] \in Seq(S)
        BY <1>4, <3>2
      <3> QED BY <2>1, <3>1, <3>3
    <2>4. n - 1 \in 0..m /\ ~ (n <= n - 1)
      BY <1>1, <2>3
    <2>5. kept[n - 1] \in Seq(S)
      BY <2>2, <2>4
    <2>6. seen[n] \in S
      BY <1>1, <2>3
    <2>7. Append(kept[n - 1], seen[n]) \in Seq(S)
      BY <2>5, <2>6
    <2>8. kept[n] = IF seen[n] \in keep THEN Append(kept[n - 1], seen[n]) ELSE kept[n - 1]
      BY <1>4, <2>3 DEF KeptStage
    <2> QED BY <2>3, <2>5, <2>7, <2>8
  <1> QED BY <1>1, <1>3, <1>5

\* TypeOK in the parts that change together.
LogTypeOK ==
    /\ log \in Seq(Message) /\ scope \in {Chat, Task}
    /\ left \in 0..MaxCalls /\ torn \subseteq Event

MemoryTypeOK ==
    /\ brief \in 0..MaxEvents /\ ltm \in Nat
    /\ stm \in Seq(SUBSET Event) /\ seen \in Seq(SUBSET Event)

RunTypeOK ==
    /\ pc \in PC /\ steps \in 0..max_steps_per_run /\ auto \in BOOLEAN
    /\ crashes \in 0..MaxCrashes

Pass == [state : {"off", "ask", "llm"}, boundary : 0..MaxEvents,
         mode : {"tail", "full", "explicit"}, events : SUBSET Event]
PassTypeOK == pass \in [Callers -> Pass]

\* What the types of a step rest on: room in the log, the call that runs, the requests.
Settled == FoldInv /\ CallInv /\ ShownInv
TypeInv == Settled /\ LogTypeOK /\ MemoryTypeOK /\ RunTypeOK /\ PassTypeOK

LEMMA SaidTyped ==
  ASSUME LogTypeOK, NEW kind \in {"user", "assistant", "tool"}, NEW s \in {Chat, Task},
         NEW n \in 0..MaxCalls, NEW of \in 0..MaxEvents, Say(kind, s, n, of)
  PROVE  log' \in Seq(Message)
  <1> DEFINE m == [kind |-> kind, scope |-> s, calls |-> n, of |-> of]
  <1>1. m \in Message
    BY DEF Message
  <1>2. log' = Append(log, m) /\ log \in Seq(Message)
    BY DEF Say, LogTypeOK
  <1> HIDE DEF m
  <1> QED BY <1>1, <1>2

\* The call that runs is one of a message of the log.
LEMMA CallerTyped ==
  ASSUME Settled, left > 0
  PROVE  Caller \in Event
  <1>1. PICK c \in DOMAIN log : LastReply(log, scope, c)
    BY DEF Settled, CallInv
  <1>2. Len(log) \in Nat /\ DOMAIN log = 1..Len(log) /\ DOMAIN log \subseteq Event
    BY LogFacts DEF Settled, FoldInv
  <1>3. Caller = c
    BY <1>1, <1>2, CallerIsLastReply
  <1> QED BY <1>1, <1>2, <1>3

LEMMA AnsweredTyped ==
  ASSUME Settled, LogTypeOK, left > 0, Answered, scope' = scope, torn' = torn
  PROVE  LogTypeOK'
  <1>1. Caller \in 0..MaxEvents
    BY CallerTyped, ConversationConstants DEF Event
  <1>2. Say("tool", scope, 0, Caller) /\ left' = left - 1
    BY DEF Answered
  <1>3. 0 \in 0..MaxCalls /\ left' \in 0..MaxCalls /\ scope \in {Chat, Task}
    BY <1>2, ConversationConstants DEF LogTypeOK
  <1>4. log' \in Seq(Message)
    BY <1>1, <1>2, <1>3, SaidTyped
  <1> QED BY <1>3, <1>4 DEF LogTypeOK

LEMMA LogTyped ==
  ASSUME TypeInv, Next
  PROVE  LogTypeOK'
  <1> USE DEF TypeInv
  <1>0. /\ LogTypeOK /\ 0 \in 0..MaxCalls /\ 0 \in 0..MaxEvents /\ Chat \in {Chat, Task}
        /\ pc \in {"tools", "consent"} => left > 0
    BY ConversationConstants DEF Settled, FoldInv, RoomInv
  <1>1. ASSUME UNCHANGED <<log, left, torn>>, scope' = scope \/ scope' = Chat PROVE LogTypeOK'
    BY <1>0, <1>1 DEF LogTypeOK
  <1>2. CASE Turn
    <2>1. ASSUME NEW s \in {Chat, Task}, StartRun(s) PROVE LogTypeOK'
      <3>1. log' \in Seq(Message)
        BY <1>0, <2>1, SaidTyped DEF StartRun
      <3> QED BY <1>0, <2>1, <3>1 DEF StartRun, LogTypeOK
    <2>2. CASE Deliver
      <3>1. log' \in Seq(Message)
        BY <1>0, <2>2, SaidTyped DEF Deliver
      <3> QED BY <1>0, <2>2, <3>1 DEF Deliver, LogTypeOK
    <2>3. ASSUME NEW n \in 0..MaxCalls, Reply(n) PROVE LogTypeOK'
      <3>1. Say("assistant", scope, n, 0) /\ scope \in {Chat, Task}
        BY <1>0, <2>3 DEF Reply, LogTypeOK
      <3>2. log' \in Seq(Message)
        BY <1>0, <3>1, SaidTyped
      <3> QED BY <1>0, <2>3, <3>2 DEF Reply, EndRun, LogTypeOK
    <2>4. CASE FoldTask \/ PauseRun \/ Request \/ StepsSpent \/ ReplyFails
      BY <1>1, <2>4 DEF FoldTask, PauseRun, Request, StepsSpent, ReplyFails, EndRun
    <2> QED BY <1>2, <2>1, <2>2, <2>3, <2>4 DEF Turn
  <1>3. CASE Tool
    <2>1. CASE Plain \/ Decline \/ \E on \in BOOLEAN : SwitchAuto(on)
      <3>1. left > 0 /\ Answered /\ UNCHANGED <<scope, torn>>
        BY <1>0, <2>1 DEF Plain, Decline, SwitchAuto
      <3> QED BY <3>1, AnsweredTyped
    <2>2. CASE ~ (Plain \/ Decline \/ \E on \in BOOLEAN : SwitchAuto(on))
      <3>1. UNCHANGED <<log, left, torn, scope>>
        BY <1>3, <2>2 DEF Tool, Compact, Propose, Approve, CompactLtm, SwitchByRequest, files, run
      <3> QED BY <1>1, <3>1
    <2> QED BY <2>1, <2>2
  <1>4. ASSUME NEW c \in Callers, EndPass(c), UNCHANGED <<scope, torn>> PROVE LogTypeOK'
    BY <1>1, <1>4, AnsweredTyped DEF EndPass
  <1>5. CASE Tier1
    <2>1. ASSUME NEW c \in Callers, NEW mode, NEW b, Begin(c, mode, b) PROVE LogTypeOK'
      BY <1>1, <1>4, <2>1 DEF Begin
    <2>2. ASSUME NEW c \in Callers, Fold(c) \/ FoldFails(c) PROVE LogTypeOK'
      BY <1>4, <2>2 DEF Fold, FoldFails
    <2> QED BY <1>5, <2>1, <2>2 DEF Tier1, BeginMain, ForceCompact, Callers
  <1>6. CASE Cascade
    <2>1. CASE AutoTier1 \/ AutoTier2 \/ Replace \/ PromoteFails
               \/ \E keep \in SUBSET {seen[i] : i \in DOMAIN seen} : Promote(keep)
      BY <1>1, <2>1 DEF AutoTier1, AutoTier2, Replace, PromoteFails, Promote, files, run
    <2>2. CASE ForgetFails \/ \E kept \in 0..ltm : Forget(kept)
      BY <1>1, <2>2, AnsweredTyped DEF Forget, ForgetFails
    <2> QED BY <1>6, <2>1, <2>2 DEF Cascade
  <1>7. CASE Crash \/ \E c \in Callers : CrashInFold(c)
    <2>1. Restart /\ log' = log
      BY <1>7 DEF Crash, CrashInFold, files
    <2>2. left > 0 => Caller \in Event
      BY CallerTyped
    <2>3. torn' \subseteq Event
      BY <1>0, <2>1, <2>2 DEF Restart, LogTypeOK
    <2> QED BY <1>0, <2>1, <2>3 DEF Restart, LogTypeOK
  <1> QED BY <1>2, <1>3, <1>5, <1>6, <1>7 DEF Next

LEMMA MemoryTyped ==
  ASSUME TypeInv, Next
  PROVE  MemoryTypeOK'
  <1> USE DEF TypeInv
  <1>0. MemoryTypeOK /\ \A s, since : Read(s, since) \subseteq 0..MaxEvents
    BY LogFacts, ConversationConstants DEF Read, Event, Settled, FoldInv
  <1>1. ASSUME UNCHANGED <<stm, ltm, seen>>, brief' = brief \/ brief' \in Read(Task, brief)
        PROVE  MemoryTypeOK'
    BY <1>0, <1>1 DEF MemoryTypeOK
  <1>2. CASE Turn
    <2>1. UNCHANGED <<stm, ltm, seen>> /\ (brief' = brief \/ brief' \in Read(Task, brief))
      BY <1>2 DEF Turn, StartRun, Deliver, FoldTask, PauseRun, Request, StepsSpent, ReplyFails,
                  Reply
    <2> QED BY <1>1, <2>1
  <1>3. CASE Tool
    BY <1>1, <1>3 DEF Tool, Plain, SwitchAuto, SwitchByRequest, Compact, Propose, Approve, Decline,
                      CompactLtm, files
  <1>4. ASSUME NEW c \in Callers, NEW b, pass[c].state = "llm", WriteSection(pass[c], b)
        PROVE  stm' \in Seq(SUBSET Event)
    <2>1. pass[c] \in Pass
      BY DEF PassTypeOK
    <2>2. Covered(pass[c], b) \in SUBSET Event
      BY <2>1 DEF Covered, Pass
    <2>3. stm' = Append(stm, Covered(pass[c], b)) /\ stm \in Seq(SUBSET Event)
      BY <1>0, <1>4 DEF WriteSection, MemoryTypeOK
    <2> QED BY <2>2, <2>3
  <1>5. CASE Tier1
    <2>1. CASE BeginMain \/ ForceCompact \/ \E c \in Callers : FoldFails(c)
      BY <1>1, <2>1 DEF BeginMain, ForceCompact, Begin, FoldFails
    <2>2. ASSUME NEW c \in Callers, Fold(c) PROVE MemoryTypeOK'
      <3>1. stm' \in Seq(SUBSET Event) /\ UNCHANGED <<brief, ltm, seen>>
        BY <1>4, <2>2 DEF Fold
      <3> QED BY <1>0, <3>1 DEF MemoryTypeOK
    <2> QED BY <1>5, <2>1, <2>2 DEF Tier1
  <1>6. CASE Cascade
    <2>1. CASE AutoTier1
      BY <1>1, <2>1 DEF AutoTier1, files
    <2>2. CASE AutoTier2 \/ Replace \/ PromoteFails
      <3>1. <<>> \in Seq(SUBSET Event)
        BY EmptySeq
      <3> QED BY <1>0, <2>2, <3>1 DEF AutoTier2, Replace, PromoteFails, files, MemoryTypeOK
    <2>3. ASSUME NEW keep, Promote(keep) PROVE MemoryTypeOK'
      <3>1. Kept(keep) \in Seq(SUBSET Event)
        BY <1>0, KeptTyped DEF MemoryTypeOK
      <3>2. seen' = Kept(keep) /\ UNCHANGED <<brief, stm>> /\ (ltm' = ltm \/ ltm' = ltm + 1)
        BY <2>3 DEF Promote, AppendBullet
      <3> QED BY <1>0, <3>1, <3>2 DEF MemoryTypeOK
    <2>4. CASE ForgetFails \/ \E kept \in 0..ltm : Forget(kept)
      BY <1>0, <2>4 DEF Forget, ForgetFails, MemoryTypeOK
    <2> QED BY <1>6, <2>1, <2>2, <2>3, <2>4 DEF Cascade
  <1>7. CASE Crash \/ \E c \in Callers : CrashInFold(c)
    <2>1. seen' = <<>> /\ <<>> \in Seq(SUBSET Event) /\ UNCHANGED <<brief, ltm>>
      BY <1>7, EmptySeq DEF Crash, CrashInFold, Restart, files
    <2>2. stm' \in Seq(SUBSET Event)
      BY <1>0, <1>4, <1>7 DEF Crash, CrashInFold, files, MemoryTypeOK
    <2> QED BY <1>0, <2>1, <2>2 DEF MemoryTypeOK
  <1> QED BY <1>2, <1>3, <1>5, <1>6, <1>7 DEF Next

LEMMA RunTyped ==
  ASSUME TypeInv, Next
  PROVE  RunTypeOK'
  <1> USE DEF TypeInv, PC
  <1>0. RunTypeOK /\ 0 \in 0..max_steps_per_run
    BY ConversationConstants
  <1>1. ASSUME pc' \in PC, steps' = steps \/ steps' = 0, auto' \in BOOLEAN, crashes' = crashes
        PROVE  RunTypeOK'
    BY <1>0, <1>1 DEF RunTypeOK
  <1>2. pc \in PC /\ auto \in BOOLEAN
    BY DEF RunTypeOK
  <1>3. CASE Turn
    <2>1. CASE Request
      BY <1>0, <2>1, ConversationConstants DEF Request, RunTypeOK
    <2>2. CASE ~ Request
      BY <1>1, <1>2, <1>3, <2>2
         DEF Turn, StartRun, Deliver, FoldTask, PauseRun, StepsSpent, ReplyFails, Reply, EndRun
    <2> QED BY <2>1, <2>2
  <1>4. CASE Tool
    BY <1>1, <1>2, <1>4 DEF Tool, Plain, SwitchAuto, SwitchByRequest, Compact, Propose, Approve,
                            Decline, CompactLtm, Answered, run
  <1>5. CASE Tier1
    <2>1. ASSUME NEW c \in Callers, NEW mode, NEW b, Begin(c, mode, b) PROVE RunTypeOK'
      BY <1>1, <1>2, <2>1 DEF Begin, EndPass, Answered
    <2>2. ASSUME NEW c \in Callers, Fold(c) \/ FoldFails(c) PROVE RunTypeOK'
      BY <1>1, <1>2, <2>2 DEF Fold, FoldFails, EndPass, Answered
    <2> QED BY <1>5, <2>1, <2>2 DEF Tier1, BeginMain, ForceCompact, Callers
  <1>6. CASE Cascade
    BY <1>1, <1>2, <1>6 DEF Cascade, AutoTier1, AutoTier2, AutoTier3, Replace, PromoteFails, Promote,
                            Forget, ForgetFails, Answered, run
  <1>7. CASE Crash \/ \E c \in Callers : CrashInFold(c)
    <2>1. Restart
      BY <1>7 DEF Crash, CrashInFold
    <2> QED BY <1>0, <2>1, ConversationConstants DEF Restart, RunTypeOK
  <1> QED BY <1>3, <1>4, <1>5, <1>6, <1>7 DEF Next

LEMMA PassTyped ==
  ASSUME TypeInv, Next
  PROVE  PassTypeOK'
  <1> USE DEF TypeInv
  <1>0. PassTypeOK
    OBVIOUS
  <1>1. ASSUME NEW c \in Callers, NEW p \in Pass, pass' = [pass EXCEPT ![c] = p]
        PROVE  PassTypeOK'
    BY <1>0, <1>1 DEF PassTypeOK
  <1>2. /\ Off \in Pass
        /\ \A mode \in {"tail", "full", "explicit"}, b \in 0..MaxEvents : Asked(mode, b) \in Pass
        /\ \A b \in Event : [Off EXCEPT !.mode = "explicit", !.boundary = b] \in Pass
        /\ 0 \in 0..MaxEvents /\ Main \in Callers /\ Ipc \in Callers
    <2>1. 0 \in 0..MaxEvents /\ Event \subseteq 0..MaxEvents
      BY ConversationConstants DEF Event
    <2>2. Off \in Pass
      BY <2>1 DEF Off, Pass
    <2>3. ASSUME NEW b \in Event
          PROVE  [Off EXCEPT !.mode = "explicit", !.boundary = b] \in Pass
      BY <2>1 DEF Off, Pass
    <2>4. ASSUME NEW mode \in {"tail", "full", "explicit"}, NEW b \in 0..MaxEvents
          PROVE  Asked(mode, b) \in Pass
      BY DEF Asked, Pass
    <2> QED BY <2>1, <2>2, <2>3, <2>4 DEF Callers
  <1>3. UNCHANGED pass => PassTypeOK'
    BY <1>0 DEF PassTypeOK
  <1>4. CASE Turn
    BY <1>3, <1>4 DEF Turn, StartRun, Deliver, FoldTask, PauseRun, Request, StepsSpent, ReplyFails,
                      Reply
  <1>5. CASE Tool
    <2>1. CASE Compact
      BY <1>1, <1>2, <2>1 DEF Compact
    <2>2. ASSUME NEW b \in Event, Propose(b) PROVE PassTypeOK'
      BY <1>1, <1>2, <2>2 DEF Propose
    <2>3. CASE Approve
      <3>1. pass[Main].boundary \in 0..MaxEvents
        BY <1>0, <1>2 DEF PassTypeOK, Pass
      <3>2. Asked("explicit", pass[Main].boundary) \in Pass
        BY <1>2, <3>1
      <3>3. pass' = [pass EXCEPT ![Main] = Asked("explicit", pass[Main].boundary)]
        BY <2>3 DEF Approve
      <3> QED BY <1>1, <1>2, <3>2, <3>3
    <2>4. CASE Decline
      BY <1>1, <1>2, <2>4 DEF Decline
    <2>5. CASE Plain \/ CompactLtm \/ \E on \in BOOLEAN : SwitchAuto(on) \/ SwitchByRequest(on)
      BY <1>3, <2>5 DEF Plain, CompactLtm, SwitchAuto, SwitchByRequest
    <2> QED BY <1>5, <2>1, <2>2, <2>3, <2>4, <2>5 DEF Tool
  <1>6. ASSUME NEW c \in Callers, EndPass(c) PROVE PassTypeOK'
    BY <1>1, <1>2, <1>6 DEF EndPass
  <1>7. ASSUME NEW c \in Callers, NEW mode \in {"tail", "full", "explicit"},
               NEW b \in 0..MaxEvents, Begin(c, mode, b)
        PROVE  PassTypeOK'
    <2> DEFINE events == Read(Chat, watermark)
               p == [state |-> "llm", mode |-> mode,
                     boundary |-> Suggested(mode, events, b), events |-> events]
    <2>1. events \in SUBSET Event
      BY LogFacts DEF Read, Settled, FoldInv
    <2>2. CASE events = {} \/ EndPass(c)
      BY <1>6, <1>7, <2>2 DEF Begin
    <2>3. CASE ~ (events = {} \/ EndPass(c))
      <3>1. pass' = [pass EXCEPT ![c] = p]
        BY <1>7, <2>3 DEF Begin
      <3> HIDE DEF events
      <3>2. Suggested(mode, events, b) \in 0..MaxEvents
        BY <2>1, <2>3, CutInRange
      <3>3. p \in Pass
        BY <2>1, <3>2 DEF Pass
      <3> HIDE DEF p
      <3> QED BY <1>1, <3>1, <3>3
    <2> QED BY <2>2, <2>3
  <1>8. CASE Tier1
    <2>1. CASE BeginMain
      <3>1. pass[Main] \in Pass
        BY <1>0, <1>2 DEF PassTypeOK
      <3>2. /\ pass[Main].mode \in {"tail", "full", "explicit"}
            /\ pass[Main].boundary \in 0..MaxEvents
        BY <3>1 DEF Pass
      <3> QED BY <1>2, <1>7, <2>1, <3>2 DEF BeginMain
    <2>2. CASE ForceCompact
      BY <1>2, <1>7, <2>2 DEF ForceCompact
    <2>3. ASSUME NEW c \in Callers, Fold(c) \/ FoldFails(c) PROVE PassTypeOK'
      BY <1>6, <2>3 DEF Fold, FoldFails
    <2> QED BY <1>8, <2>1, <2>2, <2>3 DEF Tier1
  <1>9. CASE Cascade
    BY <1>1, <1>2, <1>3, <1>9 DEF Cascade, AutoTier1, AutoTier2, Replace, PromoteFails, Promote,
                                  Forget, ForgetFails
  <1>10. CASE Crash \/ \E c \in Callers : CrashInFold(c)
    <2>1. pass' = [c \in Callers |-> Off]
      BY <1>10 DEF Crash, CrashInFold, Restart
    <2> QED BY <1>2, <2>1 DEF PassTypeOK
  <1> QED BY <1>4, <1>5, <1>8, <1>9, <1>10 DEF Next

LEMMA TypesHold == Spec => []TypeInv
  <1>1. Init => LogTypeOK /\ MemoryTypeOK /\ RunTypeOK /\ PassTypeOK
    <2> SUFFICES ASSUME Init PROVE LogTypeOK /\ MemoryTypeOK /\ RunTypeOK /\ PassTypeOK
      OBVIOUS
    <2>1. log \in Seq(Message) /\ stm \in Seq(SUBSET Event) /\ seen \in Seq(SUBSET Event)
      BY EmptySeq DEF Init
    <2>2. PassTypeOK
      BY ConversationConstants DEF Init, PassTypeOK, Pass, Off
    <2> QED BY <2>1, <2>2, ConversationConstants
            DEF Init, LogTypeOK, MemoryTypeOK, RunTypeOK, PC
  <1>2. TypeInv /\ Next => (LogTypeOK /\ MemoryTypeOK /\ RunTypeOK /\ PassTypeOK)'
    BY LogTyped, MemoryTyped, RunTyped, PassTyped
  <1>3. TypeInv /\ UNCHANGED vars => (LogTypeOK /\ MemoryTypeOK /\ RunTypeOK /\ PassTypeOK)'
    BY DEF TypeInv, LogTypeOK, MemoryTypeOK, RunTypeOK, PassTypeOK, vars
  <1>4. /\ Settled <=> FoldInv /\ CallInv /\ ShownInv
        /\ TypeInv <=> Settled /\ LogTypeOK /\ MemoryTypeOK /\ RunTypeOK /\ PassTypeOK
    BY DEF Settled, TypeInv
  <1> QED BY <1>1, <1>2, <1>3, <1>4, FoldInvariant, CallsInvariant, PTL DEF Spec

\* Type correctness: the log never outgrows its bound, although a tool call, a pass or a
\* consent is answered long after its reply took the room for it; every boundary a pass
\* holds is the id of an event or 0, whatever cut the model or the safety rule chose.
THEOREM TypeCorrect == Spec => []TypeOK
  <1>1. TypeInv => TypeOK
    <2> SUFFICES ASSUME TypeInv PROVE TypeOK
      OBVIOUS
    <2>1. /\ Len(log) \in Nat /\ DOMAIN log \subseteq Event /\ left \in Nat
          /\ Len(log) + left <= MaxEvents /\ request \subseteq DOMAIN log
          /\ watermark \in 0..Len(log) /\ times \in [Event -> Nat]
      BY LogFacts DEF TypeInv, Settled, FoldInv, RoomInv, TimesInv, ShownInv
    <2>2. Len(log) <= MaxEvents /\ watermark \in 0..MaxEvents /\ request \subseteq Event
      BY <2>1, ConversationConstants
    <2> QED BY <2>1, <2>2
            DEF TypeInv, LogTypeOK, MemoryTypeOK, RunTypeOK, PassTypeOK, Pass, TypeOK
  <1> QED BY <1>1, TypesHold, PTL
=============================================================================
