---------------------------- MODULE LifecycleProofs ----------------------------
(* For any number of workers, crashes and commands of one shell: at most one *)
(* worker writes, unless a start gave up waiting.                            *)
EXTENDS Lifecycle, SequenceTheorems, FiniteSetTheorems, TLAPS

ProcState == {"none", "spawned", "open", "named", "serving", "ending", "gone"}

Step == {"create", "start", "spawn", "wait", "term", "kill", "exit", "check", "remove", "strip",
         "recreate", "pause", "resume"}

TypeInv ==
    /\ pid_file \in Proc \cup {NoProc}
    /\ proc \in [Proc -> ProcState]
    /\ target \in [Shells -> Proc \cup {NoProc}]
    /\ todo \in [Shells -> Seq(Step)]
    /\ root \in BOOLEAN /\ meta \in BOOLEAN /\ premature \in BOOLEAN

\* What a step relies on having just been done.
Follows(a, b) ==
    /\ b = "wait" => a = "spawn"
    /\ b = "spawn" => a \in {"create", "start"}
    /\ b \in {"remove", "strip"} => a = "check"

Ordered(t) ==
    \A k \in DOMAIN t :
        /\ k + 1 \in DOMAIN t => Follows(t[k], t[k + 1])
        /\ t[k] = "spawn" => k + 1 \in DOMAIN t /\ t[k + 1] = "wait"
        /\ t[k] \in {"term", "kill"} => k + 1 \in DOMAIN t /\ t[k + 1] = "exit"

\* A command begins with a step that relies on none.
Begins(t) == t # <<>> /\ Head(t) \notin {"spawn", "wait", "remove", "strip"}

Live(p) == proc[p] \notin {"none", "gone"}
NoneLive == \A p \in Proc : ~ Live(p)

StepsOrdered == \A s \in Shells : Ordered(todo[s])

\* A worker is known by its pid, or its shell still waits for it.
Known ==
    \A p \in Proc :
      /\ Live(p) => root /\ meta
      /\ proc[p] \in {"spawned", "open"} => \E s \in Shells : At(s, "wait") /\ target[s] = p
      /\ proc[p] \in {"named", "serving", "ending"} => pid_file = p /\ status \in {"running", "paused"}
      /\ proc[p] = "serving" => sock

Alone == \A p, q \in Proc : Live(p) /\ Live(q) => p = q

\* What a check was for still holds when it is done.
Cleared ==
    \A s \in Shells :
      /\ At(s, "spawn") => NoneLive /\ root /\ meta
      /\ At(s, "remove") \/ At(s, "strip") => NoneLive

WriterInv == Known /\ Alone /\ Cleared /\ (meta => root)
OneShell  == \A s, t \in Shells : s = t

-----------------------------------------------------------------------------
(* The order of the steps *)

LEMMA QuitOrdered == Ordered(<<>>)
  BY DEF Ordered

LEMMA TailOrdered ==
  ASSUME NEW t \in Seq(Step), t # <<>>, Ordered(t)
  PROVE  /\ Tail(t) \in Seq(Step) /\ Ordered(Tail(t))
         /\ Head(t) = "spawn" => Tail(t) # <<>> /\ Head(Tail(t)) = "wait"
         /\ Head(t) \in {"term", "kill"} => Tail(t) # <<>> /\ Head(Tail(t)) = "exit"
         /\ Tail(t) # <<>> => Follows(Head(t), Head(Tail(t)))
  <1>1. /\ Tail(t) \in Seq(Step) /\ Len(Tail(t)) = Len(t) - 1 /\ Len(t) \in Nat \ {0}
        /\ \A k \in 1..Len(Tail(t)) : Tail(t)[k] = t[k + 1]
    BY HeadTailProperties, LenProperties, EmptySeq
  <1>2. DOMAIN t = 1..Len(t) /\ DOMAIN Tail(t) = 1..(Len(t) - 1) /\ Head(t) = t[1]
    BY <1>1, LenProperties
  <1>3. Ordered(Tail(t))
    <2> SUFFICES ASSUME NEW k \in DOMAIN Tail(t)
                 PROVE  /\ k + 1 \in DOMAIN Tail(t) => Follows(Tail(t)[k], Tail(t)[k + 1])
                        /\ Tail(t)[k] = "spawn" => k + 1 \in DOMAIN Tail(t) /\ Tail(t)[k + 1] = "wait"
                        /\ Tail(t)[k] \in {"term", "kill"} =>
                             k + 1 \in DOMAIN Tail(t) /\ Tail(t)[k + 1] = "exit"
      BY DEF Ordered
    <2> DEFINE l == k + 1
    <2>1. l \in DOMAIN t /\ Tail(t)[k] = t[l] /\ k \in Nat
      BY <1>1, <1>2
    <2>2. k + 1 \in DOMAIN Tail(t) <=> l + 1 \in DOMAIN t
      BY <1>1, <1>2, <2>1
    <2>3. k + 1 \in DOMAIN Tail(t) => Tail(t)[k + 1] = t[l + 1]
      BY <1>1, <1>2, <2>1
    <2> HIDE DEF l
    <2>4. /\ l + 1 \in DOMAIN t => Follows(t[l], t[l + 1])
          /\ t[l] = "spawn" => l + 1 \in DOMAIN t /\ t[l + 1] = "wait"
          /\ t[l] \in {"term", "kill"} => l + 1 \in DOMAIN t /\ t[l + 1] = "exit"
      BY <2>1 DEF Ordered
    <2> QED BY <2>1, <2>2, <2>3, <2>4
  <1>4. Tail(t) # <<>> => 2 \in DOMAIN t /\ Head(Tail(t)) = t[2]
    <2>1. Tail(t) # <<>> => Len(Tail(t)) # 0
      BY <1>1, EmptySeq
    <2>2. Tail(t) # <<>> => 1 \in 1..Len(Tail(t)) /\ 2 \in DOMAIN t
      BY <1>1, <1>2, <2>1
    <2>3. \A r \in Seq(Step) : Head(r) = r[1]
      OBVIOUS
    <2> QED BY <1>1, <2>2, <2>3
  <1>5. 2 \in DOMAIN t => Tail(t) # <<>>
    <2> DEFINE r == Tail(t)
    <2>1. 2 \in DOMAIN t => Len(r) # 0
      BY <1>1, <1>2
    <2> HIDE DEF r
    <2>2. r = <<>> => Len(r) = 0
      OBVIOUS
    <2>3. 2 \in DOMAIN t => r # <<>>
      BY <2>1, <2>2
    <2> QED BY <2>3 DEF r
  <1>6. /\ 2 \in DOMAIN t => Follows(t[1], t[2])
        /\ t[1] = "spawn" => 2 \in DOMAIN t /\ t[2] = "wait"
        /\ t[1] \in {"term", "kill"} => 2 \in DOMAIN t /\ t[2] = "exit"
    <2>1. 1 \in DOMAIN t /\ 1 + 1 = 2
      BY <1>1, <1>2
    <2> QED BY <2>1 DEF Ordered
  <1> QED BY <1>1, <1>2, <1>3, <1>4, <1>5, <1>6

LEMMA ConcatOrdered ==
  ASSUME NEW s \in Seq(Step), NEW t \in Seq(Step), Ordered(s), Ordered(t), Begins(t)
  PROVE  s \o t \in Seq(Step) /\ Ordered(s \o t) /\ (s = <<>> \/ Begins(s) => Begins(s \o t))
  <1> DEFINE u == s \o t
  <1>1. /\ u \in Seq(Step) /\ Len(u) = Len(s) + Len(t)
        /\ \A k \in 1..Len(u) : u[k] = IF k <= Len(s) THEN s[k] ELSE t[k - Len(s)]
    BY ConcatProperties
  <1>2. /\ Len(s) \in Nat /\ Len(t) \in Nat \ {0} /\ DOMAIN s = 1..Len(s) /\ DOMAIN t = 1..Len(t)
        /\ Head(t) = t[1]
    BY EmptySeq, LenProperties DEF Begins
  <1>3. DOMAIN u = 1..Len(u)
    BY <1>1, LenProperties
  <1> HIDE DEF u
  <1>4. Ordered(u)
    <2> SUFFICES ASSUME NEW k \in DOMAIN u
                 PROVE  /\ k + 1 \in DOMAIN u => Follows(u[k], u[k + 1])
                        /\ u[k] = "spawn" => k + 1 \in DOMAIN u /\ u[k + 1] = "wait"
                        /\ u[k] \in {"term", "kill"} => k + 1 \in DOMAIN u /\ u[k + 1] = "exit"
      BY DEF Ordered
    <2>1. k \in Nat /\ k \in 1..Len(u)
      BY <1>1, <1>2, <1>3
    <2>2. CASE k > Len(s)
      <3> DEFINE l == k - Len(s)
      <3>1. l \in DOMAIN t /\ u[k] = t[l] /\ (k + 1 \in DOMAIN u <=> l + 1 \in DOMAIN t)
        BY <1>1, <1>2, <1>3, <2>1, <2>2
      <3>2. k + 1 \in DOMAIN u => u[k + 1] = t[l + 1]
        BY <1>1, <1>2, <1>3, <2>1, <2>2
      <3> HIDE DEF l
      <3> QED BY <3>1, <3>2 DEF Ordered
    <2>3. CASE k + 1 <= Len(s)
      <3>1. k \in DOMAIN s /\ k + 1 \in DOMAIN s /\ k + 1 \in DOMAIN u /\ u[k] = s[k] /\ u[k + 1] = s[k + 1]
        BY <1>1, <1>2, <1>3, <2>1, <2>3
      <3> QED BY <3>1 DEF Ordered
    <2>4. CASE k = Len(s)
      <3>1. k \in DOMAIN s /\ k + 1 \notin DOMAIN s /\ u[k] = s[k] /\ u[k + 1] = Head(t)
        BY <1>1, <1>2, <1>3, <2>1, <2>4
      <3>2. s[k] \notin {"spawn", "term", "kill"}
        BY <3>1 DEF Ordered
      <3> QED BY <3>1, <3>2 DEF Begins, Follows
    <2> QED BY <1>2, <2>1, <2>2, <2>3, <2>4
  <1>5. u # <<>>
    BY <1>1, <1>2, EmptySeq
  <1>6. CASE s = <<>>
    BY <1>1, <1>2, <1>4, <1>5, <1>6, EmptySeq DEF u, Begins
  <1>7. CASE s # <<>>
    <2>1. Head(u) = u[1] /\ Head(s) = s[1] /\ Len(s) # 0
      BY <1>7, EmptySeq
    <2>2. Head(u) = Head(s)
      BY <1>1, <1>2, <2>1
    <2> QED BY <1>1, <1>4, <1>5, <1>7, <2>2 DEF u, Begins
  <1> QED BY <1>6, <1>7

LEMMA StepsAreOrdered ==
  ASSUME NEW cmd \in Command
  PROVE  Steps(cmd) \in Seq(Step) /\ Ordered(Steps(cmd)) /\ Begins(Steps(cmd))
  <1>1. CASE cmd \in {"create", "start"}
    <2>1. Steps(cmd) = <<cmd, "spawn", "wait">> /\ cmd \in Step /\ {"spawn", "wait"} \subseteq Step
      BY <1>1 DEF Steps, Step
    <2> QED BY <1>1, <2>1 DEF Ordered, Begins, Follows
  <1>2. CASE cmd \in {"stop", "stop --force"}
    <2>1. PICK a \in {"term", "kill"} : Steps(cmd) = <<a, "exit">>
      BY <1>2 DEF Steps
    <2>2. {a, "exit"} \subseteq Step
      BY DEF Step
    <2> QED BY <2>1, <2>2 DEF Ordered, Begins, Follows
  <1>3. CASE cmd \in {"rm", "rm --keep-data"}
    <2>1. PICK b \in {"remove", "strip"} : Steps(cmd) = <<"check", b>>
      BY <1>3 DEF Steps
    <2>2. {b, "check"} \subseteq Step
      BY DEF Step
    <2> QED BY <2>1, <2>2 DEF Ordered, Begins, Follows
  <1>4. CASE cmd \in {"recreate", "pause", "resume"}
    <2>1. Steps(cmd) = <<cmd>> /\ cmd \in Step
      BY <1>4 DEF Steps, Step
    <2> QED BY <1>4, <2>1 DEF Ordered, Begins, Follows
  <1> QED BY <1>1, <1>2, <1>3, <1>4 DEF Command

\* recreate puts the steps of up to three commands together.
LEMMA RecreateOrdered ==
  ASSUME NEW removal \in {"rm", "rm --keep-data"}, NEW halt \in {<<>>, Steps("stop")}
  PROVE  LET t == halt \o Steps(removal) \o Steps("create")
         IN  t \in Seq(Step) /\ Ordered(t) /\ Begins(t)
  <1>1. halt \in Seq(Step) /\ Ordered(halt) /\ (halt = <<>> \/ Begins(halt))
    BY QuitOrdered, StepsAreOrdered, EmptySeq DEF Command
  <1>2. Steps(removal) \in Seq(Step) /\ Ordered(Steps(removal)) /\ Begins(Steps(removal))
    BY StepsAreOrdered DEF Command
  <1>3. Steps("create") \in Seq(Step) /\ Ordered(Steps("create")) /\ Begins(Steps("create"))
    BY StepsAreOrdered DEF Command
  <1>4. /\ halt \o Steps(removal) \in Seq(Step) /\ Ordered(halt \o Steps(removal))
        /\ Begins(halt \o Steps(removal))
    BY <1>1, <1>2, ConcatOrdered
  <1> QED BY <1>3, <1>4, ConcatOrdered

-----------------------------------------------------------------------------
(* Types *)

LEMMA TypeStep ==
  ASSUME TypeInv, StepsOrdered, [Next]_vars
  PROVE  TypeInv' /\ StepsOrdered'
  <1>0. NoProc \notin Proc /\ {"none", "gone", "spawned", "open", "named", "serving", "ending"} = ProcState
    BY DEF NoProc, Proc, ProcState
  <1>1. ASSUME NEW s \in Shells, Continue(s), todo[s] # <<>>
        PROVE  todo' \in [Shells -> Seq(Step)] /\ StepsOrdered'
    BY <1>1, TailOrdered DEF TypeInv, StepsOrdered, Continue
  <1>2. ASSUME NEW s \in Shells, Quit(s)
        PROVE  todo' \in [Shells -> Seq(Step)] /\ StepsOrdered'
    BY <1>2, QuitOrdered, EmptySeq DEF TypeInv, StepsOrdered, Quit
  <1>3. UNCHANGED todo => todo' \in [Shells -> Seq(Step)] /\ StepsOrdered'
    BY DEF TypeInv, StepsOrdered
  <1>4. ASSUME NEW p \in Proc, Dead(p) PROVE proc' \in [Proc -> ProcState]
    BY <1>0, <1>4 DEF Dead, TypeInv
  <1>5. Alive(pid_file) => pid_file \in Proc
    BY DEF Alive, TypeInv
  <1>6. ASSUME NEW s \in Shells, NEW t \in Seq(Step), Ordered(t), todo' = [todo EXCEPT ![s] = t]
        PROVE  todo' \in [Shells -> Seq(Step)] /\ StepsOrdered'
    BY <1>6 DEF TypeInv, StepsOrdered
  <1>7. ASSUME NEW s \in Shells, Shell(s)
        PROVE  TypeInv' /\ StepsOrdered'
    <2>1. CASE \E cmd \in Command : Enter(s, cmd)
      BY <2>1, <1>6, StepsAreOrdered DEF Enter, TypeInv, files, procs
    <2>2. CASE Create(s) \/ Start(s) \/ Wait(s) \/ Check(s)
      BY <2>2, <1>1, <1>2 DEF Create, Start, Wait, Check, At, TypeInv, files, procs
    <2>3. CASE \E p \in Proc : Spawn(s, p)
      BY <2>3, <1>0, <1>1 DEF Spawn, At, TypeInv, files
    <2>4. CASE Term(s) \/ Kill(s)
      <3>1. todo' \in [Shells -> Seq(Step)] /\ StepsOrdered'
        <4>1. CASE Continue(s)
          BY <2>4, <4>1, <1>1 DEF Term, Kill, At
        <4>2. CASE NotRunning(s)
          <5>1. /\ Tail(todo[s]) \in Seq(Step) /\ Tail(todo[s]) # <<>> /\ Ordered(Tail(todo[s]))
            BY <2>4, TailOrdered DEF Term, Kill, At, TypeInv, StepsOrdered
          <5>2. Tail(Tail(todo[s])) \in Seq(Step) /\ Ordered(Tail(Tail(todo[s])))
            BY <5>1, TailOrdered
          <5> QED BY <4>2, <5>2, <1>6 DEF NotRunning
        <4> QED BY <2>4, <4>1, <4>2 DEF Term, Kill
      <3>2. proc' \in [Proc -> ProcState]
        <4>1. CASE UNCHANGED proc
          BY <4>1 DEF TypeInv
        <4>2. CASE ~ UNCHANGED proc
          <5>1. pid_file \in Proc /\ (Dead(pid_file) \/ proc' = [proc EXCEPT ![pid_file] = "ending"])
            BY <2>4, <4>2, <1>5 DEF Term, Kill, NotRunning, procs
          <5> QED BY <5>1, <1>0, <1>4 DEF TypeInv
        <4> QED BY <4>1, <4>2
      <3>3. target' \in [Shells -> Proc \cup {NoProc}] /\ UNCHANGED <<pid_file, root, meta, premature>>
        BY <2>4 DEF Term, Kill, TypeInv
      <3> QED BY <3>1, <3>2, <3>3 DEF TypeInv
    <2>5. CASE Exit(s)
      <3>1. Alive(target[s]) => target[s] \in Proc
        BY DEF Alive, TypeInv
      <3> QED BY <2>5, <3>1, <1>1, <1>4 DEF Exit, At, TypeInv
    <2>6. CASE \E keep_data \in BOOLEAN : Remove(s, keep_data)
      BY <2>6, <1>1 DEF Remove, At, TypeInv, procs
    <2>7. CASE Recreate(s)
      <3>1. PICK t \in Seq(Step) : Ordered(t) /\ todo' = [todo EXCEPT ![s] = t]
        <4>1. PICK removal \in {"rm", "rm --keep-data"} : todo' = [todo EXCEPT ![s] =
              IF ~ meta THEN <<>>
              ELSE (IF EffectiveStatus \in {"dead", "created"} THEN <<>> ELSE Steps("stop"))
                   \o Steps(removal) \o Steps("create")]
          BY <2>7 DEF Recreate
        <4>2. CASE ~ meta
          BY <4>1, <4>2, QuitOrdered, EmptySeq
        <4>3. CASE meta
          <5>1. PICK halt \in {<<>>, Steps("stop")} :
                  todo' = [todo EXCEPT ![s] = halt \o Steps(removal) \o Steps("create")]
            BY <4>1, <4>3
          <5> QED BY <5>1, RecreateOrdered
        <4> QED BY <4>2, <4>3
      <3> QED BY <2>7, <3>1, <1>6 DEF Recreate, TypeInv, files, procs
    <2>8. CASE Pause(s)
      BY <2>8, <1>2 DEF Pause, TypeInv
    <2>9. CASE Resume(s)
      <3>1. proc' \in [Proc -> ProcState]
        BY <2>9, <1>0, <1>5 DEF Resume, TypeInv, procs
      <3> QED BY <2>9, <3>1, <1>2 DEF Resume, TypeInv
    <2> QED BY <1>7, <2>1, <2>2, <2>3, <2>4, <2>5, <2>6, <2>7, <2>8, <2>9 DEF Shell
  <1>8. ASSUME NEW p \in Proc, Worker(p)
        PROVE  TypeInv' /\ StepsOrdered'
    BY <1>0, <1>3, <1>8 DEF Worker, Open, Name, Serve, Fail, End, Crash, Becomes, Dead, TypeInv, files
  <1>9. CASE UNCHANGED vars
    BY <1>3, <1>9 DEF vars, TypeInv
  <1> QED BY <1>7, <1>8, <1>9 DEF Next

-----------------------------------------------------------------------------
(* One writer *)

\* A shell that does not wait for a worker knows all that live by their pid.
LEMMA Nobody ==
  ASSUME TypeInv, WriterInv, OneShell, NEW s \in Shells, ~ At(s, "wait"), ~ Alive(pid_file)
  PROVE  NoneLive
  <1> SUFFICES ASSUME NEW p \in Proc, Live(p) PROVE FALSE
    BY DEF NoneLive
  <1>1. proc[p] \in {"named", "serving", "ending"}
    BY DEF Live, TypeInv, ProcState, WriterInv, Known, OneShell
  <1>2. pid_file = p /\ p # NoProc
    BY <1>1 DEF WriterInv, Known, Proc, NoProc
  <1> QED BY <1>2 DEF Alive, Live


LEMMA ProcTyped ==
  ASSUME TypeInv, NEW p \in Proc
  PROVE  proc[p] \in {"none", "spawned", "open", "named", "serving", "ending", "gone"}
  BY DEF TypeInv, ProcState

LEMMA AfterQuit ==
  ASSUME TypeInv, NEW s \in Shells, Quit(s)
  PROVE  \A x : ~ At(s, x)'
  BY DEF TypeInv, Quit, At

LEMMA AfterContinue ==
  ASSUME TypeInv, StepsOrdered, NEW s \in Shells, NEW x, At(s, x), Continue(s)
  PROVE  /\ \A y : At(s, y)' => Follows(x, y)
         /\ x = "spawn" => At(s, "wait")'
  <1>1. todo'[s] = Tail(todo[s]) /\ Head(todo[s]) = x
    BY DEF TypeInv, Continue, At
  <1>2. /\ Tail(todo[s]) # <<>> => Follows(x, Head(Tail(todo[s])))
        /\ x = "spawn" => Tail(todo[s]) # <<>> /\ Head(Tail(todo[s])) = "wait"
    BY <1>1, TailOrdered DEF TypeInv, StepsOrdered, At
  <1> QED BY <1>1, <1>2 DEF At

LEMMA AfterNotRunning ==
  ASSUME TypeInv, StepsOrdered, NEW s \in Shells, At(s, "term") \/ At(s, "kill"), NotRunning(s)
  PROVE  \A y : At(s, y)' => Follows("exit", y)
  <1> DEFINE t == Tail(todo[s])
  <1>1. t \in Seq(Step) /\ Ordered(t) /\ t # <<>> /\ Head(t) = "exit"
    BY TailOrdered DEF TypeInv, StepsOrdered, At
  <1>2. todo'[s] = Tail(t)
    BY DEF TypeInv, NotRunning
  <1> HIDE DEF t
  <1>3. Tail(t) # <<>> => Follows("exit", Head(Tail(t)))
    BY <1>1, TailOrdered
  <1> QED BY <1>2, <1>3 DEF At

\* Between two steps that rely on each other, the shell does nothing else.
LEMMA ShellStep ==
  ASSUME TypeInv, StepsOrdered, WriterInv, OneShell, NEW s \in Shells, Shell(s), ~ premature'
  PROVE  WriterInv'
  <1> USE DEF WriterInv
  <1>0. /\ \A t \in Shells : t = s
        /\ NoProc \notin Proc
    BY DEF OneShell, NoProc, Proc
  <1>a. /\ ~ At(s, "wait") => \A p \in Proc : proc[p] \notin {"spawned", "open"}
        /\ ~ At(s, "wait") /\ ~ Alive(pid_file) => NoneLive
    BY <1>0, Nobody DEF Known
  <1>b. \A y : \A x \in {"create", "start", "term", "kill", "exit", "check", "remove", "strip"} :
          At(s, x) /\ y # x => ~ At(s, y)
    BY DEF At
  <1>1. ASSUME NEW cmd \in Command, Enter(s, cmd) PROVE WriterInv'
    <2>1. todo'[s] = Steps(cmd) /\ ~ At(s, "wait")
      BY <1>1 DEF Enter, TypeInv, At
    <2>2. ~ At(s, "wait")' /\ ~ At(s, "spawn")' /\ ~ At(s, "remove")' /\ ~ At(s, "strip")'
      BY <2>1, StepsAreOrdered DEF Begins, At
    <2> QED BY <1>0, <1>1, <1>a, <2>1, <2>2 DEF Enter, files, procs, Known, Alone, Cleared, Live, NoneLive
  <1>2. CASE Create(s)
    <2>1. CASE Quit(s) /\ UNCHANGED files
      BY <1>0, <1>2, <1>a, <1>b, <2>1, AfterQuit DEF Create, files, procs, Known, Alone, Cleared, Live, NoneLive
    <2>2. CASE ~ meta
      <3>1. NoneLive /\ UNCHANGED proc /\ root' /\ meta'
        BY <1>2, <2>2 DEF Create, procs, Known, NoneLive
      <3>2. ~ At(s, "remove")' /\ ~ At(s, "strip")'
        BY <1>2, <2>2, AfterQuit, AfterContinue DEF Create, Follows
      <3> QED BY <1>0, <3>1, <3>2, ProcTyped DEF Known, Alone, Cleared, Live, NoneLive
    <2> QED BY <1>2, <2>1, <2>2 DEF Create
  <1>3. CASE Start(s)
    <2>1. CASE Quit(s)
      BY <1>0, <1>3, <1>a, <1>b, <2>1, AfterQuit DEF Start, procs, Known, Alone, Cleared, Live, NoneLive
    <2>2. CASE ~ Quit(s)
      <3>1. NoneLive /\ UNCHANGED proc /\ root' /\ meta'
        BY <1>3, <1>a, <1>b, <2>2 DEF Start, procs
      <3>2. ~ At(s, "remove")' /\ ~ At(s, "strip")'
        BY <1>3, <2>2, AfterContinue DEF Start, Follows
      <3> QED BY <1>0, <3>1, <3>2, ProcTyped DEF Known, Alone, Cleared, Live, NoneLive
    <2> QED BY <2>1, <2>2
  <1>4. ASSUME NEW p \in Proc, Spawn(s, p) PROVE WriterInv'
    <2>1. /\ NoneLive /\ root' /\ meta' /\ target'[s] = p /\ proc'[p] = "spawned"
          /\ \A q \in Proc : q # p => proc'[q] = proc[q]
      BY <1>4 DEF Spawn, Cleared, TypeInv, files
    <2>2. At(s, "wait")' /\ ~ At(s, "spawn")' /\ ~ At(s, "remove")' /\ ~ At(s, "strip")'
      BY <1>4, AfterContinue DEF Spawn, At
    <2> QED BY <1>0, <2>1, <2>2, ProcTyped DEF Known, Alone, Cleared, Live, NoneLive
  <1>5. CASE Wait(s)
    <2>1. \A p \in Proc : proc[p] \notin {"spawned", "open"}
      BY <1>0, <1>5 DEF Wait, Known
    <2> QED BY <1>0, <1>5, <2>1, AfterQuit DEF Wait, files, procs, Known, Alone, Cleared, Live, NoneLive
  <1>6. CASE Term(s) \/ Kill(s)
    <2>0. ~ At(s, "wait") /\ (At(s, "term") \/ At(s, "kill"))
      BY <1>6, <1>b DEF Term, Kill
    <2>1. ~ At(s, "spawn")' /\ ~ At(s, "remove")' /\ ~ At(s, "strip")'
      BY <1>6, <2>0, AfterContinue, AfterNotRunning DEF Term, Kill, Follows
    <2>2. CASE NotRunning(s) /\ ~ Alive(pid_file)
      BY <1>0, <1>6, <1>a, <2>0, <2>1, <2>2, ProcTyped
         DEF NotRunning, procs, Term, Kill, Known, Alone, Cleared, Live, NoneLive
    <2>3. CASE Alive(pid_file)
      <3>1. pid_file \in Proc /\ Live(pid_file)
        BY <2>3, <1>0 DEF Alive, Live, TypeInv
      <3>2. /\ UNCHANGED <<root, meta, pid_file, sock, status>>
            /\ \A q \in Proc : q # pid_file => proc'[q] = proc[q]
            /\ \/ proc'[pid_file] \in {"gone", proc[pid_file]}
               \/ proc'[pid_file] = "ending" /\ proc[pid_file] \notin {"spawned", "open", "named"}
        BY <1>6, <2>3, <3>1 DEF Term, Kill, Dead, Early, TypeInv
      <3>3. proc[pid_file] \in {"named", "serving", "ending"}
        BY <1>a, <2>0, <3>1, ProcTyped DEF Live
      <3> QED BY <1>0, <1>a, <2>0, <2>1, <3>1, <3>2, <3>3 DEF Known, Alone, Cleared, Live, NoneLive
    <2> QED BY <1>6, <2>2, <2>3 DEF Term, Kill
  <1>7. CASE Exit(s)
    <2>1. ~ At(s, "wait") /\ ~ At(s, "spawn")' /\ ~ At(s, "remove")' /\ ~ At(s, "strip")'
      BY <1>7, <1>b, AfterContinue DEF Exit, Follows
    <2>2. CASE UNCHANGED <<status, proc>>
      BY <1>0, <1>7, <1>a, <2>1, <2>2 DEF Exit, Known, Alone, Cleared, Live, NoneLive
    <2>3. CASE Alive(target[s]) /\ Dead(target[s])
      <3>1. target[s] \in Proc /\ Live(target[s])
        BY <2>3, <1>0 DEF Alive, Live, TypeInv
      <3>2. \A q \in Proc : ~ Live(q)'
        BY <2>3, <3>1 DEF Dead, Live, Alone, TypeInv
      <3>3. UNCHANGED <<root, meta>>
        BY <1>7 DEF Exit
      <3> QED BY <1>0, <2>1, <3>2, <3>3, ProcTyped DEF Known, Alone, Cleared, Live, NoneLive
    <2> QED BY <1>7, <2>2, <2>3 DEF Exit
  <1>8. CASE Check(s)
    <2>1. ~ At(s, "wait") /\ ~ At(s, "spawn")'
      BY <1>8, <1>b, AfterContinue, AfterQuit DEF Check, Follows
    <2>2. (At(s, "remove") \/ At(s, "strip"))' => NoneLive
      <3>1. CASE Quit(s)
        BY <3>1, AfterQuit
      <3>2. CASE root /\ EffectiveStatus \in {"dead", "created"}
        <4>1. ~ Alive(pid_file) \/ status \notin {"running", "paused"}
          BY <3>2 DEF EffectiveStatus
        <4>2. \A p \in Proc : proc[p] \notin {"named", "serving", "ending"}
          BY <4>1, <1>0 DEF Known, Alive
        <4>3. NoneLive
          BY <1>a, <2>1, <4>2, ProcTyped DEF NoneLive, Live
        <4> QED BY <4>3
      <3> QED BY <1>8, <3>1, <3>2 DEF Check
    <2> QED BY <1>0, <1>8, <1>a, <2>1, <2>2 DEF Check, files, procs, Known, Alone, Cleared, Live, NoneLive
  <1>9. ASSUME NEW keep_data \in BOOLEAN, Remove(s, keep_data) PROVE WriterInv'
    <2>1. NoneLive /\ UNCHANGED proc /\ ~ meta'
      BY <1>9 DEF Remove, Cleared, procs
    <2>2. ~ At(s, "wait")' /\ ~ At(s, "spawn")' /\ ~ At(s, "remove")' /\ ~ At(s, "strip")'
      BY <1>9, AfterContinue DEF Remove, Follows
    <2> QED BY <1>0, <2>1, <2>2, ProcTyped DEF Known, Alone, Cleared, Live, NoneLive
  <1>10. CASE Recreate(s)
    <2>1. ~ At(s, "wait") /\ ~ At(s, "spawn")' /\ ~ At(s, "remove")' /\ ~ At(s, "strip")'
      <3>1. PICK removal \in {"rm", "rm --keep-data"}, halt \in {<<>>, Steps("stop")} :
              \/ todo'[s] = <<>>
              \/ todo'[s] = halt \o Steps(removal) \o Steps("create")
        BY <1>10 DEF Recreate, TypeInv
      <3> QED BY <1>10, <3>1, RecreateOrdered DEF Recreate, Begins, At
    <2> QED BY <1>0, <1>10, <1>a, <2>1 DEF Recreate, files, procs, Known, Alone, Cleared, Live, NoneLive
  <1>11. CASE Pause(s)
    <2>1. ~ At(s, "wait")
      BY <1>11 DEF Pause, At
    <2> QED BY <1>0, <1>11, <1>a, <2>1, AfterQuit DEF Pause, Known, Alone, Cleared, Live, NoneLive
  <1>12. CASE Resume(s)
    <2>1. ~ At(s, "wait")
      BY <1>12 DEF Resume, At
    <2>2. CASE ~ Alive(pid_file)
      BY <1>0, <1>12, <1>a, <2>1, <2>2, AfterQuit DEF Resume, procs, Known, Alone, Cleared, Live, NoneLive
    <2>3. CASE Alive(pid_file)
      <3>1. pid_file \in Proc /\ Live(pid_file) /\ proc[pid_file] \in {"named", "serving", "ending"}
        BY <2>1, <2>3, <1>0, <1>a, ProcTyped DEF Alive, Live, TypeInv
      <3>2. /\ UNCHANGED <<root, meta, pid_file, sock>> /\ status' = "running"
            /\ \A q \in Proc : q # pid_file => proc'[q] = proc[q]
        BY <1>12, <2>3 DEF Resume, TypeInv
      <3>3. proc'[pid_file] \in {proc[pid_file], "gone", "ending"}
        BY <1>12, <2>3, <3>1 DEF Resume, TypeInv
      <3> QED BY <1>0, <1>12, <1>a, <2>1, <3>1, <3>2, <3>3, AfterQuit
              DEF Resume, Known, Alone, Cleared, Live, NoneLive
    <2> QED BY <2>2, <2>3
  <1> QED BY <1>1, <1>2, <1>3, <1>4, <1>5, <1>6, <1>7, <1>8, <1>9, <1>10, <1>11, <1>12 DEF Shell

LEMMA WorkerStep ==
  ASSUME TypeInv, WriterInv, NEW p \in Proc, Worker(p)
  PROVE  WriterInv'
  <1> USE DEF WriterInv
  <1>0. Live(p) /\ root /\ meta /\ \A q \in Proc : q # p => ~ Live(q)
    BY DEF Worker, Open, Name, Serve, Fail, End, Crash, Runs, Alive, Live, Known, Alone
  <1>1. \A s \in Shells : ~ At(s, "spawn") /\ ~ At(s, "remove") /\ ~ At(s, "strip")
    BY <1>0 DEF Cleared, NoneLive
  <1>2. UNCHANGED <<root, meta, todo, target>>
    BY DEF Worker, Open, Name, Serve, Fail, End, Crash, Becomes, files
  <1>3. \A s \in Shells, x \in Step : At(s, x)' <=> At(s, x)
    BY <1>2 DEF At
  <1>4. \A q \in Proc : q # p => proc'[q] = proc[q]
    BY DEF Worker, Open, Name, Serve, Fail, End, Crash, Becomes, Dead, TypeInv
  <1>5. Cleared' /\ Alone' /\ (meta => root)'
    BY <1>0, <1>1, <1>2, <1>3, <1>4 DEF Cleared, Alone, Live, Step
  <1>6. Known'
    <2>1. \A q \in Proc : q # p => ~ Live(q)' /\ proc'[q] \notin {"spawned", "open", "named", "serving", "ending"}
      BY <1>0, <1>4 DEF Live
    <2>2. CASE Open(p)
      <3>1. proc[p] = "spawned" /\ proc'[p] \in {"open", "gone"}
        BY <2>2 DEF Open, Runs, Becomes, TypeInv
      <3> QED BY <1>0, <1>2, <1>3, <2>1, <3>1 DEF Known, Live, Step
    <2>3. CASE Name(p)
      <3>1. proc'[p] = "named" /\ pid_file' = p /\ status' = "running"
        BY <1>0, <2>3 DEF Name, Becomes, TypeInv
      <3> QED BY <1>0, <1>2, <2>1, <3>1 DEF Known, Live
    <2>4. CASE Serve(p)
      <3>1. proc'[p] = "serving" /\ sock' /\ UNCHANGED <<pid_file, status>> /\ proc[p] = "named"
        BY <1>0, <2>4 DEF Serve, Becomes, Runs, TypeInv
      <3> QED BY <1>0, <1>2, <2>1, <3>1 DEF Known, Live
    <2>5. CASE End(p) \/ Crash(p)
      <3>1. proc'[p] = "gone"
        BY <2>5 DEF End, Crash, Becomes, Dead, TypeInv
      <3> QED BY <2>1, <3>1 DEF Known, Live
    <2>6. CASE Fail(p)
      <3>1. /\ proc'[p] = "ending" /\ proc[p] \in {"named", "serving"}
            /\ UNCHANGED <<pid_file, status, sock>>
        BY <2>6 DEF Fail, Becomes, Runs, TypeInv, files
      <3> QED BY <1>0, <1>2, <2>1, <3>1 DEF Known, Live
    <2> QED BY <2>2, <2>3, <2>4, <2>5, <2>6 DEF Worker
  <1> QED BY <1>5, <1>6

Inv == TypeInv /\ StepsOrdered /\ (premature \/ WriterInv)

LEMMA InvInit == Init => Inv
  BY QuitOrdered, EmptySeq DEF Init, Inv, TypeInv, StepsOrdered, WriterInv, Known, Alone, Cleared, Live,
     NoneLive, At, ProcState, NoProc

LEMMA InvStep == OneShell /\ Inv /\ [Next]_vars => Inv'
  <1> SUFFICES ASSUME OneShell, Inv, [Next]_vars PROVE Inv'
    OBVIOUS
  <1>1. TypeInv' /\ StepsOrdered'
    BY TypeStep DEF Inv
  <1>2. CASE UNCHANGED vars
    BY <1>1, <1>2 DEF vars, Inv, WriterInv, Known, Alone, Cleared, Live, NoneLive, At
  <1>3. ASSUME Next, ~ premature' PROVE WriterInv'
    <2>1. ~ premature
      BY <1>3 DEF Next, Shell, Worker, Enter, Create, Start, Spawn, Wait, Term, Kill, Exit, Check, Remove,
             Recreate, Pause, Resume, Open, Name, Serve, Fail, End, Crash, Becomes
    <2> QED BY <1>3, <2>1, ShellStep, WorkerStep DEF Inv, Next
  <1> QED BY <1>1, <1>2, <1>3 DEF Inv

\* "The worker is the single writer per eonlet", for any number of workers,
\* crashes and commands of one shell, unless a start gave up waiting for a
\* worker that had not written its pid.
THEOREM OneWriter == OneShell /\ Spec => []SingleWriter
  <1> SUFFICES ASSUME OneShell PROVE Spec => []SingleWriter
    OBVIOUS
  <1>2. Inv /\ [Next]_vars => Inv'
    BY InvStep
  <1>1. Inv => SingleWriter
    <2> SUFFICES ASSUME TypeInv, WriterInv PROVE SingleWriter
      BY DEF Inv, SingleWriter
    <2>1. Cardinality(Writers) <= 1
      <3>1. CASE Writers = {}
        BY <3>1, FS_EmptySet
      <3>2. CASE Writers # {}
        <4>1. PICK p : p \in Writers
          BY <3>2
        <4>2. Writers = {p}
          BY <4>1 DEF Writers, WriterInv, Alone, Live
        <4> QED BY <4>2, FS_Singleton
      <3> QED BY <3>1, <3>2
    <2>2. \A p \in Proc : proc[p] = "serving" => root /\ pid_file = p /\ sock
      BY DEF WriterInv, Known, Live, TypeInv
    <2> QED BY <2>1, <2>2 DEF SingleWriter
  <1> QED BY <1>1, <1>2, InvInit, PTL DEF Spec
=============================================================================
