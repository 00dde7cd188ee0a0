-------------------------- MODULE KnowledgeStoreProofs --------------------------
(* For any files, bodies and number of events and crashes: the map of the      *)
(* knowledge tree names its files, and the recall index is complete up to the  *)
(* insertions that failed.                                                     *)
EXTENDS KnowledgeStore, WellFoundedInduction, TLAPS

\* Bodies are converted to bodies.
LEMMA Converted ==
  ASSUME NEW b \in Bodies
  PROVE  AsRead(b) \in Bodies /\ Stored(b) \subseteq Bodies /\ b # None
  <1>1. AsRead(b) \in Bodies /\ Tidied(b) \in Bodies
    BY DEF Bodies, AsRead, Tidied
  <1> QED BY <1>1, KnowledgeConstants DEF Stored

\* The lines of index.md, none when there is no such file.
Lines == IF index = None THEN {} ELSE index

MapTyped ==
    /\ files \in [Paths -> Bodies \cup {None}]
    /\ Lines \subseteq Paths /\ unlisted \subseteq Paths
    /\ editing \in Paths \cup {None}

\* Every line is right that a crash did not leave wrong and the map can carry.
LinesOK == \A p \in Paths \ (unlisted \cup Odd) : p \in Lines <=> Exists(p)

MapInv == MapTyped /\ LinesOK

LEMMA MapInvImplies == MapInv => MapListsTree
  <1> SUFFICES ASSUME MapInv, NEW p \in Paths \ (unlisted \cup Odd)
               PROVE  (p \in Map <=> Exists(p)) /\ (p \in Listed <=> Exists(p))
    BY DEF MapListsTree
  <1>1. p \in Lines <=> Exists(p)
    BY DEF MapInv, LinesOK
  <1>2. p \in Tree <=> Exists(p)
    BY DEF Tree
  <1>3. p \in Map <=> Exists(p)
    BY <1>1, <1>2 DEF Map, Lines
  <1>4. p \in ReadIndex <=> p \in Lines
    BY DEF ReadIndex, Lines
  <1> QED BY <1>1, <1>2, <1>3, <1>4 DEF Listed

\* What the operations of the store do to the map, whoever records them: lines go, lines
\* come, and the files go and come with them.
MapEffect(gone, came) ==
    /\ files' \in [Paths -> Bodies \cup {None}] /\ editing' \in Paths \cup {None}
    /\ index' # None /\ index' = (ReadIndex \ gone) \cup came
    /\ unlisted' = unlisted \ (gone \cup came)
    /\ \A p \in came : files'[p] # None
    /\ \A p \in gone \ came : files'[p] = None
    /\ \A p \in Paths \ (gone \cup came) : files'[p] = files[p]

LEMMA MapOperation ==
  ASSUME MapInv, NEW gone \in SUBSET Paths, NEW came \in SUBSET Paths, MapEffect(gone, came)
  PROVE  MapInv'
  <1> USE DEF MapEffect
  <1>1. Lines' = (ReadIndex \ gone) \cup came
    BY DEF Lines
  <1>2. MapTyped'
    BY <1>1 DEF MapInv, MapTyped, ReadIndex, Lines
  <1>3. ASSUME NEW p \in Paths \ (unlisted' \cup Odd) PROVE p \in Lines' <=> Exists(p)'
    <2>1. CASE p \in gone \cup came
      BY <1>1, <2>1 DEF Exists
    <2>2. CASE p \notin gone \cup came
      <3>1. p \in Paths \ (unlisted \cup Odd)
        BY <1>3, <2>2
      <3>2. p \in ReadIndex <=> p \in Lines
        BY <3>1 DEF ReadIndex, Lines
      <3> QED BY <1>1, <2>2, <3>1, <3>2 DEF MapInv, LinesOK, Exists
    <2> QED BY <2>1, <2>2
  <1> QED BY <1>2, <1>3 DEF MapInv, LinesOK

\* A crash that leaves the map alone marks the files it changed.
LEMMA MapUntouched ==
  ASSUME MapInv, index' = index,
         files' \in [Paths -> Bodies \cup {None}], editing' \in Paths \cup {None},
         NEW changed \in SUBSET Paths,
         unlisted' = unlisted \cup changed,
         \A p \in Paths \ changed : Exists(p)' <=> Exists(p)
  PROVE  MapInv'
  BY DEF MapInv, MapTyped, LinesOK, Lines

LEMMA MapStep ==
  ASSUME MapInv, [Next]_vars
  PROVE  MapInv'
  <1> USE DEF MapInv, MapTyped
  <1>0. ReadIndex \subseteq Paths
    BY DEF ReadIndex, Lines
  <1>2. ASSUME NEW p \in Paths, NEW b \in Bodies,
               Write(p, b) \/ CrashInWrite(p, b, TRUE)
        PROVE  MapInv'
    <2>0. PICK stored \in Stored(b) : files' = [files EXCEPT ![p] = stored]
      BY <1>2 DEF Write, CrashInWrite
    <2>1. /\ files' = [files EXCEPT ![p] = stored] /\ index' = ReadIndex \cup {p}
          /\ unlisted' = unlisted \ {p} /\ editing' \in Paths \cup {None}
      BY <1>2, <2>0 DEF Write, CrashInWrite, Die, Upsert
    <2>2. index' # None /\ stored \in Bodies /\ stored # None
      BY <1>0, <2>1, Converted, KnowledgeConstants
    <2>3. MapEffect({}, {p})
      BY <2>1, <2>2 DEF MapEffect
    <2> QED BY <2>3, MapOperation, {} \in SUBSET Paths, {p} \in SUBSET Paths
  <1>3. ASSUME NEW p \in Paths, NEW spelled, Delete(p, spelled) \/ CrashInDelete(p, TRUE)
        PROVE  MapInv'
    <2>1. /\ files' = [files EXCEPT ![p] = None] /\ index' = ReadIndex \ {p}
          /\ unlisted' = unlisted \ {p} /\ editing' \in Paths \cup {None}
      BY <1>3 DEF Delete, CrashInDelete, Die, Drop
    <2>2. index' # None
      BY <1>0, <2>1, KnowledgeConstants
    <2>3. MapEffect({p}, {})
      BY <2>1, <2>2 DEF MapEffect
    <2> QED BY <2>3, MapOperation, {p} \in SUBSET Paths, {} \in SUBSET Paths
  <1>4. ASSUME NEW p \in Paths, DeleteNothing(p) PROVE MapInv'
    <2>1. /\ files' = files /\ files[p] = None /\ index' = ReadIndex \ {p}
          /\ unlisted' = unlisted \ {p} /\ editing' \in Paths \cup {None}
      BY <1>4 DEF DeleteNothing, Exists, Drop
    <2>2. index' # None
      BY <1>0, <2>1, KnowledgeConstants
    <2>3. MapEffect({p}, {})
      BY <2>1, <2>2 DEF MapEffect
    <2> QED BY <2>3, MapOperation, {p} \in SUBSET Paths, {} \in SUBSET Paths
  <1>5. ASSUME NEW p \in Paths, NEW q \in Paths, Move(p, q) \/ CrashInMove(p, q, TRUE, TRUE)
        PROVE  MapInv'
    <2> DEFINE body == AsRead(files[p])
    <2>0. body \in Bodies /\ body # None
      BY <1>5, Converted DEF Move, CrashInMove, Exists
    <2>1. /\ files' = [files EXCEPT ![q] = body, ![p] = None]
          /\ index' = (ReadIndex \ {p}) \cup {q}
          /\ unlisted' = unlisted \ {p, q} /\ editing' \in Paths \cup {None}
          /\ p # q /\ files[p] # None
      BY <1>5 DEF Move, CrashInMove, Die, Exists, Drop
    <2> HIDE DEF body
    <2>2. index' # None
      BY <1>0, <2>1, KnowledgeConstants
    <2>3. MapEffect({p}, {q})
      BY <2>0, <2>1, <2>2 DEF MapEffect
    <2> QED BY <2>3, MapOperation, {p} \in SUBSET Paths, {q} \in SUBSET Paths
  <1>6. ASSUME NEW p \in Paths, NEW b \in Bodies, Edit(p, b) \/ CrashInWrite(p, b, FALSE)
        PROVE  MapInv'
    <2>0. PICK c \in Bodies : files' = [files EXCEPT ![p] = c]
      BY <1>6, Converted DEF Edit, CrashInWrite
    <2>1. /\ files' = [files EXCEPT ![p] = c] /\ index' = index
          /\ editing' \in Paths \cup {None}
      BY <1>6, <2>0 DEF Edit, CrashInWrite, Die
    <2>2. CASE Edit(p, b)
      <3>1. Exists(p) /\ c # None /\ unlisted' = unlisted \cup {}
        BY <2>2, KnowledgeConstants DEF Edit
      <3> QED BY <2>1, <3>1, MapUntouched, {} \in SUBSET Paths DEF Exists
    <2>3. CASE CrashInWrite(p, b, FALSE)
      <3>1. unlisted' = unlisted \cup {p}
        BY <2>3 DEF CrashInWrite
      <3> QED BY <2>1, <3>1, MapUntouched, {p} \in SUBSET Paths DEF Exists
    <2> QED BY <1>6, <2>2, <2>3
  <1>7. ASSUME NEW p \in Paths, CrashInDelete(p, FALSE) PROVE MapInv'
    <2>1. /\ files' = [files EXCEPT ![p] = None] /\ index' = index
          /\ unlisted' = unlisted \cup {p} /\ editing' \in Paths \cup {None}
      BY <1>7 DEF CrashInDelete, Die
    <2> QED BY <2>1, MapUntouched, {p} \in SUBSET Paths DEF Exists
  <1>8. ASSUME NEW p \in Paths, NEW q \in Paths, NEW removed \in BOOLEAN,
               CrashInMove(p, q, removed, FALSE)
        PROVE  MapInv'
    <2> DEFINE changed == {q} \cup (IF removed THEN {p} ELSE {})
    <2> DEFINE body == AsRead(files[p])
    <2>0. body \in Bodies
      BY <1>8, Converted DEF CrashInMove, Exists
    <2>1. /\ files' = [files EXCEPT ![q] = body, ![p] = IF removed THEN None ELSE @]
          /\ index' = index /\ editing' \in Paths \cup {None}
          /\ unlisted' = unlisted \cup changed
      BY <1>8 DEF CrashInMove, Die
    <2> HIDE DEF body
    <2>2. /\ files' \in [Paths -> Bodies \cup {None}] /\ changed \in SUBSET Paths
          /\ \A r \in Paths \ changed : Exists(r)' <=> Exists(r)
      BY <2>0, <2>1 DEF Exists
    <2> QED BY <2>1, <2>2, MapUntouched
  <1>9. CASE EditRecorded \/ CatchUp \/ Booted \/ Crash \/ CrashInText
             \/ (\E inserted \in BOOLEAN : Text(inserted))
             \/ (\E lost \in BOOLEAN : Restart(lost))
    <2>1. /\ files' = files /\ index' = index /\ unlisted' = unlisted
          /\ editing' \in Paths \cup {None}
      BY <1>9 DEF EditRecorded, CatchUp, Booted, Crash, CrashInText, Text, Restart, Die, tree
    <2> QED BY <2>1, MapUntouched, {} \in SUBSET Paths DEF Exists
  <1>10. CASE UNCHANGED vars
    BY <1>10, MapUntouched, {} \in SUBSET Paths DEF vars, Exists
  <1>11. CASE Operation
    BY <1>2, <1>3, <1>4, <1>5, <1>6, <1>10, <1>11, KnowledgeConstants DEF Operation, Requested, Refused
  <1>12. CASE CrashInOperation
    <2>0. PICK p \in Paths, mapped \in BOOLEAN :
          \/ \E b \in Bodies : CrashInWrite(p, b, mapped)
          \/ CrashInDelete(p, mapped)
          \/ \E q \in Paths, removed \in BOOLEAN : CrashInMove(p, q, removed, mapped)
      BY <1>12, KnowledgeConstants DEF CrashInOperation
    <2>1. ASSUME NEW b \in Bodies, CrashInWrite(p, b, mapped) PROVE MapInv'
      BY <1>2, <1>6, <2>1
    <2>2. CASE CrashInDelete(p, mapped)
      BY <1>3, <1>7, <2>2
    <2>3. ASSUME NEW q \in Paths, NEW removed \in BOOLEAN, CrashInMove(p, q, removed, mapped)
          PROVE  MapInv'
      <3>1. mapped => removed
        BY <2>3 DEF CrashInMove
      <3> QED BY <1>5, <1>8, <2>3, <3>1
    <2> HIDE DEF MapInv
    <2> QED BY <2>0, <2>1, <2>2, <2>3
  <1> QED BY <1>9, <1>10, <1>11, <1>12 DEF Next

\* Through every operation and every crash, the map of each model request and the listing
\* name exactly the files there are, crash leftovers and unreadable names apart.
THEOREM MapIsExact == Spec => []MapListsTree
  <1>1. Init => MapInv
    BY DEF Init, MapInv, MapTyped, LinesOK, Lines, Exists
  <1> QED BY <1>1, MapStep, MapInvImplies, PTL DEF Spec

-----------------------------------------------------------------------------
LogTyped == log \in Seq(Event)

\* A text that is missing without having failed comes after all that were inserted, and
\* the worker has yet to catch up.
RecallInv ==
    /\ LogTyped
    /\ indexed \subseteq Texts
    /\ \A i \in Texts \ (indexed \cup failed) : ~ Up /\ \A j \in indexed : j < i

LEMMA Recorded ==
  ASSUME LogTyped, NEW kind \in {"text", "written", "deleted", "moved"},
         NEW p \in Paths \cup {None}, NEW b \in Bodies \cup {Empty, None},
         NEW q \in Paths \cup {None}, Record(kind, p, b, q)
  PROVE  /\ LogTyped'
         /\ Len(log') = Len(log) + 1
         /\ Texts \subseteq 1..Len(log)
         /\ Texts' = Texts \cup (IF kind = "text" THEN {Len(log')} ELSE {})
  <1> DEFINE e == [kind |-> kind, path |-> p, body |-> b, to |-> q]
  <1>1. e \in Event /\ log' = Append(log, e) /\ e.kind = kind
    BY DEF Event, Record
  <1>2. Len(log') = Len(log) + 1 /\ DOMAIN log' = 1..(Len(log) + 1) /\ DOMAIN log = 1..Len(log)
    BY <1>1 DEF LogTyped
  <1>3. log'[Len(log')] = e /\ \A i \in 1..Len(log) : log'[i] = log[i]
    BY <1>1, <1>2 DEF LogTyped
  <1>4. LogTyped'
    BY <1>1 DEF LogTyped
  <1>5. Len(log) \in Nat
    BY DEF LogTyped
  <1>6. Texts' = Texts \cup (IF kind = "text" THEN {Len(log')} ELSE {})
    BY <1>1, <1>2, <1>3, <1>5 DEF Texts
  <1> QED BY <1>2, <1>4, <1>6 DEF Texts

LEMMA RecallSame ==
  ASSUME RecallInv, LogTyped', Texts' = Texts, UNCHANGED recall, proc' = proc \/ proc' # "up"
  PROVE  RecallInv'
  BY DEF RecallInv, recall, Up

LEMMA RecallStep ==
  ASSUME MapInv, RecallInv, [Next]_vars
  PROVE  RecallInv'
  <1> USE DEF RecallInv
  <1>1. CASE UNCHANGED <<log, recall>> /\ (proc' = proc \/ proc' # "up")
    BY <1>1, RecallSame DEF LogTyped, Texts
  <1>2. ASSUME NEW p \in Paths, NEW b \in Bodies, Write(p, b) PROVE RecallInv'
    BY <1>2, Recorded, RecallSame DEF Write
  <1>3. ASSUME NEW p \in Paths, NEW spelled \in {p, None}, Delete(p, spelled) PROVE RecallInv'
    BY <1>3, Recorded, RecallSame DEF Delete
  <1>4. ASSUME NEW p \in Paths, NEW q \in Paths, Move(p, q) PROVE RecallInv'
    BY <1>4, Recorded, RecallSame DEF Move
  <1>5. CASE Operation
    <2>1. ASSUME NEW p \in Paths, NEW b \in Bodies, Edit(p, b) \/ DeleteNothing(p)
          PROVE  RecallInv'
      BY <1>1, <2>1 DEF Edit, DeleteNothing
    <2>2. CASE Refused
      BY <1>1, <2>2 DEF Refused, vars, recall
    <2>3. ASSUME NEW p \in Paths, DeleteNothing(p) PROVE RecallInv'
      BY <1>1, <2>3 DEF DeleteNothing
    <2> QED
      BY <1>2, <1>3, <1>4, <1>5, <2>1, <2>2, <2>3, KnowledgeConstants DEF Operation, Requested
  <1>6. CASE EditRecorded
    <2> DEFINE b == IF Exists(editing) THEN AsRead(files[editing]) ELSE Empty
    <2>1. editing \in Paths /\ b \in Bodies \cup {Empty, None}
      BY <1>6, Converted DEF EditRecorded, MapInv, MapTyped, Exists
    <2>2. Record("written", editing, b, None) /\ UNCHANGED recall /\ proc' = proc
      BY <1>6 DEF EditRecorded
    <2> HIDE DEF b
    <2> QED BY <2>1, <2>2, Recorded, RecallSame
  <1>7. ASSUME NEW inserted \in BOOLEAN, Text(inserted) PROVE RecallInv'
    <2>1. /\ LogTyped' /\ Texts \subseteq 1..Len(log) /\ Texts' = Texts \cup {Len(log')}
          /\ Len(log') = Len(log) + 1
      BY <1>7, Recorded DEF Text
    <2>2. Texts \subseteq indexed \cup failed /\ Up
      BY <1>7 DEF Text
    <2> QED BY <1>7, <2>1, <2>2 DEF Text
  <1>8. CASE CrashInText
    <2>1. /\ LogTyped' /\ Texts \subseteq 1..Len(log) /\ Texts' = Texts \cup {Len(log')}
          /\ Len(log') = Len(log) + 1
      BY <1>8, Recorded DEF CrashInText
    <2>0. Len(log) \in Nat
      BY DEF LogTyped
    <2>2. Texts \subseteq indexed \cup failed /\ ~ Up' /\ UNCHANGED recall
      BY <1>8 DEF CrashInText, Die, Up
    <2>3. \A j \in indexed : j < Len(log')
      BY <2>0, <2>1
    <2> QED BY <2>1, <2>2, <2>3 DEF recall
  <1>9. CASE CatchUp
    <2>1. PICK i \in Missing : (\A j \in Missing : i <= j) /\ indexed' = indexed \cup {i}
      BY <1>9 DEF CatchUp
    <2>2. Texts' = Texts /\ LogTyped' /\ failed' = failed /\ ~ Up'
      BY <1>9 DEF CatchUp, Texts, LogTyped, Up
    <2>3. i \in Texts /\ Texts \subseteq Nat
      BY <2>1 DEF Missing, Texts, LogTyped
    <2>4. \A k \in Texts \ (indexed' \cup failed') : k \in Missing /\ i <= k /\ i # k
      BY <2>1, <2>2 DEF Missing
    <2> QED BY <2>1, <2>2, <2>3, <2>4
  <1>10. CASE Booted
    <2>1. Texts \subseteq indexed \cup failed
      BY <1>10 DEF Booted, Missing
    <2>2. UNCHANGED <<log, recall>>
      BY <1>10 DEF Booted
    <2> QED BY <2>1, <2>2 DEF Texts, LogTyped, recall
  <1>11. ASSUME NEW lost \in BOOLEAN, Restart(lost) PROVE RecallInv'
    <2>1. log' = log /\ ~ Up'
      BY <1>11 DEF Restart, Up
    <2>2. CASE lost
      BY <1>11, <2>1, <2>2 DEF Restart, Texts, LogTyped
    <2>3. CASE ~ lost
      BY <1>1, <1>11, <2>1, <2>3 DEF Restart, Up
    <2> QED BY <2>2, <2>3
  <1>12. CASE Crash \/ CrashInOperation
    BY <1>1, <1>12 DEF Crash, CrashInOperation, CrashInWrite, CrashInDelete, CrashInMove, Die
  <1>13. CASE UNCHANGED vars
    BY <1>1, <1>13 DEF vars, recall
  <1> QED BY <1>5, <1>6, <1>7, <1>8, <1>9, <1>10, <1>11, <1>12, <1>13 DEF Next

\* Whenever the worker is up, a text of the log that cannot be recalled is one whose
\* insertion raised, whatever crashes and losses of the index came before.
THEOREM RecallIsComplete == Spec => []RecallHolesAreFailures
  <1>1. Init => RecallInv
    BY DEF Init, RecallInv, LogTyped, Texts
  <1>2. RecallInv => RecallHolesAreFailures
    BY DEF RecallInv, RecallHolesAreFailures
  <1>3. Init => MapInv
    BY DEF Init, MapInv, MapTyped, LinesOK, Lines, Exists
  <1> QED BY <1>1, <1>2, <1>3, MapStep, RecallStep, PTL DEF Spec

-----------------------------------------------------------------------------
(* The replay of the log.  A recursive function is known only by its       *)
(* equation, and only once a function satisfies it; that one does, and that *)
(* two which do agree, is shown by a least counterexample.                 *)

LEMMA LeastNat ==
  ASSUME NEW S, S \subseteq Nat, S # {}
  PROVE  \E x \in S : \A y \in S : x <= y
  <1> DEFINE R == OpToRel(<, Nat)
  <1>1. IsWellFoundedOn(R, Nat)
    BY NatLessThanWellFounded
  <1>2. \A x, y \in Nat : ~ (<<y, x>> \in R) => x <= y
    BY DEF OpToRel
  <1> HIDE DEF R
  <1>3. \E x \in S : \A y \in S : ~ (<<y, x>> \in R)
    BY <1>1, WFMin
  <1> QED BY <1>2, <1>3

\* What replaying the first n events of log l yields, for every n up to m.
NoFiles == [p \in Paths |-> None]
Stage(l, g, n) == IF n = 0 THEN NoFiles ELSE Applied(g[n - 1], l[n])
Table(l, m, g) == g = [n \in 0..m |-> Stage(l, g, n)]

LEMMA TableExtends ==
  ASSUME NEW l, NEW m \in Nat, NEW g, Table(l, m, g)
  PROVE  \E h : Table(l, m + 1, h)
  <1> DEFINE h == [n \in 0..(m + 1) |-> Stage(l, g, n)]
  <1>1. \A n \in 0..m : g[n] = Stage(l, g, n)
    BY DEF Table
  <1>2. \A n \in 0..(m + 1) : h[n] = Stage(l, g, n)
    OBVIOUS
  <1>3. h = [n \in 0..(m + 1) |-> h[n]]
    OBVIOUS
  <1> HIDE DEF h
  <1>4. \A n \in 0..m : h[n] = g[n]
    BY <1>1, <1>2
  <1>5. \A n \in 0..(m + 1) : n # 0 => n - 1 \in 0..m
    OBVIOUS
  <1>6. \A n \in 0..(m + 1) : h[n] = Stage(l, h, n)
    BY <1>2, <1>4, <1>5 DEF Stage
  <1>7. Table(l, m + 1, h)
    BY <1>3, <1>6 DEF Table
  <1> QED BY <1>7

LEMMA TableExists ==
  ASSUME NEW l, NEW m \in Nat
  PROVE  \E g : Table(l, m, g)
  <1> DEFINE Bad == {k \in Nat : ~ \E g : Table(l, k, g)}
  <1>1. SUFFICES ASSUME Bad # {} PROVE FALSE
    OBVIOUS
  <1>2. PICK k \in Bad : \A j \in Bad : k <= j
    BY <1>1, LeastNat
  <1>3. k # 0
    <2> DEFINE g == [n \in 0..0 |-> NoFiles]
    <2>1. \A n \in 0..0 : n = 0
      OBVIOUS
    <2>2. Table(l, 0, g)
      BY <2>1 DEF Table, Stage
    <2> HIDE DEF g
    <2>3. \E h : Table(l, 0, h)
      BY <2>2
    <2> QED BY <2>3
  <1>4. k - 1 \in Nat /\ k - 1 \notin Bad
    BY <1>2, <1>3
  <1>5. PICK g : Table(l, k - 1, g)
    BY <1>4
  <1>6. \E h : Table(l, (k - 1) + 1, h)
    BY <1>4, <1>5, TableExtends
  <1>7. (k - 1) + 1 = k
    BY <1>2
  <1> QED BY <1>2, <1>6, <1>7

\* Tables of logs that begin alike begin alike.
LEMMA TablesAgree ==
  ASSUME NEW l, NEW k, NEW m \in Nat, NEW n \in Nat, m <= n,
         \A i \in 1..m : l[i] = k[i],
         NEW g, Table(l, m, g), NEW h, Table(k, n, h)
  PROVE  g[m] = h[m]
  <1> DEFINE Bad == {i \in 0..m : g[i] # h[i]}
  <1>1. SUFFICES ASSUME Bad # {} PROVE FALSE
    OBVIOUS
  <1>2. PICK i \in Bad : \A j \in Bad : i <= j
    <2>1. Bad \subseteq Nat
      OBVIOUS
    <2> HIDE DEF Bad
    <2> QED BY <1>1, <2>1, LeastNat
  <1>3. i \in 0..m /\ g[i] # h[i] /\ i \in 0..n
    OBVIOUS
  <1>4. g[i] = Stage(l, g, i) /\ h[i] = Stage(k, h, i)
    BY <1>3 DEF Table
  <1>5. CASE i = 0
    BY <1>3, <1>4, <1>5 DEF Stage
  <1>6. CASE i # 0
    <2>1. i - 1 \in 0..m /\ i - 1 \notin Bad /\ i \in 1..m
      BY <1>2, <1>3, <1>6
    <2>2. g[i - 1] = h[i - 1] /\ l[i] = k[i]
      BY <2>1
    <2> QED BY <1>3, <1>4, <1>6, <2>2 DEF Stage
  <1> QED BY <1>5, <1>6

\* Replayed, of any log.
ReplayOf(l) ==
  LET after[n \in 0..Len(l)] ==
          IF n = 0 THEN [p \in Paths |-> None] ELSE Applied(after[n - 1], l[n])
  IN  after[Len(l)]

LEMMA ReplayTable ==
  ASSUME NEW l, Len(l) \in Nat
  PROVE  \E g : Table(l, Len(l), g) /\ ReplayOf(l) = g[Len(l)]
  <1> DEFINE after == CHOOSE g : Table(l, Len(l), g)
  <1>1. Table(l, Len(l), after)
    BY TableExists
  <1>2. ReplayOf(l) = after[Len(l)]
    BY DEF ReplayOf, Table, Stage, NoFiles
  <1> HIDE DEF after
  <1> QED BY <1>1, <1>2

\* Replay goes event by event.
LEMMA ReplayAppend ==
  ASSUME NEW S, NEW l \in Seq(S), NEW e \in S
  PROVE  ReplayOf(Append(l, e)) = Applied(ReplayOf(l), e)
  <1> DEFINE k == Append(l, e)
             m == Len(l)
  <1>1. /\ m \in Nat /\ Len(k) = m + 1 /\ k[m + 1] = e
        /\ \A i \in 1..m : l[i] = k[i]
    OBVIOUS
  <1> HIDE DEF k, m
  <1>2. PICK g : Table(l, m, g) /\ ReplayOf(l) = g[m]
    BY <1>1, ReplayTable DEF m
  <1>3. PICK h : Table(k, m + 1, h) /\ ReplayOf(k) = h[m + 1]
    BY <1>1, ReplayTable
  <1>4. g[m] = h[m]
    <2>1. m + 1 \in Nat /\ m <= m + 1
      BY <1>1
    <2> QED BY <1>1, <1>2, <1>3, <2>1, TablesAgree
  <1>5. h[m + 1] = Applied(h[m], e)
    <2>1. m + 1 \in 0..(m + 1) /\ m + 1 # 0 /\ (m + 1) - 1 = m
      BY <1>1
    <2>2. h[m + 1] = Stage(k, h, m + 1)
      BY <1>3, <2>1 DEF Table
    <2> QED BY <1>1, <2>1, <2>2 DEF Stage
  <1> QED BY <1>2, <1>3, <1>4, <1>5 DEF k

LEMMA ReplayEmpty == ReplayOf(<<>>) = [p \in Paths |-> None]
  <1>1. Len(<<>>) = 0
    OBVIOUS
  <1>2. PICK g : Table(<<>>, 0, g) /\ ReplayOf(<<>>) = g[0]
    BY <1>1, ReplayTable
  <1>3. g[0] = Stage(<<>>, g, 0)
    BY <1>2 DEF Table
  <1> QED BY <1>2, <1>3 DEF Stage, NoFiles

LEMMA ReplayedIs == Replayed = ReplayOf(log)
  BY DEF Replayed, ReplayOf

LEMMA ReplayRecorded ==
  ASSUME LogTyped, NEW kind \in {"text", "written", "deleted", "moved"},
         NEW p \in Paths \cup {None}, NEW b \in Bodies \cup {Empty, None},
         NEW q \in Paths \cup {None}, Record(kind, p, b, q)
  PROVE  ReplayOf(log') =
           Applied(ReplayOf(log), [kind |-> kind, path |-> p, body |-> b, to |-> q])
  <1> DEFINE e == [kind |-> kind, path |-> p, body |-> b, to |-> q]
  <1>1. e \in Event /\ log' = Append(log, e)
    BY DEF Event, Record
  <1> HIDE DEF e
  <1>2. ReplayOf(log') = Applied(ReplayOf(log), e)
    BY <1>1, ReplayAppend DEF LogTyped
  <1> QED BY <1>2 DEF e

\* What is left of the types.
RestTyped ==
    /\ Len(log) <= MaxEvents /\ failed \subseteq Texts
    /\ proc \in {"down", "boot", "up"} /\ crashes \in 0..MaxCrashes
    /\ astray \subseteq Paths

LEMMA RestStep ==
  ASSUME MapInv, RecallInv, RestTyped, [Next]_vars
  PROVE  RestTyped'
  <1> USE DEF RestTyped
  <1>0. /\ LogTyped /\ Len(log) \in Nat /\ editing \in Paths \cup {None}
        /\ files \in [Paths -> Bodies \cup {None}]
    BY DEF MapInv, MapTyped, RecallInv, LogTyped
  <1>1. ASSUME log' = log, failed' = failed \/ failed' = {},
               proc' \in {"down", "boot", "up"},
               crashes' = crashes \/ Die, astray' \subseteq Paths
        PROVE  RestTyped'
    <2>1. crashes' \in 0..MaxCrashes
      BY <1>1, KnowledgeConstants DEF Die
    <2> QED BY <1>1, <2>1 DEF Texts
  <1>2. ASSUME NEW kind \in {"text", "written", "deleted", "moved"},
               NEW p \in Paths \cup {None}, NEW b \in Bodies \cup {Empty, None},
               NEW q \in Paths \cup {None}, Record(kind, p, b, q),
               failed' \subseteq failed \cup (IF kind = "text" THEN {Len(log')} ELSE {}),
               proc' \in {"down", "boot", "up"},
               crashes' = crashes \/ Die, astray' \subseteq Paths
        PROVE  RestTyped'
    <2>1. /\ Len(log') = Len(log) + 1
          /\ Texts' = Texts \cup (IF kind = "text" THEN {Len(log')} ELSE {})
      BY <1>0, <1>2, Recorded
    <2>2. Len(log') <= MaxEvents
      BY <1>0, <1>2, <2>1, KnowledgeConstants DEF Record
    <2>3. crashes' \in 0..MaxCrashes
      BY <1>2, KnowledgeConstants DEF Die
    <2> QED BY <1>2, <2>1, <2>2, <2>3
  <1>3. CASE Operation
    <2>1. ASSUME NEW p \in Paths, NEW b \in Bodies, Write(p, b) PROVE RestTyped'
      BY <1>2, <2>1 DEF Write, recall
    <2>2. ASSUME NEW p \in Paths, NEW spelled \in {p, None}, Delete(p, spelled) PROVE RestTyped'
      BY <1>2, <2>2 DEF Delete, recall
    <2>3. ASSUME NEW p \in Paths, NEW q \in Paths, Move(p, q) PROVE RestTyped'
      BY <1>2, <2>3 DEF Move, recall
    <2>4. ASSUME NEW p \in Paths, DeleteNothing(p) PROVE RestTyped'
      BY <1>1, <2>4 DEF DeleteNothing, recall
    <2>5. ASSUME NEW p \in Paths, NEW b \in Bodies, Edit(p, b) PROVE RestTyped'
      BY <1>1, <2>5 DEF Edit, recall
    <2>6. CASE Refused
      BY <1>1, <2>6 DEF Refused, vars
    <2> QED
      BY <1>3, <2>1, <2>2, <2>3, <2>4, <2>5, <2>6, KnowledgeConstants DEF Operation, Requested
  <1>4. CASE EditRecorded
    <2> DEFINE b == IF Exists(editing) THEN AsRead(files[editing]) ELSE Empty
    <2>1. editing \in Paths /\ b \in Bodies \cup {Empty, None}
      BY <1>0, <1>4, Converted DEF EditRecorded, Exists
    <2>2. /\ Record("written", editing, b, None) /\ UNCHANGED recall /\ proc' = proc
          /\ crashes' = crashes /\ astray' \subseteq Paths
      BY <1>0, <1>4, <2>1 DEF EditRecorded
    <2> HIDE DEF b
    <2> QED BY <1>2, <2>1, <2>2 DEF recall
  <1>5. ASSUME NEW inserted \in BOOLEAN, Text(inserted) PROVE RestTyped'
    <2>1. /\ Record("text", None, None, None) /\ proc' = proc /\ crashes' = crashes
          /\ astray' = astray /\ failed' \subseteq failed \cup {Len(log')}
      BY <1>5 DEF Text, tree
    <2> QED BY <1>2, <2>1
  <1>6. CASE CrashInText
    <2>1. /\ Record("text", None, None, None) /\ proc' = "down" /\ Die
          /\ astray' = astray /\ failed' = failed
      BY <1>6 DEF CrashInText, Die, tree, recall
    <2> QED BY <1>2, <2>1
  <1>7. CASE CatchUp \/ Booted \/ \E lost \in BOOLEAN : Restart(lost)
    BY <1>1, <1>7 DEF CatchUp, Booted, Restart, tree, recall
  <1>8. CASE Crash
    BY <1>1, <1>8 DEF Crash, Die, tree, recall
  <1>9. CASE CrashInOperation
    <2>1. log' = log /\ failed' = failed /\ Die /\ proc' = "down" /\ astray' \subseteq Paths
      BY <1>9 DEF CrashInOperation, CrashInWrite, CrashInDelete, CrashInMove, Die, recall
    <2> QED BY <1>1, <2>1
  <1>10. CASE UNCHANGED vars
    BY <1>1, <1>10 DEF vars
  <1> QED BY <1>3, <1>4, <1>5, <1>6, <1>7, <1>8, <1>9, <1>10 DEF Next

LEMMA StoreInvariant == Spec => [](MapInv /\ RecallInv /\ RestTyped)
  <1>1. Init => MapInv /\ RecallInv /\ RestTyped
    BY KnowledgeConstants
    DEF Init, MapInv, MapTyped, LinesOK, Lines, Exists, RecallInv, LogTyped, Texts, RestTyped
  <1> QED BY <1>1, MapStep, RecallStep, RestStep, PTL DEF Spec

\* Log, tree, map and index hold what their readers expect, in every state.
THEOREM TypeCorrect == Spec => []TypeOK
  <1>1. MapInv /\ RecallInv /\ RestTyped => TypeOK
    BY DEF MapInv, MapTyped, RecallInv, RestTyped, LogTyped, Lines, TypeOK
  <1> QED BY <1>1, StoreInvariant, PTL

\* A file changes with the record that tells it, or it goes astray.
\* The conversions agree with each other, up to what Agree allows.
LEMMA Agreement ==
  ASSUME NEW b \in Bodies
  PROVE  /\ \A stored \in Stored(b) : Agree(stored, b)
         /\ Agree(b, AsRead(b))
         /\ \A r : Agree(b, r) => Agree(AsRead(b), r)
  <1>1. /\ AsRead(b) \in Bodies /\ AsRead(AsRead(b)) = AsRead(b)
        /\ AsRead(Tidied(b)) = Tidied(AsRead(b))
    BY DEF Bodies, AsRead, Tidied
  <1>2. Stored(b) \subseteq Bodies /\ b # None
    BY Converted
  <1>3. \A stored \in Stored(b) : stored \in {b, Tidied(b)}
    BY DEF Stored
  <1> QED BY <1>1, <1>2, <1>3 DEF Agree

LEMMA TreeStep ==
  ASSUME MapInv, RecallInv, RestTyped, TreeIsReplay, [Next]_vars
  PROVE  TreeIsReplay'
  <1>0. /\ LogTyped /\ editing \in Paths \cup {None} /\ astray \subseteq Paths
        /\ files \in [Paths -> Bodies \cup {None}]
        /\ \A p \in Paths \ astray : Agree(files[p], ReplayOf(log)[p])
    BY ReplayedIs DEF MapInv, MapTyped, RecallInv, RestTyped, TreeIsReplay
  <1>1. ASSUME \A p \in Paths \ astray' : Agree(files'[p], ReplayOf(log')[p]) PROVE TreeIsReplay'
    <2>1. Replayed' = ReplayOf(log')
      BY DEF Replayed, ReplayOf
    <2> QED BY <1>1, <2>1 DEF TreeIsReplay, Agree
  <1>2. ASSUME log' = log, \A p \in Paths \ astray' : p \notin astray /\ files'[p] = files[p]
        PROVE  TreeIsReplay'
    BY <1>0, <1>1, <1>2
  <1>3. ASSUME NEW p \in Paths, NEW b \in Bodies, Write(p, b) PROVE TreeIsReplay'
    <2>0. PICK stored \in Stored(b) : files' = [files EXCEPT ![p] = stored]
      BY <1>3 DEF Write
    <2>1. Record("written", p, b, None) /\ astray' = astray \ {p}
      BY <1>3 DEF Write
    <2>2. \A r \in Paths : ReplayOf(log')[r] = IF p = r THEN b ELSE ReplayOf(log)[r]
      <3>1. ReplayOf(log') =
              Applied(ReplayOf(log), [kind |-> "written", path |-> p, body |-> b, to |-> None])
        BY <1>0, <2>1, ReplayRecorded
      <3> QED BY <2>1, <3>1 DEF Applied
    <2>3. Agree(stored, b)
      BY <2>0, Agreement
    <2> QED BY <1>0, <1>1, <2>0, <2>1, <2>2, <2>3
  <1>4. ASSUME NEW p \in Paths, NEW spelled \in {p, None}, Delete(p, spelled) PROVE TreeIsReplay'
    <2>1. /\ Record("deleted", spelled, None, None) /\ files' = [files EXCEPT ![p] = None]
          /\ astray' = IF spelled = p THEN astray \ {p} ELSE astray \cup {p}
      BY <1>4 DEF Delete
    <2>2. spelled \in Paths \cup {None} /\ None \in Paths \cup {None}
      BY <1>4
    <2>3. \A r \in Paths : ReplayOf(log')[r] = IF spelled = r THEN None ELSE ReplayOf(log)[r]
      <3>1. ReplayOf(log') =
              Applied(ReplayOf(log), [kind |-> "deleted", path |-> spelled, body |-> None, to |-> None])
        BY <1>0, <2>1, <2>2, ReplayRecorded
      <3> QED BY <2>1, <3>1 DEF Applied
    <2>4. Agree(None, None)
      BY DEF Agree
    <2> QED BY <1>0, <1>1, <1>4, <2>1, <2>3, <2>4, KnowledgeConstants
  <1>5. ASSUME NEW p \in Paths, NEW q \in Paths, Move(p, q) PROVE TreeIsReplay'
    <2>1. /\ Record("moved", p, None, q) /\ p # q
          /\ files' = [files EXCEPT ![q] = AsRead(files[p]), ![p] = None]
          /\ astray' = (astray \ {p, q}) \cup (IF p \in astray THEN {q} ELSE {})
      BY <1>5 DEF Move, Exists
    <2>2. \A r \in Paths : ReplayOf(log')[r] =
            IF p = r THEN None ELSE IF q = r THEN ReplayOf(log)[p] ELSE ReplayOf(log)[r]
      <3>1. ReplayOf(log') =
              Applied(ReplayOf(log), [kind |-> "moved", path |-> p, body |-> None, to |-> q])
        BY <1>0, <2>1, ReplayRecorded
      <3> QED BY <2>1, <3>1 DEF Applied
    <2>3. p \notin astray => Agree(AsRead(files[p]), ReplayOf(log)[p])
      BY <1>0, <1>5, Agreement DEF Move, Exists
    <2>4. Agree(None, None)
      BY DEF Agree
    <2> QED BY <1>0, <1>1, <2>1, <2>2, <2>3, <2>4
  <1>6. CASE Operation
    <2>1. ASSUME NEW p \in Paths, DeleteNothing(p) PROVE TreeIsReplay'
      BY <1>2, <2>1 DEF DeleteNothing
    <2>2. ASSUME NEW p \in Paths, NEW b \in Bodies, Edit(p, b) PROVE TreeIsReplay'
      <3>1. log' = log /\ files' = [files EXCEPT ![p] = b] /\ astray' = astray \cup {p}
        BY <2>2 DEF Edit
      <3> QED BY <1>0, <1>2, <3>1
    <2>3. CASE Refused
      BY <1>2, <2>3 DEF Refused, vars
    <2> QED
      BY <1>3, <1>4, <1>5, <1>6, <2>1, <2>2, <2>3, KnowledgeConstants DEF Operation, Requested
  <1>7. CASE EditRecorded
    <2> DEFINE b == IF Exists(editing) THEN AsRead(files[editing]) ELSE Empty
    <2>1. /\ editing \in Paths /\ b \in Bodies \cup {Empty, None}
          /\ Exists(editing) => Agree(files[editing], b)
      BY <1>0, <1>7, Converted, Agreement DEF EditRecorded, Exists
    <2>2. /\ Record("written", editing, b, None) /\ files' = files
          /\ astray' = IF Exists(editing) THEN astray \ {editing} ELSE astray \cup {editing}
      BY <1>7 DEF EditRecorded
    <2> HIDE DEF b
    <2>3. \A r \in Paths : ReplayOf(log')[r] = IF editing = r THEN b ELSE ReplayOf(log)[r]
      <3>1. PICK p \in Paths : p = editing
        BY <2>1
      <3>2. PICK c \in Bodies \cup {Empty, None} : c = b
        BY <2>1
      <3>3. Record("written", p, c, None)
        BY <2>2, <3>1, <3>2
      <3>4. ReplayOf(log') =
              Applied(ReplayOf(log), [kind |-> "written", path |-> p, body |-> c, to |-> None])
        BY <1>0, <3>3, ReplayRecorded
      <3> QED BY <3>1, <3>2, <3>4 DEF Applied
    <2> QED BY <1>0, <1>1, <2>1, <2>2, <2>3
  <1>8. CASE CrashInText \/ \E inserted \in BOOLEAN : Text(inserted)
    <2>1. Record("text", None, None, None) /\ files' = files /\ astray' = astray
      BY <1>8 DEF CrashInText, Text, tree
    <2>2. \A r \in Paths : ReplayOf(log')[r] = ReplayOf(log)[r]
      <3>1. ReplayOf(log') =
              Applied(ReplayOf(log), [kind |-> "text", path |-> None, body |-> None, to |-> None])
        BY <1>0, <2>1, ReplayRecorded
      <3> QED BY <2>1, <3>1 DEF Applied
    <2> QED BY <1>0, <1>1, <2>1, <2>2
  <1>9. CASE Crash \/ CatchUp \/ Booted \/ \E lost \in BOOLEAN : Restart(lost)
    BY <1>2, <1>9 DEF Crash, CatchUp, Booted, Restart, tree
  <1>10. CASE CrashInOperation
    <2>1. ASSUME NEW p \in Paths, NEW b \in Bodies, NEW mapped \in BOOLEAN,
                 CrashInWrite(p, b, mapped)
          PROVE  TreeIsReplay'
      <3>1. PICK stored \in Stored(b) : files' = [files EXCEPT ![p] = stored]
        BY <2>1 DEF CrashInWrite
      <3>2. log' = log /\ astray' = astray \cup {p}
        BY <2>1 DEF CrashInWrite
      <3> QED BY <1>0, <1>2, <3>1, <3>2
    <2>2. ASSUME NEW p \in Paths, NEW mapped \in BOOLEAN, CrashInDelete(p, mapped)
          PROVE  TreeIsReplay'
      <3>1. log' = log /\ files' = [files EXCEPT ![p] = None] /\ astray' = astray \cup {p}
        BY <2>2 DEF CrashInDelete
      <3> QED BY <1>0, <1>2, <3>1
    <2>3. ASSUME NEW p \in Paths, NEW q \in Paths, NEW removed \in BOOLEAN,
                 NEW mapped \in BOOLEAN, CrashInMove(p, q, removed, mapped)
          PROVE  TreeIsReplay'
      <3>1. /\ log' = log
            /\ files' = [files EXCEPT ![q] = AsRead(files[p]), ![p] = IF removed THEN None ELSE @]
            /\ astray' = astray \cup {q} \cup (IF removed THEN {p} ELSE {}) /\ p # q
        BY <2>3 DEF CrashInMove, Exists
      <3> QED BY <1>0, <1>2, <3>1
    <2> QED BY <1>10, <2>1, <2>2, <2>3, KnowledgeConstants DEF CrashInOperation
  <1>11. CASE UNCHANGED vars
    BY <1>2, <1>11 DEF vars
  <1> QED BY <1>6, <1>7, <1>8, <1>9, <1>10, <1>11 DEF Next

\* Replaying the knowledge events of the log, however long, gives the tree there is: the same
\* files with the same texts and, read as lines, the same ends but for the newline a write
\* leaves at the end.  Of the files whose last change the log does not tell (a crash, an edit
\* overtaken, a path respelled) it says nothing.
THEOREM TreeIsReplayed == Spec => []TreeIsReplay
  <1>1. Init => TreeIsReplay
    BY ReplayedIs, ReplayEmpty DEF Init, TreeIsReplay, Agree
  <1> QED BY <1>1, StoreInvariant, TreeStep, PTL DEF Spec
=============================================================================
