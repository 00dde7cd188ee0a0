--------------------------- MODULE TaskReplayProofs ---------------------------
(***************************************************************************)
(* The properties of TaskReplay for logs of any length: what the walks of  *)
(* the scheduler compute on every forest that task events can build.       *)
(***************************************************************************)
EXTENDS TaskReplay, TaskForestProofs

-----------------------------------------------------------------------------
(* The forests of the replay are well formed *)

\* A parent was created before its children.
ParentsOlder == \A n \in DOMAIN forest : forest[n].parent < n

ForestInv == TypeOK /\ ParentsOlder

LEMMA InitForest == Init => ForestInv
<1> SUFFICES ASSUME Init PROVE ForestInv
  OBVIOUS
<1>1. forest = <<>> /\ created = 0 /\ DOMAIN forest = {}
  BY DEF Init
<1>2. forest \in [DOMAIN forest -> TaskRecord(TaskId)]
  BY <1>1
<1> QED
  BY <1>1, <1>2, ReplayBounds DEF ForestInv, TypeOK, ParentsOlder

LEMMA CreatedForest == ForestInv /\ ReplayCreated => ForestInv'
<1> SUFFICES ASSUME ForestInv, ReplayCreated PROVE ForestInv'
  OBVIOUS
<1>1. PICK parent \in DOMAIN forest \cup {NoTask}, p \in Priorities, o \in LogOrigins :
        /\ created < MaxTasks
        /\ forest' = task_created(forest, created + 1, parent, p, o)
        /\ created' = created + 1
  BY DEF ReplayCreated
<1> DEFINE id == created + 1
           new == [parent |-> parent, status |-> "pending", priority |-> p, origin |-> o]
<1>2. /\ created \in Nat /\ created <= MaxTasks /\ MaxTasks \in Nat
      /\ DOMAIN forest \subseteq 1..created /\ ParentsOlder
      /\ \A n \in DOMAIN forest : forest[n] \in TaskRecord(TaskId)
  BY ReplayBounds DEF ForestInv, TypeOK
<1>3. id \notin DOMAIN forest /\ id \in TaskId
  BY <1>1, <1>2 DEF TaskId
<1>4. forest' = [n \in DOMAIN forest \cup {id} |-> IF n = id THEN new ELSE forest[n]]
  BY <1>1, <1>3 DEF task_created
<1>5. new \in TaskRecord(TaskId)
  <2>1. parent \in TaskId \cup {NoTask}
    BY <1>2 DEF TaskId
  <2> QED
    BY <2>1, ReplayBounds DEF TaskRecord, Statuses
<1> HIDE DEF new
<1>6. /\ DOMAIN forest' = DOMAIN forest \cup {id}
      /\ forest'[id] = new /\ \A n \in DOMAIN forest : forest'[n] = forest[n]
  BY <1>3, <1>4
<1>7. forest' \in [DOMAIN forest' -> TaskRecord(TaskId)]
  BY <1>2, <1>3, <1>4, <1>5, <1>6
<1>8. created' \in 0..MaxTasks /\ DOMAIN forest' \subseteq 1..created'
  BY <1>1, <1>2, <1>6
<1>9. new.parent < id
  BY <1>1, <1>2 DEF new, NoTask
<1> QED
  BY <1>2, <1>6, <1>7, <1>8, <1>9 DEF ForestInv, TypeOK, ParentsOlder

\* A step that changes the records of nodes, or removes nodes, keeps the shape.
LEMMA ShapeKept ==
    ASSUME ForestInv, created' = created, forest' = [n \in DOMAIN forest' |-> forest'[n]],
           DOMAIN forest' \subseteq DOMAIN forest,
           \A n \in DOMAIN forest' : /\ forest'[n] \in TaskRecord(TaskId)
                                     /\ forest'[n].parent = forest[n].parent
    PROVE  ForestInv'
<1>1. forest' \in [DOMAIN forest' -> TaskRecord(TaskId)]
  OBVIOUS
<1> QED
  BY <1>1 DEF ForestInv, TypeOK, ParentsOlder

LEMMA StepForest == ForestInv /\ [Next]_vars => ForestInv'
<1> SUFFICES ASSUME ForestInv, [Next]_vars PROVE ForestInv'
  OBVIOUS
<1>1. \A n \in DOMAIN forest : forest[n] \in TaskRecord(TaskId)
  BY DEF ForestInv, TypeOK
<1>2. forest = [n \in DOMAIN forest |-> forest[n]]
  BY DEF ForestInv, TypeOK
<1>3. CASE forest' = forest /\ created' = created
  BY <1>1, <1>2, <1>3, ShapeKept
<1>4. CASE ReplayCreated
  BY <1>4, CreatedForest
<1>5. CASE ReplayRepeated
  BY <1>3, <1>5 DEF ReplayRepeated, task_created
<1>6. CASE ReplayUpdated
  <2>1. PICK id \in TaskId, p \in Priorities : forest' = task_updated(forest, id, p)
    BY <1>6 DEF ReplayUpdated
  <2>2. created' = created
    BY <1>6 DEF ReplayUpdated
  <2>3. CASE id \in DOMAIN forest
    <3>1. forest' = [forest EXCEPT ![id].priority = p] /\ p \in Int
      BY <2>1, <2>3, ReplayBounds DEF task_updated
    <3>2. /\ DOMAIN forest' = DOMAIN forest
          /\ forest' = [n \in DOMAIN forest' |-> forest'[n]]
      BY <3>1
    <3>3. \A n \in DOMAIN forest : /\ forest'[n] \in TaskRecord(TaskId)
                                   /\ forest'[n].parent = forest[n].parent
      BY <1>1, <3>1 DEF TaskRecord
    <3> QED
      BY <2>2, <3>2, <3>3, ShapeKept
  <2> QED
    BY <1>3, <2>1, <2>2, <2>3 DEF task_updated
<1>7. CASE ReplayTransitioned
  <2>1. PICK id \in TaskId, s \in LogStatuses : forest' = task_transitioned(forest, id, s)
    BY <1>7 DEF ReplayTransitioned
  <2>2. created' = created
    BY <1>7 DEF ReplayTransitioned
  <2>3. CASE id \in DOMAIN forest /\ can_transition(forest[id].status, s)
    <3>1. forest' = [forest EXCEPT ![id].status = s] /\ s \in Statuses
      BY <2>1, <2>3, ReplayBounds DEF task_transitioned
    <3>2. /\ DOMAIN forest' = DOMAIN forest
          /\ forest' = [n \in DOMAIN forest' |-> forest'[n]]
      BY <3>1
    <3>3. \A n \in DOMAIN forest : /\ forest'[n] \in TaskRecord(TaskId)
                                   /\ forest'[n].parent = forest[n].parent
      BY <1>1, <3>1 DEF TaskRecord
    <3> QED
      BY <2>2, <3>2, <3>3, ShapeKept
  <2> QED
    BY <1>3, <2>1, <2>2, <2>3 DEF task_transitioned
<1>8. CASE ReplayDeleted
  <2>1. PICK id \in TaskId : forest' = [n \in DOMAIN forest \ {id} |-> forest[n]]
    BY <1>8 DEF ReplayDeleted, task_deleted
  <2>2. created' = created
    BY <1>8 DEF ReplayDeleted
  <2>3. /\ DOMAIN forest' \subseteq DOMAIN forest
        /\ forest' = [n \in DOMAIN forest' |-> forest'[n]]
        /\ \A n \in DOMAIN forest' : forest'[n] = forest[n]
    BY <2>1
  <2> QED
    BY <1>1, <2>2, <2>3, ShapeKept
<1> QED
  BY <1>3, <1>4, <1>5, <1>6, <1>7, <1>8 DEF Next, vars

LEMMA ForestWellFormed == ForestInv => WellFormed(forest)
<1> SUFFICES ASSUME ForestInv PROVE WellFormed(forest)
  OBVIOUS
<1>1. created \in Nat /\ DOMAIN forest \subseteq 1..created
  BY ReplayBounds DEF ForestInv, TypeOK
<1>2. ASSUME NEW n \in DOMAIN forest
      PROVE  forest[n].parent \in Nat /\ forest[n].priority \in Int
  <2>1. forest[n] \in TaskRecord(TaskId)
    BY DEF ForestInv, TypeOK
  <2> QED
    BY <2>1, ReplayBounds DEF TaskRecord, TaskId, NoTask
<1> QED
  BY <1>1, <1>2 DEF WellFormed, ForestInv, ParentsOlder

LEMMA ForestAlways == Spec => []ForestInv
<1>1. Init => ForestInv
  BY InitForest
<1>2. ForestInv /\ [Next]_vars => ForestInv'
  BY StepForest
<1> QED
  BY <1>1, <1>2, PTL DEF Spec

\* The forest that replay builds has the records the events describe, whatever events the log
\* holds for ids that are gone or were never created.
THEOREM TypeCorrect == Spec => []TypeOK
<1>1. ForestInv => TypeOK
  BY DEF ForestInv
<1> QED
  BY <1>1, ForestAlways, PTL

-----------------------------------------------------------------------------
(* The walks on those forests *)

LEMMA LineIs == \A t : Line(t) = LineOf(forest, t)
  BY DEF Line, LineOf

LEMMA FirstOfIs == \A S : FirstOf(S) = First(forest, S)
  BY DEF FirstOf, First, VisitedBefore, Before, Ahead, Parent, Line, LineOf

\* Runnable holds the nodes with work under no terminal ancestor.
LEMMA RunnableIs ==
    \A t : t \in Runnable <=> /\ t \in DOMAIN forest /\ workable(forest, t)
                              /\ \A a \in LineOf(forest, t) : ~ is_terminal(forest[a].status)
  BY LineIs DEF Runnable, workable, leaf_runnable, synthesis_ready

\* Below a root, nothing but the line of a node cuts it off.
LEMMA SubOfRoot ==
    ASSUME NEW f, WellFormed(f), NEW x, NEW r \in DOMAIN f, is_root(f, r), NEW t
    PROVE  t \in Sub(f, x, r) <=> /\ t \in DOMAIN f /\ r \in LineOf(f, t) /\ workable(f, t)
                                  /\ \A a \in LineOf(f, t) : ~ pruned(f, a, x)
  BY RootsOfLine DEF Sub

\* Every line has one root, the one root_of names.
LEMMA OneRoot ==
    ASSUME NEW f, WellFormed(f), NEW t \in DOMAIN f, NEW r
    PROVE  r \in LineOf(f, t) /\ is_root(f, r) <=> r = root_of(f, t)
  BY LineRoot, RootsOfLine

LEMMA NextExcluding ==
    ASSUME ForestInv, NEW x
    PROVE  next_runnable(forest, x) = FirstOf({t \in Runnable : x \notin Line(t)})
<1> DEFINE S == {t \in DOMAIN forest : \E r \in roots(forest) : t \in Sub(forest, x, r)}
           R == {t \in Runnable : x \notin Line(t)}
<1>1. WellFormed(forest)
  BY ForestWellFormed
<1>2. ASSUME NEW t \in S PROVE t \in R
  <2>1. PICK r \in roots(forest) : t \in Sub(forest, x, r)
    OBVIOUS
  <2>2. /\ t \in DOMAIN forest /\ workable(forest, t)
        /\ \A a \in LineOf(forest, t) : ~ pruned(forest, a, x)
    BY <1>1, <2>1, SubOfRoot DEF roots
  <2> QED
    BY <2>2, RunnableIs, LineIs DEF pruned
<1>3. ASSUME NEW t \in R PROVE t \in S
  <2>1. /\ t \in DOMAIN forest /\ workable(forest, t)
        /\ \A a \in LineOf(forest, t) : ~ pruned(forest, a, x)
    BY RunnableIs, LineIs DEF pruned
  <2> DEFINE r == root_of(forest, t)
  <2>2. r \in LineOf(forest, t) /\ is_root(forest, r) /\ r \in DOMAIN forest
    BY <1>1, <2>1, LineRoot, LineBounds
  <2>3. r \in roots(forest)
    BY <2>2 DEF roots
  <2>4. t \in Sub(forest, x, r)
    BY <1>1, <2>1, <2>2, SubOfRoot
  <2> QED
    BY <2>1, <2>3, <2>4
<1>4. S = R
  BY <1>2, <1>3
<1>5. next_runnable(forest, x) = First(forest, S)
  BY <1>1, FirstRunnableIs DEF next_runnable
<1> QED
  BY <1>4, <1>5, FirstOfIs

\* The recursive walk of next_runnable chooses, among all runnable nodes of any forest, the one
\* that root priority and creation order put first, and none only when none is runnable.
THEOREM NextIsFirst == Spec => []NextIsFirstRunnable
<1>1. ForestInv => NextIsFirstRunnable
  <2> SUFFICES ASSUME ForestInv PROVE NextIsFirstRunnable
    OBVIOUS
  <2>1. \A t \in Runnable : NoTask \notin Line(t)
    <3>1. WellFormed(forest)
      BY ForestWellFormed
    <3> QED
      BY <3>1, RunnableIs, LineIs, LineBounds, IdsAreNats
  <2>2. {t \in Runnable : NoTask \notin Line(t)} = Runnable
    BY <2>1
  <2> QED
    BY <2>2, NextExcluding DEF NextIsFirstRunnable
<1> QED
  BY <1>1, ForestAlways, PTL

\* A node that the worker excludes takes its own subtree out of the choice and nothing else.
THEOREM ExclusionIsLocal == Spec => []ExclusionPrunesSubtree
<1>1. ForestInv => ExclusionPrunesSubtree
  BY NextExcluding DEF ExclusionPrunesSubtree
<1> QED
  BY <1>1, ForestAlways, PTL

\* preemptor names the node that runs next in the best tree that outranks the running one.
THEOREM PreemptorIsBest == Spec => []PreemptorIsBestOutranking
<1>1. ForestInv => PreemptorIsBestOutranking
  <2> SUFFICES ASSUME ForestInv, NEW x \in DOMAIN forest
               PROVE  LET own     == CHOOSE r \in Line(x) : is_root(forest, r)
                          rivals  == {t \in Runnable :
                                        \E r \in Line(t) \ Line(x) :
                                          /\ is_root(forest, r)
                                          /\ forest[r].priority > forest[own].priority
                                          /\ forest[r].origin # "trigger"}
                      IN  preemptor(forest, x) = FirstOf(rivals)
    BY DEF PreemptorIsBestOutranking
  <2> DEFINE own == root_of(forest, x)
             rivals == {t \in Runnable :
                          \E r \in Line(t) \ Line(x) :
                            /\ is_root(forest, r)
                            /\ forest[r].priority > forest[own].priority
                            /\ forest[r].origin # "trigger"}
             trees == {r \in roots(forest) : outranks(forest, r, own)}
             S == {t \in DOMAIN forest : \E r \in trees : t \in Sub(forest, NoTask, r)}
  <2>1. WellFormed(forest)
    BY ForestWellFormed
  <2>2. /\ own \in DOMAIN forest /\ own # NoTask /\ own \in Line(x)
        /\ \A r : r \in Line(x) /\ is_root(forest, r) <=> r = own
    BY <2>1, LineIs, LineRoot, LineBounds, OneRoot, IdsAreNats
  <2>3. own = CHOOSE r \in Line(x) : is_root(forest, r)
    BY <2>2
  <2> HIDE DEF own
  <2>4. preemptor(forest, x) = First(forest, S)
    <3>1. preemptor(forest, x) = FirstRunnable(forest, trees, NoTask)
      BY <2>2 DEF preemptor, own
    <3>2. trees \subseteq roots(forest)
      OBVIOUS
    <3> HIDE DEF trees
    <3> QED
      BY <2>1, <3>1, <3>2, FirstRunnableIs
  <2>5. \A r : r \in trees <=> r \in roots(forest) /\ outranks(forest, r, own)
    OBVIOUS
  <2>6. \A t \in DOMAIN forest : LineOf(forest, t) \subseteq DOMAIN forest /\ NoTask \notin DOMAIN forest
    BY <2>1, LineBounds, IdsAreNats
  <2>7. ASSUME NEW t \in S PROVE t \in rivals
    <3>1. PICK r \in trees : t \in Sub(forest, NoTask, r)
      OBVIOUS
    <3>2. /\ r \in DOMAIN forest /\ is_root(forest, r) /\ r # own
          /\ forest[r].priority > forest[own].priority /\ forest[r].origin # "trigger"
      BY <2>5, <3>1 DEF roots, outranks
    <3>3. /\ t \in DOMAIN forest /\ r \in LineOf(forest, t) /\ workable(forest, t)
          /\ \A a \in LineOf(forest, t) : ~ pruned(forest, a, NoTask)
      BY <2>1, <3>1, <3>2, SubOfRoot
    <3>4. t \in Runnable
      BY <3>3, RunnableIs DEF pruned
    <3>5. r \in Line(t) \ Line(x)
      BY <2>2, <3>2, <3>3, LineIs
    <3> QED
      BY <3>2, <3>4, <3>5
  <2>8. ASSUME NEW t \in rivals PROVE t \in S
    <3>1. /\ t \in DOMAIN forest /\ workable(forest, t)
          /\ \A a \in LineOf(forest, t) : ~ is_terminal(forest[a].status)
      BY RunnableIs
    <3>2. PICK r \in Line(t) \ Line(x) :
            /\ is_root(forest, r) /\ forest[r].priority > forest[own].priority
            /\ forest[r].origin # "trigger"
      OBVIOUS
    <3>3. r \in LineOf(forest, t) /\ r \in DOMAIN forest /\ r # own
      BY <2>2, <2>6, <3>1, <3>2, LineIs
    <3>4. r \in trees
      BY <2>5, <3>2, <3>3 DEF roots, outranks
    <3>5. \A a \in LineOf(forest, t) : ~ pruned(forest, a, NoTask)
      BY <2>6, <3>1 DEF pruned
    <3>6. t \in Sub(forest, NoTask, r)
      BY <2>1, <3>1, <3>2, <3>3, <3>5, SubOfRoot
    <3> QED
      BY <3>1, <3>4, <3>6
  <2>9. S = rivals
    BY <2>7, <2>8
  <2> HIDE DEF S
  <2> QED
    BY <2>3, <2>4, <2>9, FirstOfIs
<1> QED
  BY <1>1, ForestAlways, PTL

\* A new status for x leaves what a walk sees of the other trees as it is.
LEMMA OtherTreesStay ==
    ASSUME NEW f, WellFormed(f), NEW g, WellFormed(g), SameShape(f, g), NEW x \in DOMAIN f,
           \A n \in DOMAIN f \ {x} : g[n] = f[n],
           NEW r \in roots(f), r # root_of(f, x)
    PROVE  Sub(g, NoTask, r) = Sub(f, NoTask, r)
<1>1. r \in DOMAIN f /\ is_root(f, r) /\ r \in DOMAIN g /\ is_root(g, r) /\ DOMAIN g = DOMAIN f
  BY ShapeFacts DEF roots, SameShape
<1>2. \A t \in DOMAIN f : LineOf(g, t) = LineOf(f, t)
  BY SameLines
<1>3. r \notin LineOf(f, x)
  BY <1>1, OneRoot
<1>4. ASSUME NEW t \in DOMAIN f, r \in LineOf(f, t)
      PROVE  /\ workable(g, t) <=> workable(f, t)
             /\ \A a \in LineOf(f, t) : pruned(g, a, NoTask) <=> pruned(f, a, NoTask)
  <2>1. x \notin LineOf(f, t)
    <3>1. ASSUME x \in LineOf(f, t) PROVE r \in LineOf(f, x)
      BY <1>1, <1>4, <3>1, RootsOfLine
    <3> QED
      BY <1>3, <3>1
  <2>2. LineOf(f, t) \subseteq DOMAIN f /\ t \in LineOf(f, t)
    BY LineBounds
  <2>3. \A a \in LineOf(f, t) : g[a] = f[a]
    BY <2>1, <2>2
  <2>4. \A c \in children(f, t) : g[c] = f[c]
    <3>1. \A c \in children(f, t) : c \in DOMAIN f /\ LineOf(f, c) = {c} \cup LineOf(f, t)
      BY ChildFacts
    <3> QED
      BY <1>3, <1>4, <3>1
  <2>5. children(g, t) = children(f, t)
    BY ShapeFacts
  <2>6. workable(g, t) <=> workable(f, t)
    BY <2>2, <2>3, <2>4, <2>5 DEF workable, is_leaf, leaf_runnable, synthesis_ready
  <2> QED
    BY <2>3, <2>6 DEF pruned
<1>5. \A t : t \in Sub(g, NoTask, r) <=> t \in Sub(f, NoTask, r)
  BY <1>1, <1>2, <1>4, SubOfRoot
<1> QED
  BY <1>5

\* Pausing changes the status of one node at most.
LEMMA PausedIs ==
    ASSUME NEW f, WellFormed(f), \A n \in DOMAIN f : f[n] \in TaskRecord(TaskId),
           NEW x \in DOMAIN f
    PROVE  LET g == task_transitioned(f, x, "pending")
           IN  /\ WellFormed(g) /\ SameShape(f, g)
               /\ \A n \in DOMAIN f \ {x} : g[n] = f[n]
               /\ \A n \in DOMAIN f : /\ g[n].priority = f[n].priority
                                      /\ g[n].origin = f[n].origin
<1> DEFINE g == task_transitioned(f, x, "pending")
<1>1. CASE g = f
  BY <1>1 DEF SameShape
<1>2. CASE g # f
  <2>1. g = [f EXCEPT ![x].status = "pending"]
    BY <1>2 DEF task_transitioned
  <2> HIDE DEF g
  <2>2. DOMAIN g = DOMAIN f /\ \A n \in DOMAIN f \ {x} : g[n] = f[n]
    BY <2>1
  <2>3. f[x] \in TaskRecord(TaskId)
    OBVIOUS
  <2>4. /\ g[x].parent = f[x].parent /\ g[x].priority = f[x].priority
        /\ g[x].origin = f[x].origin
    BY <2>1, <2>3 DEF TaskRecord
  <2>5. \A n \in DOMAIN f : /\ g[n].parent = f[n].parent /\ g[n].priority = f[n].priority
                            /\ g[n].origin = f[n].origin
    BY <2>2, <2>4
  <2>6. WellFormed(g)
    BY <2>2, <2>5 DEF WellFormed
  <2> QED
    BY <2>2, <2>5, <2>6 DEF SameShape, Parent, g
<1> QED
  BY <1>1, <1>2

\* What runs after a pause for a contender: the contender, or a trigger tree that outranks the
\* paused one as well; never the paused tree again.
THEOREM PauseYields == Spec => []PausedYieldsToContender
<1>1. ForestInv => PausedYieldsToContender
  <2> SUFFICES ASSUME ForestInv, NEW x \in DOMAIN forest, preemptor(forest, x) # NoTask
               PROVE  LET contender == preemptor(forest, x)
                          paused    == task_transitioned(forest, x, "pending")
                          next      == next_runnable(paused, NoTask)
                          tree      == root_of(paused, next)
                      IN  /\ next # NoTask
                          /\ paused[tree].priority > paused[root_of(paused, x)].priority
                          /\ next = contender \/ paused[tree].origin = "trigger"
    BY DEF PausedYieldsToContender
  <2> DEFINE own == root_of(forest, x)
             trees == {r \in roots(forest) : outranks(forest, r, own)}
             contender == preemptor(forest, x)
             paused == task_transitioned(forest, x, "pending")
             next == next_runnable(paused, NoTask)
  <2>1. WellFormed(forest) /\ \A n \in DOMAIN forest : forest[n] \in TaskRecord(TaskId)
    BY ForestWellFormed DEF ForestInv, TypeOK
  <2>2. /\ WellFormed(paused) /\ SameShape(forest, paused)
        /\ \A n \in DOMAIN forest \ {x} : paused[n] = forest[n]
        /\ \A n \in DOMAIN forest : /\ paused[n].priority = forest[n].priority
                                     /\ paused[n].origin = forest[n].origin
    BY <2>1, PausedIs
  <2>3. own \in DOMAIN forest /\ own # NoTask /\ own \in LineOf(forest, x) /\ is_root(forest, own)
    BY <2>1, LineRoot, LineBounds, IdsAreNats
  <2>4. \A r : r \in trees <=> r \in roots(forest) /\ outranks(forest, r, own)
    OBVIOUS
  <2>5. contender = FirstRunnable(forest, trees, NoTask)
    BY <2>3 DEF preemptor
  <2>6. next = FirstRunnable(paused, roots(forest), NoTask)
    BY <2>2, ShapeFacts DEF next_runnable
  <2> HIDE DEF trees, paused, contender, next
  <2>7. \A n \in DOMAIN forest : LineOf(paused, n) = LineOf(forest, n)
    BY <2>1, <2>2, SameLines
  <2>8. roots(paused) = roots(forest) /\ DOMAIN paused = DOMAIN forest
    BY <2>2, ShapeFacts DEF SameShape
  <2>9. own = root_of(paused, x)
    BY <2>2, <2>3, <2>7, <2>8, OneRoot, ShapeFacts
  <2> HIDE DEF own
  \* The tree of the contender.
  <2>10. PICK r \in trees : /\ contender \in Sub(forest, NoTask, r)
                            /\ \A u \in Sub(forest, NoTask, r) \ {contender} :
                                 Before(forest, contender, u)
                            /\ \A s \in trees : Sub(forest, NoTask, s) # {} =>
                                 s = r \/ RootBefore(forest, r, s)
    <3>1. trees \subseteq roots(forest) /\ contender # NoTask
      BY <2>4 DEF contender
    <3> QED
      BY <2>1, <2>5, <3>1, ChosenFacts
  <2>11. r \in roots(forest) /\ r # own /\ r \in DOMAIN forest /\ own \in DOMAIN forest
         /\ forest[r].priority > forest[own].priority /\ forest[r].origin # "trigger"
    BY <2>3, <2>4 DEF outranks, roots
  <2>12. \A s \in roots(forest) : s # own => Sub(paused, NoTask, s) = Sub(forest, NoTask, s)
    BY <2>1, <2>2, OtherTreesStay DEF own
  <2>13. contender \in Sub(paused, NoTask, r)
    BY <2>10, <2>11, <2>12
  \* The tree that runs next.
  <2>14. PICK q \in roots(forest) :
           /\ next # NoTask /\ next \in Sub(paused, NoTask, q)
           /\ \A u \in Sub(paused, NoTask, q) \ {next} : Before(paused, next, u)
           /\ \A s \in roots(forest) : Sub(paused, NoTask, s) # {} =>
                s = q \/ RootBefore(paused, q, s)
    BY <2>2, <2>6, <2>8, <2>11, <2>13, ChosenFacts
  <2>15. q \in DOMAIN forest /\ is_root(paused, q)
    BY <2>8, <2>14 DEF roots
  <2>16. q = r \/ RootBefore(paused, q, r)
    BY <2>11, <2>13, <2>14
  <2>17. \A n \in DOMAIN forest : forest[n].priority \in Int /\ n \in Nat
    BY <2>1, IdsAreNats DEF WellFormed
  <2>18. forest[q].priority >= forest[r].priority
    BY <2>2, <2>11, <2>15, <2>16, <2>17 DEF RootBefore
  <2>19. forest[q].priority > forest[own].priority /\ q # own
    BY <2>11, <2>15, <2>17, <2>18
  <2>20. next \in DOMAIN forest /\ q = root_of(paused, next)
    BY <2>2, <2>8, <2>14, <2>15, SubFacts, OneRoot
  <2>21. ASSUME forest[q].origin # "trigger" PROVE next = contender
    <3>1. q \in trees
      BY <2>4, <2>14, <2>19, <2>21 DEF outranks
    <3>2. Sub(paused, NoTask, q) = Sub(forest, NoTask, q)
      BY <2>12, <2>14, <2>19
    <3>3. q = r
      <4>1. q = r \/ RootBefore(forest, r, q)
        BY <2>10, <2>14, <3>1, <3>2
      <4> QED
        BY <2>2, <2>11, <2>15, <2>16, <2>17, <4>1 DEF RootBefore
    <3>4. next \in Sub(forest, NoTask, r) /\ contender \in Sub(paused, NoTask, q)
      BY <2>13, <2>14, <3>2, <3>3
    <3>5. SUFFICES ASSUME next # contender PROVE FALSE
      OBVIOUS
    <3>6. Before(forest, contender, next) /\ Before(paused, next, contender)
      BY <2>10, <2>14, <3>4, <3>5
    <3>7. contender \in DOMAIN forest
      BY <2>1, <2>10, <2>11, SubFacts
    <3>8. Before(forest, next, contender)
      <4>1. PICK a \in LineOf(paused, next) \ LineOf(paused, contender),
                 b \in LineOf(paused, contender) \ LineOf(paused, next) : Ahead(paused, a, b)
        BY <3>6 DEF Before
      <4>2. /\ a \in LineOf(forest, next) \ LineOf(forest, contender)
            /\ b \in LineOf(forest, contender) \ LineOf(forest, next)
        BY <2>7, <2>20, <3>7, <4>1
      <4>3. a \in DOMAIN forest /\ b \in DOMAIN forest
        BY <2>1, <2>20, <3>7, <4>2, LineBounds
      <4>4. Ahead(forest, a, b)
        BY <2>2, <4>1, <4>3, ShapeFacts DEF Ahead, RootBefore, SameShape
      <4> QED
        BY <4>2, <4>4 DEF Before
    <3> QED
      BY <2>1, <2>20, <3>6, <3>7, <3>8, BeforeAsymmetric
  <2> QED
    BY <2>2, <2>9, <2>11, <2>14, <2>15, <2>19, <2>20, <2>21 DEF paused, contender, next, own
<1> QED
  BY <1>1, ForestAlways, PTL

\* The list that a cancel cascade records and that a done is refused for: on any forest every
\* live node below the target, also below finished nodes, each after the nodes above it.
THEOREM LiveSubtree == Spec => []LiveDescendantsAreTheLiveSubtree
<1>1. ForestInv => LiveDescendantsAreTheLiveSubtree
  <2> SUFFICES ASSUME ForestInv, NEW t \in DOMAIN forest
               PROVE  LET live == live_descendants(forest, t)
                      IN  /\ ToSet(live) = {d \in DOMAIN forest : /\ t \in Line(d) \ {d}
                                                                  /\ ~ is_terminal(forest[d].status)}
                          /\ \A i, j \in DOMAIN live :
                               i < j => \/ live[i] \in Line(live[j]) \ {live[j]}
                                        \/ VisitedBefore(live[i], live[j])
    BY DEF LiveDescendantsAreTheLiveSubtree
  <2> DEFINE live == live_descendants(forest, t)
  <2>1. /\ InOrder(forest, live)
        /\ ToSet(live) = {d \in DOMAIN forest : /\ t \in LineOf(forest, d) \ {d}
                                                /\ ~ is_terminal(forest[d].status)}
    BY ForestWellFormed, LiveDescendantsAre
  <2>2. \A x, y : Precedes(forest, x, y) => x \in Line(y) \ {y} \/ VisitedBefore(x, y)
    BY LineIs DEF Precedes, Before, VisitedBefore, Ahead, Parent
  <2> HIDE DEF live
  <2>3. ToSet(live) = {d \in DOMAIN forest : /\ t \in Line(d) \ {d}
                                             /\ ~ is_terminal(forest[d].status)}
    BY <2>1, LineIs
  <2>4. \A i, j \in DOMAIN live : i < j => \/ live[i] \in Line(live[j]) \ {live[j]}
                                           \/ VisitedBefore(live[i], live[j])
    BY <2>1, <2>2 DEF InOrder
  <2> QED
    BY <2>3, <2>4 DEF live
<1> QED
  BY <1>1, ForestAlways, PTL

\* depth counts the line of present ancestors and root_of is the root on it, on any forest.
THEOREM DepthAndRoot == Spec => []DepthAndRootFollowTheLine
<1>1. ForestInv => DepthAndRootFollowTheLine
  BY ForestWellFormed, LineIs, LineRoot, LineBounds DEF DepthAndRootFollowTheLine, roots
<1> QED
  BY <1>1, ForestAlways, PTL

\* No event of any log takes a node out of done or cancelled but its deletion.
THEOREM TerminalIsKept == Spec => ReplayKeepsTerminal
<1> DEFINE Kept == \A t \in DOMAIN forest :
                     is_terminal(forest[t].status) =>
                       t \notin DOMAIN forest' \/ forest'[t].status = forest[t].status
<1>1. ForestInv /\ [Next]_vars => [Kept]_vars
  <2> SUFFICES ASSUME ForestInv, Next, NEW t \in DOMAIN forest,
                      is_terminal(forest[t].status), t \in DOMAIN forest'
               PROVE  forest'[t].status = forest[t].status
    OBVIOUS
  <2>1. /\ t \in 1..created /\ created \in Nat
        /\ \A n \in DOMAIN forest : forest[n] \in TaskRecord(TaskId)
    BY ReplayBounds DEF ForestInv, TypeOK
  <2>2. CASE ReplayCreated
    BY <2>1, <2>2 DEF ReplayCreated, task_created
  <2>3. CASE ReplayRepeated
    BY <2>3 DEF ReplayRepeated, task_created
  <2>4. CASE ReplayUpdated
    BY <2>1, <2>4 DEF ReplayUpdated, task_updated, TaskRecord
  <2>5. CASE ReplayTransitioned
    <3>1. PICK id \in TaskId, s \in LogStatuses : forest' = task_transitioned(forest, id, s)
      BY <2>5 DEF ReplayTransitioned
    <3>2. id = t /\ can_transition(forest[id].status, s) => s = forest[t].status
      <4>1. forest[t].status \in Terminal /\ forest[t].status \in Statuses
        BY DEF is_terminal, Terminal, Statuses
      <4> QED
        BY <4>1 DEF can_transition, Allowed
    <3> QED
      BY <2>1, <3>1, <3>2 DEF task_transitioned, TaskRecord
  <2>6. CASE ReplayDeleted
    BY <2>6 DEF ReplayDeleted, task_deleted
  <2> QED
    BY <2>2, <2>3, <2>4, <2>5, <2>6 DEF Next
<1>2. Spec => [][Kept]_vars
  BY <1>1, ForestAlways, PTL DEF Spec
<1> QED
  BY <1>2 DEF ReplayKeepsTerminal
=============================================================================
