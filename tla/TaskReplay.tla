------------------------------ MODULE TaskReplay ------------------------------
(***************************************************************************)
(* fold_tasks: the forest as a fold of task events.  The log may hold any  *)
(* event for any id (a transition of a node deleted meanwhile, an illegal  *)
(* one, a second creation of the same id), and the reducer decides what    *)
(* each does.  Every forest that replay can build is a state of this       *)
(* machine; the walks of TaskForest and TaskScheduler are compared, on     *)
(* each of them, with definitions that do not walk.                        *)
(***************************************************************************)
EXTENDS TaskScheduler

CONSTANTS MaxTasks,     \* bound on the ids that occur in the log
          Priorities,   \* the priorities that occur in the log
          LogOrigins,   \* the origins
          LogStatuses   \* the to_state of its transitions

ASSUME ReplayBounds ==
    /\ MaxTasks \in Nat \ {0}
    /\ Priorities \subseteq Int
    /\ LogOrigins \subseteq Origins
    /\ LogStatuses \subseteq Statuses

VARIABLES forest,   \* TaskForest._nodes
          created   \* the ids of the TASK_CREATED events so far are 1..created

vars == <<forest, created>>

TaskId == 1..MaxTasks

TypeOK ==
    /\ created \in 0..MaxTasks
    /\ DOMAIN forest \subseteq 1..created
    /\ forest \in [DOMAIN forest -> TaskRecord(TaskId)]

Init == forest = <<>> /\ created = 0

\* A new node under a present parent (an id of a deleted node is never minted
\* again).
ReplayCreated ==
    \E parent \in DOMAIN forest \cup {NoTask}, p \in Priorities, o \in LogOrigins :
      /\ created < MaxTasks
      /\ forest' = task_created(forest, created + 1, parent, p, o)
      /\ created' = created + 1

\* A second event for a present id.
ReplayRepeated ==
    \E id \in DOMAIN forest :
      LET t == forest[id]
      IN  /\ forest' = task_created(forest, id, t.parent, t.priority, t.origin)
          /\ UNCHANGED created

ReplayUpdated ==
    \E id \in TaskId, p \in Priorities :
      forest' = task_updated(forest, id, p) /\ UNCHANGED created

ReplayTransitioned ==
    \E id \in TaskId, s \in LogStatuses :
      forest' = task_transitioned(forest, id, s) /\ UNCHANGED created

ReplayDeleted ==
    \E id \in TaskId : forest' = task_deleted(forest, id) /\ UNCHANGED created

Next ==
    ReplayCreated \/ ReplayRepeated \/ ReplayUpdated \/ ReplayTransitioned \/ ReplayDeleted

Spec == Init /\ [][Next]_vars

-----------------------------------------------------------------------------
(* Reference definitions: membership in a subtree and the order of the     *)
(* walk, stated on the line of ancestors of a node.                        *)

Line(t) ==
    LET line[n \in DOMAIN forest] ==
          {n} \cup IF is_root(forest, n) THEN {} ELSE line[forest[n].parent]
    IN  line[t]

\* t is visited before u: at the point where their lines part, t's branch is
\* the better root or the older sibling.
VisitedBefore(t, u) ==
    \E a \in Line(t) \ Line(u), b \in Line(u) \ Line(t) :
      \/ is_root(forest, a) /\ is_root(forest, b) /\ RootBefore(forest, a, b)
      \/ /\ ~ is_root(forest, a) /\ ~ is_root(forest, b)
         /\ forest[a].parent = forest[b].parent /\ a < b

\* What TASK_SPEC section 4 calls runnable, under no terminal ancestor.
Runnable ==
    {t \in DOMAIN forest :
       /\ \A a \in Line(t) : ~ is_terminal(forest[a].status)
       /\ \/ is_leaf(forest, t) /\ forest[t].status = "pending"
          \/ synthesis_ready(forest, t) /\ forest[t].status \in {"pending", "blocked"}}

FirstOf(S) ==
    IF S = {} THEN NoTask
    ELSE CHOOSE t \in S : \A u \in S \ {t} : VisitedBefore(t, u)

-----------------------------------------------------------------------------
(* Properties *)

\* The walk of next_runnable picks, among all runnable nodes of the forest,
\* the one that the priority of roots and the creation order of siblings
\* put first; it returns nothing only when nothing is runnable.
NextIsFirstRunnable == next_runnable(forest, NoTask) = FirstOf(Runnable)

\* Excluding a node takes exactly its own subtree out of the choice.
ExclusionPrunesSubtree ==
    \A x \in DOMAIN forest :
      next_runnable(forest, x) = FirstOf({t \in Runnable : x \notin Line(t)})

\* For every node that might be running, preemptor answers with the first
\* runnable node among the trees that strictly outrank the node's own tree
\* and were not hatched by a trigger, and with nothing if there is none.
PreemptorIsBestOutranking ==
    \A x \in DOMAIN forest :
      LET own     == CHOOSE r \in Line(x) : is_root(forest, r)
          rivals  == {t \in Runnable :
                        \E r \in Line(t) \ Line(x) :
                          /\ is_root(forest, r)
                          /\ forest[r].priority > forest[own].priority
                          /\ forest[r].origin # "trigger"}
      IN  preemptor(forest, x) = FirstOf(rivals)

\* The beat after a pause: whenever a run would pause for a contender, what
\* next_runnable picks once its task is pending again is that contender, or
\* a node of a tree hatched by a trigger, which preemptor skips; either way
\* its tree outranks the paused one, which therefore does not run on.
PausedYieldsToContender ==
    \A x \in DOMAIN forest :
      LET contender == preemptor(forest, x)
          paused    == task_transitioned(forest, x, "pending")
          next      == next_runnable(paused, NoTask)
          tree      == root_of(paused, next)
      IN  contender # NoTask =>
            /\ next # NoTask
            /\ paused[tree].priority > paused[root_of(paused, x)].priority
            /\ next = contender \/ paused[tree].origin = "trigger"

\* A cancel cascade or a refused done sees every live node below the target,
\* once, each before the nodes under it, also below terminal nodes.
LiveDescendantsAreTheLiveSubtree ==
    \A t \in DOMAIN forest :
      LET live == live_descendants(forest, t)
      IN  /\ ToSet(live) = {d \in DOMAIN forest : /\ t \in Line(d) \ {d}
                                                  /\ ~ is_terminal(forest[d].status)}
          /\ \A i, j \in DOMAIN live :
               i < j => live[i] \in Line(live[j]) \ {live[j]} \/ VisitedBefore(live[i], live[j])

\* depth counts the line of present ancestors and root_of is its top.
DepthAndRootFollowTheLine ==
    \A t \in DOMAIN forest :
      /\ depth(forest, t) = Cardinality(Line(t))
      /\ root_of(forest, t) \in Line(t) \cap roots(forest)

\* Whatever the log holds, a node that was done or cancelled stays so until
\* it is deleted, and a deleted id never comes back to life.
ReplayKeepsTerminal ==
    [][\A t \in DOMAIN forest :
         is_terminal(forest[t].status) =>
           t \notin DOMAIN forest' \/ forest'[t].status = forest[t].status]_vars
=============================================================================
