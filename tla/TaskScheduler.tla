---------------------------- MODULE TaskScheduler ----------------------------
(***************************************************************************)
(* The decisions of tasks/scheduler.py: which node runs next, which tree   *)
(* may interrupt the running one, which creations are refused, and what a  *)
(* finished run amounted to.  Pure operators over a forest.                *)
(***************************************************************************)
EXTENDS TaskForest

\* A parent whose children are all terminal: due for its synthesis turn.
synthesis_ready(f, t) ==
    /\ ~ is_leaf(f, t)
    /\ \A c \in children(f, t) : is_terminal(f[c].status)

\* Subtasks run in creation order.
Youngest(siblings) == Max(siblings)   \* mutant
Eldest(siblings)   == Min(siblings)

\* Mutant: a suspended leaf counts as work.
leaf_runnable_resumes(f, n) == f[n].status \in {"pending", "suspended"}
leaf_runnable(f, n) == f[n].status = "pending"

\* An excluded or finished node takes its whole subtree out.
pruned_alone(f, n, exclude) == (n = exclude /\ is_leaf(f, n)) \/ is_terminal(f[n].status)  \* mutant
pruned(f, n, exclude) == n = exclude \/ is_terminal(f[n].status)

\* Work for the node itself: a leaf that is pending, a parent whose children
\* are all finished.
workable(f, n) ==
    IF is_leaf(f, n) THEN leaf_runnable(f, n)
    ELSE f[n].status \in {"blocked", "pending"} /\ synthesis_ready(f, n)

\* For every node, the node to run inside its subtree, or NoTask.  Children
\* are tried in creation order before the node itself.
runnable_in_subtree(f, exclude) ==
    LET found[n \in DOMAIN f] ==
          LET hits == {c \in children(f, n) : found[c] # NoTask}
          IN  IF pruned(f, n, exclude) THEN NoTask
              ELSE IF hits # {} THEN found[Eldest(hits)]
              ELSE IF workable(f, n) THEN n
              ELSE NoTask
    IN  found

\* The runnable node of the first tree, in the order of roots(), that has one.
FirstRunnable(f, trees, exclude) ==
    LET found == runnable_in_subtree(f, exclude)
        hits  == {r \in trees : found[r] # NoTask}
    IN  IF hits = {} THEN NoTask
        ELSE found[CHOOSE r \in hits : \A s \in hits \ {r} : RootBefore(f, r, s)]

next_runnable(f, exclude) == FirstRunnable(f, roots(f), exclude)

\* Mutant: an equal priority preempts.
outranks_on_tie(f, r, own) ==
    r # own /\ f[r].priority >= f[own].priority /\ f[r].origin # "trigger"

\* Another tree of strictly higher priority, not hatched by a trigger.
outranks(f, r, own) ==
    r # own /\ f[r].priority > f[own].priority /\ f[r].origin # "trigger"

preemptor(f, current) ==
    LET own == root_of(f, current)
    IN  IF own = NoTask THEN NoTask
        ELSE FirstRunnable(f, {r \in roots(f) : outranks(f, r, own)}, NoTask)

\* Mutant: the caps are off by one.
creation_guard_late(f, parent, max_depth, max_fanout) ==
    /\ parent \in DOMAIN f
    /\ \/ max_depth > 0 /\ depth(f, parent) > max_depth
       \/ max_fanout > 0 /\ Cardinality(children(f, parent)) > max_fanout

\* TRUE iff the new task is refused; a cap of 0 is no cap.
creation_guard_error(f, parent, max_depth, max_fanout) ==
    /\ parent \in DOMAIN f
    /\ \/ max_depth > 0 /\ depth(f, parent) + 1 > max_depth
       \/ max_fanout > 0 /\ Cardinality(children(f, parent)) >= max_fanout

classify_post_run(f, t) ==
    CASE t \notin DOMAIN f          -> "gone"
      [] is_terminal(f[t].status)   -> "done"
      [] ~ is_leaf(f, t)            -> "decomposed"
      [] OTHER                      -> "yielded"
=============================================================================
