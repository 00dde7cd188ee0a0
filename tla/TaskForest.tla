------------------------------ MODULE TaskForest ------------------------------
(***************************************************************************)
(* The live task forest of an eonlet (tasks/forest.py) as pure operators.  *)
(*                                                                         *)
(* A forest is a function from the ids of the present nodes to records.    *)
(* Ids are creation ordinals 1, 2, 3, ...: mint_task_id draws fresh random *)
(* ids and the forest keeps insertion order, so the ordinal carries both   *)
(* the identity of a node and its place in creation order.  A child is     *)
(* created under a present parent, hence every parent id is smaller than   *)
(* the ids of its children and the recursive walks below end.              *)
(***************************************************************************)
EXTENDS Integers, FiniteSets, Sequences, FiniteSetsExt, SequencesExt

NoTask == 0

Statuses == {"pending", "active", "suspended", "blocked", "done", "cancelled"}
Origins  == {"user", "agent", "trigger"}
Terminal == {"done", "cancelled"}

\* What a node carries that scheduling looks at; text fields are left out.
TaskRecord(Ids) ==
    [parent : Ids \cup {NoTask}, status : Statuses, priority : Int, origin : Origins]

Allowed ==
    [s \in Statuses |-> IF s \in Terminal THEN {} ELSE Statuses \ {s}]

can_transition(src, dst) == src = dst \/ dst \in Allowed[src]

is_terminal(status) == status \in Terminal

-----------------------------------------------------------------------------
(* Reads *)

children(f, t) == {c \in DOMAIN f : f[c].parent = t}

is_leaf(f, t) == children(f, t) = {}

\* No parent, or the parent was deleted: orphans surface as roots.
is_root(f, t) == f[t].parent \notin DOMAIN f

roots(f) == {t \in DOMAIN f : is_root(f, t)}

\* The order of roots(): higher priority first, then creation order.
RootBefore(f, r, s) ==
    \/ f[r].priority > f[s].priority
    \/ f[r].priority = f[s].priority /\ r < s

by_status(f, status) == {t \in DOMAIN f : f[t].status = status}

\* Mutant: a root counts as depth 0.
depth_from_zero(f, t) ==
    LET up[n \in DOMAIN f] == IF is_root(f, n) THEN 0 ELSE 1 + up[f[n].parent]
    IN  IF t \in DOMAIN f THEN up[t] ELSE 0

depth(f, t) ==
    LET up[n \in DOMAIN f] == IF is_root(f, n) THEN 1 ELSE 1 + up[f[n].parent]
    IN  IF t \in DOMAIN f THEN up[t] ELSE 0

root_of(f, t) ==
    LET up[n \in DOMAIN f] == IF is_root(f, n) THEN n ELSE up[f[n].parent]
    IN  IF t \in DOMAIN f THEN up[t] ELSE NoTask

\* Mutant: the walk stops at terminal nodes.
live_descendants_pruned(f, t) ==
    LET walk[siblings \in SUBSET DOMAIN f] ==
          IF siblings = {} THEN <<>>
          ELSE LET c == Min(siblings)
               IN  (IF is_terminal(f[c].status) THEN <<>> ELSE <<c>> \o walk[children(f, c)])
                   \o walk[siblings \ {c}]
    IN  walk[children(f, t)]

\* Non-terminal descendants in pre-order; the walk also passes through
\* terminal nodes, whose live descendants are listed too.
live_descendants(f, t) ==
    LET walk[siblings \in SUBSET DOMAIN f] ==
          IF siblings = {} THEN <<>>
          ELSE LET c == Min(siblings)
               IN  (IF is_terminal(f[c].status) THEN <<>> ELSE <<c>>)
                   \o walk[children(f, c)] \o walk[siblings \ {c}]
    IN  walk[children(f, t)]

-----------------------------------------------------------------------------
(* reduce_task: the effect of one task event on the forest.  The reducer is *)
(* total: an event it cannot apply leaves the forest as it is.              *)

task_created(f, id, parent, priority, origin) ==
    IF id \in DOMAIN f THEN f
    ELSE [n \in DOMAIN f \cup {id} |->
            IF n = id
            THEN [parent |-> parent, status |-> "pending",
                  priority |-> priority, origin |-> origin]
            ELSE f[n]]

task_updated(f, id, priority) ==
    IF id \in DOMAIN f THEN [f EXCEPT ![id].priority = priority] ELSE f

task_transitioned(f, id, to_state) ==
    IF id \in DOMAIN f /\ can_transition(f[id].status, to_state)
    THEN [f EXCEPT ![id].status = to_state]
    ELSE f

\* Mutant: a deleted node is only marked.
task_deleted_soft(f, id) ==
    IF id \in DOMAIN f THEN [f EXCEPT ![id].status = "deleted"] ELSE f

\* Children of the removed node stay where they are.
task_deleted(f, id) == [n \in DOMAIN f \ {id} |-> f[n]]
=============================================================================
