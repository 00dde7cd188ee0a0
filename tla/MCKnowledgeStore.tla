--------------------------- MODULE MCKnowledgeStore ---------------------------
(***************************************************************************)
(* KnowledgeStore for TLC, and what the documents say of it where the code *)
(* does something else.                                                    *)
(***************************************************************************)
EXTENDS KnowledgeStore, TLC

CONSTANTS t1, t2

\* One text without a newline at its end, and one with carriage returns; moves and edits
\* turn each into others.
MCContents == {[words |-> t1, tidy |-> FALSE, cr |-> FALSE],
               [words |-> t2, tidy |-> FALSE, cr |-> TRUE]}

\* The names of files the map can carry are interchangeable.
Symmetry == Permutations(Paths \ Odd)

-----------------------------------------------------------------------------
(* Claims of the documents that the code does not keep *)

\* MEMORY_SPEC, I-S1 and M-I1: every kb_written event carries the resulting full body, so
\* that replay reproduces the latest tree exactly.  The first write breaks it.
ExactReplay == \A p \in Paths \ astray : Replayed[p] = files[p]

\* Nothing is astray: a replay agrees with the whole tree, whenever no edit is about
\* to be recorded.
WholeTreeIsReplay == editing = None => \A p \in Paths : Agree(files[p], Replayed[p])
=============================================================================
