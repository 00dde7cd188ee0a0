---------------------------- MODULE KnowledgeStore ----------------------------
(***************************************************************************)
(* The two stores that are derived from the event log or mirrored by it:   *)
(* the knowledge tree with its map index.md (memory/knowledge.py, written  *)
(* by the knowledge tool and by memory.knowledge.* requests), and the      *)
(* recall index (memory/recall.py, fed by AgentRuntime._record and caught  *)
(* up when the worker starts).                                             *)
(*                                                                         *)
(* An operation holds the lock of index.md, and nothing it holds on to     *)
(* before the lock matters; the record follows with no await in between.   *)
(* So it is one step for the other coroutines, except an edit, which opens *)
(* the file again before it records it.  A crash can fall between any two  *)
(* of its writes.                                                          *)
(***************************************************************************)
EXTENDS Integers, Sequences

CONSTANTS
    Paths,
    Odd,           \* names with a ")": their line of the map is not read back
    Words,         \* what a file says, line ends aside
    Contents,      \* the bodies that are written and edited in
    Empty,         \* what an edit records when the file is gone
    MaxEvents,     \* bound on the log
    MaxCrashes,
    None           \* no file, no path

\* A body as far as line ends go: tidy iff it ends in one newline, carriage returns
\* read as newlines; cr iff it has any.
Bodies == [words : Words, tidy : BOOLEAN, cr : BOOLEAN]

ASSUME KnowledgeConstants ==
    /\ Odd \subseteq Paths /\ Contents \subseteq Bodies /\ Empty \notin Bodies
    /\ None \notin Paths /\ None \notin Bodies \cup {Empty} /\ \A S \in SUBSET Paths : S # None
    /\ MaxEvents \in Nat /\ MaxCrashes \in Nat

VARIABLES
    files,      \* the knowledge tree
    index,      \* index.md: the paths it lists; None as long as there is no such file
    log,        \* the event log: text-bearing events and kb_* events
    indexed,    \* msg_meta: the ids in the recall index
    proc,       \* the worker: down, boot (catching up), up
    editing,    \* the file an edit has changed and not yet recorded
    crashes,
    astray,     \* history: files whose last change the log does not tell
    unlisted,   \* history: files whose line a crash left wrong
    failed      \* history: events whose insertion into the recall index raised

tree   == <<files, index, astray, unlisted>>
recall == <<indexed, failed>>
vars   == <<files, index, log, indexed, proc, editing, crashes, astray, unlisted, failed>>

Event == [kind : {"text", "written", "deleted", "moved"}, path : Paths \cup {None},
          body : Bodies \cup {Empty, None}, to : Paths \cup {None}]

Init ==
    /\ files = [p \in Paths |-> None] /\ index = None /\ log = <<>>
    /\ indexed = {} /\ proc = "boot" /\ editing = None /\ crashes = 0
    /\ astray = {} /\ unlisted = {} /\ failed = {}

\* read_text turns carriage returns into newlines.
AsRead(b) == [b EXCEPT !.cr = FALSE]
Tidied(b) == [b EXCEPT !.tidy = TRUE]

\* What a write of b leaves in the file: content.rstrip("\n") + "\n".  Behind a
\* carriage return the strip may find no newline to take.
Stored(b) == {Tidied(b)} \cup (IF b.cr THEN {b} ELSE {})

Exists(p) == files[p] # None
Tree      == {p \in Paths : Exists(p)}

\* _read_index
ReadIndex == IF index = None THEN {} ELSE index \ Odd

\* index_text: the map every model request carries
Map == IF index = None THEN Tree ELSE index

\* The lines a change writes back: those it could read, and the one it adds or drops.
Upsert(p) == ReadIndex \cup {p}
Drop(p)   == ReadIndex \ {p}

\* list_entries
Listed == IF ReadIndex = {} THEN Tree ELSE ReadIndex

\* mutant: no bound
RecordUnbounded(kind, p, b, q) ==
    log' = Append(log, [kind |-> kind, path |-> p, body |-> b, to |-> q])

Record(kind, p, b, q) ==
    /\ Len(log) < MaxEvents
    /\ log' = Append(log, [kind |-> kind, path |-> p, body |-> b, to |-> q])

Up == proc = "up"

-----------------------------------------------------------------------------
(* The operations of the knowledge tool and of memory.knowledge.*           *)

\* write, and its kb_written event, which carries the content as it was given
Write(p, b) ==
    /\ Up
    /\ \E stored \in Stored(b) : files' = [files EXCEPT ![p] = stored]
    /\ index' = Upsert(p)
    /\ Record("written", p, b, None)
    /\ astray' = astray \ {p} /\ unlisted' = unlisted \ {p}
    /\ UNCHANGED <<recall, proc, editing, crashes>>

\* edit makes the file b, as it stands, and leaves the map alone; one run has one edit at
\* a time.
Edit(p, b) ==
    /\ Up /\ editing = None /\ Exists(p)
    /\ files' = [files EXCEPT ![p] = b]
    /\ editing' = p
    /\ astray' = astray \cup {p}
    /\ UNCHANGED <<index, log, recall, proc, crashes, unlisted>>

\* mutant: the record carries no body
EditRecordedEmpty ==
    /\ Up /\ editing # None
    /\ Record("written", editing, Empty, None)
    /\ astray' = IF Exists(editing) THEN astray \ {editing} ELSE astray \cup {editing}
    /\ editing' = None
    /\ UNCHANGED <<files, index, recall, proc, crashes, unlisted>>

\* _edit opens the file again, after an await, and records what it finds.
EditRecorded ==
    /\ Up /\ editing # None
    /\ Record("written", editing,
              IF Exists(editing) THEN AsRead(files[editing]) ELSE Empty, None)
    /\ astray' = IF Exists(editing) THEN astray \ {editing} ELSE astray \cup {editing}
    /\ editing' = None
    /\ UNCHANGED <<files, index, recall, proc, crashes, unlisted>>

\* delete records the path as it was spelled, which may name no file of the log.
Delete(p, spelled) ==
    /\ Up /\ spelled \in {p, None}
    /\ Exists(p)
    /\ files' = [files EXCEPT ![p] = None]
    /\ index' = Drop(p)
    /\ Record("deleted", spelled, None, None)
    /\ astray' = IF spelled = p THEN astray \ {p} ELSE astray \cup {p}
    /\ unlisted' = unlisted \ {p}
    /\ UNCHANGED <<recall, proc, editing, crashes>>

\* A delete that finds no file cleans the map all the same.
DeleteNothing(p) ==
    /\ Up /\ ~ Exists(p)
    /\ index' = Drop(p)
    /\ unlisted' = unlisted \ {p}
    /\ UNCHANGED <<files, log, recall, proc, editing, crashes, astray>>

\* mutant: the map keeps the line of the source
MoveKeepsLine(p, q) ==
    /\ Up /\ Exists(p) /\ ~ Exists(q)
    /\ files' = [files EXCEPT ![q] = AsRead(files[p]), ![p] = None]
    /\ index' = Upsert(q)
    /\ Record("moved", p, None, q)
    /\ astray' = (astray \ {p, q}) \cup (IF p \in astray THEN {q} ELSE {})
    /\ unlisted' = unlisted \ {p, q}
    /\ UNCHANGED <<recall, proc, editing, crashes>>

\* move reads the file and writes what it read, and carries the line of the source over to the destination.
Move(p, q) ==
    /\ Up /\ Exists(p) /\ ~ Exists(q)
    /\ files' = [files EXCEPT ![q] = AsRead(files[p]), ![p] = None]
    /\ index' = Drop(p) \cup {q}
    /\ Record("moved", p, None, q)
    /\ astray' = (astray \ {p, q}) \cup (IF p \in astray THEN {q} ELSE {})
    /\ unlisted' = unlisted \ {p, q}
    /\ UNCHANGED <<recall, proc, editing, crashes>>

\* A path that leads out of the tree, an edit or a move of a missing file, a move onto a file
\* (itself, for one) and a text to replace that is not found raise before anything is written.
Refused == Up /\ UNCHANGED vars

-----------------------------------------------------------------------------
(* The recall index                                                         *)

Texts == {i \in DOMAIN log : log[i].kind = "text"}

\* _record of a text-bearing event: appended, then inserted.  An exception of the insertion
\* is logged and forgotten.
Text(inserted) ==
    /\ Up
    /\ Record("text", None, None, None)
    /\ IF inserted
       THEN indexed' = indexed \cup {Len(log')} /\ UNCHANGED failed
       ELSE failed' = failed \cup {Len(log')} /\ UNCHANGED indexed
    /\ UNCHANGED <<tree, proc, editing, crashes>>

\* mutant: off by one
MissingButOne == {i \in Texts : \A j \in indexed : j + 1 < i}

\* What run_worker still has to insert: the text-bearing events above latest_indexed_id,
\* the highest one inserted.
Missing == {i \in Texts : \A j \in indexed : j < i}

\* Each insertion commits, in the order of the log.
CatchUp ==
    /\ proc = "boot"
    /\ \E i \in Missing : /\ \A j \in Missing : i <= j
                          /\ indexed' = indexed \cup {i}
    /\ UNCHANGED <<tree, log, proc, editing, crashes, failed>>

Booted ==
    /\ proc = "boot" /\ Missing = {}
    /\ proc' = "up"
    /\ UNCHANGED <<tree, log, recall, editing, crashes>>

\* The next worker finds the index as it was, or finds none or one of another schema and
\* starts it anew.
Restart(lost) ==
    /\ proc = "down"
    /\ proc' = "boot"
    /\ IF lost THEN indexed' = {} /\ failed' = {} ELSE UNCHANGED recall
    /\ UNCHANGED <<tree, log, editing, crashes>>

-----------------------------------------------------------------------------
(* Crashes: between two steps, or between two writes of one operation.      *)

Die == crashes < MaxCrashes /\ crashes' = crashes + 1 /\ proc' = "down" /\ editing' = None

Crash == proc # "down" /\ Die /\ UNCHANGED <<tree, log, recall>>

CrashInWrite(p, b, mapped) ==
    /\ Up /\ Die
    /\ \E stored \in Stored(b) : files' = [files EXCEPT ![p] = stored]
    /\ index' = IF mapped THEN Upsert(p) ELSE index
    /\ astray' = astray \cup {p}
    /\ unlisted' = IF mapped THEN unlisted \ {p} ELSE unlisted \cup {p}
    /\ UNCHANGED <<log, recall>>

CrashInDelete(p, mapped) ==
    /\ Up /\ Exists(p) /\ Die
    /\ files' = [files EXCEPT ![p] = None]
    /\ index' = IF mapped THEN Drop(p) ELSE index
    /\ astray' = astray \cup {p}
    /\ unlisted' = IF mapped THEN unlisted \ {p} ELSE unlisted \cup {p}
    /\ UNCHANGED <<log, recall>>

\* The destination is written, the source removed, the map written: none of the rest.
CrashInMove(p, q, removed, mapped) ==
    /\ Up /\ Exists(p) /\ ~ Exists(q) /\ Die
    /\ mapped => removed
    /\ files' = [files EXCEPT ![q] = AsRead(files[p]), ![p] = IF removed THEN None ELSE @]
    /\ index' = IF mapped THEN Drop(p) \cup {q} ELSE index
    /\ astray' = astray \cup {q} \cup (IF removed THEN {p} ELSE {})
    /\ unlisted' = IF mapped THEN unlisted \ {p, q}
                   ELSE unlisted \cup {q} \cup (IF removed THEN {p} ELSE {})
    /\ UNCHANGED <<log, recall>>

\* The event is in the log and not in the index.
CrashInText ==
    /\ Up /\ Die
    /\ Record("text", None, None, None)
    /\ UNCHANGED <<tree, recall>>

CrashInOperation ==
    \E p \in Paths, mapped \in BOOLEAN :
        \/ \E b \in Contents : CrashInWrite(p, b, mapped)
        \/ CrashInDelete(p, mapped)
        \/ \E q \in Paths, removed \in BOOLEAN : CrashInMove(p, q, removed, mapped)

\* memory.knowledge.*, which has no edit
Requested(p) ==
    \/ \E b \in Contents : Write(p, b)
    \/ \E spelled \in {p, None} : Delete(p, spelled)
    \/ DeleteNothing(p)
    \/ \E q \in Paths : Move(p, q)
    \/ Refused

\* The knowledge tool
Operation == \E p \in Paths : Requested(p) \/ \E b \in Contents : Edit(p, b)

Next ==
    \/ Operation \/ EditRecorded
    \/ \E inserted \in BOOLEAN : Text(inserted)
    \/ CatchUp \/ Booted
    \/ \E lost \in BOOLEAN : Restart(lost)
    \/ Crash \/ CrashInOperation \/ CrashInText

Spec == Init /\ [][Next]_vars

-----------------------------------------------------------------------------
\* What replaying the kb_* events of the log yields.
Applied(t, e) ==
    [p \in Paths |->
        CASE e.kind = "written" /\ e.path = p               -> e.body
          [] e.kind \in {"deleted", "moved"} /\ e.path = p -> None
          [] e.kind = "moved" /\ e.to = p                   -> t[e.path]
          [] OTHER                                          -> t[p]]

Replayed ==
    LET after[n \in 0..Len(log)] ==
            IF n = 0 THEN [p \in Paths |-> None] ELSE Applied(after[n - 1], log[n])
    IN  after[Len(log)]

\* Every variable holds a value of its kind.
TypeOK ==
    /\ files \in [Paths -> Bodies \cup {None}]
    /\ index = None \/ index \subseteq Paths
    /\ log \in Seq(Event) /\ Len(log) <= MaxEvents
    /\ indexed \subseteq Texts /\ failed \subseteq Texts
    /\ proc \in {"down", "boot", "up"} /\ editing \in Paths \cup {None}
    /\ crashes \in 0..MaxCrashes
    /\ astray \subseteq Paths /\ unlisted \subseteq Paths

\* A file with body f, or none, agrees with a replay that yields r: the same text, and
\* read as lines the same ends, but for the newline a write puts at the end.
Agree(f, r) ==
    \/ f = None /\ r = None
    \/ f \in Bodies /\ r \in Bodies /\ AsRead(f) \in {AsRead(r), Tidied(AsRead(r))}

\* The log tells the tree, through any interleaving of edits and requests and any crash: a
\* replay of its kb_written, kb_deleted and kb_moved events agrees with every file.  This is
\* less than docs/MEMORY_SPEC.md promises ("reproduces the latest tree exactly", M-I1):
\*   - it is exact only up to the newlines at the end of a body and to carriage returns, since a
\*     write strips the one and a move or the record of an edit converts the other
\*     (ExactReplay of MCKnowledgeStore fails);
\*   - it says nothing of the files in astray: those a crash cut off from their record, until
\*     they are written or deleted anew; those an edit is about to record, or that a delete or move
\*     overtook before it did; those deleted under another spelling of their path.
TreeIsReplay == \A p \in Paths \ astray : Agree(files[p], Replayed[p])

\* The map the model sees and the listing name exactly the files there are, but for files
\* caught by a crash between the file and the map, and names the map cannot carry.
MapListsTree ==
    \A p \in Paths \ (unlisted \cup Odd) :
        (p \in Map <=> Exists(p)) /\ (p \in Listed <=> Exists(p))

\* A running worker can recall every text of its log, across crashes between the log and
\* the index and a lost index, except those whose insertion raised.
RecallHolesAreFailures == Up => Texts \ indexed \subseteq failed
=============================================================================
