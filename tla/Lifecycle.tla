------------------------------- MODULE Lifecycle -------------------------------
(***************************************************************************)
(* The life of one eonlet as the commands of the shell see it: create,     *)
(* start, stop, rm, recreate, pause, resume (cli/commands.py) on one side, *)
(* the processes of the worker (worker/main.py) on the other.  They share  *)
(* the files of the eonlet (worker/lifecycle.py) and nothing else: no file *)
(* is a lock, a process is known by the pid it wrote, and the socket file  *)
(* is taken for readiness whoever left it.                                 *)
(*                                                                         *)
(* Each step of a command is one action, so that shells and workers        *)
(* interleave between a check and what it was for.                         *)
(***************************************************************************)
EXTENDS Integers, Sequences, FiniteSets

CONSTANTS
    Shells,
    MaxProcs,      \* bound on the workers spawned
    MaxCrashes,
    Slow           \* a worker may take longer than the 5 seconds a command waits

Proc    == 1..MaxProcs
NoProc  == 0
Command == {"create", "start", "stop", "stop --force", "rm", "rm --keep-data", "recreate",
            "pause", "resume"}

VARIABLES
    root, meta,    \* whether the directory and its meta.json exist
    status,        \* status file; unknown when there is none
    pid_file,      \* the process whose pid is written
    sock,          \* whether runtime.sock exists
    proc,          \* of each worker process: none, spawned, open, named, serving, ending, gone
    halted,        \* stopped by SIGSTOP
    termed,        \* SIGTERM delivered to a halted process
    todo,          \* per shell, the steps of its command still to be made
    target,        \* per shell, the process its command waits for
    crashes,
    premature      \* history: a command stopped waiting for a worker without a pid on file

files == <<root, meta, status, pid_file, sock>>
procs == <<proc, halted, termed>>
vars  == <<root, meta, status, pid_file, sock, proc, halted, termed, todo, target, crashes,
           premature>>

Init ==
    /\ root = FALSE /\ meta = FALSE /\ status = "unknown" /\ pid_file = NoProc /\ sock = FALSE
    /\ proc = [p \in Proc |-> "none"] /\ halted = {} /\ termed = {}
    /\ todo = [s \in Shells |-> <<>>] /\ target = [s \in Shells |-> NoProc]
    /\ crashes = 0 /\ premature = FALSE

\* process_alive of the pid on file
Alive(p) == p # NoProc /\ proc[p] \notin {"none", "gone"}

\* effective_status
EffectiveStatus ==
    IF status \in {"running", "paused"} /\ ~ Alive(pid_file) THEN "dead" ELSE status

Steps(cmd) ==
    CASE cmd = "create"         -> <<"create", "spawn", "wait">>
      [] cmd = "start"          -> <<"start", "spawn", "wait">>
      [] cmd = "stop"           -> <<"term", "exit">>
      [] cmd = "stop --force"   -> <<"kill", "exit">>
      [] cmd = "rm"             -> <<"check", "remove">>
      [] cmd = "rm --keep-data" -> <<"check", "strip">>
      [] cmd = "recreate"       -> <<"recreate">>
      [] OTHER                  -> <<cmd>>

\* MaxProcs is not used up, whatever the other shells start.
CanSpawn == Cardinality({p \in Proc : proc[p] = "none"}) >= Cardinality(Shells)

At(s, step) == todo[s] # <<>> /\ Head(todo[s]) = step
Continue(s) == todo' = [todo EXCEPT ![s] = Tail(@)]
Quit(s)     == todo' = [todo EXCEPT ![s] = <<>>]

-----------------------------------------------------------------------------
(* Commands *)

Enter(s, cmd) ==
    /\ todo[s] = <<>> /\ (root \/ cmd = "create")
    /\ cmd = "start" => CanSpawn
    /\ todo' = [todo EXCEPT ![s] = Steps(cmd)]
    /\ target' = [target EXCEPT ![s] = NoProc]
    /\ UNCHANGED <<files, procs, crashes, premature>>

\* cmd_create: meta.json is the marker of an eonlet; --no-start ends here.
Create(s) ==
    /\ At(s, "create")
    /\ IF meta THEN Quit(s) /\ UNCHANGED files
       ELSE /\ root' = TRUE /\ meta' = TRUE /\ status' = "created"
            /\ (CanSpawn /\ Continue(s)) \/ Quit(s)
            /\ UNCHANGED <<pid_file, sock>>
    /\ UNCHANGED <<procs, target, crashes, premature>>

\* mutant: start does not look for a live worker
StartBlind(s) ==
    /\ At(s, "start")
    /\ IF ~ meta THEN Quit(s) /\ UNCHANGED status
       ELSE status' = "created" /\ Continue(s)
    /\ UNCHANGED <<root, meta, pid_file, sock, procs, target, crashes, premature>>

\* cmd_start
Start(s) ==
    /\ At(s, "start")
    /\ IF ~ meta \/ Alive(pid_file) THEN Quit(s) /\ UNCHANGED status
       ELSE status' = "created" /\ Continue(s)
    /\ UNCHANGED <<root, meta, pid_file, sock, procs, target, crashes, premature>>

\* _spawn_worker
Spawn(s, p) ==
    /\ At(s, "spawn") /\ root
    /\ proc[p] = "none" /\ \A q \in Proc : q < p => proc[q] # "none"
    /\ proc' = [proc EXCEPT ![p] = "spawned"]
    /\ target' = [target EXCEPT ![s] = p]
    /\ Continue(s)
    /\ UNCHANGED <<files, halted, termed, crashes, premature>>

\* The socket file ends the wait.  The process spawned is a child nobody reaps, so it
\* passes for alive; only the deadline ends the wait otherwise.
Wait(s) ==
    /\ At(s, "wait")
    /\ sock \/ Slow \/ proc[target[s]] = "gone"
    /\ Quit(s)
    /\ premature' = (premature \/ proc[target[s]] \in {"spawned", "open"})
    /\ UNCHANGED <<files, procs, target, crashes>>

\* Who dies of a signal at once: anyone of SIGKILL; of SIGTERM a process that has not yet
\* installed its signal watcher.
Early(p) == proc[p] \in {"spawned", "open", "named"}

Dead(p) == proc' = [proc EXCEPT ![p] = "gone"]

\* cmd_stop finds nothing to stop, and does not wait.
NotRunning(s) ==
    /\ status' = IF root THEN "dead" ELSE status
    /\ todo' = [todo EXCEPT ![s] = Tail(Tail(@))]
    /\ UNCHANGED procs

\* cmd_stop sends its signal.  A worker that runs its event loop shuts down, one that is
\* halted will when it is resumed.
Term(s) ==
    /\ At(s, "term")
    /\ target' = [target EXCEPT ![s] = pid_file]
    /\ IF ~ Alive(pid_file)
       THEN NotRunning(s)
       ELSE /\ IF pid_file \in halted THEN termed' = termed \cup {pid_file} /\ UNCHANGED proc
               ELSE /\ IF Early(pid_file) THEN Dead(pid_file)
                       ELSE proc' = [proc EXCEPT ![pid_file] = "ending"]
                    /\ UNCHANGED termed
            /\ Continue(s) /\ UNCHANGED <<status, halted>>
    /\ UNCHANGED <<root, meta, pid_file, sock, crashes, premature>>

Kill(s) ==
    /\ At(s, "kill")
    /\ target' = [target EXCEPT ![s] = pid_file]
    /\ IF ~ Alive(pid_file) THEN NotRunning(s)
       ELSE Dead(pid_file) /\ halted' = halted \ {pid_file} /\ Continue(s)
            /\ UNCHANGED <<status, termed>>
    /\ UNCHANGED <<root, meta, pid_file, sock, crashes, premature>>

\* cmd_stop waits for the exit; at the deadline it kills and writes the status itself.
Exit(s) ==
    /\ At(s, "exit")
    /\ Continue(s)
    /\ \/ /\ ~ Alive(target[s])
          /\ UNCHANGED <<status, proc, halted>>
       \/ /\ Alive(target[s]) /\ (Slow \/ target[s] \in halted)
          /\ Dead(target[s]) /\ halted' = halted \ {target[s]}
          /\ status' = IF root THEN "dead" ELSE status
    /\ UNCHANGED <<root, meta, pid_file, sock, termed, target, crashes, premature>>

\* cmd_rm asks before it removes.
Check(s) ==
    /\ At(s, "check")
    /\ IF root /\ EffectiveStatus \in {"dead", "created"} THEN Continue(s) ELSE Quit(s)
    /\ UNCHANGED <<files, procs, target, crashes, premature>>

Remove(s, keep_data) ==
    /\ At(s, IF keep_data THEN "strip" ELSE "remove")
    /\ root' = (root /\ keep_data)
    /\ meta' = FALSE /\ status' = "unknown" /\ pid_file' = NoProc /\ sock' = FALSE
    /\ Continue(s)
    /\ UNCHANGED <<procs, target, crashes, premature>>

\* cmd_recreate: stop when it runs, then rm and create
Recreate(s) ==
    /\ At(s, "recreate")
    /\ \E removal \in {"rm", "rm --keep-data"} :
          todo' = [todo EXCEPT ![s] =
              IF ~ meta THEN <<>>
              ELSE (IF EffectiveStatus \in {"dead", "created"} THEN <<>> ELSE Steps("stop"))
                   \o Steps(removal) \o Steps("create")]
    /\ UNCHANGED <<files, procs, target, crashes, premature>>

Pause(s) ==
    /\ At(s, "pause") /\ Quit(s)
    /\ IF Alive(pid_file) THEN halted' = halted \cup {pid_file} /\ status' = "paused"
       ELSE UNCHANGED <<halted, status>>
    /\ UNCHANGED <<root, meta, pid_file, sock, proc, termed, target, crashes, premature>>

\* cmd_resume: SIGCONT also delivers the SIGTERM that waited.
Resume(s) ==
    /\ At(s, "resume") /\ Quit(s)
    /\ IF ~ Alive(pid_file) THEN UNCHANGED <<status, procs>>
       ELSE /\ status' = "running"
            /\ halted' = halted \ {pid_file} /\ termed' = termed \ {pid_file}
            /\ proc' = IF pid_file \notin termed THEN proc
                       ELSE [proc EXCEPT ![pid_file] = IF Early(pid_file) THEN "gone"
                                                       ELSE "ending"]
    /\ UNCHANGED <<root, meta, pid_file, sock, target, crashes, premature>>

-----------------------------------------------------------------------------
(* The worker *)

Runs(p, state) == proc[p] = state /\ p \notin halted
Becomes(p, state) ==
    proc' = [proc EXCEPT ![p] = state] /\ UNCHANGED <<halted, termed, todo, target, crashes, premature>>

\* run_worker reads meta.json and opens the event log; without meta.json main writes the
\* status and exits.
Open(p) ==
    /\ Runs(p, "spawned")
    /\ IF meta THEN Becomes(p, "open") /\ UNCHANGED status
       ELSE Becomes(p, "gone") /\ status' = IF root THEN "dead" ELSE status
    /\ UNCHANGED <<root, meta, pid_file, sock>>

\* write_pid, write_status, write_heartbeat; they raise when the directory is gone.
Name(p) ==
    /\ Runs(p, "open")
    /\ IF root THEN Becomes(p, "named") /\ pid_file' = p /\ status' = "running"
       ELSE Becomes(p, "gone") /\ UNCHANGED <<pid_file, status>>
    /\ UNCHANGED <<root, meta, sock>>

\* After the catch-up of the triggers, the server binds over whatever socket there is.
Serve(p) ==
    /\ Runs(p, "named")
    /\ IF root THEN Becomes(p, "serving") /\ sock' = TRUE
       ELSE Becomes(p, "gone") /\ UNCHANGED sock
    /\ UNCHANGED <<root, meta, status, pid_file>>

\* An exception of the boot or of a task of the worker ends it as a SIGTERM does.
Fail(p) ==
    /\ Runs(p, "named") \/ Runs(p, "serving")
    /\ Becomes(p, "ending")
    /\ UNCHANGED files

\* The finally of run_worker: the status, then cleanup, whoever the files belong to.
End(p) ==
    /\ Runs(p, "ending")
    /\ Becomes(p, "gone")
    /\ status' = IF root THEN "dead" ELSE status
    /\ pid_file' = NoProc /\ sock' = FALSE
    /\ UNCHANGED <<root, meta>>

Crash(p) ==
    /\ Alive(p) /\ crashes < MaxCrashes
    /\ crashes' = crashes + 1
    /\ Dead(p) /\ halted' = halted \ {p}
    /\ UNCHANGED <<files, termed, todo, target, premature>>

-----------------------------------------------------------------------------
Shell(s) ==
    \/ \E cmd \in Command : Enter(s, cmd)
    \/ Create(s) \/ Start(s) \/ \E p \in Proc : Spawn(s, p)
    \/ Wait(s) \/ Term(s) \/ Kill(s) \/ Exit(s)
    \/ Check(s) \/ \E keep_data \in BOOLEAN : Remove(s, keep_data)
    \/ Recreate(s) \/ Pause(s) \/ Resume(s)

Worker(p) == Open(p) \/ Name(p) \/ Serve(p) \/ Fail(p) \/ End(p) \/ Crash(p)

Next == (\E s \in Shells : Shell(s)) \/ (\E p \in Proc : Worker(p))

Spec == Init /\ [][Next]_vars

-----------------------------------------------------------------------------
\* "the worker is the single writer per eonlet" (memory/storage.py): of the log and the
\* files of one eonlet there is at most one process that has opened them, and the one that
\* serves is the one whose pid and socket are on file, so that stop and attach find it.
\* Commands of one shell, through stops, kills, crashes, pauses and removals, break this
\* in one way only: a start that gave up waiting before its worker had written its pid,
\* at its deadline or for the socket file a killed worker left.
Writers == {p \in Proc : proc[p] \in {"open", "named", "serving", "ending"}}
SingleWriter ==
    premature \/ /\ Cardinality(Writers) <= 1
                 /\ \A p \in Proc : proc[p] = "serving" => root /\ pid_file = p /\ sock
=============================================================================
