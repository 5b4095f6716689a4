---------------------------- MODULE ImpalaShell ----------------------------
(***************************************************************************)
(* scr/_common.py run_impala_shell: one impala-shell child at a time, its  *)
(* stderr drained by a thread while the caller waits, and the monitoring   *)
(* events that _EventWriter appends to monitor.events.jsonl on the way.    *)
(*                                                                         *)
(* Each shell has its own writer, which falls silent for good at its first *)
(* failure, and none writes to a file that reached its size limit; a write *)
(* that fails half-way leaves a torn line that the next writer's line is   *)
(* glued to.  The calls of a Job run one after the other, so one record    *)
(* stands for the shell of the moment.  ShellSpec is what any caller may   *)
(* do with run_impala_shell: the orchestrators implement it, and the       *)
(* monitor reads the file it produces.                                     *)
(***************************************************************************)
EXTENDS Naturals, Sequences

CONSTANTS
    CallCount,    \* orchestrator calls of the Job
    MaxLines,     \* lines that fit in the event file (MONITOR_EVENTS_MAX_BYTES)
    MaxQueries,   \* bound: queries submitted in a behavior
    FaultyShells  \* bound: the shells whose writer may meet an I/O error

ASSUME ShellAssumption ==
    /\ {CallCount, MaxLines} \subseteq Nat \ {0}
    /\ MaxQueries \in Nat

VARIABLES
    log,      \* the event file, as in EventFile
    tail,
    query,    \* what Impala knows, as in EventFile
    shell,    \* the shell of the moment
    pipe      \* queries whose stderr line the drain thread has not read yet

shellVars == <<log, tail, shell, pipe, query>>

File == INSTANCE EventFile WITH life <- IF shell.pc = "dead" THEN "over" ELSE "on"

ShellPcs == {"none", "starting", "running", "exited", "returned", "raised", "dead"}

ShellTypeOK ==
    /\ File!FileTypeOK
    /\ shell \in [pc : ShellPcs, call : 1 .. CallCount, id : Nat \ {0},
                  writer : {"open", "closed"}, rc : {"none", "zero", "nonzero"}]
    /\ pipe \in Seq(File!QueryIds)

----------------------------------------------------------------------------
(* _EventWriter *)

\* uuid4 of the shell: an identity that neither the file nor a query bears yet
FreshShell == File!LastShell + 1

Full == Len(log) >= MaxLines

\* One _write by shell s: silent once closed; else the line is appended, or the
\* writer closes, because the file is full or because the write failed before
\* or in the middle of the line.
Writes(s, line) ==
    \/ /\ s.writer = "open" /\ ~Full
       /\ log' = File!Appended(line)
       /\ tail' = "clean"
       /\ shell' = s
    \/ /\ s.writer = "open"
       /\ Full \/ s.id \in FaultyShells
       /\ tail' \in (IF Full THEN {tail} ELSE {tail, "torn"})
       /\ shell' = [s EXCEPT !.writer = "closed"]
       /\ UNCHANGED log
    \/ /\ s.writer = "closed"
       /\ shell' = s
       /\ UNCHANGED <<log, tail>>

----------------------------------------------------------------------------
(* run_impala_shell *)

\* The shell_started event is written before the child exists.
StartShell(c) ==
    LET s == [pc |-> "starting", call |-> c, id |-> FreshShell, writer |-> "open",
              rc |-> "none"]
    IN /\ shell.pc \in {"none", "returned", "raised"}
       /\ Writes(s, File!Line("shell_started", c, s.id, 0))
       /\ UNCHANGED <<pipe, query>>

Popens ==
    /\ shell.pc = "starting"
    /\ shell' = [shell EXCEPT !.pc = "running"]
    /\ UNCHANGED <<log, tail, pipe, query>>

\* Popen raises: the caller sees the exception and no shell_finished is written.
PopenFails ==
    /\ shell.pc = "starting"
    /\ shell' = [shell EXCEPT !.pc = "raised"]
    /\ UNCHANGED <<log, tail, pipe, query>>

OwnQueries == File!OwnQueries(shell.id)
OwnRunning == {q \in OwnQueries : query[q].state = "running"}

\* The child submits its next statement and prints the query's monitor URL.
Submits ==
    /\ shell.pc = "running" /\ OwnRunning = {}
    /\ Len(query) < MaxQueries
    /\ File!Submit(shell.call, shell.id, "query_discovered", query)
    /\ pipe' = Append(pipe, Len(query) + 1)
    /\ UNCHANGED <<log, tail, shell>>

\* Impala transparently retries a running query under a new identity.
Retries(q) ==
    /\ shell.pc = "running" /\ q \in OwnRunning
    /\ Len(query) < MaxQueries
    /\ File!Submit(shell.call, shell.id, "query_retried", [query EXCEPT ![q].state = "retried"])
    /\ pipe' = Append(pipe, Len(query) + 1)
    /\ UNCHANGED <<log, tail, shell>>

\* The drain thread takes one line and reports the query it names.
Drains ==
    /\ shell.pc \in {"running", "exited"} /\ pipe # <<>>
    /\ LET q == Head(pipe)
       IN Writes(shell, File!Line(query[q].how, shell.call, shell.id, q))
    /\ pipe' = Tail(pipe)
    /\ UNCHANGED query

\* A clean exit needs every statement to have finished; an error can come any time.
Exits(rc) ==
    /\ shell.pc = "running"
    /\ rc = "zero" => OwnRunning = {} /\ \A q \in OwnQueries : query[q].state # "exception"
    /\ shell' = [shell EXCEPT !.pc = "exited", !.rc = rc]
    /\ UNCHANGED <<log, tail, pipe, query>>

\* Mutant: the drain thread is not joined.
ReturnsUnread ==
    /\ shell.pc = "exited"
    /\ LET s == [shell EXCEPT !.pc = "returned"]
       IN Writes(s, File!Line("shell_finished", shell.call, shell.id, 0))
    /\ UNCHANGED <<pipe, query>>

\* wait() and both joins are done: the stream was read to its end.
Returns ==
    /\ shell.pc = "exited" /\ pipe = <<>>
    /\ LET s == [shell EXCEPT !.pc = "returned"]
       IN Writes(s, File!Line("shell_finished", shell.call, shell.id, 0))
    /\ UNCHANGED <<pipe, query>>

\* SIGTERM to the process group ends the script and its child wherever they are;
\* a line being appended may be left torn, and the unread stderr is lost.
Killed ==
    /\ shell.pc # "dead"
    /\ shell' = [shell EXCEPT !.pc = "dead"]
    /\ tail' \in {tail, "torn"}
    /\ pipe' = <<>>
    /\ UNCHANGED <<log, query>>

ShellInit ==
    /\ log = <<>> /\ tail = "clean" /\ pipe = <<>> /\ query = <<>>
    /\ shell = [pc |-> "none", call |-> 1, id |-> 1, writer |-> "closed", rc |-> "none"]

\* Impala ends a query.
Impala == UNCHANGED <<shell, pipe>> /\ File!Impala

Child == \/ Submits
         \/ \E q \in OwnRunning : Retries(q)
         \/ \E rc \in {"zero", "nonzero"} : Exits(rc)

ShellNext ==
    \/ \E c \in 1 .. CallCount : StartShell(c)
    \/ Popens \/ PopenFails \/ Child \/ Drains \/ Returns \/ Killed \/ Impala

ShellSpec == ShellInit /\ [][ShellNext]_shellVars

----------------------------------------------------------------------------

\* The file is the one a reader may rely on: no line of a shell after its end or after
\* a lost one, whichever of the steps above fails or is cut short by SIGTERM.
KeepsEventFile == File!FileSpec

----------------------------------------------------------------------------
(* Why: the inductive invariant *)

Alive == shell.pc \in {"starting", "running", "exited"}

\* Identities only grow, the shell of the moment bears the newest or the next, and the
\* file names queries that Impala got.
IdsGrow ==
    /\ \A i \in 1 .. Len(log) : log[i].shell <= File!LastShell /\ log[i].query <= Len(query)
    /\ \A q \in 1 .. Len(query) : query[q].shell <= File!LastShell
    /\ shell.id \in File!Ids

\* The shell of the moment is one call's, has not ended in the file, and while its
\* writer is open it wrote the last line.
ShellOwnsFile ==
    Alive => /\ File!Owns(shell.call, shell.id)
             /\ ~File!Finished(shell.id)
             /\ shell.writer = "open" => /\ log # <<>>
                                         /\ log[Len(log)].shell = shell.id

\* What stderr still holds are queries of this shell, in order, none of them reported.
PipeInOrder ==
    /\ shell.pc \notin {"running", "exited"} => pipe = <<>>
    /\ \A i \in 1 .. Len(pipe) : /\ pipe[i] \in OwnQueries
                                 /\ \A o \in File!Logged(shell.id) : o < pipe[i]
                                 /\ \A j \in 1 .. i - 1 : pipe[j] < pipe[i]

\* A shell that exited with zero left no query that may still fail.
ZeroIsClean ==
    shell.rc = "zero" => /\ shell.pc \in {"exited", "returned", "dead"}
                         /\ \A q \in OwnQueries : query[q].state \in {"finished", "retried"}

ShellInv == ShellTypeOK /\ IdsGrow /\ ShellOwnsFile /\ PipeInOrder /\ ZeroIsClean
=============================================================================
