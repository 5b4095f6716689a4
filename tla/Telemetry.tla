----------------------------- MODULE Telemetry -----------------------------
(***************************************************************************)
(* dispatch/telemetry.py: events are queued without waiting, a daemon      *)
(* thread appends each to a private and to a shared file and skips a file  *)
(* that another process holds, and flush waits with a deadline for what    *)
(* was queued before it.  At exit a last flush runs, and the thread dies   *)
(* with the process.                                                       *)
(***************************************************************************)
EXTENDS Naturals, Sequences, FiniteSets

CONSTANTS
    Callers,       \* threads that call flush
    MaxEvents,     \* bound: events noted
    Capacity       \* _QUEUE_CAPACITY

ASSUME TelemetryBounds ==
    /\ MaxEvents \in Nat /\ Capacity \in Nat \ {0}
    /\ Callers \cap (1 .. MaxEvents) = {}    \* a request is no event

VARIABLES
    noted,      \* events handed to _enqueue
    queue,      \* _write_queue: events, and the requests of the callers
    writer,     \* the writer thread: none, idle, or the event and file it is at
    files,      \* "private" and "shared": the events each holds, in order
    flushes,    \* per caller: where its flush is, and the last event noted before it
    exiting     \* the interpreter: runs, flushes, is gone

telVars == <<noted, queue, writer, files, flushes, exiting>>

Events == 1 .. MaxEvents
Files == {"private", "shared"}
NoEvent == [file |-> "none", event |-> 0]

TelTypeOK ==
    /\ noted \in 0 .. MaxEvents
    /\ queue \in Seq(Events \cup Callers) /\ Len(queue) <= Capacity
    /\ writer \in {NoEvent, [file |-> "idle", event |-> 0]}
                    \cup [file : Files, event : Events]
    /\ files \in [Files -> Seq(Events)]
    /\ flushes \in [Callers -> [pc : {"out", "puts", "waits", "true", "false"},
                                before : 0 .. MaxEvents, set : BOOLEAN]]
    /\ exiting \in {"no", "flushing", "gone"}

Alive == exiting # "gone"

----------------------------------------------------------------------------

\* _enqueue: the first event starts the writer; a full queue drops the event.
Notes ==
    /\ exiting = "no" /\ noted < MaxEvents
    /\ noted' = noted + 1
    /\ writer' = IF writer = NoEvent THEN [file |-> "idle", event |-> 0] ELSE writer
    /\ queue' = IF Len(queue) < Capacity THEN Append(queue, noted + 1) ELSE queue
    /\ UNCHANGED <<files, flushes, exiting>>

FlushTo(c, pc) == flushes' = [flushes EXCEPT ![c].pc = pc]

\* flush: true at once when no writer runs.  A caller whose last request is still in the
\* queue waits for it (a bound: requests are told apart by their caller).
Flushes(c) ==
    /\ Alive /\ flushes[c].pc \in {"out", "true", "false"}
    /\ \A n \in 1 .. Len(queue) : queue[n] # c
    /\ flushes' = [flushes EXCEPT ![c] =
            [pc |-> IF writer = NoEvent THEN "true" ELSE "puts", before |-> noted, set |-> FALSE]]
    /\ UNCHANGED <<noted, queue, writer, files, exiting>>

Puts(c) ==
    /\ Alive /\ flushes[c].pc = "puts" /\ Len(queue) < Capacity
    /\ queue' = Append(queue, c) /\ FlushTo(c, "waits")
    /\ UNCHANGED <<noted, writer, files, exiting>>

\* Mutant: a flush that ran into its deadline answers true.
TimesOutTrue(c) ==
    /\ Alive /\ flushes[c].pc \in {"puts", "waits"} /\ ~flushes[c].set
    /\ FlushTo(c, "true")
    /\ UNCHANGED <<noted, queue, writer, files, exiting>>

\* The deadline may pass while it puts (the queue is full) and while it waits.
TimesOut(c) ==
    /\ Alive /\ flushes[c].pc \in {"puts", "waits"} /\ ~flushes[c].set
    /\ flushes[c].pc = "puts" => Len(queue) = Capacity
    /\ FlushTo(c, "false")
    /\ UNCHANGED <<noted, queue, writer, files, exiting>>

Returns(c) ==
    /\ Alive /\ flushes[c].pc = "waits" /\ flushes[c].set
    /\ FlushTo(c, "true")
    /\ UNCHANGED <<noted, queue, writer, files, exiting>>

----------------------------------------------------------------------------
(* _writer_loop *)

WriterGets ==
    /\ Alive /\ writer.file = "idle" /\ queue # <<>>
    /\ queue' = Tail(queue)
    /\ IF Head(queue) \in Callers
       THEN flushes' = [flushes EXCEPT ![Head(queue)].set = TRUE] /\ UNCHANGED writer
       ELSE writer' = [file |-> "private", event |-> Head(queue)] /\ UNCHANGED flushes
    /\ UNCHANGED <<noted, files, exiting>>

\* _append_line: skipped when the file is locked, cannot be opened or is not ours.
WriterAppends ==
    /\ Alive /\ writer.file \in Files
    /\ files' \in {files, [files EXCEPT ![writer.file] = Append(@, writer.event)]}
    /\ writer' = IF writer.file = "private" THEN [writer EXCEPT !.file = "shared"]
                 ELSE [file |-> "idle", event |-> 0]
    /\ UNCHANGED <<noted, queue, flushes, exiting>>

----------------------------------------------------------------------------
(* _flush_at_exit, by the last caller; then the daemon thread is gone *)

Exits ==
    /\ \/ exiting = "no" /\ exiting' = "flushing"
       \/ exiting = "flushing" /\ exiting' = "gone"
          /\ \A c \in Callers : flushes[c].pc \notin {"puts", "waits"}
    /\ UNCHANGED <<noted, queue, writer, files, flushes>>

TelInit ==
    /\ noted = 0 /\ queue = <<>> /\ writer = NoEvent /\ exiting = "no"
    /\ files = [f \in Files |-> <<>>]
    /\ flushes = [c \in Callers |-> [pc |-> "out", before |-> 0, set |-> FALSE]]

TelNext ==
    \/ Notes \/ WriterGets \/ WriterAppends \/ Exits
    \/ \E c \in Callers : Flushes(c) \/ Puts(c) \/ TimesOut(c) \/ Returns(c)

TelSpec == TelInit /\ [][TelNext]_telVars

----------------------------------------------------------------------------

\* The events that are still to be appended.
Unwritten == {e \in Events : writer.event = e \/ \E n \in 1 .. Len(queue) : queue[n] = e}

\* A flush that answers true answers for every event noted before it: each was appended or
\* given up, none is still on its way.  Both files hold the events in the order they were
\* noted, each once.
FlushMeansHandled ==
    /\ \A c \in Callers : flushes[c].pc = "true" => \A e \in Unwritten : e > flushes[c].before
    /\ \A f \in Files : \A i, j \in 1 .. Len(files[f]) : i < j => files[f][i] < files[f][j]

----------------------------------------------------------------------------
(* Why: the inductive invariant *)

\* Events leave the queue in the order they were noted, each once: what waits is later
\* than what the writer is at, and that than what the files hold.
OneOrder ==
    /\ \A i, j \in 1 .. Len(queue) :
          queue[i] \in Events /\ queue[j] \in Events /\ i < j => queue[i] < queue[j]
    /\ \A n \in 1 .. Len(queue) :
          queue[n] \in Events => queue[n] <= noted /\ writer.event < queue[n]
    /\ writer.event <= noted
    /\ \A f \in Files : \A i \in 1 .. Len(files[f]) :
          /\ files[f][i] <= noted
          /\ \A n \in 1 .. Len(queue) : queue[n] \in Events => files[f][i] < queue[n]
          /\ writer.file = "private" \/ writer.file = f => files[f][i] < writer.event
          /\ writer.file = "shared" => files[f][i] <= writer.event

\* A request is put behind every event noted before its flush, once, while a writer runs.
RequestsBehind ==
    /\ writer = NoEvent => queue = <<>> /\ \A c \in Callers : flushes[c].pc \notin {"puts", "waits"}
    /\ \A c \in Callers :
          /\ flushes[c].before <= noted
          /\ flushes[c].pc = "puts" => /\ ~flushes[c].set
                                       /\ \A n \in 1 .. Len(queue) : queue[n] # c
          /\ flushes[c].pc = "waits" =>
                \A n, m \in 1 .. Len(queue) :
                    queue[n] = c /\ n < m /\ queue[m] \in Events => queue[m] > flushes[c].before
          /\ flushes[c].pc = "waits" /\ flushes[c].set =>
                \A e \in Unwritten : e > flushes[c].before

TelInv == TelTypeOK /\ OneOrder /\ RequestsBehind /\ FlushMeansHandled
=============================================================================
