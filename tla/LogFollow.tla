----------------------------- MODULE LogFollow -----------------------------
(***************************************************************************)
(* Two readers of a Job's run.log: the log pane of screens/job_detail.py   *)
(* and job_ops.follow_logs of the CLI.  The runner and the orchestrators   *)
(* append; the pane polls a chunk at a time and keeps the last lines, the  *)
(* CLI prints a tail and then follows until the Job is terminal.  A        *)
(* cancelled Job is terminal while its orchestrator still dies, and writes.*)
(***************************************************************************)
EXTENDS Naturals, Sequences, SequencesExt

CONSTANTS
    Chars,          \* what a byte of the log may be, other than an end of line
    Readers,        \* subset of {"pane", "follow"}
    MaxBytes,       \* bound: bytes of run.log
    MaxRotations,   \* bound: times the log is truncated
    Chunk,          \* LOG_READ_CHUNK_BYTES
    ViewLines,      \* LOG_VIEW_LINES, the lines the pane keeps
    TailLines       \* --lines, what the CLI prints first

ASSUME LogBounds ==
    /\ Readers \subseteq {"pane", "follow"} /\ "nl" \notin Chars
    /\ {Chunk, ViewLines, TailLines} \subseteq Nat \ {0} /\ {MaxBytes, MaxRotations} \subseteq Nat

VARIABLES
    runLog,      \* the bytes of run.log
    jobLife,     \* "dying": the manifest is terminal, and the orchestrator still writes
    sealed,      \* how long the log was when the manifest became terminal
    epoch,       \* how often the log was truncated
    reader       \* _tail_offset, _tail_pending_bytes, _tail_lines, _evicted_line_count

logVars == <<runLog, jobLife, sealed, epoch, reader>>

LogTypeOK ==
    /\ runLog \in BoundedSeq(Chars \cup {"nl"}, MaxBytes)
    /\ jobLife \in {"live", "dying", "over"}
    /\ sealed \in 0 .. MaxBytes /\ epoch \in 0 .. MaxRotations
    /\ reader \in [kind : {"pane", "follow"},
                   pc : {"start", "idle", "sizes", "reads", "returned"},
                   saw : BOOLEAN, size : 0 .. MaxBytes, offset : 0 .. MaxBytes,
                   pending : BoundedSeq(Chars, MaxBytes),
                   lines : Seq(BoundedSeq(Chars, MaxBytes)), hidden : 0 .. 2 * MaxBytes,
                   cuts : SUBSET (0 .. MaxBytes), epoch : 0 .. MaxRotations]

IsTerminal == jobLife # "live"

----------------------------------------------------------------------------
(* The writers *)

Appends(b) ==
    /\ jobLife # "over" /\ Len(runLog) < MaxBytes
    /\ runLog' = Append(runLog, b) /\ UNCHANGED <<jobLife, sealed, epoch, reader>>

\* The runner writes Succeeded or Failed when its calls are over, Cancelled before it
\* stops the call that runs.
RunnerMoves ==
    /\ \/ jobLife = "live" /\ jobLife' \in {"dying", "over"} /\ sealed' = Len(runLog)
       \/ jobLife = "dying" /\ jobLife' = "over" /\ UNCHANGED sealed
    /\ UNCHANGED <<runLog, epoch, reader>>

Rotates ==
    /\ runLog # <<>> /\ epoch < MaxRotations
    /\ runLog' = <<>> /\ sealed' = 0 /\ epoch' = epoch + 1 /\ UNCHANGED <<jobLife, reader>>

----------------------------------------------------------------------------
(* split(b"\n"): the lines that bytes complete after `pending`, and the rest *)

Joined(a, b) ==
    IF b = "nl" THEN [lines |-> Append(a.lines, a.rest), rest |-> <<>>]
    ELSE [a EXCEPT !.rest = Append(@, b)]

Split(pending, bytes) == FoldLeft(Joined, [lines |-> <<>>, rest |-> pending], bytes)

\* The unterminated line is given away as a line of its own.
Flushed(split, now) ==
    IF now /\ split.rest # <<>>
    THEN [lines |-> Append(split.lines, split.rest), rest |-> <<>>] ELSE split

----------------------------------------------------------------------------
(* _refresh_detail_async: state, then size, then one chunk; the in-flight flag keeps the
   next refresh from starting before the snapshot is applied. *)

Looks ==
    /\ reader.pc = "idle"
    /\ reader' = [reader EXCEPT !.pc = "sizes", !.saw = IsTerminal]
    /\ UNCHANGED <<runLog, jobLife, sealed, epoch>>

Sizes ==
    /\ reader.pc = "sizes"
    /\ reader' = [reader EXCEPT !.pc = "reads", !.size = Len(runLog),
                                !.epoch = IF Len(runLog) < reader.offset THEN epoch ELSE @]
    /\ UNCHANGED <<runLog, jobLife, sealed, epoch>>

\* Mutant: the log shrank, and the line that was held back stays.
ReopenedWithPending ==
    IF reader.size < reader.offset
    THEN [reader EXCEPT !.offset = 0, !.lines = <<>>, !.hidden = 0, !.cuts = {}]
    ELSE reader

\* The log shrank: what was read of it is forgotten.
Reopened == IF reader.size < reader.offset
         THEN [reader EXCEPT !.offset = 0, !.pending = <<>>, !.lines = <<>>, !.hidden = 0,
                             !.cuts = {}]
         ELSE reader

\* The bytes from the offset to `end`, or to the end of the file.
ReadTo(end) ==
    SubSeq(runLog, Reopened.offset + 1, IF end < Len(runLog) THEN end ELSE Len(runLog))

Takes(bytes, flush, pc, view) ==
    LET offset == Reopened.offset + Len(bytes)
        split == Flushed(Split(Reopened.pending, bytes), flush)
        lines == Reopened.lines \o split.lines
        over == IF Len(lines) > view THEN Len(lines) - view ELSE 0
    IN reader' = [Reopened EXCEPT
            !.pc = pc, !.saw = FALSE, !.size = 0, !.offset = offset, !.pending = split.rest,
            !.lines = SubSeq(lines, over + 1, Len(lines)), !.hidden = @ + over,
            !.cuts = IF flush THEN @ \cup {offset} ELSE @]

PaneReads ==
    /\ reader.pc = "reads" /\ reader.kind = "pane"
    /\ LET more == reader.size > Reopened.offset
           bytes == IF more THEN ReadTo(Reopened.offset + Chunk) ELSE <<>>
           flush == reader.saw /\ Reopened.offset + Len(bytes) = reader.size
       IN Takes(bytes, flush, "idle", ViewLines)
    /\ UNCHANGED <<runLog, jobLife, sealed, epoch>>

----------------------------------------------------------------------------
(* follow_logs *)

\* read_log_tail_with_offset: the last lines of a snapshot, a started line among them.
Tails ==
    /\ reader.pc = "start"
    /\ LET all == Flushed(Split(<<>>, runLog), TRUE).lines
           over == IF Len(all) > TailLines THEN Len(all) - TailLines ELSE 0
       IN reader' = [reader EXCEPT
               !.pc = "idle", !.offset = Len(runLog), !.lines = SubSeq(all, over + 1, Len(all)),
               !.hidden = over, !.cuts = {Len(runLog)}, !.epoch = epoch]
    /\ UNCHANGED <<runLog, jobLife, sealed, epoch>>

\* One round: everything to the end of the file, which may be past the size that was seen.
FollowReads ==
    /\ reader.pc = "reads" /\ reader.kind = "follow"
    /\ LET more == reader.size > Reopened.offset
           bytes == IF more THEN ReadTo(Len(runLog)) ELSE <<>>
           ends == reader.saw /\ (~more \/ Split(Reopened.pending, bytes).rest # <<>>)
       IN Takes(bytes, ends, IF ends THEN "returned" ELSE "idle", 2 * MaxBytes)
    /\ UNCHANGED <<runLog, jobLife, sealed, epoch>>

----------------------------------------------------------------------------

LogInit ==
    /\ runLog = <<>> /\ jobLife = "live" /\ sealed = 0 /\ epoch = 0
    /\ reader \in [kind : Readers, pc : {"start"}, saw : {FALSE}, size : {0}, offset : {0},
                   pending : {<<>>}, lines : {<<>>}, hidden : {0}, cuts : {{}}, epoch : {0}]

\* The pane starts with an empty view, whatever the log holds.
PaneOpens ==
    /\ reader.pc = "start" /\ reader.kind = "pane"
    /\ reader' = [reader EXCEPT !.pc = "idle", !.epoch = epoch]
    /\ UNCHANGED <<runLog, jobLife, sealed, epoch>>

LogNext ==
    \/ \E b \in Chars \cup {"nl"} : Appends(b)
    \/ RunnerMoves \/ Rotates \/ Looks \/ Sizes
    \/ PaneOpens \/ PaneReads
    \/ reader.kind = "follow" /\ Tails
    \/ FollowReads

LogSpec == LogInit /\ [][LogNext]_logVars

----------------------------------------------------------------------------

\* The lines of a log, with a line also ended at each of the given offsets.
LinesOf(bytes, cuts) ==
    LET upTo[n \in 0 .. Len(bytes)] ==
            IF n = 0 THEN [lines |-> <<>>, rest |-> <<>>]
            ELSE LET a == upTo[n - 1]
                     line == IF bytes[n] = "nl" THEN a.rest ELSE Append(a.rest, bytes[n])
                 IN IF bytes[n] = "nl" \/ n \in cuts
                    THEN [lines |-> Append(a.lines, line), rest |-> <<>>]
                    ELSE [lines |-> a.lines, rest |-> line]
    IN upTo[Len(bytes)]

ShowsTheLog ==
    LET all == LinesOf(SubSeq(runLog, 1, reader.offset), reader.cuts)
    IN /\ reader.pending = all.rest
       /\ reader.hidden + Len(reader.lines) = Len(all.lines)
       /\ \A i \in 1 .. Len(reader.lines) : reader.lines[i] = all.lines[reader.hidden + i]

\* What a reader shows is the log up to its offset, whole and in order, each line once:
\* the first lines may be out of view and counted as such, the last one held back until
\* it is finished or the Job is over.  A follower returns with all that was written when
\* the Job became terminal.
LogIsWhole ==
    reader.epoch = epoch /\ reader.pc \in {"idle", "returned"} =>
        /\ ShowsTheLog
        /\ reader.pc = "returned" => reader.offset >= sealed /\ reader.pending = <<>>

\* cli_job.py on --follow: "Follow until the Job is terminal and remaining log bytes are
\* emitted."  Nothing is written after the follower returned.
FollowEmitsAll ==
    [][reader.pc = "returned" /\ reader.epoch = epoch' => runLog' = runLog]_logVars

----------------------------------------------------------------------------
(* Why the log is whole: the inductive invariant *)

\* Every line took a byte at least, whatever became of the file.
LinesTookBytes ==
    /\ reader.hidden + Len(reader.lines) + Len(reader.pending) <= reader.offset
    /\ reader.pc = "start" => reader.offset = 0 /\ reader.cuts = {}

\* In a log that was not truncated, a reader is true to it unless it is about to begin
\* anew; one that saw the Job end has seen a size that covers what had been written then.
TrueToTheLog ==
    reader.epoch = epoch =>
        /\ reader.pc # "reads" \/ reader.offset <= reader.size =>
              /\ reader.offset <= Len(runLog) /\ reader.cuts \subseteq 0 .. reader.offset
              /\ ShowsTheLog
        /\ reader.pc = "reads" => reader.size <= Len(runLog)
        /\ reader.pc = "reads" /\ reader.saw => sealed <= reader.size
        /\ reader.pc = "returned" => reader.offset >= sealed /\ reader.pending = <<>>

LogInv ==
    /\ LogTypeOK /\ LinesTookBytes /\ TrueToTheLog
    /\ sealed <= Len(runLog) /\ reader.epoch <= epoch
    /\ reader.saw \/ reader.pc = "returned" => IsTerminal
=============================================================================
