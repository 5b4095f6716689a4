----------------------------- MODULE EventFile -----------------------------
(***************************************************************************)
(* What a reader of monitor.events.jsonl may rely on, and no more: the     *)
(* file of one Job grows by whole lines, or is left with a torn one that   *)
(* the next line is glued to; the shells of the Job come one after the     *)
(* other; the lines of a shell are a prefix of its start, its queries in   *)
(* the order Impala got them, and its end.  ImpalaShell implements this;   *)
(* MonitorService reads it.                                                *)
(***************************************************************************)
EXTENDS Naturals, Sequences

CONSTANTS
    CallCount,    \* orchestrator calls of the Job
    MaxLines,     \* lines that fit in the event file (MONITOR_EVENTS_MAX_BYTES)
    MaxQueries    \* bound: queries submitted in a behavior

ASSUME EventFileAssumption ==
    /\ CallCount \in Nat \ {0}
    /\ MaxLines \in Nat \ {0}
    /\ MaxQueries \in Nat

VARIABLES
    log,      \* complete lines, oldest first
    tail,     \* "clean", or "torn": a line without its newline ends the file
    query,    \* what Impala knows: one record per query, in the order it got them
    life      \* "on" while something may write, "over" once the Job has ended

fileVars == <<log, tail, query, life>>

QueryIds == 1 .. MaxQueries
EventTypes == {"shell_started", "query_discovered", "query_retried", "shell_finished"}
Event == [type : EventTypes \cup {"garbage"}, call : 1 .. CallCount,
          shell : Nat \ {0}, query : 0 .. MaxQueries]
QueryRecord == [call : 1 .. CallCount, shell : Nat \ {0},
                how : {"query_discovered", "query_retried"},
                state : {"running", "finished", "exception", "retried"}]

FileTypeOK ==
    /\ log \in Seq(Event) /\ Len(log) <= MaxLines
    /\ tail \in {"clean", "torn"}
    /\ query \in Seq(QueryRecord) /\ Len(query) <= MaxQueries
    /\ life \in {"on", "over"}

Line(type, c, s, q) == [type |-> type, call |-> c, shell |-> s, query |-> q]

\* The file after a whole line was appended: it is glued to a torn tail.
Appended(line) ==
    Append(log, IF tail = "torn" THEN [line EXCEPT !.type = "garbage", !.query = 0] ELSE line)

Newest(records) == IF records = <<>> THEN 0 ELSE records[Len(records)].shell
LastShell == IF Newest(log) > Newest(query) THEN Newest(log) ELSE Newest(query)

Logged(s) == {log[i].query : i \in {j \in 1 .. Len(log) : log[j].shell = s}}
OwnQueries(s) == {q \in 1 .. Len(query) : query[q].shell = s}

\* Shell s of call c writes its start, its next query, or its end.
Follows(line, c, s) ==
    \/ line = Line("shell_started", c, s, 0) /\ Newest(log) < s
    \/ /\ log # <<>> /\ log[Len(log)].shell = s /\ log[Len(log)].type # "shell_finished"
       /\ \/ \E q \in OwnQueries(s) : line = Line(query[q].how, c, s, q)
          \/ line = Line("shell_finished", c, s, 0)

Writes(c, s) ==
    /\ life = "on" /\ Len(log) < MaxLines
    /\ \E type \in EventTypes, q \in 0 .. MaxQueries :
         /\ Follows(Line(type, c, s, q), c, s)
         /\ q # 0 => \A o \in Logged(s) : o < q
         /\ log' = Appended(Line(type, c, s, q))
    /\ tail' = "clean"
    /\ UNCHANGED <<query, life>>

Tears ==
    /\ life = "on" /\ tail' = "torn"
    /\ UNCHANGED <<log, query, life>>

Finished(s) == \E i \in 1 .. Len(log) : log[i].shell = s /\ log[i].type = "shell_finished"

\* A shell belongs to one call.
Owns(c, s) == /\ \A i \in 1 .. Len(log) : log[i].shell = s => log[i].call = c
              /\ \A q \in OwnQueries(s) : query[q].call = c

Submit(c, s, how, others) ==
    query' = Append(others, [call |-> c, shell |-> s, how |-> how, state |-> "running"])

\* A shell submits a statement; Impala may retry it under a new identity.
Submits(c, s) ==
    /\ life = "on" /\ Len(query) < MaxQueries
    /\ s >= LastShell /\ ~Finished(s)
    /\ \/ Submit(c, s, "query_discovered", query)
       \/ \E q \in OwnQueries(s) :
            /\ query[q].state = "running"
            /\ Submit(c, s, "query_retried", [query EXCEPT ![q].state = "retried"])
    /\ UNCHANGED <<log, tail, life>>

Ends == life = "on" /\ life' = "over" /\ tail' \in {tail, "torn"} /\ UNCHANGED <<log, query>>

\* Impala: a query ends.
QueryEnds(q, state) ==
    /\ query[q].state = "running"
    /\ query' = [query EXCEPT ![q].state = state]
    /\ UNCHANGED <<log, tail, life>>

Impala == \E q \in 1 .. Len(query), st \in {"finished", "exception"} : QueryEnds(q, st)

FileInit == log = <<>> /\ tail = "clean" /\ query = <<>> /\ life = "on"

\* Shell identities are uuid4: any that is not older than the last.
Ids == LastShell .. LastShell + 1

FileNext ==
    \/ \E c \in 1 .. CallCount, s \in Ids \ {0} : Owns(c, s) /\ (Writes(c, s) \/ Submits(c, s))
    \/ Tears \/ Ends \/ Impala

FileSpec == FileInit /\ [][FileNext]_fileVars
=============================================================================
