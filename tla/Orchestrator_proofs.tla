------------------------- MODULE Orchestrator_proofs -------------------------
(***************************************************************************)
(* Theorems about ImpalaShell and Orchestrator: what the event file keeps, *)
(* step by step, what an export may leave behind, and what replaces a CSV, *)
(* for any number of calls, pools, rounds, lines and queries, whichever    *)
(* shells fail to write.                                                   *)
(***************************************************************************)
EXTENDS Orchestrator, TLAPS

ShellRecords == [pc : ShellPcs, call : 1 .. CallCount, id : Nat \ {0},
                 writer : {"open", "closed"}, rc : {"none", "zero", "nonzero"}]

LEMMA AppendFacts ==
    ASSUME NEW S, NEW s \in Seq(S), NEW e \in S
    PROVE  /\ Append(s, e) \in Seq(S) /\ Append(s, e) # <<>>
           /\ Len(Append(s, e)) = Len(s) + 1
           /\ Append(s, e)[Len(Append(s, e))] = e
           /\ Append(s, e)[Len(s) + 1] = e
           /\ \A i \in 1 .. Len(s) : Append(s, e)[i] = s[i]
OBVIOUS

LEMMA SeqFacts ==
    ASSUME NEW S, NEW s \in Seq(S)
    PROVE  /\ Len(s) \in Nat
           /\ s # <<>> => Len(s) \in 1 .. Len(s)
           /\ \A i \in 1 .. Len(s) : s[i] \in S
OBVIOUS

LEMMA EventFields ==
    ASSUME NEW e \in File!Event
    PROVE  /\ e.shell \in Nat \ {0} /\ e.call \in 1 .. CallCount
           /\ e.query \in 0 .. MaxQueries /\ e.type \in File!EventTypes \cup {"garbage"}
BY DEF File!Event

LEMMA QueryFields ==
    ASSUME NEW r \in File!QueryRecord
    PROVE  /\ r.shell \in Nat \ {0} /\ r.call \in 1 .. CallCount
           /\ r.how \in {"query_discovered", "query_retried"}
           /\ r.state \in {"running", "finished", "exception", "retried"}
BY DEF File!QueryRecord

LEMMA OrchTypeUnfolds ==
    ShellTypeOK <=> /\ log \in Seq(File!Event) /\ Len(log) <= MaxLines
                    /\ tail \in {"clean", "torn"}
                    /\ query \in Seq(File!QueryRecord) /\ Len(query) <= MaxQueries
                    /\ shell \in ShellRecords
                    /\ pipe \in Seq(1 .. MaxQueries)
BY DEF ShellTypeOK, File!FileTypeOK, ShellRecords, File!QueryIds

LEMMA TypeUnfoldsNext ==
    ShellTypeOK' <=> /\ log' \in Seq(File!Event) /\ Len(log') <= MaxLines
                     /\ tail' \in {"clean", "torn"}
                     /\ query' \in Seq(File!QueryRecord) /\ Len(query') <= MaxQueries
                     /\ shell' \in ShellRecords
                     /\ pipe' \in Seq(1 .. MaxQueries)
BY DEF ShellTypeOK, File!FileTypeOK, ShellRecords, File!QueryIds

LEMMA PipeFacts ==
    ASSUME ShellTypeOK
    PROVE  \A i \in 1 .. Len(pipe) : pipe[i] \in 1 .. MaxQueries /\ pipe[i] \in Nat
<1>1. pipe \in Seq(1 .. MaxQueries) /\ MaxQueries \in Nat
  BY OrchTypeUnfolds, ShellAssumption
<1>2. QED
  BY <1>1

LEMMA LineFields ==
    ASSUME NEW t \in File!EventTypes, NEW c \in 1 .. CallCount, NEW s \in Nat \ {0},
           NEW q \in 0 .. MaxQueries
    PROVE  /\ File!Line(t, c, s, q) \in File!Event
           /\ File!Line(t, c, s, q).shell = s /\ File!Line(t, c, s, q).call = c
           /\ File!Line(t, c, s, q).type = t /\ File!Line(t, c, s, q).query = q
BY DEF File!Line, File!Event

\* What a line is once it is in the file.
LEMMA AppendedLine ==
    ASSUME NEW line \in File!Event
    PROVE  \E e \in File!Event :
              /\ File!Appended(line) = Append(log, e)
              /\ e.shell = line.shell /\ e.call = line.call
              /\ \/ e = line
                 \/ e.type = "garbage" /\ e.query = 0
<1> DEFINE noise == [line EXCEPT !.type = "garbage"]
<1>1. /\ noise \in File!Event /\ noise.shell = line.shell /\ noise.call = line.call
      /\ noise.type = "garbage"
  BY DEF File!Event
<1> DEFINE glued == [noise EXCEPT !.query = 0]
<1>2. [line EXCEPT !.type = "garbage", !.query = 0] = glued
  BY DEF File!Event
<1> HIDE DEF noise
<1>3. /\ glued \in File!Event /\ glued.shell = line.shell /\ glued.call = line.call
      /\ glued.type = "garbage" /\ glued.query = 0
  BY <1>1, ShellAssumption DEF File!Event
<1>4. File!Appended(line) = Append(log, IF tail = "torn" THEN glued ELSE line)
  BY <1>2 DEF File!Appended
<1> HIDE DEF glued
<1>5. QED
  BY <1>3, <1>4

LEMMA NewestNat ==
    ASSUME ShellTypeOK
    PROVE  /\ File!Newest(log) \in Nat /\ File!Newest(query) \in Nat
           /\ File!LastShell \in Nat
           /\ File!Newest(log) <= File!LastShell /\ File!Newest(query) <= File!LastShell
           /\ File!LastShell \in {File!Newest(log), File!Newest(query)}
<1>1. File!Newest(log) \in Nat
  BY OrchTypeUnfolds, SeqFacts, EventFields DEF File!Newest
<1>2. File!Newest(query) \in Nat
  BY OrchTypeUnfolds, SeqFacts, QueryFields DEF File!Newest
<1> HIDE DEF File!Newest
<1>3. QED
  BY <1>1, <1>2 DEF File!LastShell

LEMMA IdsUnfold ==
    ASSUME ShellTypeOK, NEW s
    PROVE  s \in File!Ids <=> s \in Nat /\ s \in {File!LastShell, File!LastShell + 1}
BY NewestNat DEF File!Ids

\* A shell that is not older than the file is the newest once it wrote a line.
LEMMA LogGrows ==
    ASSUME ShellTypeOK, NEW e \in File!Event, log' = Append(log, e), query' = query,
           e.shell \in File!Ids
    PROVE  File!LastShell' = e.shell
<1>1. File!Newest(log') = e.shell
  BY OrchTypeUnfolds, AppendFacts DEF File!Newest
<1>2. File!Newest(query') = File!Newest(query)
  OBVIOUS
<1> HIDE DEF File!Newest
<1>3. File!Newest(query) \in Nat /\ File!Newest(query) <= e.shell /\ e.shell \in Nat
  BY NewestNat, IdsUnfold
<1>4. QED
  BY <1>1, <1>2, <1>3 DEF File!LastShell


\* Impala's records in the same order, up to their states.
SameQueries(a, b) ==
    /\ Len(a) = Len(b)
    /\ \A i \in 1 .. Len(b) : a[i].shell = b[i].shell /\ a[i].call = b[i].call /\ a[i].how = b[i].how

LEMMA QueryGrows ==
    ASSUME ShellTypeOK, NEW r \in File!QueryRecord, NEW others \in Seq(File!QueryRecord),
           query' = Append(others, r), log' = log, r.shell \in File!Ids
    PROVE  File!LastShell' = r.shell
<1>1. File!Newest(query') = r.shell
  BY AppendFacts DEF File!Newest
<1>2. File!Newest(log') = File!Newest(log)
  OBVIOUS
<1> HIDE DEF File!Newest
<1>3. File!Newest(log) \in Nat /\ File!Newest(log) <= r.shell /\ r.shell \in Nat
  BY NewestNat, IdsUnfold
<1>4. QED
  BY <1>1, <1>2, <1>3 DEF File!LastShell

-------------------------------------------------------------------------------
(* One write *)

\* The line is in the file, or the writer is silent and the tail may be torn.
LEMMA WritesEffect ==
    ASSUME ShellTypeOK, NEW s \in ShellRecords, NEW line, Writes(s, line)
    PROVE  \/ /\ Len(log) < MaxLines /\ s.writer = "open"
              /\ log' = File!Appended(line) /\ tail' = "clean" /\ shell' = s
           \/ /\ log' = log /\ tail' \in {tail, "torn"}
              /\ shell' \in ShellRecords /\ shell'.writer = "closed"
              /\ shell'.pc = s.pc /\ shell'.call = s.call /\ shell'.id = s.id /\ shell'.rc = s.rc
<1>1. Len(log) \in Nat
  BY OrchTypeUnfolds, SeqFacts
<1>2. ~Full <=> Len(log) < MaxLines
  BY <1>1, ShellAssumption DEF Full
<1>3. /\ [s EXCEPT !.writer = "closed"] \in ShellRecords
      /\ [s EXCEPT !.writer = "closed"].writer = "closed"
      /\ [s EXCEPT !.writer = "closed"].pc = s.pc /\ [s EXCEPT !.writer = "closed"].id = s.id
      /\ [s EXCEPT !.writer = "closed"].call = s.call /\ [s EXCEPT !.writer = "closed"].rc = s.rc
  BY DEF ShellRecords
<1>4. QED
  BY <1>2, <1>3 DEF Writes

\* A write by a shell not older than the file.
LEMMA WritesLog ==
    ASSUME ShellTypeOK, IdsGrow, query' = query,
           NEW s \in ShellRecords, NEW t \in File!EventTypes, NEW q \in 0 .. Len(query),
           Writes(s, File!Line(t, s.call, s.id, q)),
           s.id \in File!Ids, File!Owns(s.call, s.id)
    PROVE  /\ log' \in Seq(File!Event) /\ Len(log') <= MaxLines
           /\ tail' \in {"clean", "torn"} /\ shell' \in ShellRecords
           /\ shell'.pc = s.pc /\ shell'.call = s.call /\ shell'.id = s.id /\ shell'.rc = s.rc
           /\ IdsGrow' /\ File!Owns(s.call, s.id)'
           /\ File!Finished(s.id)' => File!Finished(s.id) \/ t = "shell_finished"
           /\ File!Logged(s.id)' \subseteq File!Logged(s.id) \cup {q, 0}
           /\ shell'.writer = "open" => s.writer = "open" /\ log' # <<>> /\ log'[Len(log')].shell = s.id
<1> DEFINE line == File!Line(t, s.call, s.id, q)
<1>0. /\ log \in Seq(File!Event) /\ query \in Seq(File!QueryRecord) /\ Len(log) \in Nat
      /\ Len(log) <= MaxLines /\ MaxLines \in Nat /\ tail \in {"clean", "torn"}
      /\ s.id \in Nat \ {0} /\ s.call \in 1 .. CallCount
      /\ Len(query) \in Nat /\ Len(query) <= MaxQueries /\ q \in 0 .. MaxQueries
  BY OrchTypeUnfolds, SeqFacts, ShellAssumption DEF ShellRecords
<1>1. line \in File!Event /\ line.shell = s.id /\ line.call = s.call /\ line.type = t /\ line.query = q
  BY <1>0, LineFields
<1> HIDE DEF line
<1>2. CASE /\ Len(log) < MaxLines /\ s.writer = "open"
           /\ log' = File!Appended(line) /\ tail' = "clean" /\ shell' = s
  <2>1. PICK e \in File!Event : /\ log' = Append(log, e) /\ e.shell = s.id /\ e.call = s.call
                                /\ e.type \in {t, "garbage"} /\ e.query \in {q, 0}
    BY <1>1, <1>2, AppendedLine
  <2>2. /\ log' \in Seq(File!Event) /\ Len(log') = Len(log) + 1 /\ log' # <<>>
        /\ log'[Len(log')] = e /\ log'[Len(log) + 1] = e
        /\ \A i \in 1 .. Len(log) : log'[i] = log[i]
    BY <1>0, <2>1, AppendFacts
  <2>3. \A i \in 1 .. Len(log') : i \in 1 .. Len(log) \/ i = Len(log) + 1
    BY <1>0, <2>2
  <2>4. File!LastShell' = s.id
    BY <2>1, LogGrows
  <2>5. File!LastShell \in Nat /\ File!LastShell <= s.id
    BY <1>0, IdsUnfold, NewestNat
  <2>6. IdsGrow'
    <3>0. \A i \in 1 .. Len(log') : log'[i].query <= Len(query')
      BY <1>0, <2>1, <2>2, <2>3, SeqFacts, EventFields DEF IdsGrow
    <3>1. \A i \in 1 .. Len(log') : log'[i].shell <= s.id
      BY <1>0, <2>1, <2>2, <2>3, <2>5, SeqFacts, EventFields DEF IdsGrow
    <3>2. \A i \in 1 .. Len(query') : query'[i].shell <= s.id
      BY <1>0, <2>5, SeqFacts, QueryFields DEF IdsGrow
    <3>3. shell'.id \in File!Ids'
      BY <1>0, <1>2, <2>4 DEF File!Ids
    <3>4. QED
      BY <2>4, <3>0, <3>1, <3>2, <3>3 DEF IdsGrow
  <2>7. File!Owns(s.call, s.id)'
    BY <2>1, <2>2, <2>3 DEF File!Owns, File!OwnQueries
  <2>8. File!Finished(s.id)' => File!Finished(s.id) \/ t = "shell_finished"
    BY <2>1, <2>2, <2>3 DEF File!Finished
  <2>9. File!Logged(s.id)' \subseteq File!Logged(s.id) \cup {q, 0}
    BY <2>1, <2>2, <2>3 DEF File!Logged
  <2>10. QED
    BY <1>0, <1>2, <2>1, <2>2, <2>6, <2>7, <2>8, <2>9
<1>3. CASE /\ log' = log /\ tail' \in {tail, "torn"}
           /\ shell' \in ShellRecords /\ shell'.writer = "closed"
           /\ shell'.pc = s.pc /\ shell'.call = s.call /\ shell'.id = s.id /\ shell'.rc = s.rc
  <2>1. File!LastShell' = File!LastShell
    BY <1>3 DEF File!LastShell, File!Newest
  <2>2. IdsGrow'
    BY <1>3, <2>1 DEF IdsGrow, File!Ids
  <2>3. File!Owns(s.call, s.id)' /\ File!Finished(s.id)' = File!Finished(s.id)
        /\ File!Logged(s.id)' = File!Logged(s.id)
    BY <1>3 DEF File!Owns, File!OwnQueries, File!Finished, File!Logged
  <2>4. QED
    BY <1>0, <1>3, <2>2, <2>3
<1>4. QED
  BY <1>2, <1>3, WritesEffect DEF line

\* The same write, as a reader of the file sees it.
LEMMA WritesRefines ==
    ASSUME ShellTypeOK, query' = query, shell.pc # "dead",
           NEW s \in ShellRecords, s.pc # "dead",
           NEW t \in File!EventTypes, NEW q \in 0 .. MaxQueries,
           Writes(s, File!Line(t, s.call, s.id, q)),
           s.id \in File!Ids, File!Owns(s.call, s.id),
           s.writer = "open" => File!Follows(File!Line(t, s.call, s.id, q), s.call, s.id),
           q # 0 => \A o \in File!Logged(s.id) : o < q
    PROVE  [File!FileNext]_(File!fileVars)
<1>1. CASE /\ Len(log) < MaxLines /\ s.writer = "open"
           /\ log' = File!Appended(File!Line(t, s.call, s.id, q)) /\ tail' = "clean" /\ shell' = s
  <2>1. File!Writes(s.call, s.id)
    BY <1>1 DEF File!Writes
  <2>2. s.call \in 1 .. CallCount /\ s.id \in File!Ids \ {0}
    BY DEF ShellRecords
  <2>3. QED
    BY <2>1, <2>2 DEF File!FileNext
<1>2. CASE /\ log' = log /\ tail' \in {tail, "torn"} /\ shell'.pc = s.pc
  <2>1. File!Tears \/ UNCHANGED File!fileVars
    BY <1>2 DEF File!Tears, File!fileVars
  <2>2. QED
    BY <2>1 DEF File!FileNext
<1>3. QED
  BY <1>1, <1>2, WritesEffect


-------------------------------------------------------------------------------
(* run_impala_shell *)

\* A step that changes neither the file nor Impala's records.
LEMMA FileKept ==
    ASSUME UNCHANGED <<log, query>>
    PROVE  /\ File!LastShell' = File!LastShell /\ File!Ids' = File!Ids
           /\ \A c, s : /\ File!Owns(c, s)' <=> File!Owns(c, s)
                        /\ File!Finished(s)' <=> File!Finished(s)
                        /\ File!Logged(s)' = File!Logged(s)
                        /\ File!OwnQueries(s)' = File!OwnQueries(s)
BY DEF File!LastShell, File!Newest, File!Ids, File!Owns, File!Finished, File!Logged,
       File!OwnQueries

LEMMA StartShellStep ==
    ASSUME ShellInv, NEW c \in 1 .. CallCount, StartShell(c)
    PROVE  ShellInv' /\ [File!FileNext]_(File!fileVars)
<1>a. PICK s : s = [pc |-> "starting", call |-> c, id |-> FreshShell, writer |-> "open",
                    rc |-> "none"]
  OBVIOUS
<1>0. /\ ShellTypeOK /\ IdsGrow /\ pipe = <<>> /\ shell.pc # "dead"
      /\ Writes(s, File!Line("shell_started", c, s.id, 0)) /\ pipe' = pipe /\ query' = query
  BY <1>a DEF StartShell, ShellInv, PipeInOrder
<1>1. /\ log \in Seq(File!Event) /\ query \in Seq(File!QueryRecord) /\ FreshShell \in Nat \ {0}
      /\ FreshShell \in File!Ids /\ Len(query) <= MaxQueries
  BY <1>0, OrchTypeUnfolds, NewestNat, IdsUnfold DEF FreshShell
<1>2. /\ s \in ShellRecords /\ s.pc = "starting" /\ s.call = c /\ s.id = FreshShell
      /\ s.writer = "open" /\ s.rc = "none"
  BY <1>a, <1>1 DEF ShellRecords, ShellPcs
<1>3. /\ \A i \in 1 .. Len(log) : log[i].shell # FreshShell
      /\ \A q \in 1 .. Len(query) : query[q].shell # FreshShell
  <2>1. File!LastShell \in Nat
    BY <1>0, NewestNat
  <2>2. ASSUME NEW i \in 1 .. Len(log) PROVE log[i].shell # FreshShell
    BY <1>0, <1>1, <2>1, SeqFacts, EventFields DEF IdsGrow, FreshShell
  <2>3. ASSUME NEW q \in 1 .. Len(query) PROVE query[q].shell # FreshShell
    BY <1>0, <1>1, <2>1, SeqFacts, QueryFields DEF IdsGrow, FreshShell
  <2>4. QED
    BY <2>2, <2>3
<1>4. File!Owns(s.call, s.id) /\ ~File!Finished(s.id) /\ File!OwnQueries(s.id) = {}
  BY <1>2, <1>3 DEF File!Owns, File!Finished, File!OwnQueries
<1>5. "shell_started" \in File!EventTypes /\ 0 \in 0 .. MaxQueries
  BY ShellAssumption DEF File!EventTypes
<1>6. Writes(s, File!Line("shell_started", s.call, s.id, 0))
  BY <1>0, <1>2
<1>7. /\ log' \in Seq(File!Event) /\ Len(log') <= MaxLines
      /\ tail' \in {"clean", "torn"} /\ shell' \in ShellRecords
      /\ shell'.pc = s.pc /\ shell'.call = s.call /\ shell'.id = s.id /\ shell'.rc = s.rc
      /\ IdsGrow' /\ File!Owns(s.call, s.id)' /\ ~File!Finished(s.id)'
      /\ shell'.writer = "open" => log' # <<>> /\ log'[Len(log')].shell = s.id
  <2> DEFINE t == "shell_started"
             q == 0
  <2>1. t \in File!EventTypes /\ q \in 0 .. Len(query) /\ t # "shell_finished"
    BY <1>1, <1>5, SeqFacts
  <2>2. Writes(s, File!Line(t, s.call, s.id, q))
    BY <1>6
  <2> HIDE DEF t, q
  <2>3. QED
    BY <1>0, <1>1, <1>2, <1>4, <2>1, <2>2, WritesLog
<1>8. ShellTypeOK'
  <2>1. query' \in Seq(File!QueryRecord) /\ Len(query') <= MaxQueries /\ pipe' \in Seq(1 .. MaxQueries)
    BY <1>0, <1>1
  <2>2. QED
    BY <1>7, <2>1, TypeUnfoldsNext
<1>9. ShellOwnsFile' /\ PipeInOrder' /\ ZeroIsClean'
  <2>1. ShellOwnsFile'
    BY <1>2, <1>7 DEF ShellOwnsFile
  <2>2. PipeInOrder'
    BY <1>0 DEF PipeInOrder
  <2>3. ZeroIsClean'
    BY <1>2, <1>7 DEF ZeroIsClean
  <2>4. QED
    BY <2>1, <2>2, <2>3
<1>10. File!Follows(File!Line("shell_started", s.call, s.id, 0), s.call, s.id)
  <2>1. File!Newest(log) \in Nat /\ File!LastShell \in Nat /\ File!Newest(log) <= File!LastShell
    BY <1>0, NewestNat
  <2>2. File!Newest(log) < s.id
    BY <1>2, <2>1 DEF FreshShell
  <2>3. QED
    BY <2>2 DEF File!Follows
<1>11. [File!FileNext]_(File!fileVars)
  BY <1>0, <1>1, <1>2, <1>4, <1>5, <1>6, <1>10, WritesRefines
<1>12. QED
  BY <1>7, <1>8, <1>9, <1>11 DEF ShellInv

\* The shell changes its stage and nothing else happens to the file.
LEMMA StageStep ==
    ASSUME ShellInv, Popens \/ PopenFails \/ Killed \/ \E rc \in {"zero", "nonzero"} : Exits(rc)
    PROVE  ShellInv' /\ [File!FileNext]_(File!fileVars)
<1>0. /\ ShellTypeOK /\ IdsGrow /\ ShellOwnsFile /\ PipeInOrder /\ ZeroIsClean
      /\ shell \in ShellRecords
  BY OrchTypeUnfolds DEF ShellInv
<1>1. UNCHANGED <<log, query>> /\ tail' \in {tail, "torn"} /\ pipe' \in {pipe, <<>>}
  BY DEF Popens, PopenFails, Killed, Exits
<1>2. /\ shell' \in ShellRecords /\ shell'.call = shell.call /\ shell'.id = shell.id
      /\ shell'.writer = shell.writer
      /\ \/ shell.pc = "starting" /\ shell'.pc \in {"running", "raised"}
            /\ shell'.rc = shell.rc /\ pipe' = pipe
         \/ shell.pc # "dead" /\ shell'.pc = "dead" /\ shell'.rc = shell.rc /\ pipe' = <<>>
         \/ /\ shell.pc = "running" /\ shell'.pc = "exited" /\ pipe' = pipe
            /\ shell'.rc = "zero" =>
                  OwnRunning = {} /\ \A q \in OwnQueries : query[q].state # "exception"
  <2>1. CASE Popens \/ PopenFails \/ Killed
    BY <1>0, <2>1 DEF Popens, PopenFails, Killed, ShellRecords, ShellPcs
  <2>2. ASSUME NEW rc \in {"zero", "nonzero"}, Exits(rc)
        PROVE  /\ shell' \in ShellRecords /\ shell'.call = shell.call /\ shell'.id = shell.id
               /\ shell'.writer = shell.writer
               /\ shell.pc = "running" /\ shell'.pc = "exited" /\ pipe' = pipe
               /\ shell'.rc = "zero" =>
                     OwnRunning = {} /\ \A q \in OwnQueries : query[q].state # "exception"
    <3>1. shell' = [shell EXCEPT !.pc = "exited", !.rc = rc]
      BY <2>2 DEF Exits
    <3>2. /\ shell' \in ShellRecords /\ shell'.call = shell.call /\ shell'.id = shell.id
          /\ shell'.writer = shell.writer /\ shell'.pc = "exited" /\ shell'.rc = rc
      BY <1>0, <3>1 DEF ShellRecords, ShellPcs
    <3>3. QED
      BY <2>2, <3>2 DEF Exits
  <2>3. QED
    BY <2>1, <2>2
<1>3. ShellTypeOK'
  <2>1. pipe' \in Seq(1 .. MaxQueries)
    <3>1. << >> \in Seq(1 .. MaxQueries) /\ pipe \in Seq(1 .. MaxQueries)
      BY <1>0, OrchTypeUnfolds
    <3>2. QED
      BY <1>1, <3>1
  <2>2. tail' \in {"clean", "torn"}
    BY <1>0, <1>1, OrchTypeUnfolds
  <2>3. QED
    BY <1>0, <1>1, <1>2, <2>1, <2>2, OrchTypeUnfolds, TypeUnfoldsNext
<1>4. IdsGrow'
  BY <1>0, <1>1, <1>2, FileKept DEF IdsGrow
<1>5. ShellOwnsFile'
  BY <1>0, <1>1, <1>2, FileKept DEF ShellOwnsFile, Alive
<1>6. PipeInOrder'
  <2>1. CASE pipe' = <<>>
    BY <2>1 DEF PipeInOrder
  <2>2. CASE pipe' = pipe /\ shell.pc \in {"starting", "running"}
    BY <1>0, <1>1, <1>2, <2>2, FileKept DEF PipeInOrder, OwnQueries
  <2>3. QED
    BY <1>2, <2>1, <2>2
<1>7. ZeroIsClean'
  <2>1. ASSUME NEW q \in OwnQueries PROVE query[q].state \in {"running", "finished", "exception", "retried"}
    BY <1>0, <2>1, OrchTypeUnfolds, SeqFacts, QueryFields DEF OwnQueries, File!OwnQueries
  <2>2. QED
    BY <1>0, <1>1, <1>2, <2>1, FileKept DEF ZeroIsClean, OwnQueries, OwnRunning
<1>8. [File!FileNext]_(File!fileVars)
  <2>1. CASE shell'.pc = "dead"
    <3>1. File!Ends
      BY <1>1, <1>2, <2>1 DEF File!Ends
    <3>2. QED
      BY <3>1 DEF File!FileNext
  <2>2. CASE shell'.pc # "dead"
    <3>1. tail' = tail
      BY <2>2, <1>0 DEF Popens, PopenFails, Killed, Exits, ShellRecords
    <3>2. UNCHANGED File!fileVars
      BY <1>1, <1>2, <2>2, <3>1 DEF File!fileVars
    <3>3. QED
      BY <3>2
  <2>3. QED
    BY <2>1, <2>2
<1>9. QED
  BY <1>0, <1>3, <1>4, <1>5, <1>6, <1>7, <1>8 DEF ShellInv


\* Impala changes the state of its records only.
LEMMA RecordsKept ==
    ASSUME ShellTypeOK, query' \in Seq(File!QueryRecord), SameQueries(query', query), log' = log
    PROVE  /\ File!LastShell' = File!LastShell /\ File!Ids' = File!Ids
           /\ \A s : File!OwnQueries(s)' = File!OwnQueries(s)
           /\ \A c, s : /\ File!Owns(c, s)' <=> File!Owns(c, s)
                        /\ File!Finished(s)' <=> File!Finished(s)
                        /\ File!Logged(s)' = File!Logged(s)
<1>1. Len(query') = Len(query) /\ (query' = <<>> <=> query = <<>>)
  BY OrchTypeUnfolds DEF SameQueries
<1>2. File!Newest(query') = File!Newest(query)
  BY <1>1, OrchTypeUnfolds, SeqFacts DEF File!Newest, SameQueries
<1>3. File!LastShell' = File!LastShell /\ File!Ids' = File!Ids
  BY <1>2 DEF File!LastShell, File!Newest, File!Ids
<1>4. \A s : File!OwnQueries(s)' = File!OwnQueries(s)
  BY <1>1 DEF File!OwnQueries, SameQueries
<1>5. \A c, s : File!Owns(c, s)' <=> File!Owns(c, s)
  BY <1>1, <1>4 DEF File!Owns, SameQueries, File!OwnQueries
<1>6. \A s : File!Finished(s)' <=> File!Finished(s)
  BY DEF File!Finished
<1>7. \A s : File!Logged(s)' = File!Logged(s)
  BY DEF File!Logged
<1>8. QED
  BY <1>3, <1>4, <1>5, <1>6, <1>7

Restated(new, q, st) == new = [query EXCEPT ![q].state = st]

LEMMA StateChange ==
    ASSUME ShellTypeOK, NEW q \in 1 .. Len(query),
           NEW st \in {"running", "finished", "exception", "retried"},
           NEW changed, Restated(changed, q, st)
    PROVE  /\ changed \in Seq(File!QueryRecord)
           /\ SameQueries(changed, query)
           /\ changed[q].state = st
           /\ \A i \in 1 .. Len(query) : i # q => changed[i].state = query[i].state
<1> DEFINE r == [query[q] EXCEPT !.state = st]
<1>0. query \in Seq(File!QueryRecord) /\ query[q] \in File!QueryRecord
  BY OrchTypeUnfolds, SeqFacts
<1>1. /\ r \in File!QueryRecord /\ r.state = st /\ r.shell = query[q].shell
      /\ r.call = query[q].call /\ r.how = query[q].how
  BY <1>0 DEF File!QueryRecord
<1>2. changed = [query EXCEPT ![q] = r]
  BY <1>0 DEF Restated
<1> HIDE DEF r
<1>3. /\ changed \in Seq(File!QueryRecord) /\ Len(changed) = Len(query)
      /\ \A i \in 1 .. Len(query) : changed[i] = IF i = q THEN r ELSE query[i]
  BY <1>0, <1>1, <1>2
<1>4. QED
  BY <1>1, <1>3 DEF SameQueries

LEMMA ImpalaStep ==
    ASSUME ShellInv, Impala
    PROVE  ShellInv' /\ [File!FileNext]_(File!fileVars)
<1>0. /\ ShellTypeOK /\ IdsGrow /\ ShellOwnsFile /\ PipeInOrder /\ ZeroIsClean
      /\ UNCHANGED <<shell, pipe>> /\ File!Impala
  BY DEF ShellInv, Impala
<1>1. PICK q \in 1 .. Len(query), st \in {"finished", "exception"} : File!QueryEnds(q, st)
  BY <1>0 DEF File!Impala
<1>2. /\ query[q].state = "running" /\ query' = [query EXCEPT ![q].state = st]
      /\ UNCHANGED <<log, tail>>
  BY <1>1 DEF File!QueryEnds
<1>3. /\ query' \in Seq(File!QueryRecord) /\ SameQueries(query', query)
      /\ query'[q].state = st
      /\ \A i \in 1 .. Len(query) : i # q => query'[i].state = query[i].state
  <2>1. st \in {"running", "finished", "exception", "retried"}
    BY <1>1
  <2>2. PICK changed : Restated(changed, q, st)
    BY DEF Restated
  <2>3. /\ changed \in Seq(File!QueryRecord) /\ SameQueries(changed, query)
        /\ changed[q].state = st
        /\ \A i \in 1 .. Len(query) : i # q => changed[i].state = query[i].state
    BY <1>0, <1>1, <2>1, <2>2, StateChange
  <2>4. QED
    BY <1>2, <2>2, <2>3 DEF Restated
<1>4. ShellTypeOK'
  BY <1>0, <1>2, <1>3, OrchTypeUnfolds, TypeUnfoldsNext DEF SameQueries
<1>5. IdsGrow'
  BY <1>0, <1>2, <1>3, RecordsKept DEF IdsGrow, SameQueries
<1>6. ShellOwnsFile'
  BY <1>0, <1>2, <1>3, RecordsKept DEF ShellOwnsFile, Alive
<1>7. PipeInOrder'
  BY <1>0, <1>2, <1>3, RecordsKept DEF PipeInOrder, OwnQueries
<1>8. ZeroIsClean'
  <2>1. OwnQueries' = OwnQueries
    BY <1>0, <1>2, <1>3, RecordsKept DEF OwnQueries
  <2>2. QED
    BY <1>0, <1>2, <1>3, <2>1 DEF ZeroIsClean, OwnQueries, File!OwnQueries
<1>9. QED
  BY <1>0, <1>4, <1>5, <1>6, <1>7, <1>8 DEF ShellInv, File!FileNext

\* The child's statement reaches Impala and its line the pipe.
LEMMA SubmitStep ==
    ASSUME ShellInv, shell.pc = "running", Len(query) < MaxQueries,
           NEW how \in {"query_discovered", "query_retried"},
           NEW others \in Seq(File!QueryRecord), SameQueries(others, query),
           File!Submit(shell.call, shell.id, how, others),
           pipe' = Append(pipe, Len(query) + 1), UNCHANGED <<log, tail, shell>>
    PROVE  ShellInv'
<1>0. /\ ShellTypeOK /\ IdsGrow /\ ShellOwnsFile /\ PipeInOrder /\ ZeroIsClean
      /\ shell \in ShellRecords /\ Len(query) \in Nat /\ query \in Seq(File!QueryRecord)
      /\ pipe \in Seq(1 .. MaxQueries) /\ shell.id \in Nat \ {0} /\ shell.call \in 1 .. CallCount
      /\ shell.id \in File!Ids /\ Len(pipe) \in Nat
  BY OrchTypeUnfolds, SeqFacts DEF ShellInv, IdsGrow, ShellRecords
<1>1. PICK r : r = [call |-> shell.call, shell |-> shell.id, how |-> how, state |-> "running"]
  OBVIOUS
<1>2. /\ r \in File!QueryRecord /\ r.shell = shell.id /\ r.call = shell.call
      /\ query' = Append(others, r)
  BY <1>0, <1>1 DEF File!QueryRecord, File!Submit
<1>3. Len(others) = Len(query)
  BY DEF SameQueries
<1>4. /\ query' \in Seq(File!QueryRecord) /\ Len(query') = Len(query) + 1
      /\ query'[Len(query) + 1] = r
      /\ \A i \in 1 .. Len(query) : query'[i].shell = query[i].shell /\ query'[i].call = query[i].call
      /\ \A i \in 1 .. Len(query') : i \in 1 .. Len(query) \/ i = Len(query) + 1
  BY <1>0, <1>2, <1>3, AppendFacts DEF SameQueries
<1>5. File!LastShell' = shell.id /\ File!LastShell \in Nat /\ File!LastShell <= shell.id
  <2>1. File!LastShell' = r.shell
    BY <1>0, <1>2, QueryGrows
  <2>2. QED
    <3>1. File!LastShell \in Nat
      BY <1>0, NewestNat
    <3>2. shell.id \in {File!LastShell, File!LastShell + 1}
      BY <1>0, IdsUnfold
    <3>3. QED
      BY <1>0, <1>2, <2>1, <3>1, <3>2
<1>6. /\ pipe' \in Seq(1 .. MaxQueries) /\ Len(pipe') = Len(pipe) + 1
      /\ pipe'[Len(pipe) + 1] = Len(query) + 1
      /\ \A i \in 1 .. Len(pipe) : pipe'[i] = pipe[i]
      /\ \A i \in 1 .. Len(pipe') : i \in 1 .. Len(pipe) \/ i = Len(pipe) + 1
  <2>1. Len(query) + 1 \in 1 .. MaxQueries
    BY <1>0, ShellAssumption
  <2>2. QED
    BY <1>0, <2>1, AppendFacts
<1>7. ShellTypeOK'
  BY <1>0, <1>4, <1>6, OrchTypeUnfolds, TypeUnfoldsNext
<1>8. IdsGrow'
  <2>1. \A i \in 1 .. Len(log') : log'[i].shell <= shell.id /\ log'[i].query <= Len(query')
    BY <1>0, <1>4, <1>5, OrchTypeUnfolds, SeqFacts, EventFields DEF IdsGrow
  <2>2. \A i \in 1 .. Len(query') : query'[i].shell <= shell.id
    <3>1. \A i \in 1 .. Len(query) : query[i].shell \in Nat /\ query[i].shell <= shell.id
      BY <1>0, <1>5, SeqFacts, QueryFields DEF IdsGrow
    <3>2. QED
      BY <1>0, <1>2, <1>4, <3>1
  <2>3. shell'.id \in File!Ids'
    BY <1>0, <1>5 DEF File!Ids
  <2>4. QED
    BY <1>5, <2>1, <2>2, <2>3 DEF IdsGrow
<1>9. /\ OwnQueries \subseteq OwnQueries' /\ Len(query) + 1 \in OwnQueries'
      /\ \A q \in OwnQueries' : q \in OwnQueries \/ q = Len(query) + 1
  BY <1>0, <1>2, <1>4 DEF OwnQueries, File!OwnQueries
<1>10. ShellOwnsFile'
  <2>1. File!Owns(shell.call, shell.id)'
    BY <1>0, <1>2, <1>4, <1>9 DEF ShellOwnsFile, Alive, File!Owns, OwnQueries, File!OwnQueries
  <2>2. File!Finished(shell.id)' <=> File!Finished(shell.id)
    BY DEF File!Finished
  <2>3. QED
    BY <1>0, <2>1, <2>2 DEF ShellOwnsFile, Alive
<1>11. PipeInOrder'
  <2>1. File!Logged(shell.id)' = File!Logged(shell.id)
    BY DEF File!Logged
  <2>2. \A o \in File!Logged(shell.id) : o < Len(query) + 1
    BY <1>0, OrchTypeUnfolds, SeqFacts, EventFields DEF File!Logged, IdsGrow
  <2>3. \A i \in 1 .. Len(pipe) : pipe[i] \in 1 .. Len(query)
    BY <1>0 DEF PipeInOrder, OwnQueries, File!OwnQueries
  <2>4. ASSUME NEW i \in 1 .. Len(pipe')
        PROVE  /\ pipe'[i] \in OwnQueries'
               /\ \A o \in File!Logged(shell.id)' : o < pipe'[i]
               /\ \A j \in 1 .. i - 1 : pipe'[j] < pipe'[i]
    <3>1. CASE i \in 1 .. Len(pipe)
      <4>1. \A j \in 1 .. i - 1 : j \in 1 .. Len(pipe)
        BY <1>0, <3>1
      <4>2. QED
        BY <1>0, <1>6, <1>9, <2>1, <3>1, <4>1 DEF PipeInOrder
    <3>2. CASE i = Len(pipe) + 1
      <4>1. \A j \in 1 .. i - 1 : j \in 1 .. Len(pipe)
        BY <1>0, <3>2
      <4>2. \A j \in 1 .. i - 1 : pipe'[j] < pipe'[i]
        BY <1>0, <1>6, <2>3, <3>2, <4>1
      <4>3. QED
        BY <1>6, <1>9, <2>1, <2>2, <3>2, <4>2
    <3>3. QED
      BY <1>6, <3>1, <3>2
  <2>5. QED
    BY <2>4 DEF PipeInOrder
<1>12. ZeroIsClean'
  BY <1>0 DEF ZeroIsClean
<1>13. QED
  BY <1>7, <1>8, <1>10, <1>11, <1>12 DEF ShellInv

LEMMA ChildStep ==
    ASSUME ShellInv, Submits \/ \E q \in OwnRunning : Retries(q)
    PROVE  ShellInv' /\ [File!FileNext]_(File!fileVars)
<1>0. /\ ShellTypeOK /\ shell \in ShellRecords /\ query \in Seq(File!QueryRecord)
      /\ shell.id \in File!Ids \ {0} /\ shell.call \in 1 .. CallCount
  BY OrchTypeUnfolds DEF ShellInv, IdsGrow, ShellRecords
<1>1. shell.id >= File!LastShell
  BY <1>0, IdsUnfold, NewestNat
<1>2. shell.pc = "running" => File!Owns(shell.call, shell.id) /\ ~File!Finished(shell.id)
  BY DEF ShellInv, ShellOwnsFile, Alive
<1>3. CASE Submits
  <2>1. SameQueries(query, query)
    BY DEF SameQueries
  <2>2. ShellInv'
    BY <1>0, <1>3, <2>1, SubmitStep DEF Submits
  <2>3. File!Submits(shell.call, shell.id)
    BY <1>1, <1>2, <1>3 DEF Submits, File!Submits
  <2>4. QED
    BY <1>0, <1>2, <1>3, <2>2, <2>3 DEF File!FileNext, Submits
<1>4. ASSUME NEW q \in OwnRunning, Retries(q)
      PROVE  ShellInv' /\ [File!FileNext]_(File!fileVars)
  <2>1. q \in 1 .. Len(query) /\ q \in File!OwnQueries(shell.id) /\ query[q].state = "running"
    BY DEF OwnRunning, OwnQueries, File!OwnQueries
  <2>2. PICK others : Restated(others, q, "retried")
    BY DEF Restated
  <2>3. others \in Seq(File!QueryRecord) /\ SameQueries(others, query)
    BY <1>0, <1>1, <2>1, <2>2, StateChange
  <2>4. ShellInv'
    BY <1>4, <2>2, <2>3, SubmitStep DEF Retries, Restated
  <2>5. File!Submits(shell.call, shell.id)
    BY <1>1, <1>2, <1>4, <2>1 DEF Retries, File!Submits
  <2>6. QED
    BY <1>0, <1>2, <1>4, <2>4, <2>5 DEF File!FileNext, Retries
<1>5. QED
  BY <1>3, <1>4


\* The drain thread reports a query that follows all it has reported.
LEMMA DrainsStep ==
    ASSUME ShellInv, Drains
    PROVE  ShellInv' /\ [File!FileNext]_(File!fileVars)
<1>0. /\ ShellTypeOK /\ IdsGrow /\ ShellOwnsFile /\ PipeInOrder /\ ZeroIsClean
      /\ shell.pc \in {"running", "exited"} /\ pipe # <<>> /\ pipe' = Tail(pipe) /\ query' = query
  BY DEF ShellInv, Drains
<1>1. /\ query \in Seq(File!QueryRecord) /\ Len(query) <= MaxQueries /\ shell \in ShellRecords
      /\ pipe \in Seq(1 .. MaxQueries) /\ log \in Seq(File!Event) /\ Len(query) \in Nat
  BY <1>0, OrchTypeUnfolds, SeqFacts
<1>2. PICK s : s = shell
  OBVIOUS
<1>3. PICK q : q = Head(pipe)
  OBVIOUS
<1>4. /\ q = pipe[1] /\ 1 \in 1 .. Len(pipe) /\ pipe' \in Seq(1 .. MaxQueries)
      /\ Len(pipe) \in Nat /\ Len(pipe') = Len(pipe) - 1
      /\ \A i \in 1 .. Len(pipe') : pipe'[i] = pipe[i + 1] /\ i + 1 \in 2 .. Len(pipe)
  BY <1>0, <1>1, <1>3
<1>5. /\ q \in OwnQueries /\ q \in 1 .. Len(query) /\ q \in 1 .. MaxQueries
      /\ \A o \in File!Logged(s.id) : o < q
      /\ \A i \in 1 .. Len(pipe) : pipe[i] \in Nat
  <2>1. q \in OwnQueries /\ \A o \in File!Logged(shell.id) : o < q
    BY <1>0, <1>4 DEF PipeInOrder
  <2>2. q \in 1 .. Len(query)
    BY <2>1 DEF OwnQueries, File!OwnQueries
  <2>3. q \in 1 .. MaxQueries
    BY <1>0, <1>4, PipeFacts
  <2>4. \A i \in 1 .. Len(pipe) : pipe[i] \in Nat
    BY <1>0, PipeFacts
  <2>5. QED
    BY <1>2, <2>1, <2>2, <2>3, <2>4
<1>6. PICK t : t = query[q].how
  OBVIOUS
<1>7. t \in File!EventTypes /\ t # "shell_finished"
  BY <1>1, <1>5, <1>6, SeqFacts, QueryFields DEF File!EventTypes
<1>8. Writes(s, File!Line(t, s.call, s.id, q))
  BY <1>2, <1>3, <1>6 DEF Drains
<1>9. /\ File!Owns(s.call, s.id) /\ ~File!Finished(s.id) /\ s.id \in File!Ids
      /\ s \in ShellRecords /\ s.pc = shell.pc /\ s.rc = shell.rc /\ s.id = shell.id
      /\ s.writer = "open" => log # <<>> /\ log[Len(log)].shell = s.id
  BY <1>0, <1>1, <1>2 DEF ShellOwnsFile, Alive, IdsGrow
<1>10. /\ log' \in Seq(File!Event) /\ Len(log') <= MaxLines
       /\ tail' \in {"clean", "torn"} /\ shell' \in ShellRecords
       /\ shell'.pc = s.pc /\ shell'.call = s.call /\ shell'.id = s.id /\ shell'.rc = s.rc
       /\ IdsGrow' /\ File!Owns(s.call, s.id)' /\ ~File!Finished(s.id)'
       /\ File!Logged(s.id)' \subseteq File!Logged(s.id) \cup {q, 0}
       /\ shell'.writer = "open" => log' # <<>> /\ log'[Len(log')].shell = s.id
  <2>1. q \in 0 .. Len(query)
    BY <1>1, <1>5
  <2>2. QED
    BY <1>0, <1>7, <1>8, <1>9, <2>1, WritesLog
<1>11. ShellTypeOK'
  BY <1>0, <1>1, <1>4, <1>10, TypeUnfoldsNext
<1>12. ShellOwnsFile'
  BY <1>10 DEF ShellOwnsFile
<1>13. OwnQueries' = OwnQueries
  BY <1>0, <1>9, <1>10 DEF OwnQueries, File!OwnQueries
<1>14. PipeInOrder'
  <2>1. \A i \in 2 .. Len(pipe) : q < pipe[i]
    BY <1>0, <1>4 DEF PipeInOrder
  <2>2. ASSUME NEW i \in 1 .. Len(pipe')
        PROVE  /\ pipe'[i] \in OwnQueries'
               /\ \A o \in File!Logged(s.id)' : o < pipe'[i]
               /\ \A j \in 1 .. i - 1 : pipe'[j] < pipe'[i]
    <3>1. /\ pipe'[i] = pipe[i + 1] /\ i + 1 \in 2 .. Len(pipe) /\ i + 1 \in 1 .. Len(pipe)
          /\ q < pipe[i + 1] /\ pipe[i + 1] \in Nat
      BY <1>4, <1>5, <2>1
    <3>2. pipe'[i] \in OwnQueries'
      BY <1>0, <1>13, <3>1 DEF PipeInOrder
    <3>3. \A o \in File!Logged(s.id) : o < pipe[i + 1]
      BY <1>0, <1>9, <3>1 DEF PipeInOrder
    <3>4. \A o \in File!Logged(s.id)' : o < pipe'[i]
      BY <1>5, <1>10, <3>1, <3>3
    <3>5. ASSUME NEW j \in 1 .. i - 1 PROVE pipe'[j] < pipe'[i]
      <4>1. j \in 1 .. Len(pipe') /\ pipe'[j] = pipe[j + 1] /\ j + 1 \in 1 .. (i + 1) - 1
        BY <1>4
      <4>2. QED
        BY <1>0, <3>1, <4>1 DEF PipeInOrder
    <3>6. QED
      BY <3>2, <3>4, <3>5
  <2>3. shell'.pc \in {"running", "exited"}
    BY <1>0, <1>9, <1>10
  <2>4. QED
    BY <1>10, <2>2, <2>3 DEF PipeInOrder
<1>15. ZeroIsClean'
  BY <1>0, <1>9, <1>10, <1>13 DEF ZeroIsClean
<1>16. s.writer = "open" => File!Follows(File!Line(t, s.call, s.id, q), s.call, s.id)
  <2> SUFFICES ASSUME s.writer = "open"
               PROVE  File!Follows(File!Line(t, s.call, s.id, q), s.call, s.id)
    OBVIOUS
  <2>1. log # <<>> /\ log[Len(log)].shell = s.id /\ Len(log) \in 1 .. Len(log)
    BY <1>1, <1>9, SeqFacts
  <2>2. log[Len(log)].type # "shell_finished"
    BY <1>9, <2>1 DEF File!Finished
  <2>3. q \in File!OwnQueries(s.id)
    BY <1>5, <1>9 DEF OwnQueries
  <2>4. QED
    BY <1>6, <2>1, <2>2, <2>3 DEF File!Follows
<1>17. [File!FileNext]_(File!fileVars)
  BY <1>0, <1>5, <1>7, <1>8, <1>9, <1>16, WritesRefines
<1>18. QED
  BY <1>10, <1>11, <1>12, <1>14, <1>15, <1>17 DEF ShellInv

\* The end of the shell is its last line.
LEMMA ReturnsStep ==
    ASSUME ShellInv, Returns
    PROVE  ShellInv' /\ [File!FileNext]_(File!fileVars)
<1>0. /\ ShellTypeOK /\ IdsGrow /\ ShellOwnsFile /\ PipeInOrder /\ ZeroIsClean
      /\ shell.pc = "exited" /\ pipe = <<>> /\ pipe' = pipe /\ query' = query
  BY DEF ShellInv, Returns
<1>1. /\ query \in Seq(File!QueryRecord) /\ Len(query) <= MaxQueries /\ shell \in ShellRecords
      /\ pipe \in Seq(1 .. MaxQueries) /\ log \in Seq(File!Event) /\ Len(query) \in Nat
  BY <1>0, OrchTypeUnfolds, SeqFacts
<1>2. PICK s : s = [shell EXCEPT !.pc = "returned"]
  OBVIOUS
<1>3. /\ s \in ShellRecords /\ s.pc = "returned" /\ s.call = shell.call /\ s.id = shell.id
      /\ s.rc = shell.rc /\ s.writer = shell.writer
  BY <1>1, <1>2 DEF ShellRecords, ShellPcs
<1>4. PICK t, q : t = "shell_finished" /\ q = 0
  OBVIOUS
<1>5. t \in File!EventTypes /\ q \in 0 .. Len(query) /\ q \in 0 .. MaxQueries
  BY <1>1, <1>4, ShellAssumption DEF File!EventTypes
<1>6. Writes(s, File!Line(t, s.call, s.id, q))
  BY <1>2, <1>3, <1>4 DEF Returns
<1>7. /\ File!Owns(s.call, s.id) /\ ~File!Finished(s.id) /\ s.id \in File!Ids
      /\ s.writer = "open" => log # <<>> /\ log[Len(log)].shell = s.id
  BY <1>0, <1>1, <1>3 DEF ShellOwnsFile, Alive, IdsGrow
<1>8. /\ log' \in Seq(File!Event) /\ Len(log') <= MaxLines
      /\ tail' \in {"clean", "torn"} /\ shell' \in ShellRecords
      /\ shell'.pc = s.pc /\ shell'.id = s.id /\ shell'.rc = s.rc /\ IdsGrow'
  BY <1>0, <1>3, <1>5, <1>6, <1>7, WritesLog
<1>9. ShellTypeOK'
  BY <1>0, <1>1, <1>8, TypeUnfoldsNext
<1>10. ShellOwnsFile' /\ PipeInOrder'
  BY <1>0, <1>3, <1>8, SeqFacts DEF ShellOwnsFile, Alive, PipeInOrder
<1>11. ZeroIsClean'
  BY <1>0, <1>3, <1>8 DEF ZeroIsClean, OwnQueries, File!OwnQueries
<1>12. s.writer = "open" => File!Follows(File!Line(t, s.call, s.id, q), s.call, s.id)
  <2> SUFFICES ASSUME s.writer = "open"
               PROVE  File!Follows(File!Line(t, s.call, s.id, q), s.call, s.id)
    OBVIOUS
  <2>1. log # <<>> /\ log[Len(log)].shell = s.id /\ Len(log) \in 1 .. Len(log)
    BY <1>1, <1>7, SeqFacts
  <2>2. log[Len(log)].type # "shell_finished"
    BY <1>7, <2>1 DEF File!Finished
  <2>3. QED
    BY <1>4, <2>1, <2>2 DEF File!Follows
<1>13. [File!FileNext]_(File!fileVars)
  BY <1>0, <1>3, <1>4, <1>5, <1>6, <1>7, <1>12, WritesRefines
<1>14. QED
  BY <1>8, <1>9, <1>10, <1>11, <1>13 DEF ShellInv

LEMMA ShellInvStep ==
    ShellInv /\ [ShellNext]_shellVars => ShellInv' /\ [File!FileNext]_(File!fileVars)
<1> SUFFICES ASSUME ShellInv, [ShellNext]_shellVars
             PROVE  ShellInv' /\ [File!FileNext]_(File!fileVars)
  OBVIOUS
<1>1. CASE UNCHANGED shellVars
  <2>1. UNCHANGED <<log, tail, shell, pipe, query>>
    BY <1>1 DEF shellVars
  <2>2. ShellTypeOK'
    BY <2>1, OrchTypeUnfolds, TypeUnfoldsNext DEF ShellInv
  <2>3. IdsGrow' /\ ShellOwnsFile' /\ PipeInOrder' /\ ZeroIsClean'
    BY <2>1, FileKept
    DEF ShellInv, IdsGrow, ShellOwnsFile, Alive, PipeInOrder, ZeroIsClean, OwnQueries
  <2>4. UNCHANGED File!fileVars
    BY <2>1 DEF File!fileVars
  <2>5. QED
    BY <2>2, <2>3, <2>4 DEF ShellInv
<1>2. CASE ShellNext
  BY <1>2, StartShellStep, StageStep, ImpalaStep, ChildStep, DrainsStep, ReturnsStep
  DEF ShellNext, Child
<1>3. QED
  BY <1>1, <1>2

LEMMA ShellInvInit == ShellInit => ShellInv /\ File!FileInit
<1> SUFFICES ASSUME ShellInit PROVE ShellInv /\ File!FileInit
  OBVIOUS
<1>1. /\ log = <<>> /\ tail = "clean" /\ pipe = <<>> /\ query = <<>>
      /\ shell = [pc |-> "none", call |-> 1, id |-> 1, writer |-> "closed", rc |-> "none"]
  BY DEF ShellInit
<1>2. shell \in ShellRecords
  BY <1>1, ShellAssumption DEF ShellRecords, ShellPcs
<1>3. ShellTypeOK
  BY <1>1, <1>2, OrchTypeUnfolds, ShellAssumption
<1>4. File!LastShell = 0
  BY <1>1 DEF File!LastShell, File!Newest
<1>5. IdsGrow
  BY <1>1, <1>3, <1>4 DEF IdsGrow, File!Ids
<1>6. ShellOwnsFile /\ PipeInOrder /\ ZeroIsClean
  BY <1>1 DEF ShellOwnsFile, Alive, PipeInOrder, ZeroIsClean
<1>7. QED
  BY <1>1, <1>3, <1>5, <1>6 DEF ShellInv, File!FileInit

LEMMA ShellInvAlways == ShellSpec => []ShellInv
BY ShellInvInit, ShellInvStep, PTL DEF ShellSpec

(* The chain of scr/_common.py for one impala-shell after the other, its     *)
(* tailing thread and the descriptors it inherits, only ever adds to the     *)
(* Job's event file: the refinement of EventFile, without fairness.          *)
THEOREM ShellKeepsEventFile == ShellSpec => KeepsEventFile
BY ShellInvInit, ShellInvStep, PTL DEF ShellSpec, KeepsEventFile, File!FileSpec


-------------------------------------------------------------------------------
(* The scripts *)

ScriptRecords == [cell : Cells, call : 1 .. CallCount, pool : 1 .. Pools,
                  cycle : 1 .. MaxCycles,
                  pc : {"main", "try", "judge", "next", "failed", "ended"}]

\* Whatever a script does with a shell is a step of run_impala_shell.
LEMMA OrchIsShell ==
    ASSUME OrchTypeOK, [OrchNext]_orchVars
    PROVE  [ShellNext]_shellVars
<1>1. script \in ScriptRecords
  BY DEF OrchTypeOK, ScriptRecords
<1>2. CASE UNCHANGED orchVars
  BY <1>2 DEF orchVars, shellVars
<1>3. CASE TriesPool
  <2>1. script.call \in 1 .. CallCount
    BY <1>1 DEF ScriptRecords
  <2>2. QED
    BY <1>3, <2>1 DEF TriesPool, ShellNext
<1>4. CASE Script /\ ~TriesPool
  BY <1>4 DEF Script, Prepares, WritesExport, ShellRaised, Succeeds, ReplaceFails, FailsForGood,
              FailsRetriably, NextPool, NextCycle, GivesUp, shellVars
<1>5. CASE ShellMoves
  BY <1>5 DEF ShellMoves, ShellNext, Child
<1>6. CASE \E rc \in {"zero", "nonzero"} : ShellExits(rc)
  BY <1>6 DEF ShellExits, ShellNext, Child
<1>7. CASE Terminated
  BY <1>7 DEF Terminated, ShellNext
<1>8. CASE ImpalaMoves
  BY <1>8 DEF ImpalaMoves, ShellNext, Impala, File!Impala
<1>9. QED
  BY <1>2, <1>3, <1>4, <1>5, <1>6, <1>7, <1>8 DEF OrchNext

\* A Job has one call or two.
LEMMA CallsCount ==
    ASSUME NEW cell \in Cells
    PROVE  Len(CallsOf(cell)) \in {1, 2} /\ Len(CallsOf(cell)) <= CallCount
<1>1. cell \in LegalCells /\ Len(CallsOf(cell)) <= CallCount
  BY CellsAssumption
<1>2. Len(CallsOf(cell)) \in {1, 2}
  BY <1>1 DEF LegalCells, CallsOf
<1>3. QED
  BY <1>1, <1>2

\* A script keeps its Job, and stays within its calls, pools and rounds.
LEMMA ScriptType ==
    ASSUME OrchInv, OrchNext
    PROVE  script' \in ScriptRecords /\ script'.call <= Len(CallsOf(script'.cell))
<1>0. /\ script \in ScriptRecords /\ script.cell \in Cells
      /\ script.call \in 1 .. CallCount /\ script.pool \in 1 .. Pools
      /\ script.cycle \in 1 .. MaxCycles
      /\ Pools \in Nat /\ MaxCycles \in Nat /\ CallCount \in Nat
      /\ 1 \in 1 .. Pools /\ 1 \in 1 .. MaxCycles
      /\ script.call <= Len(CallsOf(script.cell))
  BY OrchestratorAssumption, ShellAssumption DEF OrchInv, OrchTypeOK, ScriptRecords, ExportIsWhole
<1>1. Len(CallsOf(script.cell)) \in Nat /\ Len(CallsOf(script.cell)) <= CallCount
  BY <1>0, CallsCount
<1>2. CASE UNCHANGED script
  BY <1>0, <1>2
<1>3. ASSUME NEW pc \in {"main", "try", "judge", "next", "failed", "ended"},
             script' = [script EXCEPT !.pc = pc]
      PROVE  script' \in ScriptRecords /\ script'.call <= Len(CallsOf(script'.cell))
  <2>1. script' \in ScriptRecords /\ script'.call = script.call /\ script'.cell = script.cell
    BY <1>0, <1>3 DEF ScriptRecords
  <2>2. QED
    BY <1>0, <2>1
<1>4. ASSUME NEW pool \in 1 .. Pools, NEW cycle \in 1 .. MaxCycles,
             script' = [script EXCEPT !.pc = "try", !.pool = pool, !.cycle = cycle]
      PROVE  script' \in ScriptRecords /\ script'.call <= Len(CallsOf(script'.cell))
  <2>1. script' \in ScriptRecords /\ script'.call = script.call /\ script'.cell = script.cell
    BY <1>0, <1>4 DEF ScriptRecords
  <2>2. QED
    BY <1>0, <2>1
<1>5. CASE Prepares
  BY <1>0, <1>3, <1>4, <1>5 DEF Prepares
<1>6. CASE Succeeds
  <2>1. ASSUME script.call < Len(CallsOf(script.cell)),
               script' = [script EXCEPT !.pc = "main", !.call = script.call + 1]
        PROVE  script' \in ScriptRecords /\ script'.call <= Len(CallsOf(script'.cell))
    <3>1. script.call + 1 \in 1 .. CallCount /\ script.call + 1 <= Len(CallsOf(script.cell))
      BY <1>0, <1>1, <2>1
    <3>2. /\ script' \in ScriptRecords /\ script'.call = script.call + 1
          /\ script'.cell = script.cell
      BY <1>0, <2>1, <3>1 DEF ScriptRecords
    <3>3. QED
      BY <3>1, <3>2
  <2>2. QED
    BY <1>3, <1>6, <2>1 DEF Succeeds
<1>7. CASE NextPool
  <2>1. script.pool + 1 \in 1 .. Pools
    BY <1>0, <1>7 DEF NextPool
  <2>2. script' = [script EXCEPT !.pc = "try", !.pool = script.pool + 1]
    BY <1>7 DEF NextPool
  <2>3. script' \in ScriptRecords /\ script'.call = script.call /\ script'.cell = script.cell
    BY <1>0, <2>1, <2>2 DEF ScriptRecords
  <2>4. QED
    BY <1>0, <2>3
<1>8. CASE NextCycle
  <2>1. (IF Name = "monthly" THEN script.cycle + 1 ELSE 1) \in 1 .. MaxCycles
    BY <1>0, <1>8 DEF NextCycle
  <2>2. QED
    BY <1>0, <1>4, <1>8, <2>1 DEF NextCycle
<1>9. CASE TriesPool \/ ShellRaised \/ ReplaceFails \/ FailsForGood \/ FailsRetriably
           \/ GivesUp \/ Terminated
  BY <1>3, <1>9 DEF TriesPool, ShellRaised, ReplaceFails, FailsForGood, FailsRetriably, GivesUp,
                    Terminated, Goes
<1>10. CASE WritesExport \/ ShellMoves \/ ImpalaMoves \/ \E rc \in {"zero", "nonzero"} : ShellExits(rc)
  BY <1>2, <1>10 DEF WritesExport, ShellMoves, ImpalaMoves, ShellExits
<1>11. QED
  BY <1>5, <1>6, <1>7, <1>8, <1>9, <1>10 DEF OrchNext, Script

\* Only a new shell and an exit touch the exit code.
LEMMA CodeKept ==
    ASSUME ShellInv, ShellMoves
    PROVE  shell'.rc = shell.rc
<1>0. ShellTypeOK /\ shell \in ShellRecords
  BY OrchTypeUnfolds DEF ShellInv
<1>1. CASE Popens \/ PopenFails
  BY <1>0, <1>1 DEF Popens, PopenFails, ShellRecords
<1>2. CASE Submits \/ \E q \in OwnRunning : Retries(q)
  BY <1>2 DEF Submits, Retries
<1>3. CASE Drains
  BY <1>0, <1>3, WritesEffect DEF Drains
<1>4. CASE Returns
  <2>1. PICK s, line : s = [shell EXCEPT !.pc = "returned"] /\ Writes(s, line)
    BY <1>4 DEF Returns
  <2>2. s \in ShellRecords /\ s.rc = shell.rc
    BY <1>0, <2>1 DEF ShellRecords, ShellPcs
  <2>3. QED
    BY <1>0, <2>1, <2>2, WritesEffect
<1>5. QED
  BY <1>1, <1>2, <1>3, <1>4 DEF ShellMoves

LEMMA ExportKnown ==
    ASSUME OrchInv, OrchNext
    PROVE  script'.pc = "judge" /\ Name' = "csv" /\ shell'.rc = "zero" => temp' = "whole"
<1>0. /\ script \in ScriptRecords /\ ShellInv /\ ShellInv' /\ ZeroIsClean /\ ZeroIsClean'
      /\ script.pc = "judge" /\ Name = "csv" /\ shell.rc = "zero" => temp = "whole"
  <2>1. ShellInv'
    BY OrchIsShell, ShellInvStep DEF OrchInv
  <2>2. QED
    BY <2>1 DEF OrchInv, OrchTypeOK, ScriptRecords, ShellInv, ExportIsWhole
<1>1. CASE TriesPool
  <2>1. PICK s, line : s.pc = "starting" /\ s.rc = "none" /\ s \in ShellRecords /\ Writes(s, line)
    <3>1. PICK c \in 1 .. CallCount : StartShell(c)
      BY <1>0, <1>1 DEF TriesPool, ScriptRecords
    <3>2. FreshShell \in Nat \ {0}
      BY <1>0, NewestNat DEF FreshShell, ShellInv
    <3>3. QED
      BY <3>1, <3>2 DEF StartShell, ShellRecords, ShellPcs
  <2>2. shell'.rc = "none"
    BY <1>0, <2>1, WritesEffect DEF ShellInv
  <2>3. QED
    BY <2>2
<1>2. CASE ShellMoves
  BY <1>0, <1>2, CodeKept DEF ShellMoves, Name
<1>3. CASE WritesExport
  BY <1>0, <1>3 DEF WritesExport, shellVars, ZeroIsClean
<1>4. ASSUME NEW rc \in {"zero", "nonzero"}, ShellExits(rc)
      PROVE  Name' = "csv" /\ shell'.rc = "zero" => temp' = "whole"
  <2>1. shell'.rc = rc
    <3>1. shell \in ShellRecords /\ shell' = [shell EXCEPT !.pc = "exited", !.rc = rc]
      BY <1>0, <1>4, OrchTypeUnfolds DEF ShellExits, Exits, ShellInv
    <3>2. QED
      BY <3>1 DEF ShellRecords
  <2>2. QED
    BY <1>4, <2>1 DEF ShellExits, Name
<1>5. CASE ImpalaMoves
  BY <1>0, <1>5 DEF ImpalaMoves, Name
<1>6. CASE Prepares \/ ShellRaised \/ Succeeds \/ ReplaceFails \/ FailsForGood \/ FailsRetriably
           \/ NextPool \/ NextCycle \/ GivesUp \/ Terminated
  <2>1. script'.pc # "judge"
    BY <1>0, <1>6 DEF Prepares, ShellRaised, Succeeds, ReplaceFails, FailsForGood, FailsRetriably,
                      NextPool, NextCycle, GivesUp, Terminated, Goes, ScriptRecords
  <2>2. QED
    BY <2>1
<1>7. QED
  BY <1>1, <1>2, <1>3, <1>4, <1>5, <1>6 DEF OrchNext, Script

LEMMA OrchInvStep == OrchInv /\ [OrchNext]_orchVars => OrchInv'
<1> SUFFICES ASSUME OrchInv, [OrchNext]_orchVars PROVE OrchInv'
  OBVIOUS
<1>0. OrchTypeOK /\ ShellInv
  BY DEF OrchInv
<1>1. ShellInv'
  BY <1>0, OrchIsShell, ShellInvStep
<1>2. CASE OrchNext
  <2>1. csv' \in {"old", "new"} /\ temp' \in {"none", "partial", "whole"}
    BY <1>0, <1>2
    DEF OrchTypeOK, OrchNext, Script, Prepares, TriesPool, WritesExport, ShellRaised, Succeeds,
        ReplaceFails, FailsForGood, FailsRetriably, NextPool, NextCycle, GivesUp, ShellMoves,
        ShellExits, Terminated, ImpalaMoves
  <2>2. OrchTypeOK'
    BY <1>1, <1>2, <2>1, ScriptType DEF OrchTypeOK, ScriptRecords, ShellInv
  <2>3. ExportIsWhole'
    BY <1>2, ScriptType, ExportKnown DEF ExportIsWhole
  <2>4. QED
    BY <1>1, <2>2, <2>3 DEF OrchInv
<1>3. CASE UNCHANGED orchVars
  <2>1. UNCHANGED <<script, shell, temp, csv>>
    BY <1>3 DEF orchVars
  <2>2. OrchTypeOK'
    BY <1>0, <1>1, <2>1 DEF OrchTypeOK, ShellInv
  <2>3. ExportIsWhole'
    BY <2>1 DEF OrchInv, ExportIsWhole, Name
  <2>4. QED
    BY <1>1, <2>2, <2>3 DEF OrchInv
<1>4. QED
  BY <1>2, <1>3

LEMMA OrchInvInit == OrchInit => OrchInv
<1> SUFFICES ASSUME OrchInit PROVE OrchInv
  OBVIOUS
<1>1. /\ script \in [cell : Cells, call : {1}, pool : {1}, cycle : {1}, pc : {"main"}]
      /\ csv = "old" /\ temp = "none" /\ ShellInv
  BY ShellInvInit DEF OrchInit
<1>2. /\ script \in ScriptRecords /\ script.call = 1 /\ script.cell \in Cells
      /\ script.pc = "main"
  BY <1>1, OrchestratorAssumption, ShellAssumption DEF ScriptRecords
<1>3. PICK cell \in Cells : cell = script.cell
  BY <1>2
<1>4. Len(CallsOf(cell)) \in {1, 2}
  BY <1>3, CallsCount
<1>5. 1 <= Len(CallsOf(script.cell))
  BY <1>3, <1>4
<1>6. QED
  BY <1>1, <1>2, <1>5 DEF OrchInv, OrchTypeOK, ScriptRecords, ShellInv, ExportIsWhole

LEMMA OrchInvAlways == OrchSpec => []OrchInv
BY OrchInvInit, OrchInvStep, PTL DEF OrchSpec

-------------------------------------------------------------------------------
(* The theorems *)

(* A script stays within its calls, pools and rounds, and its shells within  *)
(* the calls the script has.                                                 *)
THEOREM OrchestratorTypeCorrect == OrchSpec => []OrchTypeOK
BY OrchInvAlways, PTL DEF OrchInv

(* The same with the three scripts of scr/ on top, which start, retry and    *)
(* give up shells: whatever they do, the file grows by whole lines, glued to *)
(* a torn one if there is one, and the lines of a shell are a prefix of its  *)
(* start, its queries in order, and its end.                                 *)
THEOREM ScriptsKeepEventFile == OrchSpec => KeepsEventFile
<1>1. OrchInit => File!FileInit
  BY ShellInvInit DEF OrchInit
<1>2. OrchInv /\ [OrchNext]_orchVars => [File!FileNext]_(File!fileVars)
  BY OrchIsShell, ShellInvStep DEF OrchInv
<1>3. QED
  BY <1>1, <1>2, OrchInvAlways, PTL DEF OrchSpec, KeepsEventFile, File!FileSpec

LEMMA NoOrphanStep ==
    ASSUME OrchInv, NoOrphanExport, [OrchNext]_orchVars
    PROVE  NoOrphanExport'
<1>0. script \in ScriptRecords /\ shell \in ShellRecords
  BY OrchTypeUnfolds DEF OrchInv, OrchTypeOK, ScriptRecords
<1>1. CASE TriesPool
  BY <1>0, <1>1 DEF TriesPool, Goes, ScriptRecords, NoOrphanExport
<1>2. CASE WritesExport \/ ShellMoves \/ \E rc \in {"zero", "nonzero"} : ShellExits(rc)
  BY <1>2 DEF WritesExport, ShellMoves, ShellExits, NoOrphanExport
<1>3. CASE ShellRaised \/ Succeeds \/ ReplaceFails \/ FailsForGood \/ FailsRetriably
  BY <1>3 DEF ShellRaised, Succeeds, ReplaceFails, FailsForGood, FailsRetriably, NoOrphanExport
<1>4. CASE Prepares \/ NextPool \/ NextCycle \/ GivesUp
  BY <1>4 DEF Prepares, NextPool, NextCycle, GivesUp, shellVars, NoOrphanExport
<1>5. CASE Terminated
  BY <1>0, <1>5 DEF Terminated, Killed, ShellRecords, NoOrphanExport
<1>6. CASE ImpalaMoves \/ UNCHANGED orchVars
  BY <1>6 DEF ImpalaMoves, orchVars, NoOrphanExport
<1>7. QED
  BY <1>1, <1>2, <1>3, <1>4, <1>5, <1>6 DEF OrchNext, Script

(* download_to_csv: only a script that judges an attempt, or that SIGTERM    *)
(* killed, has a temporary export; any other has removed or moved it.        *)
THEOREM NoOrphanSafe == OrchSpec => []NoOrphanExport
<1>1. OrchInit => NoOrphanExport
  BY DEF OrchInit, NoOrphanExport
<1>2. QED
  BY <1>1, NoOrphanStep, OrchInvAlways, PTL DEF OrchSpec

(* download_to_csv: the CSV of an earlier Job is replaced only by a whole    *)
(* export of a shell that ended with 0, whose queries all did well.          *)
THEOREM CsvSafe == OrchSpec => CsvIsWhole
<1> DEFINE Whole == csv' # csv => /\ temp = "whole" /\ shell.rc = "zero"
                                  /\ \A q \in OwnQueries : query[q].state # "exception"
<1>1. OrchInv /\ [OrchNext]_orchVars => [Whole]_orchVars
  <2> SUFFICES ASSUME OrchInv, OrchNext, csv' # csv
               PROVE  /\ temp = "whole" /\ shell.rc = "zero"
                      /\ \A q \in OwnQueries : query[q].state # "exception"
    OBVIOUS
  <2>1. Succeeds
    BY DEF OrchNext, Script, Prepares, TriesPool, WritesExport, ShellRaised, ReplaceFails,
           FailsForGood, FailsRetriably, NextPool, NextCycle, GivesUp, ShellMoves, ShellExits,
           Terminated, ImpalaMoves
  <2>2. script.pc = "judge" /\ shell.rc = "zero" /\ Name = "csv"
    BY <2>1 DEF Succeeds, ShellEnded
  <2>3. QED
    BY <2>2 DEF OrchInv, ExportIsWhole, ShellInv, ZeroIsClean
<1>2. QED
  BY <1>1, OrchInvAlways, PTL DEF OrchSpec, CsvIsWhole

-------------------------------------------------------------------------------
(* Rounds *)

\* Only a start gives the shell of the moment another identity.
LEMMA IdKept ==
    ASSUME ShellInv, ShellMoves \/ \E rc \in {"zero", "nonzero"} : ShellExits(rc)
    PROVE  shell'.id = shell.id /\ script' = script
<1> SUFFICES shell'.id = shell.id
  BY DEF ShellMoves, ShellExits
<1>0. ShellTypeOK /\ shell \in ShellRecords
  BY OrchTypeUnfolds DEF ShellInv
<1>1. CASE Popens \/ PopenFails \/ \E rc \in {"zero", "nonzero"} : ShellExits(rc)
  BY <1>0, <1>1 DEF Popens, PopenFails, ShellExits, Exits, ShellRecords
<1>2. CASE Submits \/ \E q \in OwnRunning : Retries(q)
  BY <1>2 DEF Submits, Retries
<1>3. CASE Drains
  BY <1>0, <1>3, WritesEffect DEF Drains
<1>4. CASE Returns
  <2>1. PICK s, line : s = [shell EXCEPT !.pc = "returned"] /\ Writes(s, line)
    BY <1>4 DEF Returns
  <2>2. s \in ShellRecords /\ s.id = shell.id
    BY <1>0, <2>1 DEF ShellRecords, ShellPcs
  <2>3. QED
    BY <1>0, <2>1, <2>2, WritesEffect
<1>5. QED
  BY <1>1, <1>2, <1>3, <1>4 DEF ShellMoves

\* What is known of a shell is known of one that is not younger than the shell of the moment.
LEMMA MomentIsLast ==
    ASSUME ShellInv
    PROVE  /\ File!LastShell \in Nat /\ shell.id \in Nat \ {0} /\ File!LastShell <= shell.id
           /\ shell.id <= File!LastShell + 1
<1>1. File!LastShell \in Nat /\ shell.id \in File!Ids /\ shell \in ShellRecords
  BY NewestNat, OrchTypeUnfolds DEF ShellInv, IdsGrow
<1>2. shell.id \in {File!LastShell, File!LastShell + 1} /\ shell.id \in Nat \ {0}
  BY <1>1, IdsUnfold DEF ShellInv, ShellRecords
<1>3. QED
  BY <1>1, <1>2

\* The identities after a step are numbers too.
LEMMA NextIsNat ==
    ASSUME ShellInv'
    PROVE  File!LastShell' \in Nat /\ shell'.id \in Nat /\ File!LastShell' <= shell'.id
<1>0. /\ log' \in Seq(File!Event) /\ query' \in Seq(File!QueryRecord) /\ shell' \in ShellRecords
      /\ shell'.id \in File!Ids'
  BY TypeUnfoldsNext DEF ShellInv, IdsGrow
<1>1. File!Newest(log') \in Nat
  BY <1>0, SeqFacts, EventFields DEF File!Newest
<1>2. File!Newest(query') \in Nat
  BY <1>0, SeqFacts, QueryFields DEF File!Newest
<1> HIDE DEF File!Newest
<1>3. File!LastShell' \in Nat
  BY <1>1, <1>2 DEF File!LastShell
<1> HIDE DEF File!LastShell
<1>4. shell'.id \in File!LastShell' .. File!LastShell' + 1
  BY <1>0 DEF File!Ids
<1>5. QED
  BY <1>3, <1>4

\* A start takes the identity after the newest.
LEMMA StartsFresh ==
    ASSUME ShellInv, NEW c \in 1 .. CallCount, StartShell(c)
    PROVE  shell'.id = File!LastShell + 1
<1>1. PICK s : s = [pc |-> "starting", call |-> c, id |-> FreshShell, writer |-> "open",
                    rc |-> "none"]
  OBVIOUS
<1>2. Writes(s, File!Line("shell_started", c, s.id, 0)) /\ s.id = FreshShell
  BY <1>1 DEF StartShell
<1>3. FreshShell \in Nat \ {0} /\ ShellTypeOK
  BY NewestNat DEF FreshShell, ShellInv
<1>4. s \in ShellRecords
  BY <1>1, <1>3 DEF ShellRecords, ShellPcs
<1>5. shell'.id = s.id
  BY <1>2, <1>3, <1>4, WritesEffect
<1>6. QED
  BY <1>2, <1>5 DEF FreshShell

\* A script runs one Job.
LEMMA JobKept ==
    ASSUME script \in ScriptRecords, [OrchNext]_orchVars
    PROVE  script'.cell = script.cell
<1>1. CASE UNCHANGED script
  BY <1>1
<1>2. CASE Prepares \/ Succeeds \/ NextPool \/ NextCycle
  BY <1>2 DEF Prepares, Succeeds, NextPool, NextCycle, ScriptRecords
<1>3. CASE TriesPool \/ ShellRaised \/ ReplaceFails \/ FailsForGood \/ FailsRetriably
           \/ GivesUp \/ Terminated
  BY <1>3 DEF TriesPool, ShellRaised, ReplaceFails, FailsForGood, FailsRetriably, GivesUp,
              Terminated, Goes, ScriptRecords
<1>4. QED
  BY <1>1, <1>2, <1>3 DEF OrchNext, Script, orchVars, WritesExport, ShellMoves, ImpalaMoves, ShellExits

\* Impala's answers, and the steps of the script that are not about a shell, add none.
LEMMA NoShellShows ==
    ASSUME ShellInv, ImpalaMoves \/ UNCHANGED shellVars
    PROVE  File!LastShell' = File!LastShell /\ shell' = shell
<1>1. CASE UNCHANGED shellVars
  BY <1>1, FileKept DEF shellVars
<1>2. CASE ImpalaMoves
  <2>1. PICK q \in 1 .. Len(query), state \in {"finished", "exception"} : File!QueryEnds(q, state)
    BY <1>2 DEF ImpalaMoves
  <2>2. query' = [query EXCEPT ![q].state = state] /\ log' = log /\ ShellTypeOK
    BY <2>1 DEF File!QueryEnds, ShellInv
  <2>3. query' \in Seq(File!QueryRecord) /\ SameQueries(query', query)
    <3>1. PICK changed : Restated(changed, q, state)
      BY DEF Restated
    <3>2. state \in {"running", "finished", "exception", "retried"}
      BY <2>1
    <3>3. changed \in Seq(File!QueryRecord) /\ SameQueries(changed, query)
      BY <2>1, <2>2, <3>1, <3>2, StateChange
    <3>4. QED
      BY <2>2, <3>1, <3>3 DEF Restated
  <2>4. QED
    BY <1>2, <2>2, <2>3, RecordsKept DEF ShellInv, ImpalaMoves
<1>3. QED
  BY <1>1, <1>2

\* One attempt more, on the next pool or on the first of the next round.
LEMMA AttemptsAdd ==
    ASSUME NEW pools \in Nat, NEW cycle \in Nat, NEW pool \in Nat
    PROVE  /\ (cycle - 1) * pools + pool \in Int
           /\ (cycle - 1) * pools + (pool + 1) = (cycle - 1) * pools + pool + 1
           /\ (cycle + 1 - 1) * pools + 1 = (cycle - 1) * pools + pools + 1
           /\ (1 - 1) * pools + 1 = 1
OBVIOUS

(* A step of a monthly script either tries the next pool of those allowed, or is one of    *)
(* the shell of the last one tried.                                                         *)
LEMMA MonthlyStep ==
    ASSUME OrchInv, MonthlyInv, [OrchNext]_orchVars
    PROVE  MonthlyInv'
<1> SUFFICES ASSUME script'.cell = "SqlTemplate/Table"
             PROVE  /\ shell'.id <= Attempts' /\ File!LastShell' <= Attempts'
                    /\ script'.pc \in {"main", "try"} => File!LastShell' < Attempts'
                    /\ script'.pc = "main" => script'.cycle = 1 /\ script'.pool = 1
  BY DEF MonthlyInv
<1>0. /\ script \in ScriptRecords /\ ShellInv /\ ShellInv'
      /\ Pools \in Nat /\ script.pool \in Nat /\ script.cycle \in Nat
  BY OrchIsShell, ShellInvStep, OrchestratorAssumption DEF OrchInv, OrchTypeOK, ScriptRecords, ShellInv
<1>1. /\ File!LastShell \in Nat /\ shell.id \in Nat /\ File!LastShell <= shell.id
      /\ File!LastShell' \in Nat /\ shell'.id \in Nat /\ File!LastShell' <= shell'.id
      /\ Attempts \in Int
  <2>1. File!LastShell' \in Nat /\ shell'.id \in Nat /\ File!LastShell' <= shell'.id
    BY <1>0, NextIsNat
  <2>2. QED
    BY <1>0, <2>1, MomentIsLast, AttemptsAdd DEF Attempts
<1>2. script.cell = "SqlTemplate/Table"
  BY <1>0, JobKept
<1>3. /\ shell.id <= Attempts /\ File!LastShell <= Attempts
      /\ script.pc \in {"main", "try"} => File!LastShell < Attempts
      /\ script.pc = "main" => script.cycle = 1 /\ script.pool = 1
  BY <1>2 DEF MonthlyInv
<1>4. CallsOf(script.cell) = <<"monthly">> /\ script.call = 1 /\ Name = "monthly"
  BY <1>0, <1>2 DEF CallsOf, Name, OrchInv, ExportIsWhole, ScriptRecords
<1>5. CASE UNCHANGED orchVars \/ ImpalaMoves \/ WritesExport
  <2>1. UNCHANGED script /\ shell' = shell /\ File!LastShell' = File!LastShell
    BY <1>0, <1>5, NoShellShows DEF orchVars, shellVars, ImpalaMoves, WritesExport
  <2>2. QED
    BY <1>3, <2>1 DEF Attempts
<1>6. CASE ShellMoves \/ \E rc \in {"zero", "nonzero"} : ShellExits(rc)
  <2>1. script' = script /\ shell'.id = shell.id /\ script.pc = "judge"
    BY <1>0, <1>6, IdKept DEF ShellMoves, ShellExits
  <2>2. Attempts' = Attempts
    BY <2>1 DEF Attempts
  <2>3. QED
    BY <1>1, <1>3, <2>1, <2>2
<1>7. CASE TriesPool
  <2>1. script' = [script EXCEPT !.pc = "judge"] /\ script.pc = "try"
    BY <1>7 DEF TriesPool, Goes
  <2>2. script'.pc = "judge" /\ script'.pool = script.pool /\ script'.cycle = script.cycle
    BY <1>0, <2>1 DEF ScriptRecords
  <2>3. Attempts' = Attempts
    BY <2>2 DEF Attempts
  <2>4. shell'.id = File!LastShell + 1
    BY <1>0, <1>7, StartsFresh DEF TriesPool, ScriptRecords
  <2>5. QED
    BY <1>1, <1>3, <2>1, <2>2, <2>3, <2>4
<1>8. CASE Prepares
  <2>1. shell' = shell /\ File!LastShell' = File!LastShell
    BY <1>0, <1>8, NoShellShows DEF Prepares
  <2>2. /\ script.cycle = 1 /\ script.pool = 1 /\ script.pc = "main"
        /\ script'.cycle = 1 /\ script'.pool = 1 /\ script'.pc \in {"failed", "try"}
    BY <1>0, <1>3, <1>8 DEF Prepares, ScriptRecords
  <2>3. Attempts' = Attempts
    BY <2>2 DEF Attempts
  <2>4. QED
    BY <1>3, <2>1, <2>2, <2>3
<1>9. CASE NextPool \/ NextCycle
  <2>1. shell' = shell /\ File!LastShell' = File!LastShell
    BY <1>0, <1>9, NoShellShows DEF NextPool, NextCycle
  <2>2. Attempts' = Attempts + 1 /\ script'.pc = "try"
    <3>1. CASE NextPool
      <4>1. script'.pool = script.pool + 1 /\ script'.cycle = script.cycle /\ script'.pc = "try"
        BY <1>0, <3>1 DEF NextPool, ScriptRecords
      <4>2. QED
        BY <1>0, <4>1, AttemptsAdd DEF Attempts
    <3>2. CASE NextCycle
      <4>1. /\ script'.pool = 1 /\ script'.cycle = script.cycle + 1 /\ script.pool = Pools
            /\ script'.pc = "try"
        BY <1>0, <1>4, <3>2 DEF NextCycle, ScriptRecords
      <4>2. QED
        BY <1>0, <4>1, AttemptsAdd DEF Attempts
    <3>3. QED
      BY <1>9, <3>1, <3>2
  <2>3. QED
    BY <1>1, <1>3, <2>1, <2>2
<1>10. CASE ShellRaised \/ Succeeds \/ ReplaceFails \/ FailsForGood \/ FailsRetriably \/ GivesUp
  <2>1. shell' = shell /\ File!LastShell' = File!LastShell
    BY <1>0, <1>10, NoShellShows
    DEF ShellRaised, Succeeds, ReplaceFails, FailsForGood, FailsRetriably, GivesUp
  <2>2. PICK pc \in {"failed", "next", "ended"} : script' = [script EXCEPT !.pc = pc]
    BY <1>4, <1>10 DEF ShellRaised, Succeeds, ReplaceFails, FailsForGood, FailsRetriably, GivesUp, Goes
  <2>3. script'.pc = pc /\ script'.pool = script.pool /\ script'.cycle = script.cycle
    BY <1>0, <2>2 DEF ScriptRecords
  <2>4. Attempts' = Attempts
    BY <2>3 DEF Attempts
  <2>5. QED
    BY <1>3, <2>1, <2>3, <2>4
<1>11. CASE Terminated
  <2>1. UNCHANGED <<log, query>> /\ shell' = [shell EXCEPT !.pc = "dead"] /\ Goes("failed")
    BY <1>11 DEF Terminated, Killed
  <2>2. shell'.id = shell.id /\ File!LastShell' = File!LastShell
    BY <1>0, <2>1, FileKept, OrchTypeUnfolds DEF ShellInv, ShellRecords
  <2>3. script'.pc = "failed" /\ script'.pool = script.pool /\ script'.cycle = script.cycle
    BY <1>0, <2>1 DEF Goes, ScriptRecords
  <2>4. Attempts' = Attempts
    BY <2>3 DEF Attempts
  <2>5. QED
    BY <1>3, <2>2, <2>3, <2>4
<1>12. QED
  BY <1>5, <1>6, <1>7, <1>8, <1>9, <1>10, <1>11 DEF OrchNext, Script

(* cycle_through_pools, monthly_query_processor: what the file or Impala knows of a        *)
(* monthly Job's shells is never more than the pools tried, for any pools and rounds.      *)
THEOREM RoundsSafe == OrchSpec => []RoundsBoundShells
<1>1. OrchInit => MonthlyInv
  <2> SUFFICES ASSUME OrchInit PROVE MonthlyInv
    OBVIOUS
  <2>1. /\ script.cycle = 1 /\ script.pool = 1 /\ shell.id = 1 /\ log = <<>> /\ query = <<>>
    BY DEF OrchInit, ShellInit
  <2>2. Attempts = 1
    BY <2>1, OrchestratorAssumption, AttemptsAdd DEF Attempts
  <2>3. File!LastShell = 0
    BY <2>1 DEF File!LastShell, File!Newest
  <2> QED
    BY <2>1, <2>2, <2>3 DEF MonthlyInv
<1>2. MonthlyInv => RoundsBoundShells
  BY DEF MonthlyInv, RoundsBoundShells
<1>3. QED
  BY <1>1, <1>2, MonthlyStep, OrchInvAlways, PTL DEF OrchSpec

LEMMA LastAttempt ==
    ASSUME NEW pools \in Nat, NEW cycles \in Nat, NEW cycle \in 1 .. cycles, NEW pool \in 1 .. pools
    PROVE  (cycle - 1) * pools + pool <= cycles * pools
<1>1. PICK rest \in Nat : cycles = cycle + rest
  <2>1. cycles - cycle \in Nat /\ cycles = cycle + (cycles - cycle)
    OBVIOUS
  <2> QED
    BY <2>1
<1>2. cycles * pools = (cycle - 1) * pools + pools + rest * pools
  BY <1>1
<1>3. rest * pools \in Nat /\ (cycle - 1) * pools \in Nat
  BY <1>1
<1>4. QED
  BY <1>2, <1>3

(* Ten rounds and no more: execute_step_with_retry starts no shell after those of the last. *)
THEOREM MonthlyShells ==
    OrchSpec => [](script.cell = "SqlTemplate/Table" => File!LastShell <= MaxCycles * Pools)
<1>1. OrchInv /\ RoundsBoundShells =>
          (script.cell = "SqlTemplate/Table" => File!LastShell <= MaxCycles * Pools)
  <2> SUFFICES ASSUME OrchInv, RoundsBoundShells, script.cell = "SqlTemplate/Table"
               PROVE  File!LastShell <= MaxCycles * Pools
    OBVIOUS
  <2>1. /\ script.cycle \in 1 .. MaxCycles /\ script.pool \in 1 .. Pools
        /\ MaxCycles \in Nat /\ Pools \in Nat
    BY OrchestratorAssumption DEF OrchInv, OrchTypeOK
  <2>2. Attempts <= MaxCycles * Pools /\ Attempts \in Int /\ MaxCycles * Pools \in Nat
    BY <2>1, LastAttempt, AttemptsAdd DEF Attempts
  <2>3. File!LastShell \in Nat /\ File!LastShell <= Attempts
    BY NewestNat DEF OrchInv, ShellInv, RoundsBoundShells
  <2> QED
    BY <2>2, <2>3
<1>2. QED
  BY <1>1, RoundsSafe, OrchInvAlways, PTL

===============================================================================
