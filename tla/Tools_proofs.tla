---------------------------- MODULE Tools_proofs ----------------------------
(***************************************************************************)
(* Theorems about the programs around Dispatch: the Impala monitor client, *)
(* for any hosts, threshold and retries; the smoke runs, for any levels    *)
(* and cells of Level 4; the installer of shared runtimes, for any         *)
(* installers and bundles; the notebook API, whose launch is run at most   *)
(* once and whose rows are the output of the Job that was asked for,       *)
(* for any number of queries and retries; and the host that MC_Host puts   *)
(* together from these parts, the scripts and their pipeline to the screen. *)
(***************************************************************************)
EXTENDS MC_Host, Pipeline_proofs, FiniteSetTheorems, TLAPS

-------------------------------------------------------------------------------
(* The Impala monitor client *)

BreakerRecord == [failures : 0 .. Threshold, is : {"closed", "open", "cooled"},
                  probing : {"yes", "no"}]
FetchRecord == [op : {"none", "observe", "backends", "queries"},
                pc : {"idle", "asks", "claims", "waits", "sent", "answered", "refused"},
                host : Hosts, url : Endpoints \cup {"none", "backends", "queries"},
                attempt : 0 .. MaxRetries, body : {"none", "good", "other"},
                left : SUBSET Hosts]
AttemptNumbers == 0 .. MaxRetries

(* A thread that has passed the breaker of h and has not sent its request yet. *)
Passed(f, t, h) == IF f[t].host = h /\ f[t].pc \in {"claims", "waits"} THEN 1 ELSE 0
PassedTo(f, h) == Passed(f, "monitor", h) + Passed(f, "recovery", h)

(* Whose the half-open probe is, and what an open breaker may still see. *)
InFlight(f, h) == \E t \in Threads : f[t].host = h /\ f[t].pc \in {"waits", "sent"}

HostInv(b, f, n, h) ==
    /\ b[h].probing = "yes" => InFlight(f, h)
    /\ n[h] <= 2
    /\ b[h].is = "open" => n[h] + PassedTo(f, h) <= 2

(* An observation requests a detail endpoint. *)
UrlInv == fetch["monitor"].op = "observe" => fetch["monitor"].url \in Endpoints

ClientInv ==
    /\ ClientTypeOK
    /\ \A h \in Hosts : HostInv(breaker, fetch, late, h)

(* The type invariant with named sets. *)
LEMMA ClientTypeUnfolds ==
    ClientTypeOK <=> /\ breaker \in [Hosts -> BreakerRecord]
                     /\ capability \in Endpoints \cup {"none"}
                     /\ coordinators \in [known : SUBSET Hosts, ttl : {"none", "fresh", "expired"}]
                     /\ fetch \in [Threads -> FetchRecord]
                     /\ late \in [Hosts -> Nat]
BY DEF ClientTypeOK, BreakerRecord, FetchRecord

(* A record stays one when a field is replaced. *)
LEMMA FieldReplaced ==
    ASSUME NEW r \in FetchRecord
    PROVE  /\ \A x \in {"none", "observe", "backends", "queries"} :
                /\ [r EXCEPT !.op = x] \in FetchRecord
                /\ [r EXCEPT !.op = x].pc = r.pc /\ [r EXCEPT !.op = x].host = r.host
           /\ \A x \in {"idle", "asks", "claims", "waits", "sent", "answered", "refused"} :
                /\ [r EXCEPT !.pc = x] \in FetchRecord
                /\ [r EXCEPT !.pc = x].pc = x /\ [r EXCEPT !.pc = x].host = r.host
           /\ \A x \in Endpoints \cup {"none", "backends", "queries"} :
                /\ [r EXCEPT !.url = x] \in FetchRecord
                /\ [r EXCEPT !.url = x].pc = r.pc /\ [r EXCEPT !.url = x].host = r.host
           /\ \A x \in {"none", "good", "other"} :
                /\ [r EXCEPT !.body = x] \in FetchRecord
                /\ [r EXCEPT !.body = x].pc = r.pc /\ [r EXCEPT !.body = x].host = r.host
<1>1. \A x \in {"none", "observe", "backends", "queries"} :
        /\ [r EXCEPT !.op = x] \in FetchRecord
        /\ [r EXCEPT !.op = x].pc = r.pc /\ [r EXCEPT !.op = x].host = r.host
  BY DEF FetchRecord
<1>2. \A x \in {"idle", "asks", "claims", "waits", "sent", "answered", "refused"} :
        /\ [r EXCEPT !.pc = x] \in FetchRecord
        /\ [r EXCEPT !.pc = x].pc = x /\ [r EXCEPT !.pc = x].host = r.host
  BY DEF FetchRecord
<1>3. \A x \in Endpoints \cup {"none", "backends", "queries"} :
        /\ [r EXCEPT !.url = x] \in FetchRecord
        /\ [r EXCEPT !.url = x].pc = r.pc /\ [r EXCEPT !.url = x].host = r.host
  BY DEF FetchRecord
<1>4. \A x \in {"none", "good", "other"} :
        /\ [r EXCEPT !.body = x] \in FetchRecord
        /\ [r EXCEPT !.body = x].pc = r.pc /\ [r EXCEPT !.body = x].host = r.host
  BY DEF FetchRecord
<1> QED
  BY <1>1, <1>2, <1>3, <1>4

(* The host. *)
LEMMA HostReplaced ==
    ASSUME NEW r \in FetchRecord, NEW x \in Hosts
    PROVE  [r EXCEPT !.host = x] \in FetchRecord /\ [r EXCEPT !.host = x].pc = r.pc
BY DEF FetchRecord

(* The attempt. *)
LEMMA AttemptReplaced ==
    ASSUME NEW r \in FetchRecord, NEW x \in AttemptNumbers
    PROVE  /\ [r EXCEPT !.attempt = x] \in FetchRecord
           /\ [r EXCEPT !.attempt = x].pc = r.pc /\ [r EXCEPT !.attempt = x].host = r.host
BY DEF FetchRecord, AttemptNumbers

(* The coordinators left to sweep. *)
LEMMA LeftReplaced ==
    ASSUME NEW r \in FetchRecord, NEW x \in SUBSET Hosts
    PROVE  [r EXCEPT !.left = x] \in FetchRecord /\ [r EXCEPT !.left = x].pc = r.pc
BY DEF FetchRecord

(* A thread that had not passed a breaker, or had sent its request, and now has not
   passed one: what is known of every host still holds. *)
LEMMA ThreadTurns ==
    ASSUME ClientInv, NEW t \in Threads, NEW r \in FetchRecord,
           fetch[t].pc \notin {"waits", "sent"}, r.pc \notin {"claims", "waits"},
           fetch' = [fetch EXCEPT ![t] = r], UNCHANGED <<breaker, late>>
    PROVE  fetch' \in [Threads -> FetchRecord] /\ \A h \in Hosts : HostInv(breaker, fetch, late, h)'
<1>1. /\ fetch' \in [Threads -> FetchRecord] /\ fetch'[t] = r
      /\ \A u \in Threads \ {t} : fetch'[u] = fetch[u]
  BY ClientTypeUnfolds DEF ClientInv
<1>2. ASSUME NEW h \in Hosts PROVE HostInv(breaker, fetch, late, h)'
  <2>1. InFlight(fetch, h) => InFlight(fetch', h)
    BY <1>1 DEF InFlight
  <2>2. PassedTo(fetch', h) <= PassedTo(fetch, h) /\ PassedTo(fetch, h) \in Nat
        /\ PassedTo(fetch', h) \in Nat
    BY <1>1 DEF PassedTo, Passed, Threads
  <2> QED
    BY <2>1, <2>2, ClientTypeUnfolds DEF ClientInv, HostInv
<1> QED
  BY <1>1, <1>2

(* A thread whose request passes a breaker that is not open. *)
LEMMA ThreadPasses ==
    ASSUME ClientInv, NEW t \in Threads, fetch[t].pc \notin {"waits", "sent"},
           breaker[fetch[t].host].is # "open", NEW pc \in {"waits", "claims"},
           fetch' = [fetch EXCEPT ![t].pc = pc], UNCHANGED <<breaker, late>>
    PROVE  fetch' \in [Threads -> FetchRecord] /\ \A h \in Hosts : HostInv(breaker, fetch, late, h)'
<1>1. /\ fetch' \in [Threads -> FetchRecord] /\ fetch'[t].host = fetch[t].host
      /\ \A u \in Threads \ {t} : fetch'[u] = fetch[u]
  BY ClientTypeUnfolds DEF ClientInv, FetchRecord
<1>2. ASSUME NEW h \in Hosts PROVE HostInv(breaker, fetch, late, h)'
  <2>1. InFlight(fetch, h) => InFlight(fetch', h)
    BY <1>1 DEF InFlight
  <2>2. breaker[h].is = "open" => PassedTo(fetch', h) = PassedTo(fetch, h)
    BY <1>1 DEF PassedTo, Passed, Threads
  <2> QED
    BY <2>1, <2>2, ClientTypeUnfolds DEF ClientInv, HostInv
<1> QED
  BY <1>1, <1>2

(* A request ends with a record: the probe of its host is given back. *)
LEMMA FailureRecorded ==
    ASSUME ClientInv, NEW t \in Threads, NEW r \in FetchRecord, fetch[t].pc = "sent",
           r.pc \notin {"claims", "waits"}, r.host = fetch[t].host,
           RecordFailure(fetch[t].host), fetch' = [fetch EXCEPT ![t] = r]
    PROVE  /\ fetch' \in [Threads -> FetchRecord] /\ breaker' \in [Hosts -> BreakerRecord]
           /\ late' \in [Hosts -> Nat]
           /\ \A h \in Hosts : HostInv(breaker, fetch, late, h)'
<1> DEFINE g == fetch[t].host
           n == IF breaker[g].failures < Threshold THEN breaker[g].failures + 1 ELSE Threshold
           b == [failures |-> n, probing |-> "no",
                 is |-> IF n = Threshold THEN "open" ELSE breaker[g].is]
<1>1. /\ fetch' \in [Threads -> FetchRecord] /\ fetch'[t] = r
      /\ \A u \in Threads \ {t} : fetch'[u] = fetch[u]
  BY ClientTypeUnfolds DEF ClientInv
<1>2. g \in Hosts /\ breaker[g] \in BreakerRecord /\ late[g] \in Nat
  BY ClientTypeUnfolds DEF ClientInv, FetchRecord
<1>3. b \in BreakerRecord
  BY <1>2, ClientAssumption DEF BreakerRecord
<1>4. /\ breaker' = [breaker EXCEPT ![g] = b]
      /\ late' = IF n = Threshold /\ breaker[g].is # "open" THEN [late EXCEPT ![g] = 0] ELSE late
  BY DEF RecordFailure
<1>5. b.probing = "no" /\ (b.is = "open" => breaker[g].is = "open" \/ n = Threshold)
  BY <1>2 DEF BreakerRecord
<1> HIDE DEF b, n, g
<1>6. /\ breaker' \in [Hosts -> BreakerRecord] /\ breaker'[g] = b
      /\ \A h \in Hosts \ {g} : breaker'[h] = breaker[h] /\ late'[h] = late[h]
      /\ late' \in [Hosts -> Nat]
      /\ late'[g] = IF n = Threshold /\ breaker[g].is # "open" THEN 0 ELSE late[g]
  BY <1>2, <1>3, <1>4, ClientTypeUnfolds DEF ClientInv
<1>7. ASSUME NEW h \in Hosts PROVE HostInv(breaker, fetch, late, h)'
  <2>1. PassedTo(fetch', h) <= PassedTo(fetch, h) /\ PassedTo(fetch, h) \in 0 .. 2
        /\ PassedTo(fetch', h) \in 0 .. 2
    BY <1>1 DEF PassedTo, Passed, Threads
  <2>2. HostInv(breaker, fetch, late, h) /\ late[h] \in Nat
    BY ClientTypeUnfolds DEF ClientInv
  <2>3. CASE h = g
    BY <1>5, <1>6, <2>1, <2>2, <2>3 DEF HostInv
  <2>4. CASE h # g
    <3>1. InFlight(fetch, h) => InFlight(fetch', h)
      BY <1>1, <2>4 DEF InFlight, g
    <3> QED
      BY <1>6, <2>1, <2>2, <2>4, <3>1 DEF HostInv
  <2> QED
    BY <2>3, <2>4
<1> QED
  BY <1>1, <1>6, <1>7

(* A usable answer closes the breaker of its host. *)
LEMMA AnswerRecorded ==
    ASSUME ClientInv, NEW t \in Threads, Answers(t)
    PROVE  ClientInv'
<1> DEFINE g == fetch[t].host
           b == [failures |-> 0, is |-> "closed", probing |-> "no"]
<1>1. PICK body \in {"good", "other"} :
        fetch' = [fetch EXCEPT ![t].pc = "answered", ![t].body = body]
  BY DEF Answers
<1>2. /\ fetch' \in [Threads -> FetchRecord] /\ fetch'[t].pc = "answered"
      /\ \A u \in Threads \ {t} : fetch'[u] = fetch[u]
  <2> DEFINE r == [fetch[t] EXCEPT !.pc = "answered", !.body = body]
  <2>1. fetch \in [Threads -> FetchRecord] /\ fetch[t] \in FetchRecord
    BY ClientTypeUnfolds DEF ClientInv
  <2>2. r \in FetchRecord /\ r.pc = "answered"
    BY <2>1 DEF FetchRecord
  <2>3. fetch' = [fetch EXCEPT ![t] = r]
    BY <1>1, <2>1
  <2> HIDE DEF r
  <2> QED
    BY <2>1, <2>2, <2>3
<1>3. g \in Hosts /\ b \in BreakerRecord
  BY ClientTypeUnfolds, ClientAssumption DEF ClientInv, FetchRecord, BreakerRecord
<1>4. /\ breaker' \in [Hosts -> BreakerRecord]
      /\ breaker'[g].probing = "no" /\ breaker'[g].is = "closed"
      /\ \A h \in Hosts \ {g} : breaker'[h] = breaker[h]
  BY <1>3, ClientTypeUnfolds DEF ClientInv, Answers, RecordSuccess
<1> HIDE DEF b, g
<1>5. UNCHANGED <<capability, coordinators, late>>
  BY DEF Answers
<1>6. ASSUME NEW h \in Hosts PROVE HostInv(breaker, fetch, late, h)'
  <2>1. PassedTo(fetch', h) <= PassedTo(fetch, h) /\ PassedTo(fetch, h) \in 0 .. 2
        /\ PassedTo(fetch', h) \in 0 .. 2
    BY <1>2 DEF PassedTo, Passed, Threads
  <2>2. HostInv(breaker, fetch, late, h) /\ late[h] \in Nat /\ late'[h] = late[h]
    BY <1>5, ClientTypeUnfolds DEF ClientInv
  <2>3. CASE h = g
    BY <1>4, <2>1, <2>2, <2>3 DEF HostInv
  <2>4. CASE h # g
    <3>1. InFlight(fetch, h) => InFlight(fetch', h)
      BY <1>2, <2>4 DEF InFlight, g
    <3> QED
      BY <1>4, <2>1, <2>2, <2>4, <3>1 DEF HostInv
  <2> QED
    BY <2>3, <2>4
<1>7. ClientTypeOK'
  BY <1>2, <1>4, <1>5, ClientTypeUnfolds DEF ClientInv, ClientTypeOK, BreakerRecord, FetchRecord
<1> QED
  BY <1>6, <1>7 DEF ClientInv

(* The thread that takes the probe has a request on its way to that host. *)
LEMMA ProbeTaken ==
    ASSUME ClientInv, NEW t \in Threads, Claims(t)
    PROVE  ClientInv'
<1> DEFINE g == fetch[t].host
<1>1. /\ fetch' \in [Threads -> FetchRecord] /\ fetch'[t].host = g /\ fetch'[t].pc = "waits"
      /\ \A u \in Threads \ {t} : fetch'[u] = fetch[u]
  BY ClientTypeUnfolds DEF ClientInv, FetchRecord, Claims
<1>2. g \in Hosts /\ fetch[t].pc = "claims"
  BY ClientTypeUnfolds DEF ClientInv, FetchRecord, Claims
<1>3. /\ breaker' \in [Hosts -> BreakerRecord] /\ breaker'[g].is = breaker[g].is
      /\ \A h \in Hosts \ {g} : breaker'[h] = breaker[h]
  BY <1>2, ClientTypeUnfolds DEF ClientInv, Claims, BreakerRecord
<1>4. UNCHANGED <<capability, coordinators, late>>
  BY DEF Claims
<1>5. ASSUME NEW h \in Hosts PROVE HostInv(breaker, fetch, late, h)'
  <2>1. PassedTo(fetch', h) = PassedTo(fetch, h)
    BY <1>1, <1>2 DEF PassedTo, Passed, Threads
  <2>2. HostInv(breaker, fetch, late, h) /\ late'[h] = late[h]
    BY <1>4 DEF ClientInv
  <2>3. InFlight(fetch, h) \/ h = g => InFlight(fetch', h)
    BY <1>1, <1>2 DEF InFlight
  <2> HIDE DEF g
  <2>4. breaker'[h].is = breaker[h].is /\ (h # g => breaker'[h] = breaker[h])
    BY <1>3
  <2> QED
    BY <2>1, <2>2, <2>3, <2>4 DEF HostInv
<1>6. ClientTypeOK'
  BY <1>1, <1>3, <1>4, ClientTypeUnfolds DEF ClientInv, ClientTypeOK, BreakerRecord, FetchRecord
<1> QED
  BY <1>5, <1>6 DEF ClientInv

(* A request that leaves is one of those that had passed the breaker. *)
LEMMA RequestLeaves ==
    ASSUME ClientInv, NEW t \in Threads, Sends(t)
    PROVE  ClientInv'
<1> DEFINE g == fetch[t].host
<1>1. /\ fetch' \in [Threads -> FetchRecord] /\ fetch'[t].host = g /\ fetch'[t].pc = "sent"
      /\ \A u \in Threads \ {t} : fetch'[u] = fetch[u]
  <2>1. fetch \in [Threads -> FetchRecord] /\ fetch' = [fetch EXCEPT ![t].pc = "sent"]
    BY ClientTypeUnfolds DEF ClientInv, Sends
  <2> QED
    BY <2>1 DEF FetchRecord
<1>2. g \in Hosts /\ fetch[t].pc = "waits"
  BY ClientTypeUnfolds DEF ClientInv, FetchRecord, Sends
<1>3. /\ late' \in [Hosts -> Nat]
      /\ late'[g] = IF breaker[g].is = "open" THEN late[g] + 1 ELSE late[g]
      /\ \A h \in Hosts \ {g} : late'[h] = late[h]
  BY <1>2, ClientTypeUnfolds DEF ClientInv, Sends
<1>4. UNCHANGED <<breaker, capability, coordinators>>
  BY DEF Sends
<1>5. ASSUME NEW h \in Hosts PROVE HostInv(breaker, fetch, late, h)'
  <2>1. InFlight(fetch, h) => InFlight(fetch', h)
    BY <1>1, <1>2 DEF InFlight
  <2>2. HostInv(breaker, fetch, late, h) /\ late[h] \in Nat /\ breaker'[h] = breaker[h]
    BY <1>4, ClientTypeUnfolds DEF ClientInv
  <2>3. CASE h = g
    <3>1. PassedTo(fetch', h) + 1 = PassedTo(fetch, h) /\ PassedTo(fetch', h) \in Nat
      BY <1>1, <1>2, <2>3 DEF PassedTo, Passed, Threads
    <3> HIDE DEF g
    <3> QED
      BY <1>3, <2>1, <2>2, <2>3, <3>1 DEF HostInv
  <2>4. CASE h # g
    <3>1. PassedTo(fetch', h) = PassedTo(fetch, h)
      BY <1>1, <1>2, <2>4 DEF PassedTo, Passed, Threads
    <3> HIDE DEF g
    <3> QED
      BY <1>3, <2>1, <2>2, <2>4, <3>1 DEF HostInv
  <2> QED
    BY <2>3, <2>4
<1>6. ClientTypeOK'
  BY <1>1, <1>3, <1>4, ClientTypeUnfolds DEF ClientInv, ClientTypeOK, BreakerRecord, FetchRecord
<1> QED
  BY <1>5, <1>6 DEF ClientInv

(* The other steps of a request. *)
LEMMA FetchStep ==
    ASSUME ClientInv, NEW t \in Threads, Fetches(t)
    PROVE  ClientInv'
<1>1. fetch[t] \in FetchRecord /\ fetch \in [Threads -> FetchRecord]
  BY ClientTypeUnfolds DEF ClientInv
<1>2. CASE Asks(t)
  <2>1. UNCHANGED <<breaker, capability, coordinators, late>> /\ fetch[t].pc = "asks"
    BY <1>2 DEF Asks
  <2>2. PICK pc \in {"waits", "claims", "refused"} :
          /\ fetch' = [fetch EXCEPT ![t].pc = pc]
          /\ pc # "refused" => breaker[fetch[t].host].is # "open"
    BY <1>2 DEF Asks
  <2>3. /\ fetch' \in [Threads -> FetchRecord]
        /\ \A h \in Hosts : HostInv(breaker, fetch, late, h)'
    <3>1. CASE pc = "refused"
      <4> DEFINE r == [fetch[t] EXCEPT !.pc = "refused"]
      <4>1. r \in FetchRecord /\ r.pc = "refused" /\ fetch' = [fetch EXCEPT ![t] = r]
        BY <1>1, <2>2, <3>1 DEF FetchRecord
      <4> HIDE DEF r
      <4> QED
        BY <2>1, <4>1, ThreadTurns
    <3> QED
      BY <2>1, <2>2, <3>1, ThreadPasses
  <2> QED
    BY <2>1, <2>3, ClientTypeUnfolds DEF ClientInv, ClientTypeOK, BreakerRecord, FetchRecord
<1>3. CASE Fails(t) \/ Redirects(t)
  <2>1. UNCHANGED <<capability, coordinators>> /\ RecordFailure(fetch[t].host)
        /\ fetch[t].pc = "sent"
    BY <1>3 DEF Fails, Redirects
  <2>2. PICK r \in FetchRecord : /\ r.pc \in {"asks", "refused"} /\ r.host = fetch[t].host
                                 /\ fetch' = [fetch EXCEPT ![t] = r]
    <3>1. CASE fetch' = [fetch EXCEPT ![t] = [fetch[t] EXCEPT !.pc = "refused"]]
      BY <1>1, <3>1 DEF FetchRecord
    <3>2. CASE /\ fetch[t].attempt < MaxRetries
               /\ fetch' = [fetch EXCEPT ![t] = [fetch[t] EXCEPT !.pc = "asks",
                                                                 !.attempt = fetch[t].attempt + 1]]
      <4> DEFINE q == [fetch[t] EXCEPT !.pc = "asks"]
                 a == fetch[t].attempt + 1
                 r == [q EXCEPT !.attempt = a]
      <4>1. a \in AttemptNumbers
        BY <1>1, <3>2, ClientAssumption DEF FetchRecord, AttemptNumbers
      <4>2. q \in FetchRecord /\ q.pc = "asks" /\ q.host = fetch[t].host
        BY <1>1, FieldReplaced
      <4>3. fetch' = [fetch EXCEPT ![t] = r]
        BY <3>2
      <4> HIDE DEF q, a
      <4>4. r \in FetchRecord /\ r.pc = "asks" /\ r.host = fetch[t].host
        BY <4>1, <4>2, AttemptReplaced
      <4> HIDE DEF r
      <4> QED
        BY <4>3, <4>4
    <3> QED
      BY <1>1, <1>3, <3>1, <3>2 DEF Fails, Redirects
  <2>3. /\ fetch' \in [Threads -> FetchRecord] /\ breaker' \in [Hosts -> BreakerRecord]
        /\ late' \in [Hosts -> Nat] /\ \A h \in Hosts : HostInv(breaker, fetch, late, h)'
    BY <2>1, <2>2, FailureRecorded
  <2> QED
    BY <2>1, <2>3, ClientTypeUnfolds DEF ClientInv, ClientTypeOK, BreakerRecord, FetchRecord
<1> QED
  BY <1>2, <1>3, AnswerRecorded, ProbeTaken, RequestLeaves DEF Fetches

(* A thread begins or ends a call: its record is replaced by one that has not passed a
   breaker. *)
LEMMA CallStep ==
    ASSUME ClientInv, NEW t \in Threads, NEW r \in FetchRecord,
           fetch[t].pc \notin {"waits", "sent"}, r.pc \notin {"claims", "waits"},
           fetch' = [fetch EXCEPT ![t] = r], UNCHANGED <<breaker, late>>,
           capability' \in Endpoints \cup {"none"},
           coordinators' \in [known : SUBSET Hosts, ttl : {"none", "fresh", "expired"}]
    PROVE  ClientInv'
<1>1. /\ fetch' \in [Threads -> FetchRecord]
      /\ \A h \in Hosts : HostInv(breaker, fetch, late, h)'
  BY ThreadTurns
<1> QED
  BY <1>1, ClientTypeUnfolds DEF ClientInv, ClientTypeOK, BreakerRecord, FetchRecord

(* An idle thread. *)
LEMMA IdleTyped == Idle \in FetchRecord /\ Idle.pc = "idle"
BY ClientAssumption DEF Idle, FetchRecord

(* What a request puts in a thread's record. *)
LEMMA RequestTyped ==
    ASSUME ClientInv, NEW t \in Threads, NEW op \in {"observe", "backends"}, NEW h \in Hosts,
           NEW url \in Endpoints \cup {"backends"}, Request(t, op, h, url)
    PROVE  \E r \in FetchRecord : r.pc = "asks" /\ fetch' = [fetch EXCEPT ![t] = r]
<1> DEFINE r1 == [fetch[t] EXCEPT !.op = op]
           r2 == [r1 EXCEPT !.pc = "asks"]
           r3 == [r2 EXCEPT !.host = h]
           r4 == [r3 EXCEPT !.url = url]
           r5 == [r4 EXCEPT !.attempt = 0]
           r6 == [r5 EXCEPT !.body = "none"]
<1>1. fetch' = [fetch EXCEPT ![t] = r6]
  BY DEF Request
<1>2. /\ fetch[t] \in FetchRecord /\ 0 \in AttemptNumbers
      /\ url \in Endpoints \cup {"none", "backends", "queries"}
  BY ClientTypeUnfolds, ClientAssumption DEF ClientInv, AttemptNumbers
<1>3. r1 \in FetchRecord
  BY <1>2, FieldReplaced
<1> HIDE DEF r1
<1>4. r2 \in FetchRecord /\ r2.pc = "asks"
  BY <1>3, FieldReplaced
<1> HIDE DEF r2
<1>5. r3 \in FetchRecord /\ r3.pc = "asks"
  BY <1>4, HostReplaced
<1> HIDE DEF r3
<1>6. r4 \in FetchRecord /\ r4.pc = "asks"
  BY <1>2, <1>5, FieldReplaced, ZenonT(20)
<1> HIDE DEF r4
<1>7. r5 \in FetchRecord /\ r5.pc = "asks"
  BY <1>2, <1>6, AttemptReplaced
<1> HIDE DEF r5
<1>8. r6 \in FetchRecord /\ r6.pc = "asks"
  BY <1>7, FieldReplaced
<1> HIDE DEF r6
<1> QED
  BY <1>1, <1>8

(* What a sweep puts there: its first request, or nothing. *)
LEMMA SweepTyped ==
    ASSUME ClientInv, NEW known \in SUBSET Hosts, Sweep(known)
    PROVE  \E r \in FetchRecord : r.pc \in {"asks", "idle"}
                                  /\ fetch' = [fetch EXCEPT !["recovery"] = r]
<1>1. CASE known = {}
  BY <1>1, IdleTyped DEF Sweep
<1>2. CASE known # {}
  <2>1. PICK h \in known :
          fetch' = [fetch EXCEPT !["recovery"] =
                      [Idle EXCEPT !.op = "queries", !.pc = "asks", !.host = h,
                                   !.url = "queries", !.left = known \ {h}]]
    BY <1>2 DEF Sweep
  <2> DEFINE r == [Idle EXCEPT !.op = "queries", !.pc = "asks", !.host = h,
                               !.url = "queries", !.left = known \ {h}]
  <2>2. r \in FetchRecord /\ r.pc = "asks"
    BY IdleTyped DEF FetchRecord
  <2> QED
    BY <2>1, <2>2
<1> QED
  BY <1>1, <1>2

(* A thread's request keeps its call and its URL. *)
LEMMA FetchKeepsUrl ==
    ASSUME ClientInv, NEW t \in Threads, Fetches(t), NEW u \in Threads
    PROVE  fetch'[u].op = fetch[u].op /\ fetch'[u].url = fetch[u].url
<1>1. fetch \in [Threads -> FetchRecord]
  BY ClientTypeUnfolds DEF ClientInv
<1>2. CASE Asks(t) \/ Claims(t) \/ Sends(t) \/ Redirects(t)
  <2>1. PICK pc \in {"waits", "claims", "refused", "sent"} : fetch' = [fetch EXCEPT ![t].pc = pc]
    BY <1>2 DEF Asks, Claims, Sends, Redirects
  <2> QED
    BY <1>1, <2>1 DEF FetchRecord
<1>3. CASE Answers(t)
  <2>1. PICK body \in {"good", "other"} :
          fetch' = [fetch EXCEPT ![t].pc = "answered", ![t].body = body]
    BY <1>3 DEF Answers
  <2> DEFINE r == [fetch[t] EXCEPT !.pc = "answered", !.body = body]
  <2>2. fetch' = [fetch EXCEPT ![t] = r]
    BY <1>1, <2>1
  <2>3. r.op = fetch[t].op /\ r.url = fetch[t].url
    BY <1>1 DEF FetchRecord
  <2> HIDE DEF r
  <2> QED
    BY <1>1, <2>2, <2>3
<1>4. CASE Fails(t)
  <2>1. PICK r \in {[fetch[t] EXCEPT !.pc = "asks", !.attempt = fetch[t].attempt + 1],
                    [fetch[t] EXCEPT !.pc = "refused"]} : fetch' = [fetch EXCEPT ![t] = r]
    BY <1>4 DEF Fails
  <2>2. r.op = fetch[t].op /\ r.url = fetch[t].url
    BY <1>1 DEF FetchRecord
  <2> QED
    BY <1>1, <2>1, <2>2
<1> QED
  BY <1>2, <1>3, <1>4 DEF Fetches

(* An observation asks for the cached endpoint, for the probe or for the fallback. *)
LEMMA UrlStep ==
    ASSUME ClientInv, UrlInv, [ClientNext]_clientVars
    PROVE  UrlInv'
<1> "monitor" \in Threads /\ "recovery" \in Threads
  BY DEF Threads
<1>0. fetch \in [Threads -> FetchRecord] /\ capability \in Endpoints \cup {"none"}
  BY ClientTypeUnfolds DEF ClientInv
<1>1. CASE Observe \/ FallsBack
  <2>1. PICK url \in Endpoints : Request("monitor", "observe", Home, url)
    BY <1>0, <1>1 DEF Observe, FallsBack, Endpoints
  <2>2. fetch'["monitor"].url = url
    BY <1>0, <2>1 DEF Request, FetchRecord
  <2> QED
    BY <2>2 DEF UrlInv
<1>2. CASE Observes
  BY <1>0, <1>2 DEF Observes, Idle, UrlInv
<1>3. CASE Discover \/ ListsCoordinators \/ SweepsOn \/ SweepEnds
  <2>1. \E r : fetch' = [fetch EXCEPT !["recovery"] = r]
    BY <1>3 DEF Discover, ListsCoordinators, SweepsOn, SweepEnds, Sweep, Request
  <2>2. fetch'["monitor"] = fetch["monitor"]
    BY <1>0, <2>1
  <2> QED
    BY <2>2 DEF UrlInv
<1>4. CASE Fetches("monitor") \/ Fetches("recovery")
  BY <1>4, FetchKeepsUrl DEF UrlInv
<1>5. CASE Expires \/ (\E h \in Hosts : CoolsDown(h)) \/ UNCHANGED clientVars
  BY <1>5 DEF Expires, CoolsDown, clientVars, UrlInv
<1> QED
  BY <1>1, <1>2, <1>3, <1>4, <1>5 DEF ClientNext, Monitors, Recovers

(* A step of the client keeps what is known of every host. *)
LEMMA ClientStep ==
    ASSUME ClientInv, UrlInv, [ClientNext]_clientVars
    PROVE  ClientInv'
<1> "monitor" \in Threads /\ "recovery" \in Threads
  BY DEF Threads
<1>0. /\ fetch["monitor"] \in FetchRecord /\ fetch["recovery"] \in FetchRecord
      /\ capability \in Endpoints \cup {"none"}
      /\ coordinators \in [known : SUBSET Hosts, ttl : {"none", "fresh", "expired"}]
      /\ breaker \in [Hosts -> BreakerRecord] /\ late \in [Hosts -> Nat]
  BY ClientTypeUnfolds DEF ClientInv
<1>1. CASE Observe
  <2>1. PICK url \in Endpoints : Request("monitor", "observe", Home, url)
    BY <1>0, <1>1 DEF Observe, Endpoints
  <2>2. PICK r \in FetchRecord : r.pc = "asks" /\ fetch' = [fetch EXCEPT !["monitor"] = r]
    BY <2>1, RequestTyped, ClientAssumption
  <2> QED
    BY <1>0, <1>1, <2>2, CallStep DEF Observe
<1>2. CASE FallsBack
  <2>1. Request("monitor", "observe", Home, "query_plan")
    BY <1>2 DEF FallsBack
  <2>2. PICK r \in FetchRecord : r.pc = "asks" /\ fetch' = [fetch EXCEPT !["monitor"] = r]
    BY <2>1, RequestTyped, ClientAssumption DEF Endpoints
  <2> QED
    BY <1>0, <1>2, <2>2, CallStep DEF FallsBack, Probe, Ended, Endpoints
<1>3. CASE Observes
  <2>1. fetch["monitor"].url \in Endpoints
    BY <1>3 DEF Observes, UrlInv
  <2> QED
    BY <1>0, <1>3, <2>1, CallStep, IdleTyped DEF Observes, Ended
<1>4. CASE Discover
  <2>1. CASE Sweep(coordinators.known)
    <3>1. PICK r \in FetchRecord : /\ r.pc \in {"asks", "idle"}
                                   /\ fetch' = [fetch EXCEPT !["recovery"] = r]
      BY <1>0, <2>1, SweepTyped
    <3> QED
      BY <1>0, <1>4, <3>1, CallStep DEF Discover
  <2>2. CASE Request("recovery", "backends", Seed, "backends")
    <3>1. PICK r \in FetchRecord : r.pc = "asks" /\ fetch' = [fetch EXCEPT !["recovery"] = r]
      BY <2>2, RequestTyped, ClientAssumption
    <3> QED
      BY <1>0, <1>4, <3>1, CallStep DEF Discover
  <2> QED
    BY <1>4, <2>1, <2>2 DEF Discover
<1>5. CASE ListsCoordinators
  <2>1. CASE \E known \in SUBSET Hosts :
               coordinators' = [known |-> known, ttl |-> "fresh"] /\ Sweep(known)
    <3>1. PICK known \in SUBSET Hosts :
            coordinators' = [known |-> known, ttl |-> "fresh"] /\ Sweep(known)
      BY <2>1
    <3>2. PICK r \in FetchRecord : /\ r.pc \in {"asks", "idle"}
                                   /\ fetch' = [fetch EXCEPT !["recovery"] = r]
      BY <3>1, SweepTyped
    <3> QED
      BY <1>0, <1>5, <3>1, <3>2, CallStep DEF ListsCoordinators, Ended
  <2>2. CASE fetch' = [fetch EXCEPT !["recovery"] = Idle] /\ UNCHANGED coordinators
    BY <1>0, <1>5, <2>2, CallStep, IdleTyped DEF ListsCoordinators, Ended
  <2> QED
    BY <1>5, <2>1, <2>2 DEF ListsCoordinators
<1>6. CASE SweepsOn
  <2>1. PICK h \in fetch["recovery"].left :
          fetch' = [fetch EXCEPT !["recovery"] =
                      [fetch["recovery"] EXCEPT !.pc = "asks", !.host = h, !.attempt = 0,
                                                !.body = "none",
                                                !.left = fetch["recovery"].left \ {h}]]
    BY <1>6 DEF SweepsOn
  <2>2. h \in Hosts /\ fetch["recovery"].left \ {h} \in SUBSET Hosts /\ 0 \in AttemptNumbers
    BY <1>0, ClientAssumption DEF FetchRecord, AttemptNumbers
  <2> DEFINE r1 == [fetch["recovery"] EXCEPT !.pc = "asks"]
             r2 == [r1 EXCEPT !.host = h]
             r3 == [r2 EXCEPT !.attempt = 0]
             r4 == [r3 EXCEPT !.body = "none"]
             l == fetch["recovery"].left \ {h}
             r5 == [r4 EXCEPT !.left = l]
  <2>3. fetch' = [fetch EXCEPT !["recovery"] = r5]
    BY <2>1
  <2>4. r1 \in FetchRecord /\ r1.pc = "asks"
    BY <1>0, FieldReplaced
  <2> HIDE DEF r1, l
  <2>5. r2 \in FetchRecord /\ r2.pc = "asks"
    BY <2>2, <2>4, HostReplaced
  <2> HIDE DEF r2
  <2>6. r3 \in FetchRecord /\ r3.pc = "asks"
    BY <2>2, <2>5, AttemptReplaced
  <2> HIDE DEF r3
  <2>7. r4 \in FetchRecord /\ r4.pc = "asks"
    BY <2>6, FieldReplaced
  <2> HIDE DEF r4
  <2>8. l \in SUBSET Hosts
    BY <2>2 DEF l
  <2>9. r5 \in FetchRecord /\ r5.pc = "asks"
    BY <2>7, <2>8, LeftReplaced
  <2> HIDE DEF r5
  <2> QED
    BY <1>0, <1>6, <2>3, <2>9, CallStep DEF SweepsOn, Ended
<1>7. CASE SweepEnds
  BY <1>0, <1>7, CallStep, IdleTyped DEF SweepEnds, Ended
<1>8. CASE \E h \in Hosts : CoolsDown(h)
  <2>1. PICK h \in Hosts : CoolsDown(h)
    BY <1>8
  <2>2. /\ breaker' \in [Hosts -> BreakerRecord]
        /\ breaker'[h].is = "cooled" /\ breaker'[h].probing = breaker[h].probing
        /\ \A g \in Hosts \ {h} : breaker'[g] = breaker[g]
    BY <1>0, <2>1 DEF CoolsDown, BreakerRecord
  <2>3. UNCHANGED <<capability, coordinators, fetch, late>>
    BY <2>1 DEF CoolsDown
  <2>4. \A g \in Hosts : HostInv(breaker, fetch, late, g)'
    BY <2>2, <2>3 DEF ClientInv, HostInv
  <2> QED
    BY <2>2, <2>3, <2>4, ClientTypeUnfolds DEF ClientInv, ClientTypeOK, BreakerRecord, FetchRecord
<1>9. CASE Expires
  BY <1>9 DEF Expires, ClientInv, ClientTypeOK, HostInv
<1>10. CASE UNCHANGED clientVars
  BY <1>10 DEF clientVars, ClientInv, ClientTypeOK, HostInv
<1> QED
  BY <1>1, <1>2, <1>3, <1>4, <1>5, <1>6, <1>7, <1>8, <1>9, <1>10, FetchStep
     DEF ClientNext, Monitors, Recovers

(* Nothing is asked of any host at first. *)
LEMMA ClientStarts == ClientInit => ClientInv /\ UrlInv
<1> SUFFICES ASSUME ClientInit PROVE ClientInv /\ UrlInv
  OBVIOUS
<1>1. fetch = [t \in Threads |-> Idle] /\ fetch \in [Threads -> FetchRecord] /\ Idle.op = "none"
  BY IdleTyped DEF ClientInit, Idle
<1>2. ClientTypeOK
  BY <1>1, ClientAssumption DEF ClientInit, ClientTypeOK, FetchRecord
<1>3. ASSUME NEW h \in Hosts PROVE HostInv(breaker, fetch, late, h)
  BY DEF ClientInit, HostInv
<1>4. UrlInv
  BY <1>1 DEF UrlInv, Threads
<1> QED
  BY <1>2, <1>3, <1>4 DEF ClientInv

(* The invariant of the client: what two threads that share it without a lock may rely on. *)
THEOREM ClientInvariant == ClientSpec => [](ClientInv /\ UrlInv)
BY ClientStarts, ClientStep, UrlStep, PTL DEF ClientSpec

(* Type correctness of impala_monitor_http.py's client: breakers, endpoint, discovery
   cache and requests keep their form, for any hosts, threshold and retries. *)
THEOREM ClientTypeCorrect == ClientSpec => []ClientTypeOK
<1>1. ClientInv => ClientTypeOK
  BY DEF ClientInv
<1> QED
  BY <1>1, ClientInvariant, PTL

(* While the half-open probe of a host is taken, a request to it is on its way: every end
   of _fetch_enforced gives the probe back. *)
THEOREM ProbeSafe == ClientSpec => []ProbeIsInFlight
<1>1. ClientInv => ProbeIsInFlight
  BY DEF ClientInv, HostInv, InFlight, ProbeIsInFlight
<1> QED
  BY <1>1, ClientInvariant, PTL

(* An open breaker lets through what had passed it before, one request of each thread. *)
THEOREM OpenHostIsQuiet == ClientSpec => []OpenIsQuiet
<1>1. Cardinality(Threads) = 2
  <2>1. Cardinality({"monitor"}) = 1 /\ IsFiniteSet({"monitor"})
    BY FS_Singleton
  <2>2. Cardinality({"monitor"} \cup {"recovery"}) = 1 + 1
    BY <2>1, FS_AddElement
  <2>3. Threads = {"monitor"} \cup {"recovery"}
    BY DEF Threads
  <2> QED
    BY <2>2, <2>3
<1>2. ClientInv => OpenIsQuiet
  BY <1>1 DEF ClientInv, HostInv, OpenIsQuiet
<1> QED
  BY <1>2, ClientInvariant, PTL

-------------------------------------------------------------------------------
(* Smoke runs *)

Run == [job : {"none", "Running", "Succeeded", "Failed"}, table : BOOLEAN,
        csv : {"none", "plain", "gzip"}, files : BOOLEAN, ok : BOOLEAN, known : BOOLEAN]
Runs == [1 .. Len(Batch) -> Run]
Invocations == [level : Levels, dry : BOOLEAN, reuse : BOOLEAN, failFast : BOOLEAN]
UnderWay == step \notin {"cleanup", "done"}

(* What a step may not do: reach the cleanup with exit code 0 without having earned it. *)
NoFalsePass == step' = "cleanup" /\ exitCode' = 0 => \A i \in 1 .. Len(Batch) : Earned(runs', i)

(* A cell of Level 4 or nothing, and what two batches make together. *)
LEMMA Concat ==
    ASSUME NEW S, NEW s \in Seq(S), NEW t \in Seq(S)
    PROVE  s \o t \in Seq(S) /\ Len(s \o t) = Len(s) + Len(t) /\ Len(s) \in Nat /\ Len(t) \in Nat
OBVIOUS

(* Every batch has a first run; only Level 5 checks survival, and it does not soak. *)
LEMMA BatchFacts ==
    ASSUME invocation \in Invocations
    PROVE  /\ Len(Batch) \in Nat \ {0}
           /\ invocation.level # 5 => \A i \in 1 .. Len(Batch) : Batch[i] # "detached_survival"
           /\ invocation.level = 5 => \A i \in 1 .. Len(Batch) : Batch[i] # "soak"
<1>1. invocation.level \in {3, 4, 5, 6} /\ (invocation.level = 4 => Level4Cells # {})
  <2>1. invocation.level \in Levels /\ Levels \subseteq 3 .. 6
    BY SmokeCells DEF Invocations
  <2>2. invocation.level \in 3 .. 6
    BY <2>1
  <2>3. invocation.level \in {3, 4, 5, 6}
    BY <2>2
  <2>4. invocation.level = 4 => Level4Cells # {}
    BY <2>1, SmokeCells
  <2> QED
    BY <2>3, <2>4
<1>2. CASE invocation.level = 3
  <2>1. Batch = <<"sqlfile_table">>
    BY <1>2 DEF Batch
  <2> QED
    BY <1>2, <2>1
<1>3. CASE invocation.level = 5
  <2>1. Batch = <<"concurrency_cap", "illegal_destination", "detached_survival">>
    BY <1>3 DEF Batch
  <2> QED
    BY <1>3, <2>1
<1>4. CASE invocation.level = 6
  <2>1. Batch = <<"data_correctness", "soak", "upgrade_in_place">>
    BY <1>4 DEF Batch
  <2> QED
    BY <1>4, <2>1
<1>5. CASE invocation.level = 4
  <2> DEFINE S == {"sqlfile_csv", "sqlfile_table_csv", "sqltemplate_table", "sqlfile_table",
                   "existingtable_csv"}
             Kept(cell) == IF cell \in Level4Cells THEN <<cell>> ELSE <<>>
             seed == IF "existingtable_csv" \in Level4Cells /\ ~invocation.dry
                     THEN <<"sqlfile_table">> ELSE <<>>
             k1 == Kept("sqlfile_csv")
             k2 == Kept("sqlfile_table_csv")
             k3 == Kept("sqltemplate_table")
             k5 == Kept("existingtable_csv")
  <2>1. Batch = k1 \o k2 \o k3 \o seed \o k5
    BY <1>5 DEF Batch, Batch4
  <2>0. ASSUME NEW cell \in S PROVE Kept(cell) \in Seq(S)
    <3>1. <<cell>> \in Seq(S) /\ <<>> \in Seq(S)
      BY <2>0
    <3> QED
      BY <3>1
  <2>2. /\ k1 \in Seq(S) /\ k2 \in Seq(S) /\ k3 \in Seq(S) /\ seed \in Seq(S) /\ k5 \in Seq(S)
    <3>1. /\ "sqlfile_csv" \in S /\ "sqlfile_table_csv" \in S /\ "sqltemplate_table" \in S
          /\ "sqlfile_table" \in S /\ "existingtable_csv" \in S
      OBVIOUS
    <3>2. <<"sqlfile_table">> \in Seq(S) /\ <<>> \in Seq(S)
      BY <3>1
    <3>3. seed \in Seq(S)
      BY <3>2
    <3> HIDE DEF S, Kept
    <3> QED
      BY <2>0, <3>1, <3>3
  <2>3. \/ Len(k1) = 1 \/ Len(k2) = 1 \/ Len(k3) = 1 \/ Len(k5) = 1
    <3>1. PICK cell \in Level4Cells : TRUE
      BY <1>1, <1>5
    <3>2. cell \in {"sqlfile_csv", "sqlfile_table_csv", "sqltemplate_table", "existingtable_csv"}
      BY <3>1, SmokeCells
    <3> QED
      BY <3>1, <3>2
  <2>4. "detached_survival" \notin S
    OBVIOUS
  <2> HIDE DEF k1, k2, k3, seed, k5, S
  <2> DEFINE b2 == k1 \o k2
             b3 == b2 \o k3
             b4 == b3 \o seed
             b5 == b4 \o k5
  <2>5. b2 \in Seq(S) /\ Len(b2) = Len(k1) + Len(k2) /\ Len(k1) \in Nat /\ Len(k2) \in Nat
    BY <2>2, Concat
  <2> HIDE DEF b2
  <2>6. b3 \in Seq(S) /\ Len(b3) = Len(b2) + Len(k3) /\ Len(k3) \in Nat
    BY <2>2, <2>5, Concat
  <2> HIDE DEF b3
  <2>7. b4 \in Seq(S) /\ Len(b4) = Len(b3) + Len(seed) /\ Len(seed) \in Nat
    BY <2>2, <2>6, Concat
  <2> HIDE DEF b4
  <2>8. b5 \in Seq(S) /\ Len(b5) = Len(b4) + Len(k5) /\ Len(k5) \in Nat
    BY <2>2, <2>7, Concat
  <2>9. Batch = b5
    BY <2>1 DEF b2, b3, b4
  <2> HIDE DEF b5
  <2>10. Len(b5) \in Nat /\ \A i \in 1 .. Len(b5) : b5[i] \in S
    BY <2>8
  <2>11. Len(b5) = Len(k1) + Len(k2) + Len(k3) + Len(seed) + Len(k5)
    BY <2>5, <2>6, <2>7, <2>8
  <2>12. Len(b5) # 0
    BY <2>3, <2>5, <2>6, <2>7, <2>8, <2>11
  <2> QED
    BY <1>5, <2>4, <2>9, <2>10, <2>12
<1> QED
  BY <1>1, <1>2, <1>3, <1>4, <1>5

(* The types, and what the invariant says of the run at hand. *)
LEMMA SmokeTypes ==
    ASSUME SmokeInv
    PROVE  /\ invocation \in Invocations /\ pane \in Panes /\ step \in SmokeSteps
           /\ exitCode \in 0 .. 2 /\ Len(Batch) \in Nat \ {0} /\ at \in 1 .. Len(Batch)
           /\ runs \in Runs /\ runs[at] \in Run /\ DOMAIN runs = 1 .. Len(Batch)
           /\ UnderWay => AtHand
<1>1. invocation \in Invocations /\ at \in 1 .. Len(Batch) /\ runs \in Runs
  BY DEF SmokeInv, SmokeTypeOK, Invocations, Runs, Run
<1> QED
  BY <1>1, BatchFacts DEF SmokeInv, SmokeTypeOK, Runs, UnderWay

(* Where the invocation stays, so does its batch. *)
LEMMA SameBatch ==
    ASSUME invocation' = invocation
    PROVE  /\ Batch' = Batch /\ DryRun' = DryRun /\ Runs' = Runs
           /\ \A i : Earned(runs, i)' <=> Earned(runs', i)
<1>1. Batch' = Batch
  BY DEF Batch, Batch4
<1> QED
  BY <1>1 DEF DryRun, Runs, Earned

(* The run at hand goes on. *)
LEMMA RunGoesOn ==
    ASSUME SmokeInv, UnderWay, UNCHANGED <<invocation, at, exitCode>>, pane' \in Panes,
           step' \in SmokeSteps \ {"cleanup", "done"}, runs' \in Runs,
           \A i \in 1 .. Len(Batch) : i # at => runs'[i] = runs[i],
           runs'[at].ok => runs[at].ok,
           AtHand'
    PROVE  SmokeInv' /\ NoFalsePass
<1>1. Batch' = Batch /\ (\A i : Earned(runs, i)' <=> Earned(runs', i)) /\ Runs' = Runs
  BY SameBatch
<1>2. SmokeTypeOK'
  BY <1>1 DEF SmokeInv, SmokeTypeOK, Runs, Run
<1>3. at \in Nat /\ Len(Batch) \in Nat /\ 1 <= at /\ at <= Len(Batch)
      /\ DOMAIN runs = 1 .. Len(Batch) /\ DOMAIN runs' = 1 .. Len(Batch)
  BY SmokeTypes DEF Runs
<1>4. \A i \in at + 1 .. Len(Batch) : runs'[i].job = "none"
  BY <1>3 DEF SmokeInv, UnderWay
<1>5. (\A i \in 1 .. Len(Batch) : runs'[i].ok) => \A i \in 1 .. at - 1 : Earned(runs', i)
  <2> SUFFICES ASSUME \A i \in 1 .. Len(Batch) : runs'[i].ok, NEW i \in 1 .. at - 1
               PROVE  Earned(runs', i)
    OBVIOUS
  <2>1. i \in 1 .. Len(Batch) /\ i # at
    BY <1>3
  <2>2. \A k \in 1 .. Len(Batch) : runs[k].ok
    BY <1>3
  <2>3. Earned(runs, i)
    BY <1>3, <2>2 DEF SmokeInv, UnderWay
  <2> QED
    BY <2>1, <2>3 DEF Earned
<1> QED
  BY <1>1, <1>2, <1>3, <1>4, <1>5 DEF SmokeInv, NoFalsePass

(* The run at hand is over. *)
LEMMA RunIsOver ==
    ASSUME SmokeInv, UnderWay, UNCHANGED invocation, pane' \in Panes, Over(runs'), runs' \in Runs,
           \A i \in 1 .. Len(Batch) : i # at => runs'[i] = runs[i],
           runs'[at].ok => runs[at].ok /\ Earned(runs', at)
    PROVE  SmokeInv' /\ NoFalsePass
<1>1. Batch' = Batch /\ (\A i : Earned(runs, i)' <=> Earned(runs', i)) /\ Runs' = Runs
  BY SameBatch
<1>2. at \in Nat /\ Len(Batch) \in Nat /\ 1 <= at /\ at <= Len(Batch) /\ exitCode \in 0 .. 2
      /\ DOMAIN runs = 1 .. Len(Batch) /\ DOMAIN runs' = 1 .. Len(Batch)
  BY SmokeTypes DEF Runs
<1> DEFINE next == IF Seeds /\ ~runs'[at].ok THEN at + 2 ELSE at + 1
           stops == next > Len(Batch) \/ (invocation.failFast /\ ~runs'[at].ok)
           allOk == \A i \in 1 .. Len(Batch) : runs'[i].ok
<1>3. IF stops THEN step' = "cleanup" /\ exitCode' = (IF allOk THEN 0 ELSE 1) /\ at' = at
               ELSE step' = FirstStep(Batch[next]) /\ at' = next /\ exitCode' = exitCode
  BY <1>2 DEF Over, Judged
<1>4. next \in Nat /\ at < next /\ (allOk => next = at + 1)
  BY <1>2
<1>5. \A i \in at + 1 .. Len(Batch) : runs'[i].job = "none"
  BY <1>2 DEF SmokeInv, UnderWay
<1>6. ASSUME allOk, NEW i \in 1 .. at PROVE Earned(runs', i)
  <2>1. CASE i = at
    BY <1>2, <1>6, <2>1
  <2>2. CASE i # at
    <3>1. i \in 1 .. Len(Batch) /\ i \in 1 .. at - 1
      BY <1>2, <2>2
    <3>2. \A k \in 1 .. Len(Batch) : runs[k].ok
      BY <1>2, <1>6
    <3>3. Earned(runs, i)
      BY <1>2, <3>1, <3>2 DEF SmokeInv, UnderWay
    <3> QED
      BY <2>2, <3>1, <3>3 DEF Earned
  <2> QED
    BY <2>1, <2>2
<1> HIDE DEF next, allOk
<1>7. CASE stops
  <2>1. step' = "cleanup" /\ exitCode' \in {0, 1} /\ at' = at /\ (exitCode' = 0 => allOk)
    BY <1>3, <1>7
  <2>2. SmokeTypeOK'
    BY <1>1, <1>2, <2>1 DEF SmokeInv, SmokeTypeOK, Runs, Run, SmokeSteps
  <2>3. SmokeInv'
    BY <2>1, <2>2 DEF SmokeInv
  <2>4. NoFalsePass
    <3> SUFFICES ASSUME exitCode' = 0, NEW i \in 1 .. Len(Batch) PROVE Earned(runs', i)
      BY DEF NoFalsePass
    <3>1. allOk
      BY <2>1
    <3>2. runs'[at].ok
      BY <1>2, <3>1 DEF allOk
    <3>3. next = at + 1 /\ next > Len(Batch)
      BY <1>4, <1>7, <3>1, <3>2
    <3>4. i \in 1 .. at
      BY <1>2, <3>3
    <3> QED
      BY <1>6, <3>1, <3>4
  <2> QED
    BY <2>3, <2>4
<1>8. CASE ~stops
  <2>1. /\ step' = FirstStep(Batch[next]) /\ at' = next /\ exitCode' = exitCode
        /\ next <= Len(Batch)
    BY <1>2, <1>3, <1>4, <1>8
  <2>2. step' \in {"file", "check"} /\ (step' = "check" => ~Launches(Batch[next]))
    BY <2>1 DEF FirstStep
  <2>3. SmokeTypeOK'
    BY <1>1, <1>2, <1>4, <2>1, <2>2 DEF SmokeInv, SmokeTypeOK, Runs, Run, SmokeSteps
  <2>4. runs'[next].job = "none"
    BY <1>2, <1>4, <1>5, <2>1
  <2>5. AtHand'
    <3>1. (Launches(Cell))' <=> Launches(Batch[next])
      BY <1>1, <2>1 DEF Cell, Launches, WritesTable, WritesCsv
    <3> QED
      BY <2>1, <2>2, <2>4, <3>1 DEF AtHand
  <2>6. \A i \in next + 1 .. Len(Batch) : runs'[i].job = "none"
    BY <1>2, <1>4, <1>5
  <2>7. allOk => \A i \in 1 .. next - 1 : Earned(runs', i)
    BY <1>2, <1>4, <1>6
  <2>8. (\A i \in DOMAIN runs' : runs'[i].ok) => allOk
    BY <1>2 DEF allOk
  <2>9. SmokeInv'
    BY <1>1, <2>1, <2>3, <2>5, <2>6, <2>7, <2>8 DEF SmokeInv
  <2>10. NoFalsePass
    BY <2>2 DEF NoFalsePass
  <2> QED
    BY <2>9, <2>10
<1> QED
  BY <1>7, <1>8

(* An exception ends the run at hand, or all of them. *)
LEMMA RunIsBroken ==
    ASSUME SmokeInv, UnderWay, UNCHANGED invocation, pane' \in Panes, NEW rs, rs \in Runs,
           \A i \in 1 .. Len(Batch) : i # at => rs[i] = runs[i], RaisedWith(rs)
    PROVE  SmokeInv' /\ NoFalsePass
<1>1. at \in 1 .. Len(Batch) /\ rs[at] \in Run /\ Len(Batch) \in Nat \ {0}
  BY SmokeTypes DEF Runs
<1>2. CASE invocation.level = 4 \/ Cell = "soak"
  <2> DEFINE r == [rs[at] EXCEPT !.ok = FALSE]
             s == [rs EXCEPT ![at] = r]
  <2>1. Over(s)
    <3>0. ~(Cell = "soak" /\ invocation.level = 5)
      BY <1>1, SmokeTypes, BatchFacts DEF Cell
    <3>1. Over([rs EXCEPT ![at].ok = FALSE])
      <4>1. (invocation.level = 4 \/ Cell = "soak") /\ invocation.level # 5
        BY <1>2, <3>0
      <4> QED
        BY <4>1 DEF RaisedWith
    <3>2. [rs EXCEPT ![at].ok = FALSE] = s
      BY <1>1 DEF Runs, Run
    <3> QED
      BY <3>1, <3>2
  <2>2. r \in Run /\ ~r.ok
    BY <1>1 DEF Run
  <2> HIDE DEF r
  <2>3. s \in Runs /\ ~s[at].ok /\ \A i \in 1 .. Len(Batch) : i # at => s[i] = runs[i]
    BY <1>1, <2>2 DEF Runs
  <2> HIDE DEF s
  <2>4. runs' = s /\ Over(runs')
    BY <2>1 DEF Over
  <2> QED
    BY <2>3, <2>4, RunIsOver
<1>3. CASE ~(invocation.level = 4 \/ Cell = "soak") /\ invocation.level = 5
  <2> DEFINE r == [rs[at] EXCEPT !.ok = FALSE, !.known = FALSE]
             s == [rs EXCEPT ![at] = r]
  <2>1. Over(s)
    <3>1. Over([rs EXCEPT ![at].ok = FALSE, ![at].known = FALSE])
      BY <1>3 DEF RaisedWith
    <3>2. [rs EXCEPT ![at].ok = FALSE, ![at].known = FALSE] = s
      BY <1>1 DEF Runs, Run
    <3> QED
      BY <3>1, <3>2
  <2>2. r \in Run /\ ~r.ok
    BY <1>1 DEF Run
  <2> HIDE DEF r
  <2>3. s \in Runs /\ ~s[at].ok /\ \A i \in 1 .. Len(Batch) : i # at => s[i] = runs[i]
    BY <1>1, <2>2 DEF Runs
  <2> HIDE DEF s
  <2>4. runs' = s /\ Over(runs')
    BY <2>1 DEF Over
  <2> QED
    BY <2>3, <2>4, RunIsOver
<1>4. CASE ~(invocation.level = 4 \/ Cell = "soak") /\ invocation.level # 5
  <2>1. /\ exitCode' = 1 /\ step' = "cleanup" /\ at' = at
        /\ runs' = [i \in DOMAIN rs |-> [rs[i] EXCEPT !.known = invocation.level = 3]]
    BY <1>4 DEF RaisedWith
  <2>2. runs' \in Runs
    <3>1. ASSUME NEW i \in 1 .. Len(Batch)
          PROVE  [rs[i] EXCEPT !.known = invocation.level = 3] \in Run
      <4>1. rs[i] \in Run
        BY DEF Runs
      <4> QED
        BY <4>1 DEF Run
    <3> QED
      BY <2>1, <3>1 DEF Runs
  <2>3. Batch' = Batch
    BY SameBatch
  <2>4. SmokeTypeOK'
    BY <2>1, <2>2, <2>3 DEF SmokeInv, SmokeTypeOK, Runs, Run, SmokeSteps
  <2> QED
    BY <2>1, <2>4 DEF SmokeInv, NoFalsePass
<1> QED
  BY <1>2, <1>3, <1>4

(* A call of the driver raises. *)
LEMMA CallsFail ==
    ASSUME SmokeInv, UnderWay, UNCHANGED invocation, CallFails PROVE SmokeInv' /\ NoFalsePass
<1>1. pane' \in Panes
  BY SmokeTypes DEF CallFails, LeftBehind, Panes
<1>2. PICK rs : rs = runs
  OBVIOUS
<1>3. rs \in Runs /\ RaisedWith(rs)
  BY <1>2, SmokeTypes DEF CallFails, Raised
<1> QED
  BY <1>1, <1>2, <1>3, RunIsBroken

(* The run at hand goes on, and only its step changes. *)
LEMMA StepGoesOn ==
    ASSUME SmokeInv, UnderWay, UNCHANGED invocation, pane' \in Panes,
           NEW s \in SmokeSteps \ {"cleanup", "done"}, GoesTo(s), AtHand'
    PROVE  SmokeInv' /\ NoFalsePass
BY SmokeTypes, RunGoesOn DEF GoesTo

(* A failed step of the run at hand. *)
LEMMA Refuses ==
    ASSUME SmokeInv, UnderWay, UNCHANGED invocation, pane' \in Panes,
           Refused \/ Over(FailedStep)
    PROVE  SmokeInv' /\ NoFalsePass
<1> DEFINE r == [runs[at] EXCEPT !.ok = FALSE]
<1>1. at \in 1 .. Len(Batch) /\ runs \in Runs /\ runs[at] \in Run
  BY SmokeTypes
<1>2. r \in Run /\ ~r.ok
  BY <1>1 DEF Run
<1>3. FailedStep = [runs EXCEPT ![at] = r]
  BY <1>1 DEF FailedStep, Runs, Run
<1> HIDE DEF r
<1>4. PICK rs : rs = FailedStep
  OBVIOUS
<1>5. rs \in Runs /\ ~rs[at].ok /\ \A i \in 1 .. Len(Batch) : i # at => rs[i] = runs[i]
  BY <1>1, <1>2, <1>3, <1>4 DEF Runs
<1>6. Over(rs) \/ RaisedWith(rs)
  BY <1>4 DEF Refused
<1>7. CASE Over(rs)
  <2>1. runs' = rs /\ Over(runs')
    BY <1>7 DEF Over
  <2> QED
    BY <1>5, <2>1, RunIsOver
<1>8. CASE RaisedWith(rs)
  BY <1>5, <1>8, RunIsBroken
<1> QED
  BY <1>6, <1>7, <1>8

(* The run at hand ends well. *)
LEMMA EndsWell ==
    ASSUME SmokeInv, UnderWay, UNCHANGED invocation, pane' \in Panes, Over(runs), Earned(runs, at)
    PROVE  SmokeInv' /\ NoFalsePass
<1>1. runs' = runs /\ Over(runs')
  BY DEF Over
<1>2. runs' \in Runs /\ Earned(runs', at)
  BY <1>1, SmokeTypes DEF Earned
<1> QED
  BY <1>1, <1>2, RunIsOver

(* Every step keeps the invariant, and passes only what was earned. *)
LEMMA HarnessStep ==
    ASSUME SmokeInv, Harness, UNCHANGED invocation
    PROVE  SmokeInv' /\ (step # "cleanup" => NoFalsePass)
<1>typed. /\ invocation \in Invocations /\ pane \in Panes /\ step \in SmokeSteps
          /\ exitCode \in 0 .. 2 /\ Len(Batch) \in Nat \ {0} /\ at \in 1 .. Len(Batch)
          /\ runs \in Runs /\ runs[at] \in Run /\ (UnderWay => AtHand)
  BY SmokeTypes
<1>same. Batch' = Batch /\ DryRun' = DryRun
  BY SameBatch
<1>shell. "shell" \in Panes /\ "tui" \in Panes /\ {"none", "auth"} \subseteq Panes
  BY DEF Panes
<1>step. {"file", "check", "preconditions", "open", "form", "preview", "launch", "quit", "wait",
          "verify", "read"} \subseteq SmokeSteps \ {"cleanup", "done"}
  BY DEF SmokeSteps
<1>1. CASE Connects
  <2>1. UnderWay /\ step = "session" /\ AtHand
    BY <1>1, <1>typed DEF Connects, UnderWay
  <2>2. CASE pane' \in Panes /\ GoesTo(FirstStep(Cell))
    <3>1. FirstStep(Cell) \in {"file", "check"} /\ (FirstStep(Cell) = "check" => ~Launches(Cell))
      BY DEF FirstStep
    <3>2. /\ step' = FirstStep(Cell) /\ at' = at /\ runs' = runs /\ exitCode' = exitCode
      BY <2>2 DEF GoesTo
    <3>3. Launches(Cell)' <=> Launches(Cell)
      BY <1>same, <3>2 DEF Cell, Launches, WritesTable, WritesCsv
    <3>4. AtHand'
      BY <2>1, <3>1, <3>2, <3>3 DEF AtHand
    <3>5. step' \in SmokeSteps \ {"cleanup", "done"}
      BY <1>step, <3>1, <3>2
    <3> QED
      BY <1>typed, <2>1, <2>2, <3>2, <3>4, <3>5, RunGoesOn
  <2>3. CASE pane' \in Panes /\ step' = "cleanup" /\ exitCode' = 1 /\ UNCHANGED <<at, runs>>
    BY <1>typed, <1>same, <2>3 DEF SmokeInv, SmokeTypeOK, NoFalsePass, SmokeSteps
  <2> QED
    BY <1>1, <1>typed, <1>shell, <2>2, <2>3 DEF Connects
<1>2. CASE WritesFile
  <2>1. UnderWay /\ step = "file" /\ AtHand
    BY <1>2, <1>typed DEF WritesFile, UnderWay
  <2>2. CASE RunsRemote /\ step' = "preconditions" /\ runs' = [runs EXCEPT ![at].files = TRUE]
             /\ UNCHANGED <<at, exitCode>>
    <3> DEFINE r == [runs[at] EXCEPT !.files = TRUE]
    <3>1. /\ r \in Run /\ r.job = runs[at].job /\ r.ok = runs[at].ok
          /\ runs' = [runs EXCEPT ![at] = r]
      BY <1>typed, <2>2 DEF Run, Runs
    <3> HIDE DEF r
    <3>2. /\ runs' \in Runs /\ runs'[at] = r
          /\ \A i \in 1 .. Len(Batch) : i # at => runs'[i] = runs[i]
      BY <1>typed, <3>1 DEF Runs
    <3>3. AtHand'
      BY <2>1, <2>2, <3>1, <3>2 DEF AtHand
    <3>4. pane' \in Panes
      BY <1>shell, <2>2 DEF RunsRemote
    <3> QED
      BY <1>step, <2>1, <2>2, <3>1, <3>2, <3>3, <3>4, RunGoesOn
  <2> QED
    BY <1>2, <2>1, <2>2, CallsFail DEF WritesFile
<1>3. CASE ChecksFirst
  <2>1. UnderWay /\ step = "preconditions" /\ AtHand
    BY <1>3, <1>typed DEF ChecksFirst, UnderWay
  <2>2. CASE pane' = "tui" /\ GoesTo("open")
    <3>1. AtHand'
      BY <2>1, <2>2 DEF AtHand, GoesTo
    <3> QED
      BY <1>shell, <1>step, <2>1, <2>2, <3>1, StepGoesOn
  <2> QED
    BY <1>3, <1>shell, <2>1, <2>2, Refuses, CallsFail DEF ChecksFirst
<1>4. CASE OpensForm
  <2>1. UnderWay /\ step = "open" /\ AtHand
    BY <1>4, <1>typed DEF OpensForm, UnderWay
  <2>2. CASE pane' = "tui" /\ GoesTo("form")
    <3>1. AtHand'
      BY <2>1, <2>2 DEF AtHand, GoesTo
    <3> QED
      BY <1>shell, <1>step, <2>1, <2>2, <3>1, StepGoesOn
  <2> QED
    BY <1>4, <2>1, <2>2, CallsFail DEF OpensForm
<1>5. CASE ReadsForm
  <2>1. UnderWay /\ step = "form" /\ AtHand
    BY <1>5, <1>typed DEF ReadsForm, UnderWay
  <2>2. CASE UNCHANGED pane /\ GoesTo(IF Cell = "detached_survival" THEN "launch" ELSE "preview")
    <3> DEFINE s == IF Cell = "detached_survival" THEN "launch" ELSE "preview"
    <3>1. s = "launch" => ~DryRun
      BY <1>typed, BatchFacts DEF Cell, DryRun
    <3>2. s \in {"launch", "preview"}
      OBVIOUS
    <3> HIDE DEF s
    <3>3. GoesTo(s)
      BY <2>2 DEF s
    <3>4. AtHand'
      BY <1>same, <2>1, <3>1, <3>2, <3>3 DEF AtHand, GoesTo
    <3>5. s \in SmokeSteps \ {"cleanup", "done"} /\ step' = s /\ UNCHANGED <<at, runs, exitCode>>
      BY <1>step, <3>2, <3>3 DEF GoesTo
    <3> QED
      BY <1>typed, <2>1, <2>2, <3>4, <3>5, RunGoesOn
  <2> QED
    BY <1>5, <2>1, <2>2, CallsFail DEF ReadsForm
<1>6. CASE Previews
  <2>1. UnderWay /\ step = "preview" /\ AtHand
    BY <1>6, <1>typed DEF Previews, UnderWay
  <2>2. CASE ~DryRun /\ UNCHANGED pane /\ GoesTo("launch")
    <3>1. AtHand'
      BY <1>same, <2>1, <2>2 DEF AtHand, GoesTo
    <3> QED
      BY <1>typed, <1>step, <2>1, <2>2, <3>1, StepGoesOn
  <2>3. CASE DryRun /\ pane' \in {"tui", "shell"} /\ Over(runs)
    <3>1. Earned(runs, at)
      BY <2>1, <2>3 DEF AtHand, Earned
    <3> QED
      BY <1>shell, <2>1, <2>3, <3>1, EndsWell
  <2> QED
    BY <1>6, <2>1, <2>2, <2>3, CallsFail DEF Previews
<1>7. CASE ConfirmsLaunch
  <2>1. UnderWay /\ step = "launch" /\ AtHand
    BY <1>7, <1>typed DEF ConfirmsLaunch, UnderWay
  <2> DEFINE r == [runs[at] EXCEPT !.job = "Running"]
  <2>2. /\ r \in Run /\ r.ok = runs[at].ok /\ Launched = [runs EXCEPT ![at] = r]
    BY <1>typed DEF Run, Runs, Launched
  <2> HIDE DEF r
  <2>3. PICK rs : rs = Launched
    OBVIOUS
  <2>4. /\ rs \in Runs /\ rs[at] = r /\ \A i \in 1 .. Len(Batch) : i # at => rs[i] = runs[i]
    BY <1>typed, <2>2, <2>3 DEF Runs
  <2>5. CASE /\ pane = "tui" /\ runs' = Launched
             /\ step' = IF Cell = "detached_survival" THEN "quit" ELSE "wait"
             /\ UNCHANGED <<pane, at, exitCode>>
    <3>1. step' \in {"quit", "wait"}
      BY <2>5
    <3>2. AtHand'
      BY <1>same, <2>1, <2>5, <3>1 DEF AtHand
    <3> QED
      BY <1>typed, <1>step, <2>1, <2>2, <2>3, <2>4, <2>5, <3>1, <3>2, RunGoesOn
  <2>6. CASE pane = "tui" /\ pane' \in LeftBehind /\ RaisedWith(Launched)
    <3>1. pane' \in Panes
      BY <2>6 DEF LeftBehind, Panes
    <3> QED
      BY <2>1, <2>3, <2>4, <2>6, <3>1, RunIsBroken
  <2> QED
    BY <1>7, <2>1, <2>5, <2>6, CallsFail DEF ConfirmsLaunch
<1>8. CASE QuitsInterface
  <2>1. UnderWay /\ step = "quit" /\ AtHand
    BY <1>8, <1>typed DEF QuitsInterface, UnderWay
  <2>2. CASE RunsRemote /\ GoesTo("wait")
    <3>1. AtHand'
      BY <1>same, <2>1, <2>2 DEF AtHand, GoesTo
    <3>2. pane' \in Panes
      BY <1>shell, <2>2 DEF RunsRemote
    <3> QED
      BY <1>step, <2>1, <2>2, <3>1, <3>2, StepGoesOn
  <2> QED
    BY <1>8, <2>1, <2>2, CallsFail DEF QuitsInterface
<1>9. CASE AwaitsJob
  <2>1. UnderWay /\ step = "wait" /\ AtHand
    BY <1>9, <1>typed DEF AwaitsJob, UnderWay
  <2>2. RunsRemote => pane' \in Panes
    BY <1>shell DEF RunsRemote
  <2>3. CASE RunsRemote /\ runs[at].job = "Succeeded" /\ GoesTo("verify")
    <3>1. AtHand'
      BY <1>same, <2>1, <2>3 DEF AtHand, GoesTo
    <3> QED
      BY <1>step, <2>1, <2>2, <2>3, <3>1, StepGoesOn
  <2> QED
    BY <1>9, <2>1, <2>2, <2>3, Refuses, CallsFail DEF AwaitsJob
<1>10. CASE ReadsArtifact
  <2>1. UnderWay /\ step = "verify" /\ AtHand
    BY <1>10, <1>typed DEF ReadsArtifact, UnderWay
  <2>2. CASE /\ RunsRemote /\ (WritesTable(Cell) => TableSeen)
             /\ IF Cell = "data_correctness" THEN GoesTo("read") ELSE Over(runs)
    <3>1. pane' \in Panes
      BY <1>shell, <2>2 DEF RunsRemote
    <3>2. CASE GoesTo("read")
      <4>1. WritesTable(Cell)' <=> WritesTable(Cell)
        BY <1>same, <3>2 DEF Cell, WritesTable, GoesTo
      <4>2. AtHand'
        BY <1>same, <2>1, <2>2, <3>2, <4>1 DEF AtHand, GoesTo, TableSeen
      <4> QED
        BY <1>step, <2>1, <3>1, <3>2, <4>2, StepGoesOn
    <3>3. CASE Over(runs)
      <4>1. Earned(runs, at)
        BY <2>1, <2>2 DEF AtHand, Earned, TableSeen, Cell
      <4> QED
        BY <2>1, <3>1, <3>3, <4>1, EndsWell
    <3> QED
      BY <2>2, <3>2, <3>3
  <2> QED
    BY <1>10, <2>1, <2>2, CallsFail DEF ReadsArtifact
<1>11. CASE ReadsBack
  <2>1. UnderWay /\ step = "read" /\ AtHand
    BY <1>11, <1>typed DEF ReadsBack, UnderWay
  <2>2. RunsRemote => pane' \in Panes
    BY <1>shell DEF RunsRemote
  <2>3. Earned(runs, at)
    BY <2>1 DEF AtHand, Earned, Cell
  <2> QED
    BY <1>11, <2>1, <2>2, <2>3, EndsWell, Refuses, CallsFail DEF ReadsBack
<1>12. CASE ChecksNoJob
  <2>1. UnderWay /\ step = "check" /\ AtHand
    BY <1>12, <1>typed DEF ChecksNoJob, UnderWay
  <2>2. RunsRemote => pane' \in Panes
    BY <1>shell DEF RunsRemote
  <2>3. Earned(runs, at)
    BY <2>1 DEF AtHand, Earned, Cell, Launches
  <2> QED
    BY <1>12, <2>1, <2>2, <2>3, EndsWell, Refuses, CallsFail DEF ChecksNoJob
<1>13. CASE CleansRemote
  <2>1. step = "cleanup" /\ step' = "done" /\ at' = at /\ pane' \in Panes
    BY <1>13, <1>typed, <1>shell DEF CleansRemote
  <2>2. exitCode' \in 0 .. 2
    BY <1>13, <1>typed DEF CleansRemote
  <2>3. runs' \in Runs
    <3>1. ASSUME NEW i \in 1 .. Len(Batch)
          PROVE  Clean(i, runs) \in Runs /\ [runs EXCEPT ![i].files = FALSE] \in Runs
      <4> DEFINE f == [runs[i] EXCEPT !.files = FALSE]
                 c == [runs[i] EXCEPT !.files = FALSE, !.table = FALSE,
                         !.csv = IF invocation.level = 3 THEN runs[i].csv ELSE "none"]
      <4>1. runs[i] \in Run
        BY <1>typed DEF Runs
      <4>2. f \in Run /\ c \in Run
        BY <4>1 DEF Run
      <4>3. Clean(i, runs) = [runs EXCEPT ![i] = c] /\ [runs EXCEPT ![i].files = FALSE] = [runs EXCEPT ![i] = f]
        BY <1>typed, <4>1 DEF Clean, Runs, Run
      <4> HIDE DEF c, f
      <4> QED
        BY <1>typed, <4>2, <4>3 DEF Runs
    <3>2. 1 \in 1 .. Len(Batch)
      BY <1>typed
    <3>3. ASSUME NEW cleaned,
                 runs' = [i \in DOMAIN runs |-> IF i \in cleaned THEN Clean(i, runs)[i] ELSE runs[i]]
          PROVE  runs' \in Runs
      <4>1. ASSUME NEW i \in 1 .. Len(Batch) PROVE Clean(i, runs)[i] \in Run /\ runs[i] \in Run
        BY <1>typed, <3>1 DEF Runs
      <4> QED
        BY <1>typed, <3>3, <4>1 DEF Runs
    <3> QED
      BY <1>13, <1>typed, <3>1, <3>2, <3>3 DEF CleansRemote
  <2>4. SmokeTypeOK'
    BY <1>same, <1>typed, <2>1, <2>2, <2>3 DEF SmokeInv, SmokeTypeOK, Runs, Run, SmokeSteps
  <2> QED
    BY <2>1, <2>4 DEF SmokeInv
<1> QED
  BY <1>1, <1>2, <1>3, <1>4, <1>5, <1>6, <1>7, <1>8, <1>9, <1>10, <1>11, <1>12, <1>13 DEF Harness

(* A Job that ends changes nothing that was earned, and nothing before its launch. *)
LEMMA JobEndsStep ==
    ASSUME SmokeInv, NEW i \in DOMAIN runs, SmokeJobEnds(i) PROVE SmokeInv' /\ step' = step
<1>1. /\ runs \in Runs /\ DOMAIN runs = 1 .. Len(Batch) /\ at \in 1 .. Len(Batch)
      /\ Len(Batch) \in Nat \ {0} /\ (UnderWay => AtHand)
  BY SmokeTypes
<1>2. runs[i] \in Run /\ UNCHANGED <<invocation, pane, step, at, exitCode>> /\ runs[i].job = "Running"
  BY <1>1 DEF SmokeJobEnds, Runs
<1>3. PICK r \in Run : r.ok = runs[i].ok /\ runs' = [runs EXCEPT ![i] = r]
  <2>1. PICK state \in {"Succeeded", "Failed"}, table \in BOOLEAN, file \in {"none", "plain", "gzip"} :
            runs' = [runs EXCEPT ![i].job = state, ![i].table = table, ![i].csv = file]
    BY DEF SmokeJobEnds
  <2> DEFINE r == [runs[i] EXCEPT !.job = state, !.table = table, !.csv = file]
  <2>2. runs' = [runs EXCEPT ![i] = r] /\ r \in Run /\ r.ok = runs[i].ok
    BY <1>1, <1>2, <2>1 DEF Runs, Run
  <2> HIDE DEF r
  <2> QED
    BY <2>2
<1>4. /\ runs' \in Runs /\ DOMAIN runs' = 1 .. Len(Batch)
      /\ \A k \in 1 .. Len(Batch) : k # i => runs'[k] = runs[k]
      /\ \A k \in 1 .. Len(Batch) : runs'[k].ok = runs[k].ok
  BY <1>1, <1>3 DEF Runs
<1>5. Batch' = Batch /\ DryRun' = DryRun /\ (\A k : Earned(runs, k)' <=> Earned(runs', k))
  BY <1>2, SameBatch
<1>6. SmokeTypeOK'
  BY <1>2, <1>4, <1>5 DEF SmokeInv, SmokeTypeOK, Runs, Run
<1>7. ASSUME UnderWay
      PROVE  /\ AtHand' /\ \A k \in at + 1 .. Len(Batch) : runs'[k].job = "none"
             /\ (\A k \in 1 .. Len(Batch) : runs'[k].ok) => \A k \in 1 .. at - 1 : Earned(runs', k)
  <2>1. AtHand
    BY <1>1, <1>7
  <2>2. WritesTable(Cell)' = WritesTable(Cell) /\ Launches(Cell)' = Launches(Cell)
    BY <1>2, <1>5 DEF Cell, WritesTable, WritesCsv, Launches
  <2>3. CASE i = at
    <3>1. step \in {"quit", "wait"}
      BY <1>2, <1>7, <2>1, <2>3, SmokeTypes DEF AtHand, UnderWay, SmokeSteps
    <3>2. AtHand'
      BY <1>2, <1>5, <2>1, <2>2, <3>1 DEF AtHand
    <3>3. \A k \in at + 1 .. Len(Batch) : runs'[k].job = "none"
      BY <1>1, <1>4, <1>7, <2>3 DEF SmokeInv, UnderWay
    <3>4. (\A k \in 1 .. Len(Batch) : runs'[k].ok) => \A k \in 1 .. at - 1 : Earned(runs', k)
      BY <1>1, <1>4, <1>7, <2>3 DEF SmokeInv, UnderWay, Earned
    <3> QED
      BY <3>2, <3>3, <3>4
  <2>4. CASE i # at
    <3>1. AtHand'
      BY <1>1, <1>2, <1>4, <1>5, <2>1, <2>2, <2>4 DEF AtHand
    <3>2. ASSUME NEW k \in at + 1 .. Len(Batch) PROVE runs'[k].job = "none"
      <4>1. runs[k].job = "none" /\ k # i /\ k \in 1 .. Len(Batch)
        BY <1>1, <1>2, <1>7 DEF SmokeInv, UnderWay
      <4> QED
        BY <1>4, <4>1
    <3>3. ASSUME \A k \in 1 .. Len(Batch) : runs'[k].ok, NEW k \in 1 .. at - 1
          PROVE  Earned(runs', k)
      <4>1. k \in 1 .. Len(Batch) /\ \A o \in 1 .. Len(Batch) : runs[o].ok
        BY <1>1, <1>4, <3>3
      <4>2. Earned(runs, k)
        BY <1>1, <1>7, <4>1 DEF SmokeInv, UnderWay
      <4>3. CASE k # i
        BY <1>4, <4>1, <4>2, <4>3 DEF Earned
      <4>4. CASE k = i
        BY <1>2, <1>4, <4>1, <4>2, <4>4 DEF Earned, Launches
      <4> QED
        BY <4>3, <4>4
    <3> QED
      BY <3>1, <3>2, <3>3
  <2> QED
    BY <2>3, <2>4
<1> QED
  BY <1>2, <1>4, <1>5, <1>6, <1>7 DEF SmokeInv, UnderWay

LEMMA SmokeStep == SmokeInv /\ [SmokeNext]_smokeVars => SmokeInv' /\ (step # "cleanup" => [NoFalsePass]_smokeVars)
<1> SUFFICES ASSUME SmokeInv, [SmokeNext]_smokeVars
             PROVE  SmokeInv' /\ (step # "cleanup" /\ step' = "cleanup" => NoFalsePass)
  BY DEF NoFalsePass
<1>1. CASE Harness /\ UNCHANGED invocation
  BY <1>1, HarnessStep
<1>2. CASE CommandEnds
  <2>1. UNCHANGED <<invocation, step, at, runs, exitCode>> /\ pane' = "shell"
    BY <1>2 DEF CommandEnds
  <2>2. Batch' = Batch /\ DryRun' = DryRun /\ (\A k : Earned(runs, k)' <=> Earned(runs', k))
    BY <2>1, SameBatch
  <2>3. SmokeTypeOK'
    BY <2>1, <2>2 DEF SmokeInv, SmokeTypeOK, Panes
  <2>4. AtHand => AtHand'
    BY <2>1, <2>2 DEF AtHand, Cell, Launches, WritesTable, WritesCsv
  <2>5. \A k : Earned(runs, k) => Earned(runs', k)
    BY <2>1
  <2> QED
    BY <2>1, <2>2, <2>3, <2>4, <2>5 DEF SmokeInv
<1>3. CASE \E i \in DOMAIN runs : SmokeJobEnds(i)
  BY <1>3, JobEndsStep
<1>4. CASE UNCHANGED smokeVars
  <2>1. UNCHANGED <<invocation, pane, step, at, runs, exitCode>>
    BY <1>4 DEF smokeVars
  <2>2. Batch' = Batch /\ DryRun' = DryRun
    BY <2>1, SameBatch
  <2>3. SmokeTypeOK'
    BY <2>1, <2>2 DEF SmokeInv, SmokeTypeOK
  <2>4. AtHand => AtHand'
    BY <2>1, <2>2 DEF AtHand, Cell, Launches, WritesTable, WritesCsv
  <2>5. \A k : Earned(runs, k) => Earned(runs, k)'
    BY <2>1, <2>2, SameBatch
  <2> QED
    BY <2>1, <2>2, <2>3, <2>4, <2>5 DEF SmokeInv
<1> QED
  BY <1>1, <1>2, <1>3, <1>4 DEF SmokeNext

LEMMA SmokeInvInit == SmokeInit => SmokeInv
<1> SUFFICES ASSUME SmokeInit PROVE SmokeInv
  OBVIOUS
<1>1. /\ invocation \in Invocations /\ pane \in Panes /\ step = "session" /\ at = 1
      /\ exitCode = 0 /\ runs = [i \in 1 .. Len(Batch) |-> NoRun]
  BY DEF SmokeInit, Invocations
<1>2. Len(Batch) \in Nat \ {0} /\ NoRun \in Run /\ NoRun.job = "none"
  BY <1>1, BatchFacts DEF NoRun, Run
<1>3. 1 \in 1 .. Len(Batch)
  BY <1>2
<1>4. SmokeTypeOK
  BY <1>1, <1>2, <1>3 DEF SmokeTypeOK, Invocations, Run, SmokeSteps
<1>5. AtHand
  BY <1>1, <1>2, <1>3 DEF AtHand
<1> QED
  BY <1>1, <1>2, <1>4, <1>5 DEF SmokeInv

LEMMA SmokeInvAlways == SmokeSpec => []SmokeInv
BY SmokeInvInit, SmokeStep, PTL DEF SmokeSpec

(* Type correctness, for any levels and cells of Level 4. *)
THEOREM SmokeTypeCorrect == SmokeSpec => []SmokeTypeOK
BY SmokeInvAlways, PTL DEF SmokeInv

(* Exit code 0 at the end of a batch is earned, whichever calls of the driver raise and    *)
(* whatever becomes of the Jobs it has launched.                                           *)
THEOREM PassEarned == SmokeSpec => PassIsEarned
<1> DEFINE Pass == step # "cleanup" /\ step' = "cleanup" /\ exitCode' = 0
                     => \A i \in DOMAIN runs' :
                           IF DryRun THEN runs'[i].job = "none"
                           ELSE /\ Launches(Batch[i]) => runs'[i].job = "Succeeded"
                                /\ WritesTable(Batch[i]) => runs'[i].table
<1>1. SmokeInv /\ [SmokeNext]_smokeVars => [Pass]_smokeVars
  <2> SUFFICES ASSUME SmokeInv, [SmokeNext]_smokeVars, ~UNCHANGED smokeVars,
                      step # "cleanup", step' = "cleanup", exitCode' = 0, NEW i \in DOMAIN runs'
               PROVE  Earned(runs', i)
    BY DEF Earned
  <2>1. NoFalsePass /\ SmokeInv'
    BY SmokeStep
  <2>2. invocation' = invocation
    BY DEF SmokeNext, CommandEnds, SmokeJobEnds, smokeVars
  <2>3. DOMAIN runs' = 1 .. Len(Batch)
    BY <2>1, <2>2, SameBatch DEF SmokeInv, SmokeTypeOK
  <2> QED
    BY <2>1, <2>3 DEF NoFalsePass
<1>2. QED
  BY <1>1, SmokeInvAlways, PTL DEF SmokeSpec, PassIsEarned

-------------------------------------------------------------------------------
(* The installer *)

(* What the holder of install.lock knows at each step of install. *)
HolderKnows(i) ==
    /\ install[i].pc \in Construction => current # Mine(i)
    /\ install[i].pc \in {"opens", "repairs"} => releases[Mine(i)].stage = "complete"
    /\ install[i].pc \in {"links", "activates"} => Usable(Mine(i))
    /\ install[i].pc = "activates" => temporary[i] = Mine(i)

RtInv == RtTypeOK /\ \A i \in Installers : lock = i => HolderKnows(i)

USE DEF Nobody, Construction, Steps

ReleaseRecord == [stage : {"absent", "partial", "complete"}, readable : BOOLEAN]
InstallRecord == [pc : Steps \cup {"waits", "activates", "ended"}, digest : Digests]

(* The type invariant with named sets. *)
LEMMA RtUnfolds ==
    RtTypeOK <=> /\ releases \in [Digests -> ReleaseRecord]
                 /\ current \in Digests \cup {NoRelease}
                 /\ temporary \in [Installers -> Digests \cup {NoRelease}]
                 /\ lock \in Installers \cup {Nobody}
                 /\ install \in [Installers -> InstallRecord]
BY DEF RtTypeOK, ReleaseRecord, InstallRecord

(* An installer that proceeds keeps its bundle, and so does every other one. *)
LEMMA Proceeding ==
    ASSUME RtTypeOK, NEW i \in Installers, NEW pc \in Steps \cup {"waits", "activates", "ended"},
           Proceeds(i, pc)
    PROVE  /\ install' \in [Installers -> InstallRecord]
           /\ install'[i].pc = pc
           /\ \A j \in Installers : Mine(j)' = Mine(j)
BY RtUnfolds DEF InstallRecord, Proceeds, Mine

(* A release that is replaced leaves the others alone. *)
LEMMA Replacing ==
    ASSUME RtTypeOK, NEW i \in Installers, NEW r \in ReleaseRecord, Release(i, r)
    PROVE  /\ Mine(i) \in Digests
           /\ releases' \in [Digests -> ReleaseRecord]
           /\ releases'[Mine(i)] = r
           /\ \A d \in Digests \ {Mine(i)} : releases'[d] = releases[d]
<1>1. Mine(i) \in Digests
  BY RtUnfolds DEF InstallRecord, Mine
<1> QED
  BY <1>1, RtUnfolds DEF Release

(* Nobody holds the lock at first. *)
LEMMA RtInvInit == RtInit => RtInv
<1> SUFFICES ASSUME RtInit PROVE RtInv
  OBVIOUS
<1>1. RtTypeOK
  BY RuntimeAssumption DEF RtInit, RtTypeOK
<1>2. \A i \in Installers : lock # i
  BY RuntimeAssumption DEF RtInit
<1> QED
  BY <1>1, <1>2 DEF RtInv

-------------------------------------------------------------------------------
(* One lemma per kind of step; only the holder of the lock knows anything. *)

(* A step of the holder that changes at most where it is. *)
LEMMA HolderWalks ==
    ASSUME RtInv, NEW i \in Installers, NEW pc \in Steps \cup {"waits", "activates", "ended"},
           lock = i, lock' = i, Proceeds(i, pc), UNCHANGED <<releases, current, temporary>>
    PROVE  /\ RtTypeOK' /\ \A j \in Installers : Mine(j)' = Mine(j)
           /\ install'[i].pc = pc
           /\ HolderKnows(i)' => RtInv'
<1>1. /\ install' \in [Installers -> InstallRecord] /\ install'[i].pc = pc
      /\ \A j \in Installers : Mine(j)' = Mine(j)
  BY Proceeding DEF RtInv
<1>2. RtTypeOK'
  BY <1>1 DEF RtInv, RtTypeOK, InstallRecord
<1>3. \A j \in Installers : lock' = j => j = i
  OBVIOUS
<1> QED
  BY <1>1, <1>2, <1>3 DEF RtInv

(* A step of the holder on the release of its bundle. *)
LEMMA HolderWrites ==
    ASSUME RtInv, NEW i \in Installers, NEW pc \in Steps \cup {"waits", "activates", "ended"},
           NEW r \in ReleaseRecord,
           lock' \in {i, Nobody}, Proceeds(i, pc), Release(i, r), UNCHANGED <<current, temporary>>
    PROVE  /\ RtTypeOK' /\ \A j \in Installers : Mine(j)' = Mine(j)
           /\ install'[i].pc = pc /\ releases'[Mine(i)] = r
           /\ \A d \in Digests \ {Mine(i)} : releases'[d] = releases[d]
           /\ (lock' = i => HolderKnows(i)') => RtInv'
<1>1. /\ install' \in [Installers -> InstallRecord] /\ install'[i].pc = pc
      /\ \A j \in Installers : Mine(j)' = Mine(j)
  BY Proceeding DEF RtInv
<1>2. /\ releases' \in [Digests -> ReleaseRecord] /\ releases'[Mine(i)] = r
      /\ \A d \in Digests \ {Mine(i)} : releases'[d] = releases[d]
  BY Replacing DEF RtInv
<1>3. \A j \in Installers : lock' = j => j = i
  BY RuntimeAssumption
<1>4. RtTypeOK'
  BY <1>1, <1>2 DEF RtInv, RtTypeOK, InstallRecord, ReleaseRecord
<1> QED
  BY <1>1, <1>2, <1>3, <1>4 DEF RtInv

(* The releases an installer writes. *)
LEMMA WritableStages ==
    /\ [stage |-> "partial", readable |-> FALSE] \in ReleaseRecord
    /\ [stage |-> "complete", readable |-> FALSE] \in ReleaseRecord
    /\ [stage |-> "absent", readable |-> FALSE] \in ReleaseRecord
    /\ \A r \in ReleaseRecord :
         /\ [r EXCEPT !.readable = TRUE] \in ReleaseRecord
         /\ [r EXCEPT !.readable = TRUE].stage = r.stage
         /\ [r EXCEPT !.readable = TRUE].readable = TRUE
BY DEF ReleaseRecord

(* What a step may do to the release analysts run. *)
Spares == current' # NoRelease /\ ~Usable(current)'
             => current' = current /\ (~Usable(current) \/ install' = install)

(* The invariant is inductive, and no step that keeps it hurts the active release. *)
LEMMA RtStep == RtInv /\ [RtNext]_rtVars => RtInv' /\ Spares
<1> SUFFICES ASSUME RtInv, [RtNext]_rtVars PROVE RtInv' /\ Spares
  OBVIOUS
<1>typed. /\ RtTypeOK
          /\ \A i \in Installers : Mine(i) \in Digests /\ releases[Mine(i)] \in ReleaseRecord
  BY RtUnfolds DEF RtInv, InstallRecord, Mine
<1>1. ASSUME NEW i \in Installers, Locks(i) PROVE RtInv' /\ Spares
  <2>1. /\ install' \in [Installers -> InstallRecord] /\ install'[i].pc = "verifies"
    BY <1>1, RtUnfolds, Proceeding DEF RtInv, Locks, Proceeds
  <2>2. RtTypeOK'
    BY <1>1, <2>1, <1>typed DEF Locks, RtTypeOK, InstallRecord
  <2> QED
    BY <1>1, <2>1, <2>2 DEF RtInv, Locks, Spares, Mine, HolderKnows, Usable
<1>2. ASSUME NEW i \in Installers, Verifies(i) PROVE RtInv' /\ Spares
  <2>1. /\ lock = i /\ lock' = i /\ Proceeds(i, "decides")
        /\ UNCHANGED <<releases, current, temporary>>
    BY <1>2 DEF Verifies, At
  <2>2. /\ \A j \in Installers : Mine(j)' = Mine(j)
        /\ install'[i].pc = "decides" /\ (HolderKnows(i)' => RtInv')
    BY <2>1, HolderWalks
  <2>3. HolderKnows(i)'
    BY <1>2, <2>1, <2>2 DEF Verifies, At, RtInv, HolderKnows, Usable
  <2> QED
    BY <2>1, <2>2, <2>3 DEF Spares, Usable
<1>3. ASSUME NEW i \in Installers, Builds(i) PROVE RtInv' /\ Spares
  <2>1. /\ lock = i /\ lock' = i /\ Proceeds(i, "marks")
        /\ UNCHANGED <<releases, current, temporary>>
    BY <1>3 DEF Builds, At
  <2>2. /\ \A j \in Installers : Mine(j)' = Mine(j)
        /\ install'[i].pc = "marks" /\ (HolderKnows(i)' => RtInv')
    BY <2>1, HolderWalks
  <2>3. HolderKnows(i)'
    BY <1>3, <2>1, <2>2 DEF Builds, At, RtInv, HolderKnows, Usable
  <2> QED
    BY <2>1, <2>2, <2>3 DEF Spares, Usable
<1>4. ASSUME NEW i \in Installers, Decides(i), releases[Mine(i)].stage = "complete" PROVE RtInv' /\ Spares
  <2>1. /\ lock = i /\ lock' = i /\ Proceeds(i, "repairs")
        /\ UNCHANGED <<releases, current, temporary>>
    BY <1>4 DEF Decides, At
  <2>2. /\ \A j \in Installers : Mine(j)' = Mine(j)
        /\ install'[i].pc = "repairs" /\ (HolderKnows(i)' => RtInv')
    BY <2>1, HolderWalks
  <2>3. HolderKnows(i)'
    BY <1>4, <2>1, <2>2 DEF Decides, At, RtInv, HolderKnows, Usable
  <2> QED
    BY <2>1, <2>2, <2>3 DEF Spares, Usable
<1>5. ASSUME NEW i \in Installers, Decides(i), releases[Mine(i)].stage # "complete" PROVE RtInv' /\ Spares
  <2>1. PICK r \in ReleaseRecord : r = [stage |-> "partial", readable |-> FALSE] /\ Release(i, r)
    BY <1>5, <1>typed, WritableStages DEF Decides
  <2>2. /\ lock = i /\ lock' = i /\ Proceeds(i, "builds") /\ UNCHANGED <<current, temporary>>
    BY <1>5 DEF Decides, At
  <2>3. /\ RtTypeOK' /\ \A j \in Installers : Mine(j)' = Mine(j)
        /\ install'[i].pc = "builds" /\ releases'[Mine(i)] = r
        /\ \A d \in Digests \ {Mine(i)} : releases'[d] = releases[d]
        /\ (HolderKnows(i)' => RtInv')
    BY <2>1, <2>2, HolderWrites
  <2>4. HolderKnows(i)' /\ Spares
    BY <1>5, <1>typed, <2>1, <2>2, <2>3, WritableStages
    DEF Decides, At, RtInv, RtTypeOK, HolderKnows, Usable, Spares
  <2> QED
    BY <2>3, <2>4
<1>6. ASSUME NEW i \in Installers, Marks(i) PROVE RtInv' /\ Spares
  <2>1. PICK r \in ReleaseRecord : r = [stage |-> "complete", readable |-> FALSE] /\ Release(i, r)
    BY <1>6, <1>typed, WritableStages DEF Marks
  <2>2. /\ lock = i /\ lock' = i /\ Proceeds(i, "opens") /\ UNCHANGED <<current, temporary>>
    BY <1>6 DEF Marks, At
  <2>3. /\ RtTypeOK' /\ \A j \in Installers : Mine(j)' = Mine(j)
        /\ install'[i].pc = "opens" /\ releases'[Mine(i)] = r
        /\ \A d \in Digests \ {Mine(i)} : releases'[d] = releases[d]
        /\ (HolderKnows(i)' => RtInv')
    BY <2>1, <2>2, HolderWrites
  <2>4. HolderKnows(i)' /\ Spares
    BY <1>6, <1>typed, <2>1, <2>2, <2>3, WritableStages
    DEF Marks, At, RtInv, RtTypeOK, HolderKnows, Usable, Spares
  <2> QED
    BY <2>3, <2>4
<1>7. ASSUME NEW i \in Installers, Opens(i) PROVE RtInv' /\ Spares
  <2>1. PICK r \in ReleaseRecord : r = [releases[Mine(i)] EXCEPT !.readable = TRUE] /\ Release(i, r)
    BY <1>7, <1>typed, WritableStages DEF Opens
  <2>2. /\ lock = i /\ lock' = i /\ Proceeds(i, "links") /\ UNCHANGED <<current, temporary>>
    BY <1>7 DEF Opens, At
  <2>3. /\ RtTypeOK' /\ \A j \in Installers : Mine(j)' = Mine(j)
        /\ install'[i].pc = "links" /\ releases'[Mine(i)] = r
        /\ \A d \in Digests \ {Mine(i)} : releases'[d] = releases[d]
        /\ (HolderKnows(i)' => RtInv')
    BY <2>1, <2>2, HolderWrites
  <2>4. r.stage = "complete" /\ r.readable = TRUE
    BY <1>7, <1>typed, <2>1, WritableStages DEF Opens, At, RtInv, HolderKnows
  <2>5. Usable(Mine(i))' /\ current \in Digests \cup {NoRelease}
    BY <1>typed, <2>3, <2>4 DEF Usable, RtTypeOK
  <2>6. HolderKnows(i)'
    BY <2>3, <2>5 DEF HolderKnows, Usable
  <2>7. Spares
    BY <2>2, <2>3, <2>5 DEF Spares, Usable
  <2> QED
    BY <2>3, <2>6, <2>7
<1>8. ASSUME NEW i \in Installers, Links(i) PROVE RtInv' /\ Spares
  <2>1. /\ install' \in [Installers -> InstallRecord] /\ install'[i].pc = "activates"
        /\ \A j \in Installers : Mine(j)' = Mine(j)
    BY <1>8, <1>typed, Proceeding DEF Links
  <2>2. RtTypeOK' /\ temporary'[i] = Mine(i)
    BY <1>8, <1>typed, <2>1 DEF Links, RtTypeOK, InstallRecord
  <2> QED
    BY <1>8, <2>1, <2>2 DEF Links, At, RtInv, HolderKnows, Usable, Spares
<1>9. ASSUME NEW i \in Installers, Activates(i) PROVE RtInv' /\ Spares
  <2>1. /\ install' \in [Installers -> InstallRecord]
        /\ current' = Mine(i) /\ Usable(Mine(i)) /\ lock' = Nobody
    BY <1>9, <1>typed, Proceeding DEF Activates, At, RtInv, HolderKnows
  <2>2. RtTypeOK'
    BY <1>9, <1>typed, <2>1 DEF Activates, RtTypeOK, InstallRecord
  <2> QED
    BY <1>9, <2>1, <2>2, RuntimeAssumption DEF Activates, RtInv, Usable, Spares
<1>10. ASSUME NEW i \in Installers, Aborts(i) PROVE RtInv' /\ Spares
  <2>1. install' \in [Installers -> InstallRecord]
    BY <1>10, <1>typed, Proceeding DEF Aborts
  <2>2. CASE install[i].pc \in Construction
    <3>1. PICK r \in ReleaseRecord : Release(i, r)
      <4>1. Mine(i) \in Digests
        BY <1>typed, RtUnfolds DEF InstallRecord, Mine
      <4>2. releases[Mine(i)] \in ReleaseRecord
        BY <1>typed, <4>1, RtUnfolds
      <4> QED
        BY <1>10, <2>2, <4>2, WritableStages DEF Aborts
    <3>2. /\ releases' \in [Digests -> ReleaseRecord] /\ releases'[Mine(i)] = r
          /\ \A d \in Digests \ {Mine(i)} : releases'[d] = releases[d]
      BY <1>typed, <3>1, Replacing
    <3>3. current # Mine(i)
      BY <1>10, <2>2 DEF Aborts, RtInv, HolderKnows
    <3>4. RtTypeOK'
      BY <1>10, <1>typed, <2>1, <3>2 DEF Aborts, RtTypeOK, InstallRecord, ReleaseRecord
    <3> QED
      BY <1>10, <1>typed, <3>2, <3>3, <3>4, RuntimeAssumption
      DEF Aborts, RtInv, RtTypeOK, Usable, Spares
  <2>3. CASE install[i].pc \notin Construction
    <3>1. RtTypeOK'
      BY <1>10, <1>typed, <2>1, <2>3 DEF Aborts, RtTypeOK, InstallRecord
    <3> QED
      BY <1>10, <2>3, <3>1, RuntimeAssumption DEF Aborts, RtInv, Usable, Spares
  <2> QED
    BY <2>2, <2>3
<1>11. ASSUME NEW i \in Installers, Dies(i) PROVE RtInv' /\ Spares
  <2>1. install' \in [Installers -> InstallRecord]
    BY <1>11, <1>typed, Proceeding DEF Dies
  <2>2. RtTypeOK'
    BY <1>11, <1>typed, <2>1 DEF Dies, RtTypeOK, InstallRecord
  <2> QED
    BY <1>11, <2>2, RuntimeAssumption DEF Dies, RtInv, Usable, Spares
<1>12. ASSUME NEW d \in Digests, Damaged(d) PROVE RtInv' /\ Spares
  <2>1. PICK r \in ReleaseRecord : releases' = [releases EXCEPT ![d] = r]
    <3>1. releases[d] \in ReleaseRecord
      BY <1>typed, RtUnfolds
    <3>2. /\ [releases[d] EXCEPT !.stage = "partial"] \in ReleaseRecord
          /\ [releases[d] EXCEPT !.readable = FALSE] \in ReleaseRecord
      BY <3>1 DEF ReleaseRecord
    <3> QED
      BY <1>12, <3>2 DEF Damaged
  <2>2. RtTypeOK'
    BY <1>12, <1>typed, <2>1, RtUnfolds DEF Damaged, RtTypeOK, ReleaseRecord
  <2> QED
    BY <1>12, <2>2, RuntimeAssumption DEF Damaged, RtInv, Usable, Spares
<1>13. CASE UNCHANGED rtVars
  <2>1. RtTypeOK'
    BY <1>13, <1>typed DEF rtVars, RtTypeOK
  <2> QED
    BY <1>13, <2>1 DEF rtVars, RtInv, HolderKnows, Usable, Spares, Mine
<1> QED
  BY <1>1, <1>2, <1>3, <1>4, <1>5, <1>6, <1>7, <1>8, <1>9, <1>10, <1>11, <1>12, <1>13 DEF RtNext

-------------------------------------------------------------------------------

(* Type correctness, for any installers and bundles. *)
THEOREM RtTypeCorrect == RtSpec => []RtTypeOK
<1>1. RtInv => RtTypeOK
  BY DEF RtInv
<1> QED
  BY <1>1, RtInvInit, RtStep, PTL DEF RtSpec

(* No step of any installer takes a working runtime away from the analysts. *)
THEOREM ActiveStays == RtSpec => ActiveStaysUsable
<1>1. Spares <=> (current' # NoRelease /\ ~Usable(current)'
                   => /\ current' = current
                      /\ ~Usable(current) \/ install' = install)
  BY DEF Spares
<1>2. RtInv /\ [RtNext]_rtVars
        => [current' # NoRelease /\ ~Usable(current)'
             => /\ current' = current
                /\ ~Usable(current) \/ install' = install]_rtVars
  BY <1>1, RtStep
<1> QED
  BY <1>2, RtInvInit, RtStep, PTL DEF RtSpec, ActiveStaysUsable

-------------------------------------------------------------------------------
(* The notebook API *)

JobRecords == [state : States \cup {"none"}, strays : SUBSET (1 .. MaxTries)]
CallRecords == [pc : {"idle", "launch", "poll", "read", "cancel"},
                of : Queries \cup {Nothing}]
Places == {Place(q) : q \in Queries}

USE DEF CallRecords, JobRecords, Places, States, TERMINAL_STATES, Nothing

\* The directory of an inline query is its own.
LEMMA OwnPlace ==
    ASSUME NEW q \in Queries, q \notin Named
    PROVE  Place(q) = q /\ q \in Places /\ \A x \in Queries : Place(x) = q => x = q
BY NotebookBounds DEF Place

LEMMA InPlaces == ASSUME NEW q \in Queries PROVE Place(q) \in Places
OBVIOUS

\* A change of one Job's state touches no other Job and no stray.
LEMMA JobToFields ==
    ASSUME NbTypeOK, NEW q \in Queries, NEW s \in States, JobTo(q, s)
    PROVE  /\ jobs' \in [Queries -> JobRecords]
           /\ \A x \in Queries \ {q} : jobs'[x].state = jobs[x].state
           /\ jobs'[q].state = s
BY DEF JobTo, NbTypeOK

LEMMA CallsDiffer ==
    ASSUME NEW q \in Queries, NEW x \in Queries, NEW pc
    PROVE  /\ call = NoCall => ~Launching(x)
           /\ call = [pc |-> pc, of |-> q] => (Launching(x) <=> pc = "launch" /\ x = q)
           /\ call' = NoCall => ~Launching(x)'
           /\ call' = [pc |-> pc, of |-> q] => (Launching(x)' <=> pc = "launch" /\ x = q)
BY DEF NoCall, Launching

-------------------------------------------------------------------------------
(* The kernel's launch *)

LEMMA LaunchStep ==
    ASSUME NotebookInv, NEW q \in Queries, Launch(q)
    PROVE  NotebookInv'
<1> USE DEF NotebookInv
<1>1. NbTypeOK'
  BY NotebookBounds DEF Launch, NbTypeOK, kernelVars
<1>2. ASSUME NEW x \in Queries PROVE LaunchKnown(x)'
  BY <1>2, CallsDiffer DEF Launch, LaunchKnown, Untouched, kernelVars
<1>3. ASSUME NEW x \in Queries PROVE ResultKnown(x)'
  BY <1>3 DEF Launch, ResultKnown, kernelVars
<1>4. QED
  BY <1>1, <1>2, <1>3

LEMMA CliChecksStep ==
    ASSUME NotebookInv, NEW q \in Queries, CliChecks(q)
    PROVE  NotebookInv'
<1> USE DEF NotebookInv
<1>0. /\ Launching(q) /\ cli = "checks" /\ Untouched(q) /\ call' = call
      /\ UNCHANGED <<tries, kernelVars, dirs, exported, runner>>
  BY DEF CliChecks, Launching, LaunchKnown
<1>1. CASE UNCHANGED jobs /\ cli' \in {"usage", "failed", "capacity"}
  <2>1. NbTypeOK'
    BY <1>0, <1>1 DEF NbTypeOK, kernelVars
  <2>2. ASSUME NEW x \in Queries PROVE LaunchKnown(x)' /\ ResultKnown(x)'
    BY <1>0, <1>1, <2>2
    DEF LaunchKnown, ResultKnown, Untouched, Launching, kernelVars
  <2>3. QED
    BY <2>1, <2>2
<1>2. CASE cli' = "committed" /\ JobTo(q, "Pending")
  <2>1. /\ jobs' \in [Queries -> JobRecords] /\ jobs'[q].state = "Pending"
        /\ \A x \in Queries \ {q} : jobs'[x].state = jobs[x].state
    BY <1>2, JobToFields
  <2>2. NbTypeOK'
    BY <1>0, <1>2, <2>1 DEF NbTypeOK, kernelVars
  <2>3. ASSUME NEW x \in Queries PROVE LaunchKnown(x)' /\ ResultKnown(x)'
    <3>1. CASE x = q
      BY <1>0, <1>2, <2>1, <3>1
      DEF LaunchKnown, ResultKnown, Untouched, Launching, kernelVars
    <3>2. CASE x # q
      <4>1. ~Launching(x) /\ ~Launching(x)'
        BY <1>0, <3>2 DEF Launching
      <4>2. QED
        BY <1>0, <1>2, <2>1, <3>2, <4>1
        DEF LaunchKnown, ResultKnown, Untouched, kernelVars
    <3>3. QED
      BY <3>1, <3>2
  <2>4. QED
    BY <2>2, <2>3
<1>3. CASE Strands(q)
  <2>0. tries \in 1 .. MaxTries
    BY <1>0 DEF LaunchKnown, NbTypeOK
  <2>1. /\ jobs' \in [Queries -> JobRecords]
        /\ \A x \in Queries : jobs'[x].state = jobs[x].state
    BY <1>3, <2>0 DEF Strands, NbTypeOK
  <2>2. NbTypeOK'
    BY <1>0, <1>3, <2>1 DEF Strands, NbTypeOK, kernelVars
  <2>3. ASSUME NEW x \in Queries PROVE LaunchKnown(x)' /\ ResultKnown(x)'
    BY <1>0, <1>3, <2>1, <2>3
    DEF Strands, LaunchKnown, ResultKnown, Untouched, Launching, kernelVars
  <2>4. QED
    BY <2>2, <2>3
<1>4. QED
  BY <1>1, <1>2, <1>3 DEF CliChecks

LEMMA CliHandsOffStep ==
    ASSUME NotebookInv, NEW q \in Queries, CliHandsOff(q)
    PROVE  NotebookInv'
<1> USE DEF NotebookInv
<1>0. /\ Launching(q) /\ cli = "committed" /\ call' = call /\ runner[q] = 0
      /\ jobs[q].state = "Pending" /\ outcome[q] = "none"
      /\ UNCHANGED <<tries, kernelVars, dirs, exported>>
  BY DEF CliHandsOff, Launching, LaunchKnown
<1>1. CASE cli' = "ok" /\ runner' = [runner EXCEPT ![q] = @ + 1] /\ UNCHANGED jobs
  <2>1. NbTypeOK'
    BY <1>0, <1>1, NotebookBounds DEF NbTypeOK, kernelVars
  <2>2. ASSUME NEW x \in Queries PROVE LaunchKnown(x)' /\ ResultKnown(x)'
    BY <1>0, <1>1, <2>2
    DEF LaunchKnown, ResultKnown, Untouched, Launching, kernelVars, NbTypeOK
  <2>3. QED
    BY <2>1, <2>2
<1>2. CASE cli' = "failed" /\ JobTo(q, "Failed") /\ UNCHANGED runner
  <2>1. NbTypeOK'
    BY <1>0, <1>2, JobToFields DEF NbTypeOK, kernelVars
  <2>2. ASSUME NEW x \in Queries PROVE LaunchKnown(x)' /\ ResultKnown(x)'
    BY <1>0, <1>2, <2>2, JobToFields
    DEF LaunchKnown, ResultKnown, Untouched, Launching, kernelVars
  <2>3. QED
    BY <2>1, <2>2
<1>3. QED
  BY <1>1, <1>2 DEF CliHandsOff

LEMMA RetriesFullStep ==
    ASSUME NotebookInv, NEW q \in Queries, RetriesFull(q)
    PROVE  NotebookInv'
<1> USE DEF NotebookInv
<1>1. /\ Launching(q) /\ cli = "capacity" /\ cli' = "checks" /\ tries' = tries + 1
      /\ tries < MaxTries /\ call' = call
      /\ UNCHANGED <<outcome, view, rows, dirs, exported, jobs, runner>>
  BY DEF RetriesFull, Launching, kernelVars, hostVars
<1>2. NbTypeOK' /\ tries' > 0
  BY <1>1, NotebookBounds DEF NbTypeOK
<1>3. ASSUME NEW x \in Queries PROVE LaunchKnown(x)' /\ ResultKnown(x)'
  BY <1>1, <1>2, <1>3 DEF LaunchKnown, ResultKnown, Untouched, Launching
<1>4. QED
  BY <1>2, <1>3

\* A launch that raises, after what its CLI left behind.
LEMMA RaisesStep ==
    ASSUME NotebookInv, NEW q \in Queries, NEW how \in {"refused", "lost"},
           Launching(q), Raises(q, how),
           how = "refused" => jobs[q].state \in {"none", "Failed"} /\ runner[q] = 0,
           UNCHANGED <<view, rows, jobs, runner>>
    PROVE  NotebookInv'
<1> USE DEF NotebookInv
<1>1. /\ call' = NoCall /\ tries' = 0 /\ cli' = "none"
      /\ outcome' = [outcome EXCEPT ![q] = how]
      /\ dirs' \in [Queries -> {"none", "made", "gone"}]
      /\ exported' = IF q \in Named THEN exported ELSE [exported EXCEPT ![q] = Nothing]
  BY DEF Raises, Back, NbTypeOK
<1>2. NbTypeOK'
  <2>1. call' \in CallRecords /\ tries' \in 0 .. MaxTries
    BY <1>1, NotebookBounds DEF NoCall
  <2>2. exported' \in [Places -> Queries \cup {Nothing}]
    BY <1>1 DEF NbTypeOK
  <2>3. outcome' \in [Queries -> {"none", "returned", "refused", "lost"}]
    BY <1>1 DEF NbTypeOK
  <2>4. QED
    BY <1>1, <2>1, <2>2, <2>3 DEF NbTypeOK
<1>3. ASSUME NEW x \in Queries PROVE LaunchKnown(x)'
  <2>1. /\ ~Launching(x)' /\ jobs' = jobs /\ runner' = runner /\ runner[x] <= 1
        /\ outcome \in [Queries -> {"none", "returned", "refused", "lost"}]
    BY <1>1, <1>3, CallsDiffer DEF LaunchKnown, NbTypeOK
  <2>2. CASE x = q
    <3>1. outcome'[x] = how /\ how # "none" /\ how # "returned"
      BY <1>1, <2>1, <2>2
    <3> QED
      BY <2>1, <2>2, <3>1 DEF LaunchKnown
  <2>3. CASE x # q
    <3>1. ~Launching(x)
      BY <1>3, <2>3 DEF Launching
    <3>2. outcome'[x] = outcome[x]
      BY <1>1, <2>1, <2>3
    <3>3. LaunchKnown(x)
      BY <1>3
    <3> QED
      BY <2>1, <3>1, <3>2, <3>3 DEF LaunchKnown, Untouched
  <2> QED
    BY <2>2, <2>3
<1>4. ASSUME NEW x \in Queries PROVE ResultKnown(x)'
  BY <1>1, <1>4, OwnPlace DEF ResultKnown, NbTypeOK
<1>5. QED
  BY <1>2, <1>3, <1>4

LEMMA ShowsLaunchedStep ==
    ASSUME NotebookInv, NEW q \in Queries, ShowsLaunched(q)
    PROVE  NotebookInv'
<1> USE DEF NotebookInv
<1>0. Launching(q) /\ cli = "ok" /\ runner[q] = 1 /\ UNCHANGED <<rows, jobs, runner>>
  BY DEF ShowsLaunched, Launching, LaunchKnown
<1>1. CASE /\ Back(q) /\ outcome' = [outcome EXCEPT ![q] = "returned"]
           /\ view' = [view EXCEPT ![q] = jobs[q].state] /\ UNCHANGED <<dirs, exported>>
  <2>1. call' = NoCall /\ tries' = 0 /\ cli' = "none"
    BY <1>1 DEF Back
  <2>2. NbTypeOK'
    BY <1>0, <1>1, <2>1, NotebookBounds DEF NbTypeOK, NoCall
  <2>3. ASSUME NEW x \in Queries PROVE LaunchKnown(x)'
    BY <1>0, <1>1, <2>1, <2>3, CallsDiffer DEF LaunchKnown, Untouched, Launching, NbTypeOK
  <2>4. ASSUME NEW x \in Queries PROVE ResultKnown(x)'
    BY <1>0, <1>1, <2>4 DEF ResultKnown, NbTypeOK
  <2>5. QED
    BY <2>2, <2>3, <2>4
<1>2. CASE Raises(q, "lost") /\ UNCHANGED view
  BY <1>0, <1>2, RaisesStep
<1>3. QED
  BY <1>1, <1>2 DEF ShowsLaunched

-------------------------------------------------------------------------------
(* Waiting, cancelling, reading, cleaning up *)

LEMMA StartsStep ==
    ASSUME NotebookInv, NEW q \in Queries, NEW pc \in {"poll", "cancel", "read"}, Starts(q, pc)
    PROVE  NotebookInv'
<1> USE DEF NotebookInv
<1>1. /\ call = NoCall /\ call' = [pc |-> pc, of |-> q] /\ tries' = 0
      /\ UNCHANGED <<cli, outcome, view, rows, dirs, exported, jobs, runner>>
  BY DEF Starts, kernelVars, hostVars
<1>2. NbTypeOK'
  BY <1>1, NotebookBounds DEF NbTypeOK
<1>3. ASSUME NEW x \in Queries PROVE LaunchKnown(x)' /\ ResultKnown(x)'
  BY <1>1, <1>3, CallsDiffer DEF LaunchKnown, ResultKnown, Untouched
<1>4. QED
  BY <1>2, <1>3

LEMMA PollsStep ==
    ASSUME NotebookInv, NEW q \in Queries, Polls(q) \/ WaitGivesUp(q)
    PROVE  NotebookInv'
<1> USE DEF NotebookInv
<1>1. /\ call = [pc |-> "poll", of |-> q]
      /\ \/ call' = NoCall /\ tries' = 0 /\ cli' = "none"
         \/ tries < MaxTries /\ tries' = tries + 1 /\ UNCHANGED <<call, cli>>
      /\ view' = view \/ view' = [view EXCEPT ![q] = jobs[q].state]
      /\ UNCHANGED <<outcome, rows, dirs, exported, jobs, runner>>
  BY DEF Polls, WaitGivesUp, Back, kernelVars, hostVars
<1>2. NbTypeOK'
  BY <1>1, NotebookBounds DEF NbTypeOK, NoCall
<1>3. ASSUME NEW x \in Queries PROVE LaunchKnown(x)'
  <2>1. ~Launching(x) /\ ~Launching(x)'
    BY <1>1 DEF Launching, NoCall
  <2>2. QED
    BY <1>1, <2>1 DEF LaunchKnown, Untouched
<1>4. ASSUME NEW x \in Queries PROVE ResultKnown(x)'
  BY <1>1, <1>4 DEF ResultKnown, NbTypeOK
<1>5. QED
  BY <1>2, <1>3, <1>4

LEMMA CancelActsStep ==
    ASSUME NotebookInv, NEW q \in Queries, CancelActs(q)
    PROVE  NotebookInv'
<1> USE DEF NotebookInv
<1>1. /\ call = [pc |-> "cancel", of |-> q]
      /\ call' = NoCall /\ tries' = 0 /\ cli' = "none"
      /\ view' = [view EXCEPT ![q] = jobs'[q].state]
      /\ UNCHANGED <<outcome, rows, dirs, exported, runner>>
  BY DEF CancelActs, Back
<1>2. /\ jobs' \in [Queries -> JobRecords]
      /\ \A x \in Queries : \/ jobs'[x].state = jobs[x].state
                            \/ x = q /\ jobs[x].state \in {"Pending", "Running"}
  <2>1. CASE jobs[q].state \in {"Pending", "Running"} /\ JobTo(q, "Cancelled")
    BY <2>1, JobToFields
  <2>2. CASE UNCHANGED jobs
    BY <2>2 DEF NbTypeOK
  <2>3. QED
    BY <2>1, <2>2 DEF CancelActs
<1>3. NbTypeOK'
  <2>1. call' \in CallRecords /\ tries' \in 0 .. MaxTries
    BY <1>1, NotebookBounds DEF NoCall
  <2>2. jobs'[q].state \in States \cup {"none"}
    BY <1>2
  <2>3. view' \in [Queries -> States \cup {"none"}]
    BY <1>1, <2>2 DEF NbTypeOK
  <2>4. QED
    BY <1>1, <1>2, <2>1, <2>3 DEF NbTypeOK
<1>4. ASSUME NEW x \in Queries PROVE LaunchKnown(x)'
  <2>1. ~Launching(x) /\ ~Launching(x)'
    BY <1>1 DEF Launching, NoCall
  <2>2. QED
    BY <1>1, <1>2, <2>1 DEF LaunchKnown, Untouched
<1>5. ASSUME NEW x \in Queries PROVE ResultKnown(x)'
  BY <1>1, <1>2, <1>5 DEF ResultKnown, NbTypeOK
<1>6. QED
  BY <1>3, <1>4, <1>5

LEMMA ReadsResultStep ==
    ASSUME NotebookInv, NEW q \in Queries, ReadsResult(q)
    PROVE  NotebookInv'
<1> USE DEF NotebookInv
<1>1. /\ call = [pc |-> "read", of |-> q]
      /\ call' = NoCall /\ tries' = 0 /\ cli' = "none"
      /\ rows' = IF view[q] = "Succeeded" THEN [rows EXCEPT ![q] = exported[Place(q)]] ELSE rows
      /\ UNCHANGED <<outcome, view, dirs, exported, jobs, runner>>
  BY DEF ReadsResult, Back, hostVars
<1>2. exported[Place(q)] \in Queries \cup {Nothing}
  BY InPlaces DEF NbTypeOK
<1>3. NbTypeOK'
  BY <1>1, <1>2, NotebookBounds DEF NbTypeOK, NoCall
<1>4. ASSUME NEW x \in Queries PROVE LaunchKnown(x)'
  <2>1. ~Launching(x) /\ ~Launching(x)'
    BY <1>1 DEF Launching, NoCall
  <2>2. QED
    BY <1>1, <2>1 DEF LaunchKnown, Untouched
<1>5. ASSUME NEW x \in Queries PROVE ResultKnown(x)'
  BY <1>1, <1>5, OwnPlace DEF ResultKnown, NbTypeOK
<1>6. QED
  BY <1>3, <1>4, <1>5

LEMMA CleansUpStep ==
    ASSUME NotebookInv, NEW q \in Queries, CleansUp(q)
    PROVE  NotebookInv'
<1> USE DEF NotebookInv
<1>1. /\ dirs' = [dirs EXCEPT ![q] = "gone"] /\ exported' = [exported EXCEPT ![q] = Nothing]
      /\ UNCHANGED <<call, tries, cli, outcome, view, rows, jobs, runner>>
  BY DEF CleansUp, kernelVars
<1>2. NbTypeOK'
  BY <1>1 DEF NbTypeOK
<1>3. ASSUME NEW x \in Queries PROVE LaunchKnown(x)'
  BY <1>1, <1>3 DEF LaunchKnown, Untouched, Launching
<1>4. ASSUME NEW x \in Queries PROVE ResultKnown(x)'
  BY <1>1, <1>4, OwnPlace DEF ResultKnown, NbTypeOK
<1>5. QED
  BY <1>2, <1>3, <1>4

-------------------------------------------------------------------------------
(* The runner *)

\* A Job that is Pending or Running and moves on, or ends.
LEMMA JobMoves ==
    ASSUME NotebookInv, NEW q \in Queries, NEW s \in {"Running", "Succeeded", "Failed"},
           JobTo(q, s), jobs[q].state \in {"Pending", "Running"},
           s # "Failed" => jobs[q].state = "Running" \/ runner[q] > 0,
           jobs[q].state = "Pending" /\ s = "Failed" => cli # "committed",
           UNCHANGED <<call, tries, cli, kernelVars, dirs, exported, runner>>
    PROVE  NotebookInv'
<1> USE DEF NotebookInv
<1>1. UNCHANGED <<call, tries, cli, outcome, view, rows, dirs, exported, runner>>
  BY DEF kernelVars
<1>2. NbTypeOK'
  BY <1>1, JobToFields DEF NbTypeOK
<1>3. ASSUME NEW x \in Queries PROVE LaunchKnown(x)' /\ ResultKnown(x)'
  <2>1. CASE x # q
    BY <1>1, <2>1, JobToFields DEF LaunchKnown, ResultKnown, Untouched, Launching
  <2>2. CASE x = q
    BY <1>1, <2>2, JobToFields DEF LaunchKnown, ResultKnown, Untouched, Launching
  <2>3. QED
    BY <2>1, <2>2
<1>4. QED
  BY <1>2, <1>3

LEMMA RunnerStep ==
    ASSUME NotebookInv, NEW q \in Queries, JobStarts(q) \/ JobExports(q) \/ JobEnds(q)
    PROVE  NotebookInv'
<1>1. CASE JobStarts(q)
  BY <1>1, JobMoves DEF JobStarts
<1>2. CASE JobExports(q)
  <2>1. CASE JobTo(q, "Failed") /\ UNCHANGED exported
    BY <1>2, <2>1, JobMoves DEF JobExports
  <2>2. CASE exported' = [exported EXCEPT ![Place(q)] = q] /\ UNCHANGED jobs
    <3> USE DEF NotebookInv
    <3>1. UNCHANGED <<call, tries, cli, outcome, view, rows, dirs, jobs, runner>>
      BY <1>2, <2>2 DEF JobExports, kernelVars
    <3>2. NbTypeOK'
      BY <2>2, <3>1 DEF NbTypeOK
    <3>3. ASSUME NEW x \in Queries PROVE LaunchKnown(x)'
      BY <3>1, <3>3 DEF LaunchKnown, Untouched, Launching
    <3>4. ASSUME NEW x \in Queries PROVE ResultKnown(x)'
      <4>1. x \notin Named => exported'[x] \in {Nothing, x}
        BY <2>2, OwnPlace DEF ResultKnown, NbTypeOK
      <4>2. QED
        BY <3>1, <3>4, <4>1 DEF ResultKnown
    <3>5. QED
      BY <3>2, <3>3, <3>4
  <2>3. QED
    BY <1>2, <2>1, <2>2 DEF JobExports
<1>3. CASE JobEnds(q)
  BY <1>3, JobMoves DEF JobEnds
<1>4. QED
  BY <1>1, <1>2, <1>3

\* A Job without runner that an earlier round left behind ends.
LEMMA StrayEndsStep ==
    ASSUME NotebookInv, NEW q \in Queries, StrayEnds(q)
    PROVE  NotebookInv'
<1> USE DEF NotebookInv
<1>1. UNCHANGED <<call, tries, cli, outcome, view, rows, dirs, exported, runner>>
  BY DEF StrayEnds, kernelVars
<1>2. /\ jobs' \in [Queries -> JobRecords]
      /\ \A x \in Queries : jobs'[x].state = jobs[x].state
  BY DEF StrayEnds, NbTypeOK
<1>3. NbTypeOK'
  BY <1>1, <1>2 DEF NbTypeOK
<1>4. ASSUME NEW x \in Queries PROVE LaunchKnown(x)' /\ ResultKnown(x)'
  BY <1>1, <1>2, <1>4 DEF LaunchKnown, ResultKnown, Untouched, Launching
<1>5. QED
  BY <1>3, <1>4

-------------------------------------------------------------------------------
(* The invariant and what follows from it *)

LEMMA NotebookInvInit == NbInit => NotebookInv
<1> SUFFICES ASSUME NbInit PROVE NotebookInv
  OBVIOUS
<1>1. NbTypeOK
  BY NotebookBounds DEF NbInit, NbTypeOK, NoCall
<1>2. ASSUME NEW q \in Queries PROVE LaunchKnown(q) /\ ResultKnown(q)
  BY <1>2, OwnPlace DEF NbInit, LaunchKnown, ResultKnown, Untouched, Launching, NoCall
<1>3. QED
  BY <1>1, <1>2 DEF NotebookInv

LEMMA NotebookInvStep == NotebookInv /\ [NbNext]_nbVars => NotebookInv'
<1> SUFFICES ASSUME NotebookInv, [NbNext]_nbVars PROVE NotebookInv'
  OBVIOUS
<1>1. ASSUME NEW q \in Queries, RaisesRefused(q) \/ LaunchTimesOut(q) PROVE NotebookInv'
  <2>1. Launching(q)
    BY <1>1 DEF RaisesRefused, LaunchTimesOut, Launching
  <2>2. CASE RaisesRefused(q)
    <3>1. jobs[q].state \in {"none", "Failed"} /\ runner[q] = 0
      BY <2>1, <2>2 DEF RaisesRefused, NotebookInv, LaunchKnown, Untouched
    <3>2. QED
      BY <2>1, <2>2, <3>1, RaisesStep DEF RaisesRefused
  <2>3. CASE LaunchTimesOut(q)
    BY <2>1, <2>3, RaisesStep DEF LaunchTimesOut
  <2>4. QED
    BY <1>1, <2>2, <2>3
<1>2. ASSUME NEW q \in Queries, Waits(q) \/ Cancels(q) \/ Reads(q) PROVE NotebookInv'
  BY <1>2, StartsStep DEF Waits, Cancels, Reads
<1>3. CASE UNCHANGED nbVars
  BY <1>3 DEF nbVars, NotebookInv, NbTypeOK, LaunchKnown, ResultKnown, Untouched, Launching
<1>4. QED
  BY <1>1, <1>2, <1>3, LaunchStep, CliChecksStep, CliHandsOffStep, RetriesFullStep,
     ShowsLaunchedStep, PollsStep, CancelActsStep, ReadsResultStep, CleansUpStep, RunnerStep,
     StrayEndsStep
  DEF NbNext

LEMMA NotebookInvAlways == NbSpec => []NotebookInv
BY NotebookInvInit, NotebookInvStep, PTL DEF NbSpec

(* The kernel, its CLI process, the directories and the Jobs keep their types:  *)
(* in particular no query is tried or polled past the bounds.                  *)
THEOREM NotebookTypeCorrect == NbSpec => []NbTypeOK
BY NotebookInvAlways, PTL DEF NotebookInv

(* The rows read for an inline query are the output of its own Job, which       *)
(* succeeded, whatever other queries export, cancel or clean up meanwhile.     *)
THEOREM RowsSafe == NbSpec => []RowsAreTheJobs
<1>1. NotebookInv => RowsAreTheJobs
  BY DEF NotebookInv, ResultKnown, RowsAreTheJobs
<1>2. QED
  BY <1>1, NotebookInvAlways, PTL

(* A launch gives at most one Job to a runner, with any number of retries and   *)
(* whatever Jobs failed rounds committed, and a refused launch leaves none that *)
(* could run.                                                                   *)
THEOREM LaunchesOnce == NbSpec => []OneRunPerLaunch
<1>1. NotebookInv => OneRunPerLaunch
  BY DEF NotebookInv, LaunchKnown, OneRunPerLaunch
<1>2. QED
  BY <1>1, NotebookInvAlways, PTL

-------------------------------------------------------------------------------
(* The host *)

(* A step of a host is a step of one part, and leaves every other part as it was. *)
LEMMA HostStep ==
    ASSUME [HostNext]_hostVarsOf
    PROVE  /\ [OrchNext]_orchVars /\ [ClientNext]_clientVars /\ [NbNext]_nbVars
           /\ [RtNext]_rtVars /\ [SmokeNext]_smokeVars
<1>1. CASE UNCHANGED hostVarsOf
  BY <1>1 DEF hostVarsOf, pipelineVars
<1>2. CASE HostNext
  BY <1>2 DEF HostNext, PipelineNext, pipelineVars
<1> QED
  BY <1>1, <1>2

(* What HostSpec lets happen to a part is what the part's own specification lets happen, *)
(* so every theorem about a part holds of the composition the runs check.               *)
THEOREM HostComposes == HostSpec => OrchSpec /\ ClientSpec /\ NbSpec /\ RtSpec /\ SmokeSpec
<1>1. HostInit => OrchInit /\ ClientInit /\ NbInit /\ RtInit /\ SmokeInit
  BY DEF HostInit, PipelineInit
<1>2. [HostNext]_hostVarsOf => /\ [OrchNext]_orchVars /\ [ClientNext]_clientVars /\ [NbNext]_nbVars
                               /\ [RtNext]_rtVars /\ [SmokeNext]_smokeVars
  BY HostStep
<1> QED
  BY <1>1, <1>2, PTL DEF HostSpec, OrchSpec, ClientSpec, NbSpec, RtSpec, SmokeSpec

(* Scripts, client, notebook, installer and smoke runs of a host keep their types. *)
THEOREM HostTypes == HostSpec => []HostTypeOK
<1>1. OrchTypeOK /\ ClientTypeOK /\ NbTypeOK /\ RtTypeOK /\ SmokeTypeOK => HostTypeOK
  BY DEF HostTypeOK
<1> QED
  BY <1>1, HostComposes, OrchestratorTypeCorrect, ClientTypeCorrect, NotebookTypeCorrect,
     RtTypeCorrect, SmokeTypeCorrect, PTL

\* The scripts move with their monitor, or it has seen nothing yet.
Piped == part = "pipeline"
Unread == part # "pipeline" /\ poller = [q \in Monitor!QueryIds |-> Monitor!NoPoller] /\ tree = <<>>

\* The scripts and their monitor together are the pipeline; where it does not move, no
\* monitor reads.
LEMMA PipelineOrUnread ==
    /\ HostInit => PipelineInit /\ (Piped \/ Unread)
    /\ [HostNext]_hostVarsOf /\ Piped => Piped' /\ [PipelineNext]_pipelineVars
    /\ [HostNext]_hostVarsOf /\ Unread => Unread'
<1>1. HostInit => PipelineInit /\ (Piped \/ Unread)
  BY DEF Piped, HostInit, PipelineInit, Monitor!MonInit, Unread
<1>2. ASSUME [HostNext]_hostVarsOf, Piped
      PROVE  Piped' /\ [PipelineNext]_pipelineVars
  BY <1>2 DEF HostNext, hostVarsOf, Piped
<1>3. ASSUME [HostNext]_hostVarsOf, Unread PROVE Unread'
  <2>1. UNCHANGED <<part, poller, tree>>
    BY <1>3 DEF HostNext, hostVarsOf, pipelineVars, monitorVars, Unread
  <2> QED
    BY <1>3, <2>1 DEF Unread, Monitor!QueryIds, Monitor!NoPoller
<1> QED
  BY <1>1, <1>2, <1>3

\* What nobody has read shows no failure.
LEMMA UnreadShowsNothing ==
    ASSUME OrchInv, Unread
    PROVE  SuccessShowsNoFailure
<1>1. ASSUME NEW q \in OwnQueries PROVE poller[q].last # "failed"
  BY OwnAreIds DEF Unread, Monitor!QueryIds, Monitor!NoPoller
<1>2. Len(tree) = 0
  BY DEF Unread
<1>3. Monitor!Places(tree) = {}
  BY <1>2 DEF Monitor!Places
<1>4. Monitor!Nodes(tree) = {}
  BY <1>3 DEF Monitor!Nodes
<1> QED
  BY <1>1, <1>4 DEF SuccessShowsNoFailure

\* A host's Job that ended well shows no failure either.
LEMMA HostShowsSuccess == HostSpec => []SuccessShowsNoFailure
<1>1. HostSpec /\ Piped => PipelineSpec
  BY PipelineOrUnread, PTL DEF HostSpec, PipelineSpec
<1>2. HostSpec /\ Unread => []Unread
  BY PipelineOrUnread, PTL DEF HostSpec
<1>3. HostSpec => []OrchInv
  BY HostComposes, OrchInvAlways, PTL
<1>4. OrchInv /\ Unread => SuccessShowsNoFailure
  BY UnreadShowsNothing
<1>5. HostSpec => Piped \/ Unread
  BY PipelineOrUnread DEF HostSpec
<1> QED
  BY <1>1, <1>2, <1>3, <1>4, <1>5, SuccessIsShown, PTL

(* Every safety property the run "host" checks, for every value of the constants. *)
THEOREM HostSafe ==
    HostSpec => /\ [](NoOrphanExport /\ ProbeIsInFlight /\ OpenIsQuiet)
                /\ [](RowsAreTheJobs /\ OneRunPerLaunch)
                /\ [](RoundsBoundShells /\ SuccessShowsNoFailure)
                /\ CsvIsWhole /\ KeepsEventFile /\ ActiveStaysUsable /\ PassIsEarned
  BY HostComposes, NoOrphanSafe, ProbeSafe, OpenHostIsQuiet, RowsSafe, LaunchesOnce, RoundsSafe,
     HostShowsSuccess, CsvSafe, ScriptsKeepEventFile, ActiveStays, PassEarned, PTL
===============================================================================
