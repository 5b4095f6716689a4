---------------------------- MODULE ImpalaClient ----------------------------
(***************************************************************************)
(* dispatch/impala_monitor_http.py over dispatch/impala_monitor.py: the    *)
(* read-only client of the coordinators' debug web servers.  Two threads   *)
(* share one client without a lock: the monitor service's, which observes  *)
(* queries, and a recovery worker's, which lists the coordinators and      *)
(* sweeps their queries for one that matches.                              *)
(*                                                                         *)
(* Every request goes through _fetch_enforced: the circuit breaker of the  *)
(* host is asked, the request waits out its backoff, is sent, and its      *)
(* outcome recorded.  Another thread may act between any two of these.     *)
(* Time is abstracted: a breaker that is open cools down by a step, and    *)
(* so does the discovery cache.                                            *)
(***************************************************************************)
EXTENDS Naturals, FiniteSets

CONSTANTS
    Hosts,        \* coordinators whose URL is valid
    Home,         \* the coordinator of the query that is observed
    Seed,         \* the coordinator a recovery starts from
    Threshold,    \* CIRCUIT_BREAKER_FAILURE_THRESHOLD
    MaxRetries    \* MAX_RETRIES

ASSUME ClientAssumption ==
    /\ {Home, Seed} \subseteq Hosts
    /\ Threshold \in Nat \ {0}
    /\ MaxRetries \in Nat

VARIABLES
    breaker,      \* per host: failures in a row, open or not, the half-open probe
    capability,   \* the detail endpoint chosen for the query's coordinator
    coordinators, \* the discovery cache: coordinators, and whether its TTL runs
    fetch,        \* per thread: the call and its current request
    late          \* per host: requests sent since its breaker opened

clientVars == <<breaker, capability, coordinators, fetch, late>>

Threads == {"monitor", "recovery"}
Endpoints == {"query_stmt", "query_plan"}
Idle == [op |-> "none", pc |-> "idle", host |-> Seed, url |-> "none", attempt |-> 0,
         body |-> "none", left |-> {}]

ClientTypeOK ==
    /\ breaker \in [Hosts -> [failures : 0 .. Threshold, is : {"closed", "open", "cooled"},
                              probing : {"yes", "no"}]]
    /\ capability \in Endpoints \cup {"none"}
    /\ coordinators \in [known : SUBSET Hosts, ttl : {"none", "fresh", "expired"}]
    /\ fetch \in [Threads ->
         [op : {"none", "observe", "backends", "queries"},
          pc : {"idle", "asks", "claims", "waits", "sent", "answered", "refused"},
          host : Hosts, url : Endpoints \cup {"none", "backends", "queries"},
          attempt : 0 .. MaxRetries, body : {"none", "good", "other"},
          left : SUBSET Hosts]]
    /\ late \in [Hosts -> Nat]

----------------------------------------------------------------------------
(* _CircuitBreaker *)

\* allow: the first thread past a cooldown takes the half-open probe; the look and
\* the taking are two steps.
Asks(t) ==
    LET b == breaker[fetch[t].host]
        go == CASE b.is = "closed" -> "waits"
                [] b.is = "cooled" /\ b.probing = "no" -> "claims"
                [] OTHER -> "refused"
    IN /\ fetch[t].pc = "asks"
       /\ fetch' = [fetch EXCEPT ![t].pc = go]
       /\ UNCHANGED <<breaker, capability, coordinators, late>>

Claims(t) ==
    /\ fetch[t].pc = "claims"
    /\ breaker' = [breaker EXCEPT ![fetch[t].host].probing = "yes"]
    /\ fetch' = [fetch EXCEPT ![t].pc = "waits"]
    /\ UNCHANGED <<capability, coordinators, late>>

RecordSuccess(h) ==
    breaker' = [breaker EXCEPT ![h] = [failures |-> 0, is |-> "closed", probing |-> "no"]]

\* late counts from the moment the breaker opens.
RecordFailure(h) ==
    LET b == breaker[h]
        n == IF b.failures < Threshold THEN b.failures + 1 ELSE Threshold
        opens == n = Threshold
    IN /\ breaker' = [breaker EXCEPT ![h] = [failures |-> n, probing |-> "no",
                                             is |-> IF opens THEN "open" ELSE b.is]]
       /\ late' = IF opens /\ b.is # "open" THEN [late EXCEPT ![h] = 0] ELSE late

\* The cooldown elapses.
CoolsDown(h) ==
    /\ breaker[h].is = "open"
    /\ breaker' = [breaker EXCEPT ![h].is = "cooled"]
    /\ UNCHANGED <<capability, coordinators, fetch, late>>

----------------------------------------------------------------------------
(* _fetch_enforced *)

\* The backoff is over: the request leaves.
Sends(t) ==
    LET h == fetch[t].host
    IN /\ fetch[t].pc = "waits"
       /\ fetch' = [fetch EXCEPT ![t].pc = "sent"]
       /\ late' = IF breaker[h].is = "open" THEN [late EXCEPT ![h] = @ + 1] ELSE late
       /\ UNCHANGED <<breaker, capability, coordinators>>

\* Mutant: a retry does not ask the breaker.
FailsAndRetries(t) ==
    /\ fetch[t].pc = "sent"
    /\ RecordFailure(fetch[t].host)
    /\ fetch' = [fetch EXCEPT ![t] =
                   IF fetch[t].attempt < MaxRetries
                   THEN [@ EXCEPT !.pc = "waits", !.attempt = fetch[t].attempt + 1]
                   ELSE [@ EXCEPT !.pc = "refused"]]
    /\ UNCHANGED <<capability, coordinators>>

\* The transport raises, or the server answers 5xx: retried while attempts are left.
Fails(t) ==
    /\ fetch[t].pc = "sent"
    /\ RecordFailure(fetch[t].host)
    /\ fetch' = [fetch EXCEPT ![t] =
                   IF fetch[t].attempt < MaxRetries
                   THEN [@ EXCEPT !.pc = "asks", !.attempt = fetch[t].attempt + 1]
                   ELSE [@ EXCEPT !.pc = "refused"]]
    /\ UNCHANGED <<capability, coordinators>>

\* Mutant: a redirect is not a failure to the breaker.
RedirectsUncounted(t) ==
    /\ fetch[t].pc = "sent"
    /\ fetch' = [fetch EXCEPT ![t].pc = "refused"]
    /\ UNCHANGED <<breaker, capability, coordinators, late>>

\* A redirect is not followed and not retried.
Redirects(t) ==
    /\ fetch[t].pc = "sent"
    /\ RecordFailure(fetch[t].host)
    /\ fetch' = [fetch EXCEPT ![t].pc = "refused"]
    /\ UNCHANGED <<capability, coordinators>>

\* A usable answer: the document of the endpoint, or anything else (a 404, a page
\* of another type, size or shape).
Answers(t) ==
    LET h == fetch[t].host
    IN /\ fetch[t].pc = "sent"
       /\ RecordSuccess(h)
       /\ \E body \in {"good", "other"} :
            fetch' = [fetch EXCEPT ![t].pc = "answered", ![t].body = body]
       /\ UNCHANGED <<capability, coordinators, late>>

Request(t, op, h, url) ==
    fetch' = [fetch EXCEPT ![t] = [@ EXCEPT !.op = op, !.pc = "asks", !.host = h, !.url = url,
                                            !.attempt = 0, !.body = "none"]]

Ended(t) == fetch[t].pc \in {"answered", "refused"}

----------------------------------------------------------------------------
(* observe *)

\* The cached endpoint, or a probe of query_stmt.
Observe ==
    /\ fetch["monitor"].pc = "idle"
    /\ Request("monitor", "observe", Home,
               IF capability = "none" THEN "query_stmt" ELSE capability)
    /\ UNCHANGED <<breaker, capability, coordinators, late>>

Probe == fetch["monitor"].op = "observe" /\ Ended("monitor") /\ capability = "none"
ProbeIsGood == fetch["monitor"].pc = "answered" /\ fetch["monitor"].body = "good"

\* _capability_for: a probe that was not recognized, for whatever reason, makes the
\* client fall back to query_plan, which is requested next.
FallsBack ==
    /\ Probe /\ ~ProbeIsGood
    /\ capability' = "query_plan"
    /\ Request("monitor", "observe", Home, "query_plan")
    /\ UNCHANGED <<breaker, coordinators, late>>

\* The probe's own answer, or that of the chosen endpoint, is the observation.
Observes ==
    /\ fetch["monitor"].op = "observe" /\ Ended("monitor")
    /\ Probe => ProbeIsGood
    /\ capability' = fetch["monitor"].url
    /\ fetch' = [fetch EXCEPT !["monitor"] = Idle]
    /\ UNCHANGED <<breaker, coordinators, late>>

----------------------------------------------------------------------------
(* discover_coordinators and discover *)

\* The sweep over the cached coordinators starts with any of them; none is an error.
Sweep(known) ==
    IF known = {} THEN fetch' = [fetch EXCEPT !["recovery"] = Idle]
    ELSE \E h \in known :
           fetch' = [fetch EXCEPT !["recovery"] =
                       [Idle EXCEPT !.op = "queries", !.pc = "asks", !.host = h,
                                    !.url = "queries", !.left = known \ {h}]]

Discover ==
    /\ fetch["recovery"].pc = "idle"
    /\ IF coordinators.ttl = "fresh" THEN Sweep(coordinators.known)
       ELSE Request("recovery", "backends", Seed, "backends")
    /\ UNCHANGED <<breaker, capability, coordinators, late>>

\* The backends document names the active coordinators.
ListsCoordinators ==
    /\ fetch["recovery"].op = "backends" /\ Ended("recovery")
    /\ IF fetch["recovery"].pc = "answered" /\ fetch["recovery"].body = "good"
       THEN \E known \in SUBSET Hosts :
              /\ coordinators' = [known |-> known, ttl |-> "fresh"]
              /\ Sweep(known)
       ELSE /\ fetch' = [fetch EXCEPT !["recovery"] = Idle]
            /\ UNCHANGED coordinators
    /\ UNCHANGED <<breaker, capability, late>>

Expires ==
    /\ coordinators.ttl = "fresh"
    /\ coordinators' = [coordinators EXCEPT !.ttl = "expired"]
    /\ UNCHANGED <<breaker, capability, fetch, late>>

\* A coordinator that does not answer is passed over.
SweepsOn ==
    LET f == fetch["recovery"]
    IN /\ f.op = "queries" /\ Ended("recovery")
       /\ \E h \in f.left :
            fetch' = [fetch EXCEPT !["recovery"] =
                        [@ EXCEPT !.pc = "asks", !.host = h, !.attempt = 0, !.body = "none",
                                  !.left = f.left \ {h}]]
       /\ UNCHANGED <<breaker, capability, coordinators, late>>

\* Exactly one match in all answers is the identity; anything else is refused.
SweepEnds ==
    /\ fetch["recovery"].op = "queries" /\ Ended("recovery") /\ fetch["recovery"].left = {}
    /\ fetch' = [fetch EXCEPT !["recovery"] = Idle]
    /\ UNCHANGED <<breaker, capability, coordinators, late>>

----------------------------------------------------------------------------

ClientInit ==
    /\ breaker = [h \in Hosts |-> [failures |-> 0, is |-> "closed", probing |-> "no"]]
    /\ capability = "none"
    /\ coordinators = [known |-> {}, ttl |-> "none"]
    /\ fetch = [t \in Threads |-> Idle]
    /\ late = [h \in Hosts |-> 0]

Fetches(t) == Asks(t) \/ Claims(t) \/ Sends(t) \/ Fails(t) \/ Redirects(t) \/ Answers(t)

Monitors == Fetches("monitor") \/ FallsBack \/ Observes
Recovers == Fetches("recovery") \/ ListsCoordinators \/ SweepsOn \/ SweepEnds

ClientNext ==
    \/ Observe \/ Monitors \/ Discover \/ Recovers \/ Expires
    \/ \E h \in Hosts : CoolsDown(h)

ClientSpec == ClientInit /\ [][ClientNext]_clientVars

----------------------------------------------------------------------------

\* The half-open probe is always somebody's: while it is taken, a request to that host
\* is on its way, so the host is not locked out for good when a call ends early.
ProbeIsInFlight ==
    \A h \in Hosts : breaker[h].probing = "yes" =>
        \E t \in Threads : fetch[t].host = h /\ fetch[t].pc \in {"waits", "sent"}

\* While a breaker is open each thread sends the host one more request at most, the one
\* that had passed the breaker before it opened: a retry asks again.
OpenIsQuiet == \A h \in Hosts : late[h] <= Cardinality(Threads)

=============================================================================
