--------------------------- MODULE SharedRuntime ---------------------------
(***************************************************************************)
(* src/shared_runtime.py: content-addressed runtimes under .venv/releases, *)
(* and the link .venv/current through which every analyst runs Dispatch.   *)
(* Installers are serialised by a file lock; each may fail at a command or *)
(* die at any point, and the files of a release may be damaged afterwards. *)
(***************************************************************************)
EXTENDS Naturals, FiniteSets

CONSTANTS
    Installers,     \* processes that run install, each once
    Digests,        \* dependency bundles, by the digest of their manifest
    NoRelease       \* where `current` points before the first installation

ASSUME RuntimeAssumption == NoRelease \notin Digests /\ "nobody" \notin Installers

VARIABLES
    releases,    \* per digest: what is under releases/<digest>
    current,     \* where .venv/current points
    temporary,   \* the .current.tmp links, by their installer
    lock,        \* who holds install.lock
    install      \* per installer: where install() is, and its bundle

rtVars == <<releases, current, temporary, lock, install>>

Nobody == "nobody"
Construction == {"builds", "marks", "opens"}
Steps == Construction \cup {"verifies", "decides", "repairs", "links"}

RtTypeOK ==
    \* partial: the marker or the interpreter is missing; readable: analysts may run it
    /\ releases \in [Digests -> [stage : {"absent", "partial", "complete"}, readable : BOOLEAN]]
    /\ current \in Digests \cup {NoRelease}
    /\ temporary \in [Installers -> Digests \cup {NoRelease}]
    /\ lock \in Installers \cup {Nobody}
    /\ install \in [Installers -> [pc : Steps \cup {"waits", "activates", "ended"},
                                   digest : Digests]]

Proceeds(i, pc) == install' = [install EXCEPT ![i].pc = pc]
At(i, pc) == lock = i /\ install[i].pc = pc
Mine(i) == install[i].digest
Release(i, r) == releases' = [releases EXCEPT ![Mine(i)] = r]

----------------------------------------------------------------------------
(* install, under the lock *)

Locks(i) ==
    /\ lock = Nobody /\ install[i].pc = "waits"
    /\ lock' = i /\ Proceeds(i, "verifies")
    /\ UNCHANGED <<releases, current, temporary>>

\* _snapshot_bundle and _load_manifest: the private copy is what is verified and installed.
Verifies(i) ==
    /\ At(i, "verifies") /\ Proceeds(i, "decides")
    /\ UNCHANGED <<releases, current, temporary, lock>>

\* Mutant: an incomplete release is rebuilt although it is the active one.
DecidesToRebuild(i) ==
    /\ At(i, "decides")
    /\ \/ releases[Mine(i)].stage = "complete" /\ Proceeds(i, "repairs") /\ UNCHANGED releases
       \/ /\ Release(i, [stage |-> "partial", readable |-> FALSE]) /\ Proceeds(i, "builds")
    /\ UNCHANGED <<current, temporary, lock>>

\* _complete_metadata, and _ensure_runtime_is_not_active before a rebuild.
Decides(i) ==
    /\ At(i, "decides")
    /\ \/ releases[Mine(i)].stage = "complete" /\ Proceeds(i, "repairs") /\ UNCHANGED releases
       \/ /\ releases[Mine(i)].stage # "complete" /\ current # Mine(i)
          /\ Release(i, [stage |-> "partial", readable |-> FALSE]) /\ Proceeds(i, "builds")
    /\ UNCHANGED <<current, temporary, lock>>

\* venv, pip install, pip check and the required imports: the candidate stays private.
Builds(i) ==
    /\ At(i, "builds") /\ Proceeds(i, "marks")
    /\ UNCHANGED <<releases, current, temporary, lock>>

\* _write_metadata
Marks(i) ==
    /\ At(i, "marks") /\ Proceeds(i, "opens")
    /\ Release(i, [stage |-> "complete", readable |-> FALSE])
    /\ UNCHANGED <<current, temporary, lock>>

\* _make_owner_writable_only, at the end of a build or on a release that is reused
Opens(i) ==
    /\ At(i, "opens") \/ At(i, "repairs")
    /\ Proceeds(i, "links")
    /\ Release(i, [releases[Mine(i)] EXCEPT !.readable = TRUE])
    /\ UNCHANGED <<current, temporary, lock>>

\* _activate: stale temporary links go first, those of installers that died.
Links(i) ==
    /\ At(i, "links") /\ Proceeds(i, "activates")
    /\ temporary' = [j \in Installers |-> IF j = i THEN Mine(i) ELSE NoRelease]
    /\ UNCHANGED <<releases, current, lock>>

Activates(i) ==
    /\ At(i, "activates") /\ Proceeds(i, "ended")
    /\ current' = temporary[i] /\ temporary' = [temporary EXCEPT ![i] = NoRelease]
    /\ lock' = Nobody
    /\ UNCHANGED releases

\* A check or a command fails and the lock is left.  The release under construction goes
\* with rmtree(ignore_errors=True), which may leave a part of it or all of it; files other
\* than the marker and the interpreter are not told apart, here or in _complete_metadata.
Aborts(i) ==
    /\ lock = i /\ install[i].pc \in Steps
    /\ IF install[i].pc \in Construction
       THEN \E r \in {[stage |-> "absent", readable |-> FALSE],
                      [stage |-> "partial", readable |-> FALSE], releases[Mine(i)]} :
                Release(i, r)
       ELSE UNCHANGED releases
    /\ Proceeds(i, "ended") /\ lock' = Nobody
    /\ UNCHANGED <<current, temporary>>

----------------------------------------------------------------------------
(* What the installer does not control *)

Dies(i) ==
    /\ lock = i /\ Proceeds(i, "ended") /\ lock' = Nobody
    /\ UNCHANGED <<releases, current, temporary>>

\* The marker or the interpreter of a finished release is lost, or its permissions drift.
\* Assumed not to happen while an installation runs.
Damaged(d) ==
    /\ releases[d].stage = "complete" /\ lock = Nobody
    /\ \E r \in {[releases[d] EXCEPT !.stage = "partial"],
                 [releases[d] EXCEPT !.readable = FALSE]} :
         releases' = [releases EXCEPT ![d] = r]
    /\ UNCHANGED <<current, temporary, lock, install>>

RtInit ==
    /\ releases = [d \in Digests |-> [stage |-> "absent", readable |-> FALSE]]
    /\ current = NoRelease /\ temporary = [i \in Installers |-> NoRelease] /\ lock = Nobody
    /\ install \in [Installers -> [pc : {"waits"}, digest : Digests]]

RtNext ==
    \/ \E i \in Installers :
         Locks(i) \/ Verifies(i) \/ Decides(i) \/ Builds(i) \/ Marks(i) \/ Opens(i)
           \/ Links(i) \/ Activates(i) \/ Aborts(i) \/ Dies(i)
    \/ \E d \in Digests : Damaged(d)

RtSpec == RtInit /\ [][RtNext]_rtVars

----------------------------------------------------------------------------

Usable(d) == releases[d].stage = "complete" /\ releases[d].readable

\* An analyst who starts Dispatch through `current` runs a whole runtime: no step of any
\* installer makes the active release unusable, and none activates one that is not usable,
\* wherever installers fail or die.  Only damage from outside does.
ActiveStaysUsable ==
    [][current' # NoRelease /\ ~Usable(current)'
         => /\ current' = current
            /\ ~Usable(current) \/ install' = install]_rtVars
=============================================================================
