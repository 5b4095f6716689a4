----------------------------- MODULE MC_Capacity -----------------------------
(***************************************************************************)
(* Instances of Capacity for TLC: one operation per process, or two        *)
(* operations sharing a process (a TUI with two worker threads).           *)
(***************************************************************************)
EXTENDS Capacity, TLC

CONSTANTS o1, o2, o3

OwnProcess == [o \in Ops |-> o]
SharedProcess == [o \in Ops |-> IF o = o3 THEN o2 ELSE o]

Symmetry == Permutations(Jobs \ LateJobs)
===============================================================================
