------------------------------- MODULE SlotPool -------------------------------
(***************************************************************************)
(* What Dispatch promises about shared Impala capacity, with no ledger, no *)
(* lock and no process in sight: a pool of Limit slots.  An occupant (a    *)
(* metadata statement or a Job) enters only while a slot is free; any      *)
(* number of occupants may leave at once, because a crash or a             *)
(* reconciliation can free several slots in one step.  An occupant that    *)
(* has left may be seen again outside the pool (a Job whose runner writes  *)
(* Running over its end), without the pool making room for it.             *)
(***************************************************************************)
EXTENDS Naturals, FiniteSets

CONSTANTS Occupants,  \* everything that may occupy a slot
          Limit       \* CAPACITY_LIMIT

VARIABLE held         \* the occupants now holding a slot

Init == held = {}

Enter(x) == /\ x \notin held
            /\ Cardinality(held) < Limit
            /\ held' = held \cup {x}

Leave == held' \in SUBSET held

Next == Leave \/ \E x \in Occupants : Enter(x)

Spec == Init /\ [][Next]_held

(* The pool is never over-committed. *)
WithinLimit == Cardinality(held) <= Limit
===============================================================================
