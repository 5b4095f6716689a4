------------------------------ MODULE JobPromise ------------------------------
(***************************************************************************)
(* What the manifest promises its readers about one Job: it is created     *)
(* Pending, it may become Running once, and a terminal state is final.     *)
(* The Capacity module relies on exactly this: a slot that a Job has given *)
(* up is never taken back.                                                 *)
(***************************************************************************)
VARIABLE state

Terminal == {"Succeeded", "Failed", "Cancelled"}

Init == state = "absent"

Create == state = "absent" /\ state' = "Pending"
Start == state = "Pending" /\ state' = "Running"
End == state \in {"Pending", "Running"} /\ state' \in Terminal

Next == Create \/ Start \/ End

Spec == Init /\ [][Next]_state
===============================================================================
