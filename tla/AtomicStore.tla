----------------------------- MODULE AtomicStore -----------------------------
(***************************************************************************)
(* What the state lock promises its users: as long as the store is sound,  *)
(* the state file is a register, and a locked section adds its update to   *)
(* the latest value in one step or not at all.                             *)
(***************************************************************************)
CONSTANT Writers

VARIABLES
    value,  \* the updates the file holds
    sound   \* no damage, no save without the lock, no update dropped by a load

Init == value = {}

\* A section ends cleanly.
Commit(w) == value' = value \cup {w}

Next == sound' => \E w \in Writers : Commit(w)

Spec == Init /\ [][Next]_value
==============================================================================
