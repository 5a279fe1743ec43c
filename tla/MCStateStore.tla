---------------------------- MODULE MCStateStore -----------------------------
(***************************************************************************)
(* StateStore for TLC: locked writers, and one process that takes no lock. *)
(***************************************************************************)
EXTENDS StateStore

CONSTANTS a, b, c, s, none

ThreeWriters == {a, b, c}
OneUnlocked == {s}
==============================================================================
