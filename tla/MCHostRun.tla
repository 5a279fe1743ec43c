------------------------------ MODULE MCHostRun ------------------------------
(***************************************************************************)
(* HostRun for TLC: a host with two or three workers, which differ only in *)
(* whether signals reach them.                                             *)
(***************************************************************************)
EXTENDS HostRun

CONSTANTS host, w1, w2

ThreeProcesses == {host, w1, w2}
OneUnkillable == {w2}
==============================================================================
