------------------------------ MODULE OneRepair -----------------------------
(***************************************************************************)
(* What the repair cycle promises, with nothing of how: attempts come one  *)
(* after another, each in a window no earlier attempt had; each is         *)
(* dispatched at most once, and only while nothing else is active; and a   *)
(* failed attempt blocks the next until it is disposed.                    *)
(*                                                                         *)
(* The promise is README.md's "dispatches at most one approved repair per  *)
(* window" and ADR 0016's "Each failure blocks new work until a            *)
(* disposition".  RepairCycle implements it through a refinement mapping.  *)
(***************************************************************************)
EXTENDS Integers, Sequences

CONSTANT Windows   \* the windows of the host's clock

VARIABLES
    windows,      \* the window of each attempt so far
    dispatches,   \* how often the latest attempt was dispatched
    state,        \* of the latest attempt: see States
    disposed      \* whether the operator disposed the latest attempt

oneVars == <<windows, dispatches, state, disposed>>

\* Nothing to wait for; a host or a pull request may be live; the same, with a
\* failure recorded; finished, with a failure that waits for the operator
States == {"free", "active", "failing", "blocked"}

OneInit ==
    /\ disposed = FALSE
    /\ \/ windows = <<>> /\ dispatches = 0 /\ state = "free"
       \* what an earlier version of the program may have left
       \/ \E w \in Windows : windows = <<w>> /\ dispatches = 1 /\ state \in {"free", "active"}

LeaseAttempt(w) ==
    /\ state = "free"
    /\ \A i \in 1..Len(windows) : windows[i] # w
    /\ windows' = Append(windows, w)
    /\ dispatches' = 0
    /\ disposed' = FALSE
    /\ UNCHANGED state

DispatchOnce ==
    /\ state = "free"
    /\ ~disposed
    /\ windows # <<>>
    /\ dispatches = 0
    /\ dispatches' = 1
    /\ state' = "active"
    /\ UNCHANGED <<windows, disposed>>

\* An attempt ends well, or its failure is recorded, then or before it ends
Progress ==
    /\ \/ state = "active" /\ state' \in {"free", "failing", "blocked"}
       \/ state = "failing" /\ state' = "blocked"
    /\ UNCHANGED <<windows, dispatches, disposed>>

\* The dispatch of a fresh lease is given up
FailUndispatched ==
    /\ state = "free"
    /\ windows # <<>> /\ dispatches = 0
    /\ state' = "blocked"
    /\ UNCHANGED <<windows, dispatches, disposed>>

\* Only the operator ends a failed attempt
DisposeFailed ==
    /\ state \in {"failing", "blocked"}
    /\ state' = "free"
    /\ disposed' = TRUE
    /\ UNCHANGED <<windows, dispatches>>

OneNext ==
    \/ \E w \in Windows : LeaseAttempt(w)
    \/ DispatchOnce
    \/ Progress
    \/ FailUndispatched
    \/ DisposeFailed

OneSpec == OneInit /\ [][OneNext]_oneVars
=============================================================================
