------------------------------- MODULE HostRun -------------------------------
(***************************************************************************)
(* One run of the coding host (app/commands/repair_cycle_host.py): the     *)
(* launch, the watch, the stop of the worker tree, and the cancellation    *)
(* signals that may arrive at any point of them.                           *)
(*                                                                         *)
(* The worker tree is the host's process group and every process that      *)
(* carries the attempt's marker. Workers fork, exit, leave the group and   *)
(* drop the marker on their own, between any two steps of Mending; a scan  *)
(* of /proc lists the pids and then reads their environments one by one.   *)
(***************************************************************************)
EXTENDS FiniteSets

CONSTANTS
    Workers,     \* processes the tree may consist of
    Leader,      \* the host itself
    Unkillable,  \* workers no signal reaches: another user, uninterruptible
    Sessions     \* tool commands run in sessions of their own (ADR 0010)

ASSUME HostAssumption ==
    /\ Leader \in Workers /\ Unkillable \subseteq Workers \ {Leader}
    /\ Sessions \in BOOLEAN

VARIABLES
    unborn, alive,    \* workers not yet forked, and those that run
    marked, grouped,  \* those with the marker in /proc, those in the group
    pc,               \* where Mending is
    request,          \* a cancellation signal came before the run was armed
    armed, ignoring,  \* _Cancellation.armed; further signals are ignored
    cancelled,        \* the exception of a cancellation is under way
    stop,             \* why the watch ended: the host exited, or a limit
    late,             \* the deadline, or the grace period, is over
    round, scan,      \* TERM or KILL; what the /proc scan is for
    listing, found,   \* pids still to read, and pids found marked
    known,            \* the pids of the last listing of /proc
    outcome           \* what the caller learns

tree == <<unborn, alive, marked, grouped>>
signals == <<request, armed, ignoring>>
stopping == <<round, scan, listing, found, known>>
vars == <<tree, pc, signals, cancelled, stop, late, stopping, outcome>>

Ended == {"returned", "raised", "killed"}

\* Outcomes that say the worker tree is gone.
Verified == {"completed", "failed", "stopped"}

TypeOK ==
    /\ unborn \subseteq Workers /\ alive \subseteq Workers \ unborn
    /\ marked \subseteq Workers /\ grouped \subseteq Workers
    /\ pc \in {"launch", "popen", "arm", "watch", "list", "read", "group", "kill",
               "drain"} \cup Ended
    /\ request \in BOOLEAN /\ armed \in BOOLEAN /\ ignoring \in BOOLEAN
    /\ cancelled \in BOOLEAN /\ late \in BOOLEAN
    /\ stop \in {"exited", "call-limit", "timeout"}
    /\ round \in {"TERM", "KILL"}
    /\ scan \in {"check", "signal", "settle"}
    /\ listing \subseteq known /\ found \subseteq known /\ known \subseteq Workers
    /\ outcome \in {"none", "parked", "unknown"} \cup Verified

Init ==
    /\ unborn = Workers /\ alive = {} /\ marked = {} /\ grouped = {}
    /\ pc = "launch" /\ outcome = "none"
    /\ request = FALSE /\ armed = FALSE /\ ignoring = FALSE
    /\ cancelled = FALSE /\ stop = "exited" /\ late = FALSE
    /\ round = "TERM" /\ scan = "check" /\ listing = {} /\ found = {}
    /\ known = {}

-----------------------------------------------------------------------------
(* The launch and the watch                                                *)

\* raise_if_requested: a signal that came first keeps the host from starting.
Launch ==
    /\ pc = "launch"
    /\ pc' = IF request THEN "raised" ELSE "popen"
    /\ UNCHANGED <<tree, signals, cancelled, stop, late, stopping, outcome>>

\* Popen fails, or starts the host in a new session with the marker.
Popen ==
    /\ pc = "popen"
    /\ \/ /\ pc' = "returned" /\ outcome' = "parked"
          /\ UNCHANGED tree
       \/ /\ pc' = "arm"
          /\ unborn' = unborn \ {Leader} /\ alive' = {Leader}
          /\ marked' = {Leader} /\ grouped' = {Leader}
          /\ UNCHANGED outcome
    /\ UNCHANGED <<signals, cancelled, stop, late, stopping>>

\* _stop_tree starts with the first round.
BeginStop(cancel) ==
    /\ pc' = "list" /\ scan' = "check" /\ round' = "TERM"
    /\ listing' = {} /\ found' = {} /\ known' = {} /\ late' = FALSE
    /\ cancelled' = cancel

\* arm raises what was recorded while Popen ran.
Arm ==
    /\ pc = "arm"
    /\ armed' = TRUE
    /\ IF request THEN BeginStop(TRUE)
       ELSE pc' = "watch" /\ UNCHANGED <<cancelled, late, stopping>>
    /\ UNCHANGED <<tree, request, ignoring, stop, outcome>>

\* _watch returns when it sees the host gone, over its call limit or late.
Watch ==
    /\ pc = "watch"
    /\ \/ Leader \notin alive /\ stop' = "exited"
       \/ stop' = "call-limit"
       \/ late /\ stop' = "timeout"
    /\ BeginStop(FALSE)
    /\ UNCHANGED <<tree, signals, outcome>>

-----------------------------------------------------------------------------
(* _stop_tree: for SIGTERM and SIGKILL, check, signal, wait for the grace  *)

\* _marked_pids, first half: the pids of the moment.
ListProc ==
    /\ pc = "list"
    /\ listing' = alive /\ known' = alive /\ found' = {}
    /\ pc' = "read"
    /\ UNCHANGED <<tree, signals, cancelled, stop, late, round, scan, outcome>>

\* Second half: the environment of one pid after the other; one that is gone
\* is passed over.
ReadProc ==
    /\ pc = "read"
    /\ \E w \in listing :
        /\ listing' = listing \ {w}
        /\ found' = found \cup ({w} \cap (alive \cap marked))
    /\ UNCHANGED <<tree, pc, signals, cancelled, stop, late, round, scan, known, outcome>>

\* The scan is over: signal the group, or see whether it still has members.
ScanDone ==
    /\ pc = "read" /\ listing = {}
    /\ pc' = IF scan = "signal" THEN "kill" ELSE "group"
    /\ UNCHANGED <<tree, signals, cancelled, stop, late, stopping, outcome>>

\* Fault: only the environments are looked at.
TreeAliveByMarker == found # {}

\* _tree_alive: marked pids, or killpg(pgid, 0) finds the group.
TreeAlive == found # {} \/ alive \cap grouped # {}

\* _stop_tree returns: a cancellation goes on, or run says how it went.
EndStop(emptied) ==
    \/ cancelled /\ pc' = "raised" /\ UNCHANGED outcome
    \/ /\ ~cancelled /\ pc' = "drain"
       /\ \/ ~emptied /\ outcome' = "unknown"
          \/ emptied /\ stop # "exited" /\ outcome' = "stopped"
          \/ emptied /\ stop = "exited" /\ outcome' \in {"completed", "failed"}

\* Fault: the grace after SIGKILL does not end while a worker runs.
GraceOverTermOnly == late /\ round = "TERM"

\* The time a _settled may take is over.
GraceOver == late

\* _settled: the tree is empty, or is looked at again until the time is over.
GroupCheck ==
    /\ pc = "group"
    /\ \/ ~TreeAlive /\ EndStop(TRUE) /\ UNCHANGED <<late, round, scan>>
       \/ /\ TreeAlive /\ scan = "check"
          /\ pc' = "list" /\ scan' = "signal"
          /\ UNCHANGED <<late, round, outcome>>
       \/ /\ TreeAlive /\ scan = "settle" /\ ~GraceOver
          /\ pc' = "list" /\ UNCHANGED <<late, round, scan, outcome>>
       \/ /\ TreeAlive /\ scan = "settle" /\ GraceOver /\ round = "TERM"
          /\ pc' = "list" /\ scan' = "check" /\ round' = "KILL"
          /\ late' = FALSE /\ UNCHANGED outcome
       \/ /\ TreeAlive /\ scan = "settle" /\ GraceOver /\ round = "KILL"
          /\ EndStop(FALSE) /\ UNCHANGED <<late, round, scan>>
    /\ UNCHANGED <<tree, signals, cancelled, stop, listing, found, known>>

\* _signal_tree: a worker may survive SIGTERM, not SIGKILL.
SignalTree ==
    /\ pc = "kill"
    /\ LET reached == ((grouped \cup found) \cap alive) \ Unkillable IN
       \E died \in SUBSET reached :
          /\ round = "KILL" => died = reached
          /\ alive' = alive \ died
    /\ pc' = "list" /\ scan' = "settle" /\ late' = FALSE
    /\ UNCHANGED <<unborn, marked, grouped, signals, cancelled, stop, round,
                   listing, found, known, outcome>>

\* The rest of the stream is read, the handlers are restored, run returns.
Drain ==
    /\ pc = "drain"
    /\ pc' = "returned"
    /\ UNCHANGED <<tree, signals, cancelled, stop, late, stopping, outcome>>

Mending ==
    \/ Launch \/ Popen \/ Arm \/ Watch \/ ListProc \/ ReadProc \/ ScanDone
    \/ GroupCheck \/ SignalTree \/ Drain

-----------------------------------------------------------------------------
(* What happens around it                                                  *)

\* What an armed cancellation interrupts: inside the try, the tree is stopped
\* from the start; the stop of an earlier cancellation is part of the cleanup.
RaiseNow ==
    \/ /\ pc = "drain" /\ pc' = "raised" /\ outcome' = "none"
       /\ UNCHANGED <<late, stopping, cancelled>>
    \/ pc # "drain" /\ ~cancelled /\ BeginStop(TRUE) /\ UNCHANGED outcome
    \/ /\ pc # "drain" /\ cancelled /\ pc' = "raised"
       /\ UNCHANGED <<late, stopping, cancelled, outcome>>

\* Fault: further signals are not ignored.
CancelAgain ==
    /\ pc \notin Ended
    /\ request' = TRUE
    /\ IF ~armed THEN UNCHANGED <<pc, late, stopping, cancelled, outcome>>
       ELSE RaiseNow
    /\ UNCHANGED <<tree, armed, ignoring, stop>>

\* _Cancellation.handle: the first signal makes the process ignore the others;
\* before the handle of the host exists it is only recorded.
Cancel ==
    /\ pc \notin Ended /\ ~ignoring
    /\ ignoring' = TRUE /\ request' = TRUE
    /\ IF ~armed THEN UNCHANGED <<pc, late, stopping, cancelled, outcome>>
       ELSE RaiseNow
    /\ UNCHANGED <<tree, armed, stop>>

\* SIGKILL, a crash of the machine's user session, an out-of-memory kill.
Killed ==
    /\ pc \notin Ended
    /\ pc' = "killed"
    /\ UNCHANGED <<tree, signals, cancelled, stop, late, stopping, outcome>>

TimePasses ==
    /\ pc \notin Ended /\ ~late
    /\ late' = TRUE
    /\ UNCHANGED <<tree, pc, signals, cancelled, stop, stopping, outcome>>

Fork(w, c) ==
    /\ w \in alive /\ c \in unborn
    /\ unborn' = unborn \ {c} /\ alive' = alive \cup {c}
    /\ marked' = IF w \in marked THEN marked \cup {c} ELSE marked
    /\ grouped' = IF w \in grouped THEN grouped \cup {c} ELSE grouped
    /\ UNCHANGED <<pc, signals, cancelled, stop, late, stopping, outcome>>

Exit(w) ==
    /\ w \in alive /\ alive' = alive \ {w}
    /\ UNCHANGED <<unborn, marked, grouped, pc, signals, cancelled, stop, late,
                   stopping, outcome>>

\* A worker starts a session of its own, or a program with a clean environment;
\* ADR 0010 leaves out the worker that does both.
LeaveGroup(w) ==
    /\ Sessions /\ w \in (alive \cap grouped \cap marked) \ {Leader}
    /\ grouped' = grouped \ {w}
    /\ UNCHANGED <<unborn, alive, marked, pc, signals, cancelled, stop, late,
                   stopping, outcome>>

DropMarker(w) ==
    /\ w \in (alive \cap grouped \cap marked) \ {Leader}
    /\ marked' = marked \ {w}
    /\ UNCHANGED <<unborn, alive, grouped, pc, signals, cancelled, stop, late,
                   stopping, outcome>>

Next ==
    \/ Mending \/ Cancel \/ Killed \/ TimePasses
    \/ \E w \in Workers :
        Exit(w) \/ LeaveGroup(w) \/ DropMarker(w) \/ \E c \in Workers : Fork(w, c)

Spec == Init /\ [][Next]_vars

\* Mending takes its steps and the clock goes on; nothing is asked of workers.
LiveSpec == Spec /\ WF_vars(Mending) /\ WF_vars(TimePasses)

-----------------------------------------------------------------------------
\* An outcome that says the tree is gone is not returned while a worker runs that
\* is in the group or was there when /proc was last listed, whatever it did to
\* its marker and its session since. Only one that was forked after the listing
\* and left the group is missed.
VerifiedIsEmpty == outcome \in Verified => alive \cap (known \cup grouped) = {}

\* However a run ends, short of SIGKILL, the host itself is not left running:
\* whichever step a cancellation interrupts, and however many signals come.
HostIsStopped == pc \in {"returned", "raised"} => Leader \notin alive

\* A run comes to an end even when workers ignore every signal.
RunEnds == <>(pc \in Ended)
==============================================================================
