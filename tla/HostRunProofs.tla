----------------------------- MODULE HostRunProofs -----------------------------
(***************************************************************************)
(* A run of the host keeps its word for any set of workers, whichever of   *)
(* them ignore signals and whether or not they start sessions.             *)
(***************************************************************************)
EXTENDS HostRun, TLAPS

-----------------------------------------------------------------------------
(* The inductive invariant *)

\* A worker is forked once, and one that left the group has the marker.
TreeInv ==
    /\ (alive \cup known \cup grouped) \cap unborn = {}
    /\ alive \subseteq marked \cup grouped
    /\ IF Leader \in unborn THEN alive = {} ELSE Leader \in grouped
    /\ pc \in {"launch", "popen"} => Leader \in unborn /\ scan = "check"

\* What a scan of /proc passed over is gone, or is in the group for good.
ScanInv ==
    /\ pc = "group" => listing = {}
    /\ \A w \in known \ (listing \cup found) :
          w \notin alive \/ (w \notin marked /\ w \in grouped)

\* The first cancellation is the only one.
SignalInv ==
    /\ request = TRUE \/ cancelled = TRUE => ignoring = TRUE
    /\ pc \in {"launch", "popen", "arm"} => armed = FALSE
    /\ {request, cancelled, ignoring, armed} \subseteq {TRUE, FALSE}

\* SIGKILL reaches the host; a run that is over left it dead.
LeaderInv ==
    (round = "KILL" /\ scan = "settle") \/ pc \in {"drain", "returned", "raised"}
        => Leader \notin alive

OutcomeInv ==
    /\ outcome \in Verified => pc \in {"drain", "returned", "killed"}
    /\ VerifiedIsEmpty

RunInv == TreeInv /\ ScanInv /\ SignalInv /\ LeaderInv /\ OutcomeInv

LEMMA RunInit == Init => RunInv
BY HostAssumption DEF Init, RunInv, TreeInv, ScanInv, SignalInv, LeaderInv, OutcomeInv,
   VerifiedIsEmpty, Verified

-----------------------------------------------------------------------------
(* Steps of Mending *)

LEMMA LaunchKeeps ==
    ASSUME RunInv, Launch \/ Popen \/ Arm \/ Watch \/ Drain
    PROVE  RunInv'
<1> USE HostAssumption DEF RunInv, TreeInv, ScanInv, SignalInv, LeaderInv, OutcomeInv,
        VerifiedIsEmpty, Verified, tree, signals, stopping
<1>1. CASE Launch
  BY <1>1 DEF Launch
<1>2. CASE Popen
  BY <1>2 DEF Popen
<1>3. CASE Arm
  BY <1>3 DEF Arm, BeginStop
<1>4. CASE Watch
  BY <1>4 DEF Watch, BeginStop
<1>5. CASE Drain
  BY <1>5 DEF Drain
<1> QED
  BY <1>1, <1>2, <1>3, <1>4, <1>5

LEMMA StopKeeps ==
    ASSUME RunInv, ListProc \/ ReadProc \/ ScanDone \/ GroupCheck \/ SignalTree
    PROVE  RunInv'
<1> USE HostAssumption DEF RunInv, TreeInv, ScanInv, SignalInv, LeaderInv, OutcomeInv,
        VerifiedIsEmpty, Verified, tree, signals, stopping
<1>1. CASE ListProc
  BY <1>1 DEF ListProc
<1>2. CASE ReadProc
  BY <1>2 DEF ReadProc
<1>3. CASE ScanDone
  BY <1>3 DEF ScanDone
<1>4. CASE GroupCheck
  <2>1. SignalInv' /\ TreeInv' /\ ScanInv'
    BY <1>4 DEF GroupCheck, EndStop
  <2>2. LeaderInv'
    BY <1>4 DEF GroupCheck, TreeAlive, GraceOver, EndStop
  <2>3. OutcomeInv'
    <3>1. CASE ~TreeAlive /\ EndStop(TRUE)
      <4>1. alive \cap grouped = {} /\ found = {}
        BY <3>1 DEF TreeAlive
      <4> QED
        BY <1>4, <3>1, <4>1 DEF GroupCheck, EndStop
    <3>2. CASE EndStop(FALSE)
      BY <1>4, <3>2 DEF GroupCheck, EndStop
    <3>3. CASE pc' = "list" /\ UNCHANGED outcome
      BY <1>4, <3>3 DEF GroupCheck
    <3> QED
      BY <1>4, <3>1, <3>2, <3>3 DEF GroupCheck
  <2> QED
    BY <2>1, <2>2, <2>3
<1>5. CASE SignalTree
  BY <1>5 DEF SignalTree
<1> QED
  BY <1>1, <1>2, <1>3, <1>4, <1>5

-----------------------------------------------------------------------------
(* Steps around it *)

LEMMA SignalsKeep ==
    ASSUME RunInv, Cancel \/ Killed \/ TimePasses
    PROVE  RunInv'
<1> USE HostAssumption DEF RunInv, TreeInv, ScanInv, SignalInv, LeaderInv, OutcomeInv,
        VerifiedIsEmpty, Verified, Ended, tree, signals, stopping
<1>1. CASE Cancel
  BY <1>1 DEF Cancel, RaiseNow, BeginStop
<1>2. CASE Killed
  BY <1>2 DEF Killed
<1>3. CASE TimePasses
  BY <1>3 DEF TimePasses
<1> QED
  BY <1>1, <1>2, <1>3

LEMMA WorkersKeep ==
    ASSUME RunInv, NEW w \in Workers, NEW c \in Workers,
           Exit(w) \/ LeaveGroup(w) \/ DropMarker(w) \/ Fork(w, c)
    PROVE  RunInv'
<1> USE HostAssumption DEF RunInv, TreeInv, ScanInv, SignalInv, LeaderInv, OutcomeInv,
        VerifiedIsEmpty, Verified, tree, signals, stopping
<1>1. CASE Exit(w)
  BY <1>1 DEF Exit
<1>2. CASE LeaveGroup(w)
  BY <1>2 DEF LeaveGroup
<1>3. CASE DropMarker(w)
  BY <1>3 DEF DropMarker
<1>4. CASE Fork(w, c)
  <2>1. w \in alive /\ c \in unborn /\ c # Leader /\ c \notin known
    BY <1>4 DEF Fork
  <2>2. TreeInv'
    BY <1>4, <2>1 DEF Fork
  <2>3. ScanInv'
    BY <1>4, <2>1 DEF Fork
  <2>4. SignalInv' /\ LeaderInv'
    BY <1>4, <2>1 DEF Fork
  <2>5. OutcomeInv'
    <3>1. outcome \in Verified => w \notin grouped
      BY <2>1
    <3> QED
      <4>1. CASE outcome \in Verified
        <5>1. alive' \cap (known \cup grouped) = {}
          BY <1>4, <2>1, <3>1, <4>1 DEF Fork
        <5>2. grouped' = grouped /\ UNCHANGED <<pc, known, outcome>>
          BY <1>4, <3>1, <4>1 DEF Fork
        <5> QED
          BY <5>1, <5>2
      <4>2. CASE outcome \notin Verified
        BY <1>4, <4>2 DEF Fork
      <4> QED
        BY <4>1, <4>2
  <2> QED
    BY <2>2, <2>3, <2>4, <2>5
<1> QED
  BY <1>1, <1>2, <1>3, <1>4

LEMMA RunNext == RunInv /\ [Next]_vars => RunInv'
<1> SUFFICES ASSUME RunInv, [Next]_vars PROVE RunInv'
  OBVIOUS
<1>1. CASE Mending
  BY <1>1, LaunchKeeps, StopKeeps DEF Mending
<1>2. CASE UNCHANGED vars
  BY <1>2 DEF vars, tree, signals, stopping, RunInv, TreeInv, ScanInv, SignalInv, LeaderInv,
     OutcomeInv, VerifiedIsEmpty, Verified
<1>3. CASE Cancel \/ Killed \/ TimePasses
  BY <1>3, SignalsKeep
<1> QED
  BY <1>1, <1>2, <1>3, WorkersKeep DEF Next

-----------------------------------------------------------------------------
\* A run that says the worker tree is gone left no worker that is in the group
\* or was there at the last listing of /proc (_tree_alive, _settled).
THEOREM VerifiedCorrect == Spec => []VerifiedIsEmpty
BY RunInit, RunNext, PTL DEF Spec, RunInv, OutcomeInv

\* Short of SIGKILL no run ends with the host up, wherever a cancellation
\* strikes (_Cancellation, _stop_tree).
THEOREM HostStoppedCorrect == Spec => []HostIsStopped
<1>1. RunInv => HostIsStopped
  BY DEF RunInv, LeaderInv, HostIsStopped
<1> QED
  BY <1>1, RunInit, RunNext, PTL DEF Spec
==============================================================================
