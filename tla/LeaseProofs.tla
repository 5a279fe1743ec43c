----------------------------- MODULE LeaseProofs ----------------------------
(***************************************************************************)
(* The cycle implements OneRepair (ImplementsOneRepair).  On the way: no   *)
(* two attempts are leased in one window (OneLeasePerWindow), and what is  *)
(* settled, or replaced by the next lease, is finished                     *)
(* (SettledIsFinished, HistoryIsFinished).  All for any number of          *)
(* processes, attempts, kills and ticks, provided that no command outside  *)
(* the cycle lock rewrites the file.                                       *)
(***************************************************************************)
EXTENDS RepairCycleProofs, SequenceTheorems

-----------------------------------------------------------------------------
(* The inductive invariant *)

\* The leases follow the host's clock.
WindowsRise == \A i, j \in DOMAIN begun : i < j => begun[i] < begun[j]

BegunBy(t) == \A i \in DOMAIN begun : begun[i] <= Window(t)

\* The file remembers the window of the latest lease, whatever became of it.
LatestIsLeased ==
    IF begun = <<>> THEN disk.lease.id = NoAttempt
    ELSE disk.lease.id # NoAttempt /\ disk.lease.window = begun[Len(begun)]

\* The clock reading a run selects with may be old, and still no lease is later.
StampIsLatest(p) == pc[p] = "select" => stamp[p] <= now /\ BegunBy(stamp[p])

LeaseInv ==
    /\ WindowsRise
    /\ BegunBy(now)
    /\ LatestIsLeased
    /\ \A p \in Processes : StampIsLatest(p)

-----------------------------------------------------------------------------
(* The lease in the file changes only where one is taken *)

LEMMA WindowMonotone ==
    ASSUME NEW s \in Nat, NEW t \in Nat, s <= t
    PROVE  Window(s) <= Window(t)
BY ConfigAssumption DEF Window

LEMMA ObserveKeepsLease ==
    ASSUME TypeInv, LiveInv, NEW p \in Processes, Observe(p) \/ GateNewWork(p)
    PROVE  disk'.lease = disk.lease
<1> DEFINE cs == mem[p]
<1>1. pc[p] \in Sections
  BY DEF Observe, GateNewWork, StopUnsettled, ObservationExhausted, CountObservation,
         ProbeWorker, LookupReferences, ReadPullRequests, RecheckActive,
         ObservationTimeout, Sections
<1>2. cs \in CycleStates /\ cs.lease = disk.lease
  BY <1>1, InSection
<1> HIDE DEF cs
<1>3. ASSUME NEW ds, ds.lease = cs.lease, End(p, ds) \/ Conclude(p, ds)
      PROVE  disk'.lease = disk.lease
  BY <1>2, <1>3 DEF End, Conclude
<1>4. ASSUME NEW reason
      PROVE  /\ Park(cs).lease = cs.lease /\ Fail(cs, reason).lease = cs.lease
             /\ Counted(cs).lease = cs.lease
  BY <1>2, RecordedOnly DEF SameAttempt
<1>5. CASE GateNewWork(p)
  BY <1>2, <1>3, <1>4, <1>5 DEF GateNewWork, cs
<1>6. CASE StopUnsettled(p) \/ ObservationExhausted(p)
  BY <1>3, <1>4, <1>6 DEF StopUnsettled, ObservationExhausted, cs
<1>7. CASE CountObservation(p) \/ ProbeWorker(p) \/ ObservationTimeout(p)
  BY <1>2, <1>4, <1>7 DEF CountObservation, ProbeWorker, ObservationTimeout, cs
<1>8. CASE LookupReferences(p)
  <2> DEFINE found == WithReferences(cs, opened[cs.lease.id])
  <2>1. found.lease = cs.lease /\ Replayed(cs).lease = cs.lease
    BY <1>2, RecordedOnly, ReplayedOnly DEF SameAttempt
  <2>2. \/ UNCHANGED disk \/ End(p, found) \/ End(p, cs)
        \/ Conclude(p, Replayed(cs)) \/ Conclude(p, Park(cs))
    BY <1>8 DEF LookupReferences, cs
  <2> HIDE DEF found
  <2> QED BY <1>3, <1>4, <2>1, <2>2
<1>9. CASE ReadPullRequests(p)
  <2> DEFINE verdict == Verdict(cs, cfg[p].approval, open[cs.lease.id])
             replayed == ReplayVerdict(cs, cfg[p].approval)
  <2>1. verdict.lease = cs.lease /\ replayed.lease = cs.lease
    BY <1>2, VerdictKeeps, ReplayedOnly DEF SameAttempt
  <2>2. \/ UNCHANGED disk \/ Conclude(p, Park(cs))
        \/ Conclude(p, replayed) \/ Conclude(p, verdict)
    BY <1>9 DEF ReadPullRequests, cs
  <2> HIDE DEF verdict, replayed
  <2> QED BY <1>3, <1>4, <2>1, <2>2
<1>10. CASE RecheckActive(p)
  <2>1. \E ds \in {cs, Park(cs), Fail(cs, "authority-expired"), Fail(cs, "authority-refused")} :
           Conclude(p, ds)
    BY <1>10 DEF RecheckActive, cs
  <2> QED BY <1>3, <1>4, <2>1
<1> QED BY <1>5, <1>6, <1>7, <1>8, <1>9, <1>10 DEF Observe

LEMMA DispatchKeepsLease ==
    ASSUME TypeInv, LiveInv, NEW p \in Processes, Dispatch(p), ~BeginAttempt(p)
    PROVE  disk'.lease = disk.lease
<1> DEFINE cs == mem[p]
<1>1. pc[p] \in Sections
  BY DEF Dispatch, SelectNothing, BeginAttempt, DispatchRefused, RecordIntent,
         HostParked, HostLaunch, HostReturn, Sections
<1>2. cs \in CycleStates /\ cs.lease = disk.lease
  BY <1>1, InSection
<1> HIDE DEF cs
<1>3. ASSUME NEW reason
      PROVE  /\ Park(cs).lease = cs.lease /\ NoOp(cs).lease = cs.lease
             /\ Fail(cs, reason).lease = cs.lease
  BY <1>2, RecordedOnly DEF SameAttempt
<1>4. CASE SelectNothing(p)
  <2>1. \E ds \in {NoOp(cs), Park(cs)} : End(p, ds)
    BY <1>4 DEF SelectNothing, cs
  <2> QED BY <1>2, <1>3, <2>1 DEF End
<1>5. CASE DispatchRefused(p)
  BY <1>2, <1>3, <1>5 DEF DispatchRefused, End, cs
<1>6. CASE RecordIntent(p)
  <2>1. Admit(cs) \in CycleStates
    BY <1>2, <1>6, AdmitType DEF RecordIntent, cs
  <2>2. Intended(cs).lease = cs.lease
    BY <1>2, <2>1 DEF Intended, Admit, CycleStates
  <2> QED BY <1>2, <1>6, <2>2 DEF RecordIntent, cs
<1>7. CASE HostParked(p)
  <2>1. Settle(cs, 0, 0) \in CycleStates
    BY <1>2, SettleType
  <2>2. Settle(cs, 0, 0).lease = cs.lease
    BY <1>2 DEF Settle, CycleStates
  <2> DEFINE undone == [Settle(cs, 0, 0) EXCEPT !.dispatch = NoDispatch]
  <2>3. undone.lease = cs.lease
    BY <2>1, <2>2 DEF CycleStates
  <2>4. Park(undone).lease = undone.lease
    BY <2>1 DEF Park, CycleStates
  <2>5. End(p, Park(undone))
    BY <1>7 DEF HostParked, cs
  <2> QED BY <1>2, <2>3, <2>4, <2>5 DEF End
<1>8. CASE HostLaunch(p)
  BY <1>8 DEF HostLaunch
<1>9. CASE HostReturn(p)
  <2>1. \E exit \in {"completed", "failed", "call-limit", "timeout"}, outcome \in Outcomes,
           cost \in MeasuredCosts, calls \in MeasuredCalls :
              disk' = Returned(cs, outcome, exit, cost, calls)
    BY <1>9 DEF HostReturn, Outcomes, cs
  <2> QED BY <1>2, <2>1, ReturnedSays
<1> QED BY <1>4, <1>5, <1>6, <1>7, <1>8, <1>9 DEF Dispatch

\* No step but the lease itself changes the lease: no crash, refusal or verdict
\* forgets which window was used.
LEMMA LeaseKept ==
    ASSUME TypeInv, LiveInv, ~ForeignScans, [Next]_vars,
           \A p \in Processes : ~BeginAttempt(p)
    PROVE  disk'.lease = disk.lease /\ begun' = begun
<1>1. ASSUME NEW p \in Processes, Refresh(p)
      PROVE  disk'.lease = disk.lease /\ begun' = begun
  <2>1. Park(disk).lease = disk.lease
    BY RecordedOnly DEF SameAttempt, TypeInv, TypeOK
  <2>2. CASE ScanSave(p)
    BY <2>2 DEF ScanSave, ghosts, LiveInv, RunOK, CopyIsCurrent
  <2> QED BY <1>1, <2>1, <2>2
          DEF Refresh, ScanLoad, RefreshRefused, Relock, End, ghosts
<1>2. ASSUME NEW p \in Processes, StartRun(p) \/ Crash(p) \/ Operator(p)
      PROVE  disk'.lease = disk.lease /\ begun' = begun
  <2>1. Dispose(disk).lease = disk.lease
    BY DEF Dispose, CycleStates, TypeInv, TypeOK
  <2> QED BY <1>2, <2>1 DEF StartRun, Crash, Operator, DisposeAttempt, ghosts
<1>3. ASSUME NEW p \in Processes, GateNewWork(p) \/ Observe(p) \/ Dispatch(p)
      PROVE  begun' = begun
  BY <1>3 DEF GateNewWork, Observe, StopUnsettled, ObservationExhausted,
              CountObservation, ProbeWorker, LookupReferences, ReadPullRequests,
              RecheckActive, ObservationTimeout, Dispatch, SelectNothing,
              DispatchRefused, RecordIntent, HostParked, HostLaunch, HostReturn, ghosts
<1>4. CASE Environment
  BY <1>4 DEF Environment, Worker, Reviewer, HostExit, OpenPullRequest,
              ClosePullRequest, ForeignScanLoad, ForeignScanSave, Configure, Tick,
              command, ghosts, LiveInv
<1>5. CASE UNCHANGED vars
  BY <1>5 DEF vars, command, ghosts
<1> QED BY <1>1, <1>2, <1>3, <1>4, <1>5, ObserveKeepsLease, DispatchKeepsLease
        DEF Next, Run

\* The clock does not go back.
LEMMA ClockRuns ==
    ASSUME TypeInv, [Next]_vars
    PROVE  now \in Nat /\ now' \in Nat /\ now <= now'
<1>1. now \in Nat
  BY EnvironmentAssumption DEF TypeInv, TypeOK
<1>2. now' = now \/ now' = now + 1
  <2>1. CASE Environment \/ UNCHANGED vars
    BY <2>1 DEF Environment, Worker, Reviewer, HostExit, OpenPullRequest, ClosePullRequest,
                ForeignScanLoad, ForeignScanSave, Configure, Tick, vars
  <2>2. ASSUME NEW p \in Processes, StartRun(p) \/ Crash(p) \/ Operator(p) \/ Refresh(p)
        PROVE  now' = now
    BY <2>2 DEF StartRun, Crash, Operator, DisposeAttempt, Refresh, ScanLoad, ScanSave,
                RefreshRefused, Relock
  <2>3. ASSUME NEW p \in Processes, GateNewWork(p) \/ Observe(p)
        PROVE  now' = now
    BY <2>3 DEF GateNewWork, Observe, StopUnsettled, ObservationExhausted, CountObservation,
                ProbeWorker, LookupReferences, ReadPullRequests, RecheckActive,
                ObservationTimeout
  <2>4. ASSUME NEW p \in Processes, Dispatch(p)
        PROVE  now' = now
    BY <2>4 DEF Dispatch, SelectNothing, BeginAttempt, DispatchRefused, RecordIntent,
                HostParked, HostLaunch, HostReturn
  <2> QED BY <2>1, <2>2, <2>3, <2>4 DEF Next, Run
<1> QED BY <1>1, <1>2

\* A run reads the clock when it comes to select, and keeps that reading.
LEMMA StampKept ==
    ASSUME TypeInv, [Next]_vars, NEW q \in Processes
    PROVE  pc'[q] = "select" => \/ stamp'[q] = now'
                                \/ pc[q] = "select" /\ stamp'[q] = stamp[q]
<1>1. ASSUME NEW p \in Processes, NEW label, NEW cs, Continue(p, label, cs),
             label # "select", stamp' = stamp
      PROVE  pc'[q] = "select" => pc[q] = "select" /\ stamp'[q] = stamp[q]
  BY <1>1 DEF Continue, TypeInv, TypeOK
<1>2. ASSUME NEW p \in Processes, Exit(p)
      PROVE  pc'[q] = "select" => pc[q] = "select" /\ stamp'[q] = stamp[q]
  BY <1>2 DEF Exit, TypeInv, TypeOK
<1>3. ASSUME NEW p \in Processes, GateNewWork(p) \/ Observe(p)
      PROVE  pc'[q] = "select" => pc[q] = "select" /\ stamp'[q] = stamp[q]
  <2>1. \/ Exit(p)
        \/ \E label \in {"refresh", "probe", "lookup", "read", "recheck", "observed"} :
              Continue(p, label, mem'[p]) /\ stamp' = stamp
    <3>1. ASSUME NEW label, NEW cs, Continue(p, label, cs)
          PROVE  Continue(p, label, mem'[p])
      BY <3>1 DEF Continue, TypeInv, TypeOK
    <3> QED BY <1>3, <3>1
            DEF GateNewWork, Observe, StopUnsettled, ObservationExhausted,
                CountObservation, ProbeWorker, LookupReferences, ReadPullRequests,
                RecheckActive, ObservationTimeout, Conclude, End, Keeps
  <2> QED BY <1>1, <1>2, <2>1
<1>4. ASSUME NEW p \in Processes, Dispatch(p)
      PROVE  pc'[q] = "select" => pc[q] = "select" /\ stamp'[q] = stamp[q]
  <2>1. \/ Exit(p)
        \/ \E label \in {"begun", "launch", "running", "lookup"} :
              Continue(p, label, mem'[p]) /\ stamp' = stamp
    <3>1. ASSUME NEW label, NEW cs, Continue(p, label, cs)
          PROVE  Continue(p, label, mem'[p])
      BY <3>1 DEF Continue, TypeInv, TypeOK
    <3> QED BY <1>4, <3>1
            DEF Dispatch, SelectNothing, BeginAttempt, DispatchRefused, RecordIntent,
                HostParked, HostLaunch, HostReturn, End, Keeps
  <2> QED BY <1>1, <1>2, <2>1
<1>5. ASSUME NEW p \in Processes, Refresh(p)
      PROVE  pc'[q] = "select" => \/ stamp'[q] = now'
                                  \/ pc[q] = "select" /\ stamp'[q] = stamp[q]
  <2>1. CASE ScanLoad(p) \/ ScanSave(p)
    BY <1>1, <2>1 DEF ScanLoad, ScanSave, Keeps
  <2>2. CASE RefreshRefused(p) \/ Relock(p)
    BY <1>2, <2>2 DEF RefreshRefused, Relock, End, Continue, TypeInv, TypeOK
  <2> QED BY <1>5, <2>1, <2>2 DEF Refresh
<1>6. ASSUME NEW p \in Processes, StartRun(p) \/ Crash(p) \/ Operator(p)
      PROVE  pc'[q] = "select" => pc[q] = "select" /\ stamp'[q] = stamp[q]
  BY <1>1, <1>2, <1>6 DEF StartRun, Crash, Operator, DisposeAttempt
<1>7. ASSUME Environment \/ UNCHANGED vars
      PROVE  pc' = pc /\ stamp' = stamp
  BY <1>7 DEF Environment, Worker, Reviewer, HostExit, OpenPullRequest,
              ClosePullRequest, ForeignScanLoad, ForeignScanSave, Configure, Tick,
              command, vars
<1> QED BY <1>3, <1>4, <1>5, <1>6, <1>7 DEF Next, Run

-----------------------------------------------------------------------------
(* Every step preserves LeaseInv *)

LEMMA InitLease == Init => LeaseInv
<1> SUFFICES ASSUME Init PROVE LeaseInv
  OBVIOUS
<1>1. now = 0 /\ \A p \in Processes : pc[p] # "select"
  BY DEF Init
<1>2. CASE FreshStart
  <2>1. begun = <<>> /\ disk.lease.id = NoAttempt
    BY <1>2 DEF FreshStart, EmptyCycle, NoLease
  <2> QED BY <1>1, <2>1 DEF LeaseInv, WindowsRise, BegunBy, LatestIsLeased, StampIsLatest
<1>3. CASE LegacyStart
  <2>1. begun = <<0>> /\ begun # <<>> /\ Len(begun) = 1 /\ begun[1] = 0 /\ DOMAIN begun = {1}
    BY <1>3 DEF LegacyStart
  <2>2. disk.lease = LegacyLease
    <3>1. disk \in LegacyCycles
      BY <1>3 DEF LegacyStart
    <3>2. CASE \E receipt \in {"none", "active"} :
                  disk = [EmptyCycle EXCEPT !.lease = LegacyLease, !.receipt = receipt,
                             !.dispatch = [NoDispatch EXCEPT !.phase = "unknown"]]
      BY <3>2 DEF EmptyCycle
    <3>3. CASE \E receipt \in {"active", "terminal"} :
                  disk = [EmptyCycle EXCEPT !.lease = LegacyLease, !.receipt = receipt]
      BY <3>3 DEF EmptyCycle
    <3> QED BY <3>1, <3>2, <3>3 DEF LegacyCycles
  <2>3. disk.lease.id # NoAttempt /\ disk.lease.window = 0
    BY <2>2 DEF LegacyLease, NoAttempt
  <2>4. Window(0) = 0
    BY ConfigAssumption DEF Window
  <2> QED BY <1>1, <2>1, <2>3, <2>4
          DEF LeaseInv, WindowsRise, BegunBy, LatestIsLeased, StampIsLatest
<1> QED BY <1>2, <1>3 DEF Init

\* Where no lease is taken the clock only adds to what is past.
LEMMA NoLeaseTaken ==
    ASSUME TypeInv, LiveInv, LeaseInv, ~ForeignScans, [Next]_vars,
           \A p \in Processes : ~BeginAttempt(p)
    PROVE  LeaseInv'
<1>1. disk'.lease = disk.lease /\ begun' = begun
  BY LeaseKept
<1>2. begun \in Seq(Nat) /\ \A i \in DOMAIN begun : begun[i] \in Nat
  BY DEF TypeInv, TypeOK
<1>3. BegunBy(now)'
  <2>1. now \in Nat /\ now' \in Nat /\ now <= now'
    BY ClockRuns
  <2>2. Window(now) <= Window(now') /\ Window(now) \in Nat /\ Window(now') \in Nat
    BY <2>1, WindowMonotone, WindowType
  <2> QED BY <1>1, <1>2, <2>2 DEF LeaseInv, BegunBy
<1>4. ASSUME NEW p \in Processes
      PROVE  StampIsLatest(p)'
  <2>1. /\ now' \in Nat /\ now \in Nat /\ now <= now'
        /\ pc'[p] = "select" => \/ stamp'[p] = now'
                                \/ pc[p] = "select" /\ stamp'[p] = stamp[p]
    BY StampKept, ClockRuns
  <2>2. CASE stamp'[p] = now'
    BY <1>3, <2>1, <2>2 DEF StampIsLatest, BegunBy
  <2>3. CASE pc[p] = "select" /\ stamp'[p] = stamp[p]
    <3>1. stamp[p] <= now /\ BegunBy(stamp[p]) /\ stamp[p] \in Nat
      BY <2>3, EnvironmentAssumption DEF LeaseInv, StampIsLatest, TypeInv, TypeOK
    <3> QED BY <1>1, <2>1, <2>3, <3>1 DEF StampIsLatest, BegunBy
  <2> QED BY <2>1, <2>2, <2>3 DEF StampIsLatest
<1> QED BY <1>1, <1>3, <1>4 DEF LeaseInv, WindowsRise, LatestIsLeased

\* A lease is taken in a window later than every earlier one.
LEMMA LeaseTaken ==
    ASSUME TypeInv, LiveInv, LeaseInv, NEW p \in Processes, BeginAttempt(p)
    PROVE  LeaseInv'
<1> DEFINE w == Window(stamp[p])
           n == Len(begun)
<1>1. /\ begun \in Seq(Nat) /\ n \in Nat /\ DOMAIN begun = 1..n
      /\ \A i \in 1..n : begun[i] \in Nat
      /\ stamp[p] \in Nat /\ now \in Nat /\ w \in Nat
  <2>1. begun \in Seq(Nat) /\ stamp[p] \in 0..MaxTime /\ now \in 0..MaxTime
    BY DEF TypeInv, TypeOK
  <2>2. stamp[p] \in Nat /\ now \in Nat
    BY <2>1, EnvironmentAssumption
  <2>3. n \in Nat /\ DOMAIN begun = 1..n /\ \A i \in 1..n : begun[i] \in Nat
    BY <2>1
  <2> HIDE DEF n
  <2> QED BY <2>1, <2>2, <2>3, WindowType
<1>2. begun' = Append(begun, w) /\ now' = now /\ stamp' = stamp
  BY DEF BeginAttempt
<1>3. /\ DOMAIN begun' = 1..(n + 1) /\ Len(begun') = n + 1 /\ begun' # <<>>
      /\ \A i \in 1..n : begun'[i] = begun[i]
      /\ begun'[n + 1] = w
  <2> HIDE DEF w
  <2> QED BY <1>1, <1>2
<1>4. stamp[p] <= now /\ \A i \in 1..n : begun[i] <= w
  BY <1>1 DEF BeginAttempt, LeaseInv, StampIsLatest, BegunBy
\* the record consulted is the file's, which has the window of the latest lease
<1>5. \A i \in 1..n : begun[i] < w
  <2>1. mem[p] = disk /\ CanBegin(mem[p], stamp[p])
    BY DEF BeginAttempt, LiveInv, RunOK, CopyIsCurrent
  <2>2. CASE begun = <<>>
    BY <1>1, <2>2
  <2>3. CASE begun # <<>>
    <3>1. disk.lease.id # NoAttempt /\ disk.lease.window = begun[n]
      BY <2>3 DEF LeaseInv, LatestIsLeased
    <3>2. begun[n] # w
      BY <2>1, <3>1 DEF CanBegin, MayReplaceLease
    <3>3. n \in 1..n
      BY <1>1, <2>3
    <3>4. \A i \in 1..n : begun[i] <= begun[n]
      BY <1>1, <3>3 DEF LeaseInv, WindowsRise
    <3> HIDE DEF w, n
    <3> QED BY <1>1, <1>4, <3>2, <3>3, <3>4
  <2> QED BY <2>2, <2>3
<1>6. WindowsRise'
  <2>1. \A i, j \in 1..n : i < j => begun[i] < begun[j]
    BY <1>1 DEF LeaseInv, WindowsRise
  <2> HIDE DEF w, n
  <2> QED BY <1>1, <1>3, <1>5, <2>1 DEF WindowsRise
<1>7. Window(stamp[p]) <= Window(now) /\ Window(now) \in Nat
  BY <1>1, <1>4, WindowMonotone, WindowType
<1>8. BegunBy(now)'
  <2>1. \A i \in 1..n : begun[i] <= Window(now)
    BY <1>1 DEF LeaseInv, BegunBy
  <2>2. \A i \in 1..(n + 1) : begun'[i] <= Window(now)
    BY <1>1, <1>3, <1>7, <2>1
  <2> QED BY <1>2, <1>3, <2>2 DEF BegunBy
<1>9. LatestIsLeased'
  <2> DEFINE leased == Begin(mem[p], FreshId, stamp[p])
  <2>1. disk' = leased /\ FreshId \in Attempts
    BY DEF BeginAttempt
  <2>2. leased.lease.id = FreshId /\ leased.lease.window = w
    BY DEF Begin, NewLease, EmptyCycle
  <2> HIDE DEF leased, w
  <2> QED BY <1>3, <2>1, <2>2 DEF LatestIsLeased, Attempts, NoAttempt
<1>10. ASSUME NEW q \in Processes
       PROVE  StampIsLatest(q)'
  <2>1. pc'[q] # "select"
    BY DEF BeginAttempt, Continue, LiveInv, OneAtATime, TypeInv, TypeOK
  <2> QED BY <2>1 DEF StampIsLatest
<1> QED BY <1>6, <1>8, <1>9, <1>10 DEF LeaseInv

-----------------------------------------------------------------------------

\* No window has two leases, for timer and manual runs alike, with any number of
\* kills between the save of a lease and the end of its run.  As in
\* LiveHostCorrect, every scan outside the cycle would have to take the lock.
THEOREM OneLeasePerWindowCorrect ==
    ASSUME ~ForeignScans PROVE Spec => []OneLeasePerWindow
<1>1. Init => TypeInv /\ LiveInv /\ LeaseInv
  BY InitType, InitLive, InitLease
<1>2. TypeInv /\ LiveInv /\ LeaseInv /\ [Next]_vars => (TypeInv /\ LiveInv /\ LeaseInv)'
  BY NextType, NextLive, NoLeaseTaken, LeaseTaken
<1>3. TypeInv /\ LeaseInv => OneLeasePerWindow
  <2> SUFFICES ASSUME TypeInv, LeaseInv, NEW i \in DOMAIN begun, NEW j \in DOMAIN begun,
                      begun[i] = begun[j], i # j
               PROVE  FALSE
    BY DEF OneLeasePerWindow
  <2>1. i \in Nat /\ j \in Nat /\ begun[i] \in Nat /\ begun[j] \in Nat
    BY DEF TypeInv, TypeOK
  <2>2. i < j \/ j < i
    BY <2>1
  <2> QED BY <2>1, <2>2 DEF LeaseInv, WindowsRise
<1> QED BY <1>1, <1>2, <1>3, PTL DEF Spec
-----------------------------------------------------------------------------
(* What is settled, or replaced, is finished *)

\* What the record says of its own attempt and of those before it holds of the
\* hosts and pull requests h, found and isOpen, n being the attempts so far.
\* A record that lets new work start has no pull request that is open.
Ends(cs, h, found, isOpen, n) ==
    /\ cs.lease.id <= n
    /\ cs.dispatch.phase = "none" => cs.dispatch.prs = {}
    /\ cs.dispatch.phase = "settled" =>
          /\ cs.lease.id # NoAttempt /\ isOpen[cs.lease.id] = {}
          /\ found[cs.lease.id] \cap OutOfScope # {} => cs.failure # "none"
    /\ Settled(cs) /\ cs.lease.id # NoAttempt =>
          cs.dispatch.prs \cap isOpen[cs.lease.id] = {}
    /\ \A i \in DOMAIN cs.history :
          /\ cs.history[i].attempt < cs.lease.id
          /\ h[cs.history[i].attempt] # "running"
          /\ cs.history[i].prs \cap isOpen[cs.history[i].attempt] = {}
          /\ cs.history[i].failure # "none" => cs.history[i].disposed

EndsNow(cs) == Ends(cs, host, opened, open, Len(begun))

\* A dispatch of which something may be left
Pending(cs) ==
    /\ cs.lease.id # NoAttempt /\ ~Disposed(cs) /\ cs.receipt # "terminal"
    /\ cs.dispatch.phase \notin {"none", "settled"}

Busy == {"launch", "running", "probe", "lookup"}

\* A verdict is reached on all pull requests the attempt ever opened.
ReadAll(p) ==
    pc[p] = "read" /\ ~(mode[p] = "observe" /\ Replaying(mem[p])) =>
        opened[mem[p].lease.id] \subseteq mem[p].dispatch.prs

FinishedInv ==
    /\ \A a \in Attempts : open[a] \subseteq opened[a]
    /\ EndsNow(disk)
    /\ \A p \in Processes :
          /\ pc[p] \in Sections => EndsNow(mem[p])
          /\ pc[p] \in Busy => Pending(mem[p])
          /\ ReadAll(p)

\* ds differs from cs in nothing that is said of pull requests or the past
Like(cs, ds) ==
    /\ SameAttempt(cs, ds) /\ KeepsFailure(cs, ds)
    /\ ds.dispatch.prs = cs.dispatch.prs /\ ds.history = cs.history
    /\ ds.reservedCost = cs.reservedCost /\ ds.reservedCalls = cs.reservedCalls

LEMMA LikeEnds ==
    ASSUME NEW cs \in CycleStates, NEW ds \in CycleStates, Like(cs, ds),
           NEW h, NEW found, NEW isOpen, NEW n, Ends(cs, h, found, isOpen, n)
    PROVE  Ends(ds, h, found, isOpen, n)
<1>1. ds.lease = cs.lease /\ ds.history = cs.history /\ ds.dispatch.prs = cs.dispatch.prs
      /\ ds.dispatch.phase = cs.dispatch.phase /\ KeepsFailure(cs, ds)
  BY DEF Like, SameAttempt
<1>2. Settled(ds) = Settled(cs)
  BY DEF Like, SameAttempt, Settled, Disposed, ReportedActive, Reserved
<1> QED BY <1>1, <1>2 DEF Ends, KeepsFailure

LEMMA FailEnds ==
    ASSUME NEW cs \in CycleStates, NEW reason,
           NEW h, NEW found, NEW isOpen, NEW n, Ends(cs, h, found, isOpen, n)
    PROVE  Ends(Fail(cs, reason), h, found, isOpen, n)
<1> DEFINE ds == Fail(cs, reason)
<1>1. /\ ds.lease = cs.lease /\ ds.history = cs.history /\ ds.dispatch = cs.dispatch
      /\ ds.disposed = cs.disposed /\ ds.receipt = cs.receipt
      /\ ds.reservedCost = cs.reservedCost /\ ds.reservedCalls = cs.reservedCalls
      /\ KeepsFailure(cs, ds)
  BY DEF Fail, Park, CycleStates, KeepsFailure
<1> HIDE DEF ds
<1>2. Settled(ds) = Settled(cs)
  BY <1>1 DEF Settled, Disposed, ReportedActive, Reserved
<1> QED BY <1>1, <1>2 DEF Ends, KeepsFailure, ds

LEMMA RecordedLike ==
    ASSUME NEW cs \in CycleStates, NEW reason
    PROVE  /\ Like(cs, cs) /\ Like(cs, Park(cs)) /\ Like(cs, NoOp(cs))
           /\ Like(cs, Fail(cs, reason)) /\ Like(cs, Counted(cs))
BY DEF CycleStates, Dispatches, Like, SameAttempt, KeepsFailure, Park, NoOp, Fail, Counted

LEMMA ReplayedLike ==
    ASSUME NEW cs \in CycleStates, NEW approval
    PROVE  Like(cs, Replayed(cs)) /\ Like(cs, ReplayVerdict(cs, approval))
BY RecordedLike DEF Replayed, ReplayVerdict

LEMMA ArchivedAttempts ==
    ASSUME NEW cs \in CycleStates, NEW i \in DOMAIN cs.history
    PROVE  cs.history[i] \in Archived /\ cs.history[i].attempt \in Attempts
<1>1. cs.history \in Seq(Archived)
  BY DEF CycleStates
<1>2. cs.history[i] \in Archived
  BY <1>1
<1> QED BY <1>2 DEF Archived

\* What was finished stays so while hosts end and pull requests are closed.
LEMMA EndsLater ==
    ASSUME NEW cs \in CycleStates, NEW h, NEW found, NEW isOpen, NEW n \in Nat,
           Ends(cs, h, found, isOpen, n), NEW h2, NEW open2, NEW n2 \in Nat, n <= n2,
           \A a \in Attempts : h2[a] = "running" => h[a] = "running",
           \A a \in Attempts : open2[a] \subseteq isOpen[a]
    PROVE  Ends(cs, h2, found, open2, n2)
<1>1. cs.lease.id \in Attempts \cup {NoAttempt} /\ cs.lease.id \in Nat
  BY ConfigAssumption DEF CycleStates, Leases, Attempts, NoAttempt
<1>2. \A i \in DOMAIN cs.history : cs.history[i].attempt \in Attempts
  BY ArchivedAttempts
<1>3. cs.lease.id <= n2
  BY <1>1 DEF Ends
<1>4. cs.lease.id # NoAttempt => open2[cs.lease.id] \subseteq isOpen[cs.lease.id]
  BY <1>1
<1>5. ASSUME NEW i \in DOMAIN cs.history
      PROVE  /\ cs.history[i].attempt < cs.lease.id
             /\ h2[cs.history[i].attempt] # "running"
             /\ cs.history[i].prs \cap open2[cs.history[i].attempt] = {}
             /\ cs.history[i].failure # "none" => cs.history[i].disposed
  <2>1. cs.history[i].attempt \in Attempts
    BY <1>2
  <2> QED BY <2>1 DEF Ends
<1> QED BY <1>3, <1>4, <1>5 DEF Ends

-----------------------------------------------------------------------------
(* Every step preserves FinishedInv *)

\* While process p runs, no other does.
LEMMA OnlyOneFinishes ==
    ASSUME TypeInv, LiveInv, NEW p \in Processes, pc[p] # "idle" \/ CycleLockFree,
           \A q \in Processes \ {p} : pc'[q] = pc[q],
           \A a \in Attempts : open'[a] \subseteq opened'[a],
           Ends(disk', host', opened', open', Len(begun')),
           pc'[p] \in Sections => Ends(mem'[p], host', opened', open', Len(begun')),
           pc'[p] \in Busy => Pending(mem'[p]),
           ReadAll(p)'
    PROVE  FinishedInv'
<1>1. \A q \in Processes \ {p} : pc'[q] = "idle"
  BY DEF LiveInv, OneAtATime, CycleLockFree
<1>2. "idle" \notin Sections /\ "idle" \notin Busy
  BY DEF Sections, Busy
<1>3. \A q \in Processes \ {p} : ReadAll(q)'
  BY <1>1 DEF ReadAll
<1> QED BY <1>1, <1>2, <1>3 DEF FinishedInv, EndsNow

\* A step that changes the record only
LEMMA RecordFinishes ==
    ASSUME TypeInv, LiveInv, FinishedInv, NEW p \in Processes,
           pc[p] # "idle" \/ CycleLockFree,
           \A q \in Processes \ {p} : pc'[q] = pc[q], UNCHANGED <<world, begun>>,
           NEW saved, EndsNow(saved), disk' \in {disk, saved},
           NEW ds, pc'[p] \in Sections => mem'[p] = ds /\ EndsNow(ds),
           pc'[p] \in Busy => Pending(ds),
           ReadAll(p)'
    PROVE  FinishedInv'
<1>1. host' = host /\ opened' = opened /\ open' = open /\ begun' = begun
  BY DEF world
<1>2. Ends(disk', host', opened', open', Len(begun'))
  BY <1>1 DEF FinishedInv, EndsNow
<1>3. pc'[p] \in Sections => Ends(mem'[p], host', opened', open', Len(begun'))
  BY <1>1 DEF EndsNow
<1>4. \A a \in Attempts : open'[a] \subseteq opened'[a]
  BY <1>1 DEF FinishedInv
<1>5. pc'[p] \in Busy => Pending(mem'[p])
  BY DEF Busy, Sections
<1> QED BY <1>2, <1>3, <1>4, <1>5, OnlyOneFinishes

LEMMA EndFinishes ==
    ASSUME TypeInv, LiveInv, FinishedInv, NEW p \in Processes, pc[p] # "idle",
           UNCHANGED <<world, begun>>, NEW ds, EndsNow(ds), End(p, ds)
    PROVE  FinishedInv'
<1>1. pc'[p] = "idle" /\ disk' = ds /\ \A q \in Processes \ {p} : pc'[q] = pc[q]
  BY DEF End, Exit, TypeInv, TypeOK
<1>2. pc'[p] \notin Sections /\ pc'[p] \notin Busy /\ ReadAll(p)'
  BY <1>1 DEF Sections, Busy, ReadAll
<1> QED BY <1>1, <1>2, RecordFinishes

LEMMA ConcludeFinishes ==
    ASSUME TypeInv, LiveInv, FinishedInv, NEW p \in Processes, pc[p] # "idle",
           UNCHANGED <<world, begun>>, NEW ds, EndsNow(ds), Conclude(p, ds)
    PROVE  FinishedInv'
<1>1. CASE End(p, ds)
  BY <1>1, EndFinishes
<1>2. CASE Continue(p, "observed", ds) /\ UNCHANGED disk
  <2>1. mem'[p] = ds /\ pc'[p] = "observed" /\ \A q \in Processes \ {p} : pc'[q] = pc[q]
    BY <1>2 DEF Continue, TypeInv, TypeOK
  <2>2. pc'[p] \notin Busy /\ ReadAll(p)'
    BY <2>1 DEF Busy, ReadAll
  <2> QED BY <1>2, <2>1, <2>2, RecordFinishes
<1> QED BY <1>1, <1>2 DEF Conclude

\* A run goes on with a record like the one it has, saved or not.
LEMMA GoesOnFinishes ==
    ASSUME TypeInv, LiveInv, FinishedInv, NEW p \in Processes, pc[p] \in Sections,
           UNCHANGED <<world, begun>>, NEW saved, EndsNow(saved), disk' \in {disk, saved},
           NEW ds, EndsNow(ds), NEW label, Continue(p, label, ds), mode' = mode,
           label \in Busy => Pending(ds),
           label = "read" /\ ~(mode[p] = "observe" /\ Replaying(ds)) =>
               opened[ds.lease.id] \subseteq ds.dispatch.prs
    PROVE  FinishedInv'
<1>1. pc'[p] = label /\ mem'[p] = ds /\ \A q \in Processes \ {p} : pc'[q] = pc[q]
  BY DEF Continue, TypeInv, TypeOK
<1>2. pc[p] # "idle" /\ opened' = opened
  BY DEF Sections, world
<1>3. ReadAll(p)'
  BY <1>1, <1>2 DEF ReadAll, Replaying
<1> QED BY <1>1, <1>2, <1>3, RecordFinishes

\* A verdict that settles has seen every pull request closed and none out of scope.
LEMMA VerdictEnds ==
    ASSUME NEW cs \in CycleStates, NEW approval, cs.lease.id # NoAttempt,
           opened[cs.lease.id] \subseteq cs.dispatch.prs, EndsNow(cs),
           open[cs.lease.id] \subseteq opened[cs.lease.id]
    PROVE  EndsNow(Verdict(cs, approval, open[cs.lease.id]))
<1> DEFINE read == [cs EXCEPT !.observations = 0]
           record == [cs.dispatch EXCEPT !.phase = "settled"]
           settled == [read EXCEPT !.dispatch = record]
<1>1. read \in CycleStates /\ Like(cs, read)
  BY DEF CycleStates, Like, SameAttempt, KeepsFailure
<1>2. EndsNow(read) /\ \A reason : EndsNow(Fail(read, reason))
  <2>1. EndsNow(read)
    BY <1>1, LikeEnds DEF EndsNow
  <2> HIDE DEF read
  <2> QED BY <1>1, <2>1, FailEnds DEF EndsNow
<1>3. /\ settled.lease = cs.lease /\ settled.history = cs.history
      /\ settled.dispatch.phase = "settled" /\ settled.dispatch.prs = cs.dispatch.prs
  BY DEF CycleStates, Dispatches
<1>4. ScopeFailure(cs, approval) = "none" => cs.dispatch.prs \cap OutOfScope = {}
  BY DEF ScopeFailure
<1>5. [read EXCEPT !.dispatch.phase = "settled"] = settled
  BY DEF CycleStates, Dispatches
<1>6. ASSUME ScopeFailure(cs, approval) = "none", cs.dispatch.prs \cap open[cs.lease.id] = {}
      PROVE  EndsNow(settled)
  <2>1. open[cs.lease.id] = {} /\ opened[cs.lease.id] \cap OutOfScope = {}
    BY <1>4, <1>6
  <2> HIDE DEF settled
  <2> QED BY <1>3, <2>1 DEF EndsNow, Ends
<1> HIDE DEF read, settled
<1>7. \/ \E reason : Verdict(cs, approval, open[cs.lease.id]) = Fail(read, reason)
      \/ Verdict(cs, approval, open[cs.lease.id]) = read
      \/ /\ ScopeFailure(cs, approval) = "none" /\ cs.dispatch.prs \cap open[cs.lease.id] = {}
         /\ Verdict(cs, approval, open[cs.lease.id]) = settled
  BY <1>5 DEF Verdict, read
<1> QED BY <1>2, <1>6, <1>7

LEMMA ObserveFinishes ==
    ASSUME TypeInv, LiveInv, FinishedInv, NEW p \in Processes, GateNewWork(p) \/ Observe(p)
    PROVE  FinishedInv'
<1> DEFINE cs == mem[p]
           approval == cfg[p].approval
<1>1. pc[p] \in Sections /\ UNCHANGED <<world, begun>>
  BY DEF GateNewWork, Observe, StopUnsettled, ObservationExhausted, CountObservation,
         ProbeWorker, LookupReferences, ReadPullRequests, RecheckActive,
         ObservationTimeout, Sections, ghosts
<1>2. cs \in CycleStates /\ EndsNow(cs) /\ pc[p] # "idle"
  BY <1>1, InSection DEF FinishedInv
<1> HIDE DEF cs
<1>3. EndsNow(disk) /\ EndsNow(cs) /\ EndsNow(Park(cs)) /\ EndsNow(Counted(cs))
      /\ \A reason : EndsNow(Fail(cs, reason))
  <2>1. /\ Park(cs) \in CycleStates /\ Counted(cs) \in CycleStates
    BY <1>2, ParkType, CountedType
  <2>2. /\ Like(cs, Park(cs)) /\ Like(cs, Counted(cs))
        /\ \A reason : Like(cs, Fail(cs, reason))
    BY <1>2, RecordedLike
  <2>3. \A reason : EndsNow(Fail(cs, reason))
    BY <1>2, <2>2, FailEnds DEF EndsNow
  <2> QED BY <1>2, <2>1, <2>2, <2>3, LikeEnds DEF EndsNow, FinishedInv
<1>4. ASSUME NEW ds, EndsNow(ds), End(p, ds) \/ Conclude(p, ds)
      PROVE  FinishedInv'
  BY <1>1, <1>2, <1>4, EndFinishes, ConcludeFinishes
<1>5. CASE GateNewWork(p)
  <2>1. CASE End(p, Park(cs))
    BY <1>3, <1>4, <2>1
  <2>2. CASE disk' = cs /\ Continue(p, "refresh", EmptyCycle)
    <3>1. /\ pc'[p] = "refresh"
          /\ \A q \in Processes \ {p} : pc'[q] = pc[q]
      BY <2>2 DEF Continue, TypeInv, TypeOK
    <3>2. pc'[p] \notin Sections /\ pc'[p] \notin Busy /\ ReadAll(p)'
      BY <3>1 DEF Sections, Busy, ReadAll
    <3> QED BY <1>1, <1>2, <2>2, <3>1, <3>2, RecordFinishes
  <2> QED BY <1>5, <2>1, <2>2 DEF GateNewWork, cs
<1>6. CASE StopUnsettled(p) \/ ObservationExhausted(p)
  BY <1>3, <1>4, <1>6 DEF StopUnsettled, ObservationExhausted, cs
<1>7. CASE CountObservation(p)
  <2>1. Counted(cs) \in CycleStates
    BY <1>2, CountedType
  <2>2. \A reason : EndsNow(Fail(Counted(cs), reason))
    BY <1>3, <2>1, FailEnds DEF EndsNow
  <2>3. ~Settled(cs)
    BY <1>7 DEF CountObservation, cs
  <2>4. PICK label \in {"probe", "lookup", "observed"},
             ds \in {Counted(cs), Fail(Counted(cs), "unsettled-reservation"),
                    Fail(Counted(cs), "dispatch-outcome-unknown")} :
           /\ disk' = Counted(cs) /\ Continue(p, label, ds) /\ mode' = mode
           /\ label # "observed" => ds = Counted(cs) /\ cs.dispatch.phase # "none"
    BY <1>7 DEF CountObservation, Keeps, cs
  <2>5. label \in Busy => Pending(ds)
    <3>1. cs.dispatch.phase # "none" => Pending(Counted(cs))
      BY <1>2, <2>3 DEF Pending, Settled, Disposed, Counted, CycleStates
    <3> QED BY <2>4, <3>1 DEF Busy
  <2>6. EndsNow(ds) /\ label # "read"
    BY <1>3, <2>2, <2>4
  <2> QED BY <1>1, <1>3, <2>4, <2>5, <2>6, GoesOnFinishes
<1>8. CASE ProbeWorker(p)
  <2>1. Pending(cs)
    BY <1>8 DEF ProbeWorker, FinishedInv, Busy, cs
  <2>2. PICK label \in {"lookup", "observed"}, ds \in {cs, Park(cs)} :
           /\ Continue(p, label, ds) /\ mode' = mode /\ UNCHANGED disk
           /\ label = "lookup" => ds = cs
    BY <1>8 DEF ProbeWorker, Keeps, cs
  <2>3. label \in Busy => Pending(ds)
    BY <2>1, <2>2 DEF Busy
  <2>4. EndsNow(ds) /\ label # "read"
    BY <1>3, <2>2
  <2> QED BY <1>1, <1>3, <2>2, <2>3, <2>4, GoesOnFinishes
<1>9. CASE ObservationTimeout(p)
  <2>1. Continue(p, "observed", Park(cs)) /\ mode' = mode /\ UNCHANGED disk
    BY <1>9 DEF ObservationTimeout, Keeps, cs
  <2>2. "observed" \notin Busy
    BY DEF Busy
  <2> QED BY <1>1, <1>3, <2>1, <2>2, GoesOnFinishes
<1>10. CASE LookupReferences(p)
  <2> DEFINE found == WithReferences(cs, opened[cs.lease.id])
  <2>1. Pending(cs)
    BY <1>10 DEF LookupReferences, FinishedInv, Busy, cs
  <2>2. found \in CycleStates
    <3>1. cs.lease.id \in Attempts
      BY <1>2, <2>1, LeaseId DEF Pending
    <3> QED BY <1>2, <3>1, WithReferencesType DEF TypeInv, TypeOK
  <2>3. EndsNow(found) /\ opened[found.lease.id] \subseteq found.dispatch.prs
    <3>1. SameAttempt(cs, found)
      BY <1>2, RecordedOnly
    <3>2. found.history = cs.history /\ opened[cs.lease.id] \subseteq found.dispatch.prs
      BY <1>2 DEF WithReferences, CycleStates, Dispatches
    <3>3. ~Settled(found) /\ found.dispatch.phase \notin {"none", "settled"}
          /\ found.lease = cs.lease
      BY <2>1, <3>1 DEF Pending, SameAttempt, Settled, Disposed
    <3> HIDE DEF found
    <3> QED BY <1>2, <3>2, <3>3 DEF EndsNow, Ends
  <2>4. /\ EndsNow(Replayed(found)) /\ EndsNow(Replayed(cs))
        /\ SameAttempt(found, Replayed(found))
    <3>1. ASSUME NEW ds \in CycleStates, EndsNow(ds)
          PROVE  EndsNow(Replayed(ds)) /\ SameAttempt(ds, Replayed(ds))
      BY <3>1, ReplayedLike, ReplayedType, LikeEnds DEF EndsNow, Like
    <3> HIDE DEF found
    <3> QED BY <1>2, <2>2, <2>3, <3>1
  <2>5. Replaying(found) = Replaying(cs)
    BY <1>2, RecordedOnly DEF SameAttempt, Replaying
  <2>6. \/ /\ mode[p] = "observe" /\ Replaying(cs)
           /\ Continue(p, "read", Replayed(found)) /\ UNCHANGED <<disk, mode>>
        \/ Continue(p, "read", found) /\ UNCHANGED <<disk, mode>>
        \/ \E ds \in {found, cs} : End(p, ds)
        \/ \E ds \in {Replayed(cs), Park(cs)} : Conclude(p, ds)
    BY <1>10 DEF LookupReferences, Keeps, cs
  <2> HIDE DEF found
  <2>7. "read" \notin Busy
    BY DEF Busy
  <2>8. CASE /\ mode[p] = "observe" /\ Replaying(cs)
             /\ Continue(p, "read", Replayed(found)) /\ UNCHANGED <<disk, mode>>
    <3>1. Replaying(Replayed(found))
      BY <2>4, <2>5, <2>8 DEF SameAttempt, Replaying
    <3> QED BY <1>1, <1>3, <2>4, <2>7, <2>8, <3>1, GoesOnFinishes
  <2>9. CASE Continue(p, "read", found) /\ UNCHANGED <<disk, mode>>
    BY <1>1, <1>3, <2>3, <2>7, <2>9, GoesOnFinishes
  <2> QED BY <1>3, <1>4, <2>3, <2>4, <2>6, <2>8, <2>9
<1>11. CASE ReadPullRequests(p)
  <2> DEFINE verdict == Verdict(cs, approval, open[cs.lease.id])
             replayed == ReplayVerdict(cs, approval)
             replaying == mode[p] = "observe" /\ Replaying(cs)
  <2>1. EndsNow(replayed)
    <3>1. approval \in ApprovalStates
      BY DEF TypeInv, TypeOK, Configs
    <3> QED BY <1>2, <3>1, ReplayedLike, ReplayVerdictType, LikeEnds DEF EndsNow
  <2>2. ~replaying => EndsNow(verdict)
    <3>1. cs.lease.id \in Attempts /\ cs.lease.id # NoAttempt
      BY <1>2, <1>11, LeaseId DEF ReadPullRequests, TypeInv, Attached, AttachedLabels, cs
    <3>2. ~replaying => opened[cs.lease.id] \subseteq cs.dispatch.prs
      BY <1>11 DEF ReadPullRequests, FinishedInv, ReadAll, cs
    <3>3. open[cs.lease.id] \subseteq opened[cs.lease.id]
      BY <3>1 DEF FinishedInv
    <3> QED BY <1>2, <3>1, <3>2, <3>3, VerdictEnds
  <2>3. \/ \E ds \in {Park(cs), replayed} : Conclude(p, ds)
        \/ ~replaying /\ Conclude(p, verdict)
        \/ ~replaying /\ Continue(p, "recheck", verdict) /\ UNCHANGED <<disk, mode>>
    BY <1>11 DEF ReadPullRequests, Keeps, cs
  <2>4. "recheck" \notin Busy
    BY DEF Busy
  <2> HIDE DEF verdict, replayed, replaying
  <2> QED BY <1>1, <1>3, <1>4, <2>1, <2>2, <2>3, <2>4, GoesOnFinishes
<1>12. CASE RecheckActive(p)
  <2>1. \E ds \in {cs, Park(cs), Fail(cs, "authority-expired"), Fail(cs, "authority-refused")} :
           Conclude(p, ds)
    BY <1>12 DEF RecheckActive, cs
  <2> QED BY <1>3, <1>4, <2>1
<1> QED BY <1>5, <1>6, <1>7, <1>8, <1>9, <1>10, <1>11, <1>12 DEF Observe

\* Starting a run, a scan within the cycle and the gate after it change nothing.
LEMMA StartOrRefreshFinishes ==
    ASSUME TypeInv, LiveInv, FinishedInv, NEW p \in Processes, StartRun(p) \/ Refresh(p)
    PROVE  FinishedInv'
<1>1. UNCHANGED <<world, begun>> /\ (pc[p] # "idle" \/ CycleLockFree) /\ disk \in CycleStates
  BY DEF StartRun, Refresh, ScanLoad, ScanSave, RefreshRefused, Relock, Unlocked, ghosts,
         TypeInv, TypeOK
<1>2. EndsNow(disk) /\ EndsNow(Park(disk))
  BY <1>1, ParkType, RecordedLike, LikeEnds DEF FinishedInv, EndsNow
<1>3. CASE \E label \in {"gate", "scanning", "scanned", "select"}, cs \in CycleStates :
             /\ Continue(p, label, cs) /\ disk' = disk
             /\ label \in {"gate", "select"} => cs = disk
  <2>1. PICK label \in {"gate", "scanning", "scanned", "select"}, cs \in CycleStates :
             /\ Continue(p, label, cs) /\ disk' = disk
             /\ label \in {"gate", "select"} => cs = disk
    BY <1>3
  <2>2. pc'[p] = label /\ mem'[p] = cs /\ \A q \in Processes \ {p} : pc'[q] = pc[q]
    BY <2>1 DEF Continue, TypeInv, TypeOK
  <2>3. pc'[p] \notin Busy /\ ReadAll(p)' /\ (pc'[p] \in Sections => mem'[p] = disk)
    BY <2>1, <2>2 DEF Busy, ReadAll, Sections
  <2> QED BY <1>1, <1>2, <2>1, <2>2, <2>3, RecordFinishes
<1>4. CASE pc[p] # "idle" /\ End(p, Park(disk))
  BY <1>1, <1>2, <1>4, EndFinishes
<1>5. CASE ScanSave(p)
  <2>1. mem[p] = disk
    BY <1>5 DEF ScanSave, LiveInv, RunOK, CopyIsCurrent
  <2> QED BY <1>3, <1>5, <2>1, EmptyCycleType DEF ScanSave
<1> QED BY <1>1, <1>3, <1>4, <1>5
        DEF StartRun, Refresh, ScanLoad, RefreshRefused, Relock, Unlocked

\* Without a confirmation, what is disposed has no pull request recorded.
LEMMA DisposeFinishes ==
    ASSUME TypeInv, LiveInv, FinishedInv, NEW p \in Processes, NEW id \in Attempts,
           NEW confirmed \in BOOLEAN, DisposeAttempt(p, id, confirmed)
    PROVE  FinishedInv'
<1> DEFINE ds == Dispose(disk)
<1>1. /\ disk' = ds /\ UNCHANGED <<pc, mem, mode, world, begun>>
      /\ CycleLockFree /\ disk \in CycleStates /\ pc[p] = "idle"
      /\ confirmed => open[id] = {}
      /\ CanDispose(disk, id, confirmed)
  BY DEF DisposeAttempt, ghosts, TypeInv, TypeOK
<1>2. /\ ds.lease = disk.lease /\ ds.history = disk.history
      /\ ds.dispatch = disk.dispatch /\ ds.failure = disk.failure
  BY <1>1 DEF Dispose, CycleStates
<1>3. disk.dispatch.prs \cap open[disk.lease.id] = {}
  <2>1. CASE confirmed
    BY <1>1, <2>1 DEF CanDispose
  <2>2. CASE ~confirmed
    <3>1. \/ disk.dispatch.phase \in {"none", "settled"} \/ disk.dispatch.prs = {}
      BY <1>1, <2>2 DEF CanDispose, ReportedActive
    <3> QED BY <3>1 DEF FinishedInv, EndsNow, Ends
  <2> QED BY <2>1, <2>2
<1> HIDE DEF ds
<1>4. EndsNow(ds)
  BY <1>2, <1>3 DEF FinishedInv, EndsNow, Ends
<1>5. pc'[p] \notin Sections /\ pc'[p] \notin Busy /\ ReadAll(p)'
  BY <1>1 DEF Sections, Busy, ReadAll
<1> QED BY <1>1, <1>4, <1>5, RecordFinishes

LEMMA Appended ==
    ASSUME NEW S, NEW s \in Seq(S), NEW x \in S, NEW i \in DOMAIN Append(s, x)
    PROVE  Append(s, x)[i] = x \/ (i \in DOMAIN s /\ Append(s, x)[i] = s[i])
<1>1. i \in 1..(Len(s) + 1) /\ Len(s) \in Nat /\ DOMAIN s = 1..Len(s)
  OBVIOUS
<1>2. /\ \A j \in 1..Len(s) : Append(s, x)[j] = s[j]
      /\ Append(s, x)[Len(s) + 1] = x
  BY AppendProperties
<1>3. CASE i = Len(s) + 1
  BY <1>2, <1>3
<1>4. CASE i \in 1..Len(s)
  BY <1>1, <1>2, <1>4
<1> QED BY <1>1, <1>3, <1>4

\* What the next lease archives has ended.
LEMMA BeginFinishes ==
    ASSUME TypeInv, LiveInv, FinishedInv, NEW p \in Processes, BeginAttempt(p)
    PROVE  FinishedInv'
<1> DEFINE cs == mem[p]
           leased == Begin(cs, FreshId, stamp[p])
<1>1. /\ cs = disk /\ cs \in CycleStates /\ EndsNow(cs) /\ pc[p] # "idle"
      /\ CanBegin(cs, stamp[p]) /\ FreshId \in Attempts
      /\ disk' = leased /\ Continue(p, "begun", leased)
      /\ begun' = Append(begun, Window(stamp[p])) /\ UNCHANGED world
  BY DEF BeginAttempt, LiveInv, RunOK, CopyIsCurrent, FinishedInv, TypeInv, TypeOK
<1> HIDE DEF cs
<1>2. /\ begun \in Seq(Nat) /\ Len(begun) \in Nat
      /\ Len(begun') = Len(begun) + 1 /\ FreshId = Len(begun) + 1
  <2>1. begun \in Seq(Nat) /\ Window(stamp[p]) \in Nat
    <3>1. stamp[p] \in Nat
      BY EnvironmentAssumption DEF TypeInv, TypeOK
    <3> QED BY <3>1, WindowType DEF TypeInv, TypeOK
  <2> QED BY <1>1, <2>1 DEF FreshId
<1>3. /\ leased.lease.id = FreshId /\ leased.dispatch = NoDispatch
      /\ leased.history = IF cs.lease.id = NoAttempt THEN cs.history
                          ELSE Append(cs.history, Archive(cs))
  BY DEF Begin, EmptyCycle, NewLease
<1> HIDE DEF leased
<1>4. cs.lease.id \in Nat /\ cs.lease.id < FreshId
  BY <1>1, <1>2, ConfigAssumption
     DEF EndsNow, Ends, CycleStates, Leases, Attempts, NoAttempt
<1> DEFINE Past(past) ==
               /\ past.attempt < FreshId
               /\ host[past.attempt] # "running"
               /\ past.prs \cap open[past.attempt] = {}
               /\ past.failure # "none" => past.disposed
<1>5. \A i \in DOMAIN cs.history : Past(cs.history[i])
  <2>1. ASSUME NEW i \in DOMAIN cs.history
        PROVE  cs.history[i].attempt \in Nat /\ cs.history[i].attempt < cs.lease.id
    BY <1>1, ArchivedAttempts, ConfigAssumption DEF EndsNow, Ends, Attempts
  <2>2. ASSUME NEW i \in DOMAIN cs.history
        PROVE  cs.history[i].attempt < FreshId
    BY <1>2, <1>4, <2>1
  <2> QED BY <1>1, <2>2 DEF EndsNow, Ends
<1>6. cs.lease.id # NoAttempt => Past(Archive(cs))
  <2> SUFFICES ASSUME cs.lease.id # NoAttempt PROVE Past(Archive(cs))
    OBVIOUS
  <2>1. Settled(cs) /\ ~AwaitingDisposition(cs)
    BY <1>1 DEF CanBegin, MayReplaceLease
  <2>2. host[cs.lease.id] # "running"
    <3>1. ~MayBeLive(cs)
      BY <1>1, <2>1, SettledIsNotLive
    <3>2. cs.lease.id \in Attempts
      BY <1>1, LeaseId
    <3> QED BY <1>1, <3>1, <3>2 DEF LiveInv, HostIsKnown
  <2>3. cs.dispatch.prs \cap open[cs.lease.id] = {}
    BY <1>1, <2>1 DEF EndsNow, Ends
  <2>4. cs.failure # "none" => Disposed(cs)
    BY <2>1 DEF AwaitingDisposition
  <2> QED BY <1>4, <2>2, <2>3, <2>4 DEF Archive
<1>7. \A i \in DOMAIN leased.history : Past(leased.history[i])
  <2>1. CASE cs.lease.id = NoAttempt
    BY <1>3, <1>5, <2>1
  <2>2. CASE cs.lease.id # NoAttempt
    <3>1. cs.history \in Seq(Archived) /\ leased.history = Append(cs.history, Archive(cs))
      BY <1>1, <1>3, <2>2 DEF CycleStates
    <3>2. ASSUME NEW i \in DOMAIN leased.history
          PROVE  leased.history[i] = Archive(cs)
                 \/ (i \in DOMAIN cs.history /\ leased.history[i] = cs.history[i])
      <4> HIDE DEF Past
      <4>1. Archive(cs) \in Archived
        BY <1>1, <2>2, ArchiveType
      <4> QED BY <3>1, <4>1, Appended
    <3> HIDE DEF Past
    <3> QED BY <1>5, <1>6, <2>2, <3>2
  <2> QED BY <2>1, <2>2
<1>8. Ends(leased, host, opened, open, Len(begun'))
  BY <1>2, <1>3, <1>7 DEF Ends, NoDispatch
<1>9. Ends(leased, host', opened', open', Len(begun')) /\
      \A a \in Attempts : open'[a] \subseteq opened'[a]
  BY <1>1, <1>8 DEF world, FinishedInv
<1>10. pc'[p] = "begun" /\ mem'[p] = leased /\ \A q \in Processes \ {p} : pc'[q] = pc[q]
  BY <1>1 DEF Continue, TypeInv, TypeOK
<1>11. pc'[p] \notin Busy /\ ReadAll(p)'
  BY <1>10 DEF Busy, ReadAll
<1> QED BY <1>1, <1>9, <1>10, <1>11, OnlyOneFinishes

\* What a host's return leaves as it was
LEMMA ReturnedLeaves ==
    ASSUME NEW cs \in CycleStates, NEW outcome, NEW exit,
           NEW cost \in MeasuredCosts, NEW calls \in MeasuredCalls
    PROVE  LET ds == Returned(cs, outcome, exit, cost, calls)
           IN ds.history = cs.history /\ ds.dispatch.prs = cs.dispatch.prs
<1> DEFINE charged == Charged(cs, outcome, cost, calls)
           record == [charged.dispatch EXCEPT !.phase = "returned", !.outcome = outcome]
           settled == [charged EXCEPT !.dispatch.phase = "returned",
                                      !.dispatch.outcome = outcome]
<1>1. charged \in CycleStates
  <2>1. cost \in Nat \cup {Unmeasured} /\ calls \in Nat /\ cs.reservedCalls \in Nat
    BY ConfigAssumption DEF MeasuredCosts, MeasuredCalls, CycleStates
  <2> QED BY <2>1, SettleType DEF Charged
<1>2. charged.history = cs.history /\ charged.dispatch = cs.dispatch
  BY DEF Charged, Settle, CycleStates
<1> HIDE DEF charged
<1>3. record.prs = charged.dispatch.prs /\ settled = [charged EXCEPT !.dispatch = record]
  BY <1>1 DEF CycleStates, Dispatches
<1> HIDE DEF record
<1>4. settled.history = cs.history /\ settled.dispatch = record
      /\ \A reason : /\ Fail(settled, reason).history = cs.history
                     /\ Fail(settled, reason).dispatch = record
  BY <1>1, <1>2, <1>3 DEF Fail, Park, CycleStates
<1> HIDE DEF settled
<1> QED BY <1>2, <1>3, <1>4 DEF Returned, charged, settled

LEMMA DispatchFinishes ==
    ASSUME TypeInv, LiveInv, FinishedInv, NEW p \in Processes, Dispatch(p), ~BeginAttempt(p)
    PROVE  FinishedInv'
<1> DEFINE cs == mem[p]
<1>1. pc[p] \in Sections /\ begun' = begun
  BY DEF Dispatch, SelectNothing, DispatchRefused, RecordIntent,
         HostParked, HostLaunch, HostReturn, Sections, ghosts
<1>2. cs \in CycleStates /\ EndsNow(cs) /\ pc[p] # "idle" /\ EndsNow(disk)
  BY <1>1, InSection DEF FinishedInv
<1>3. RunOK(p) /\ HostIsKnown
  BY DEF LiveInv
<1> HIDE DEF cs
<1>4. /\ EndsNow(Park(cs)) /\ EndsNow(NoOp(cs)) /\ \A reason : EndsNow(Fail(cs, reason))
  BY <1>2, ParkType, NoOpType, RecordedLike, LikeEnds, FailEnds DEF EndsNow
<1>5. ASSUME NEW ds, EndsNow(ds), UNCHANGED world, End(p, ds)
      PROVE  FinishedInv'
  BY <1>1, <1>2, <1>5, EndFinishes
<1>6. CASE SelectNothing(p) \/ DispatchRefused(p)
  <2>1. \E ds \in {NoOp(cs), Park(cs), Fail(cs, "runtime-exhausted")} : End(p, ds)
    BY <1>6 DEF SelectNothing, DispatchRefused, cs
  <2>2. UNCHANGED world
    BY <1>6 DEF SelectNothing, DispatchRefused
  <2> QED BY <1>4, <1>5, <2>1, <2>2
<1>7. CASE RecordIntent(p)
  <2> DEFINE intended == Intended(cs)
  <2>1. Admit(cs) \in CycleStates
    BY <1>2, <1>7, AdmitType DEF RecordIntent, cs
  <2>2. /\ intended.lease = cs.lease /\ intended.history = cs.history
        /\ intended.disposed = cs.disposed /\ intended.receipt = cs.receipt
        /\ intended.dispatch = [NoDispatch EXCEPT !.phase = "intent"]
    BY <1>2, <2>1 DEF Intended, Admit, CycleStates
  <2>3. /\ cs.lease.id # NoAttempt /\ cs.disposed = NoAttempt /\ cs.receipt = "none"
    BY <1>3, <1>7 DEF RecordIntent, RunOK, NothingRunsYet, TypeInv, Attached,
                      AttachedLabels, cs
  <2> HIDE DEF intended
  <2>4. EndsNow(intended) /\ Pending(intended)
    BY <1>2, <2>2, <2>3 DEF EndsNow, Ends, Pending, Disposed, NoDispatch
  <2>5. disk' = intended /\ Continue(p, "launch", intended) /\ mode' = mode /\ UNCHANGED world
    BY <1>7 DEF RecordIntent, Keeps, intended, cs
  <2> QED BY <1>1, <2>4, <2>5, GoesOnFinishes
<1>8. CASE HostParked(p)
  <2> DEFINE charged == Settle(cs, 0, 0)
             parked == Park([charged EXCEPT !.dispatch = NoDispatch])
  <2>1. charged \in CycleStates
    BY <1>2, SettleType
  <2>2. charged.lease = cs.lease /\ charged.history = cs.history
    BY <1>2 DEF Settle, CycleStates
  <2> HIDE DEF charged
  <2>3. /\ parked.lease = cs.lease /\ parked.history = cs.history
        /\ parked.dispatch = NoDispatch
    BY <2>1, <2>2 DEF Park, CycleStates
  <2>4. End(p, parked) /\ UNCHANGED world
    BY <1>8 DEF HostParked, cs, charged
  <2> HIDE DEF parked
  <2>5. EndsNow(parked)
    BY <1>2, <2>3 DEF EndsNow, Ends, NoDispatch
  <2> QED BY <1>5, <2>4, <2>5
<1>9. CASE HostLaunch(p)
  <2> DEFINE a == cs.lease.id
  <2>1. /\ cs = disk /\ Pending(cs) /\ a \in Attempts
        /\ host' = [host EXCEPT ![a] = "running"]
        /\ UNCHANGED <<disk, mode, opened, open>> /\ Continue(p, "running", cs)
    <3>1. cs = disk /\ Pending(cs)
      BY <1>3, <1>9 DEF HostLaunch, RunOK, CopyIsCurrent, FinishedInv, Busy, cs
    <3> QED BY <1>2, <1>9, <3>1, LeaseId DEF HostLaunch, Pending, Keeps, cs
  <2>2. Ends(cs, host', opened', open', Len(begun'))
    <3>1. ASSUME NEW i \in DOMAIN cs.history
          PROVE  host'[cs.history[i].attempt] # "running"
      <4>1. cs.history[i].attempt \in Attempts /\ cs.history[i].attempt < a
        BY <1>2, ArchivedAttempts DEF EndsNow, Ends
      <4>2. cs.history[i].attempt # a
        BY <2>1, <4>1 DEF Attempts
      <4> QED BY <1>2, <2>1, <4>1, <4>2 DEF EndsNow, Ends, TypeInv, TypeOK
    <3>2. opened' = opened /\ open' = open /\ begun' = begun
      BY <1>1, <2>1
    <3> QED BY <1>2, <3>1, <3>2 DEF EndsNow, Ends
  <2>3. pc'[p] = "running" /\ mem'[p] = cs /\ \A q \in Processes \ {p} : pc'[q] = pc[q]
    BY <2>1 DEF Continue, TypeInv, TypeOK
  <2>4. ReadAll(p)' /\ \A b \in Attempts : open'[b] \subseteq opened'[b]
    BY <2>1, <2>3 DEF ReadAll, FinishedInv
  <2> QED BY <1>2, <2>1, <2>2, <2>3, <2>4, OnlyOneFinishes
<1>10. CASE HostReturn(p)
  <2>1. Pending(cs)
    BY <1>10 DEF HostReturn, FinishedInv, Busy, cs
  <2>2. PICK exit \in {"completed", "failed", "call-limit", "timeout"},
             cost \in MeasuredCosts, calls \in MeasuredCalls, outcome \in Outcomes :
           /\ host' = [host EXCEPT ![cs.lease.id] = "stopped"] \/ UNCHANGED host
           /\ disk' = Returned(cs, outcome, exit, cost, calls)
           /\ Continue(p, "lookup", disk')
           /\ UNCHANGED <<opened, open>>
    BY <1>10 DEF HostReturn, Outcomes, cs
  <2>3. /\ disk'.lease = cs.lease /\ disk'.disposed = cs.disposed
        /\ disk'.receipt = cs.receipt /\ disk'.dispatch.phase = "returned"
        /\ disk'.history = cs.history
    BY <1>2, <2>2, ReturnedSays, ReturnedLeaves
  <2>4. Pending(disk') /\ ~Settled(disk')
    BY <2>1, <2>3 DEF Pending, Disposed, Settled
  <2>5. Ends(disk', host, opened, open, Len(begun))
    BY <1>2, <2>3, <2>4 DEF EndsNow, Ends
  <2>6. Ends(disk', host', opened', open', Len(begun'))
    <3>1. \A i \in DOMAIN cs.history : cs.history[i].attempt \in Attempts
      BY <1>2, ArchivedAttempts
    <3>2. \A b \in Attempts : host'[b] = "running" => host[b] = "running"
      BY <2>2 DEF TypeInv, TypeOK
    <3>3. opened' = opened /\ open' = open /\ begun' = begun
      BY <1>1, <2>2
    <3> QED BY <2>3, <2>5, <3>1, <3>2, <3>3 DEF Ends
  <2>7. pc'[p] = "lookup" /\ mem'[p] = disk' /\ \A q \in Processes \ {p} : pc'[q] = pc[q]
    BY <2>2 DEF Continue, TypeInv, TypeOK
  <2>8. ReadAll(p)' /\ \A b \in Attempts : open'[b] \subseteq opened'[b]
    BY <2>2, <2>7 DEF ReadAll, FinishedInv
  <2> QED BY <1>2, <2>4, <2>6, <2>7, <2>8, OnlyOneFinishes
<1> QED BY <1>6, <1>7, <1>8, <1>9, <1>10 DEF Dispatch

\* A kill loses a copy, and may stop a host.
LEMMA CrashFinishes ==
    ASSUME TypeInv, LiveInv, FinishedInv, NEW p \in Processes, Crash(p)
    PROVE  FinishedInv'
<1>1. /\ disk' = disk /\ opened' = opened /\ open' = open /\ begun' = begun
      /\ pc[p] # "idle" /\ disk \in CycleStates /\ Len(begun) \in Nat
  BY DEF Crash, ghosts, TypeInv, TypeOK
<1>2. pc'[p] = "idle" /\ \A q \in Processes \ {p} : pc'[q] = pc[q]
  BY DEF Crash, Exit, TypeInv, TypeOK
<1>3. \A a \in Attempts : host'[a] = "running" => host[a] = "running"
  BY DEF Crash, TypeInv, TypeOK
<1>4. Ends(disk', host', opened', open', Len(begun'))
  BY <1>1, <1>3, EndsLater DEF FinishedInv, EndsNow
<1>5. pc'[p] \notin Sections /\ pc'[p] \notin Busy /\ ReadAll(p)'
  BY <1>2 DEF Sections, Busy, ReadAll
<1>6. \A a \in Attempts : open'[a] \subseteq opened'[a]
  BY <1>1 DEF FinishedInv
<1> QED BY <1>1, <1>2, <1>4, <1>5, <1>6, OnlyOneFinishes

\* A pull request is opened by a host that runs: nothing was said of its attempt yet.
LEMMA OpenFinishes ==
    ASSUME TypeInv, LiveInv, FinishedInv,
           NEW a \in Attempts, NEW r \in PullRequests, OpenPullRequest(a, r)
    PROVE  FinishedInv'
<1>1. /\ host[a] = "running" /\ HostUp /\ disk.lease.id = a /\ MayBeLive(disk)
      /\ UNCHANGED <<disk, pc, mem, mode, host, begun>> /\ disk \in CycleStates
  BY DEF OpenPullRequest, LiveInv, HostIsKnown, HostUp, command, ghosts, TypeInv, TypeOK
<1>2. \A b \in Attempts : /\ open'[b] \subseteq opened'[b]
                          /\ b # a => open'[b] = open[b]
  BY DEF OpenPullRequest, FinishedInv, TypeInv, TypeOK
<1>3. ASSUME NEW cs \in CycleStates, cs.lease.id = a, MayBeLive(cs), EndsNow(cs)
      PROVE  Ends(cs, host', opened', open', Len(begun'))
  <2>1. ~Settled(cs) /\ cs.dispatch.phase # "settled"
    BY <1>3, SettledIsNotLive DEF MayBeLive
  <2>2. ASSUME NEW i \in DOMAIN cs.history
        PROVE  open'[cs.history[i].attempt] = open[cs.history[i].attempt]
    <3>1. cs.history[i].attempt \in Attempts /\ cs.history[i].attempt < a
      BY <1>3, ArchivedAttempts DEF EndsNow, Ends
    <3>2. cs.history[i].attempt # a
      BY <3>1 DEF Attempts
    <3> QED BY <1>2, <3>1, <3>2
  <2> QED BY <1>1, <1>3, <2>1, <2>2 DEF EndsNow, Ends
<1>4. ASSUME NEW p \in Processes, pc[p] \in Sections
      PROVE  /\ mem[p] \in CycleStates /\ mem[p].lease.id = a
             /\ MayBeLive(mem[p]) /\ EndsNow(mem[p])
  BY <1>1, <1>4, InSection DEF FinishedInv
<1>5. ASSUME NEW p \in Processes
      PROVE  ReadAll(p)'
  <2> SUFFICES ASSUME pc[p] = "read", ~(mode[p] = "observe" /\ Replaying(mem[p]))
               PROVE  FALSE
    BY <1>1 DEF ReadAll, Replaying
  <2>1. Replaying(mem[p])
    BY <1>4 DEF Sections, MayBeLive, Replaying
  <2>2. mode[p] = "dispatch"
    BY <2>1 DEF TypeInv, TypeOK
  <2> QED BY <2>1, <2>2 DEF LiveInv, RunOK, DispatchIsReturned, Replaying
<1>6. \A p \in Processes : /\ pc'[p] \in Sections =>
                                Ends(mem'[p], host', opened', open', Len(begun'))
                           /\ pc'[p] \in Busy => Pending(mem'[p])
  BY <1>1, <1>3, <1>4 DEF FinishedInv
<1>7. Ends(disk', host', opened', open', Len(begun'))
  BY <1>1, <1>3 DEF FinishedInv
<1> QED BY <1>2, <1>5, <1>6, <1>7 DEF FinishedInv, EndsNow

\* Otherwise hosts only end and pull requests are only closed.
LEMMA EnvironmentFinishes ==
    ASSUME TypeInv, LiveInv, FinishedInv, ~ForeignScans, Environment
    PROVE  FinishedInv'
<1>1. CASE \E a \in Attempts, r \in PullRequests : OpenPullRequest(a, r)
  BY <1>1, OpenFinishes
<1>2. CASE \/ \E a \in Attempts : HostExit(a) \/ \E r \in PullRequests : ClosePullRequest(a, r)
           \/ Configure \/ Tick
  <2>1. UNCHANGED <<disk, pc, mem, mode, opened, begun>>
    BY <1>2 DEF HostExit, ClosePullRequest, Configure, Tick, command, world, ghosts
  <2>2. /\ \A a \in Attempts : host'[a] = "running" => host[a] = "running"
        /\ \A a \in Attempts : open'[a] \subseteq open[a]
    BY <1>2 DEF HostExit, ClosePullRequest, Configure, Tick, world, TypeInv, TypeOK
  <2>3. ASSUME NEW cs \in CycleStates, EndsNow(cs)
        PROVE  Ends(cs, host', opened', open', Len(begun'))
    <3>1. Len(begun) \in Nat /\ Len(begun) <= Len(begun)
      BY DEF TypeInv, TypeOK
    <3> QED BY <2>1, <2>2, <2>3, <3>1, EndsLater DEF EndsNow
  <2>4. disk \in CycleStates /\ \A p \in Processes : mem[p] \in CycleStates
    BY DEF TypeInv, TypeOK
  <2>5. \A p \in Processes : ReadAll(p)'
    BY <2>1 DEF FinishedInv, ReadAll, Replaying
  <2>6. \A a \in Attempts : open'[a] \subseteq opened'[a]
    BY <2>1, <2>2 DEF FinishedInv
  <2>7. Ends(disk', host', opened', open', Len(begun'))
    BY <2>1, <2>3, <2>4 DEF FinishedInv
  <2>8. \A p \in Processes : /\ pc'[p] \in Sections =>
                                  Ends(mem'[p], host', opened', open', Len(begun'))
                             /\ pc'[p] \in Busy => Pending(mem'[p])
    BY <2>1, <2>3, <2>4 DEF FinishedInv
  <2> QED BY <2>5, <2>6, <2>7, <2>8 DEF FinishedInv, EndsNow
<1> QED BY <1>1, <1>2
        DEF Environment, Worker, Reviewer, ForeignScanLoad, ForeignScanSave, LiveInv

LEMMA NextFinishes ==
    ASSUME TypeInv, LiveInv, FinishedInv, ~ForeignScans, [Next]_vars
    PROVE  FinishedInv'
<1>1. ASSUME NEW p \in Processes, StartRun(p) \/ Run(p) \/ Crash(p) \/ Operator(p)
      PROVE  FinishedInv'
  <2>1. CASE Dispatch(p)
    BY <2>1, BeginFinishes, DispatchFinishes
  <2>2. CASE Operator(p)
    BY <2>2, DisposeFinishes DEF Operator
  <2> QED BY <1>1, <2>1, <2>2, ObserveFinishes, StartOrRefreshFinishes, CrashFinishes DEF Run
<1>2. CASE UNCHANGED vars
  <2>1. UNCHANGED <<disk, pc, mem, mode, host, opened, open, begun>>
    BY <1>2 DEF vars, command, world, ghosts
  <2>2. \A p \in Processes : ReadAll(p)' = ReadAll(p)
    BY <2>1 DEF ReadAll, Replaying
  <2> QED BY <2>1, <2>2 DEF FinishedInv, EndsNow
<1> QED BY <1>1, <1>2, EnvironmentFinishes DEF Next

\* What an earlier version left has no history and no reference.
LEMMA InitFinished == Init => FinishedInv
<1> SUFFICES ASSUME Init PROVE FinishedInv
  OBVIOUS
<1>1. \A p \in Processes : pc[p] \notin Sections /\ pc[p] \notin Busy /\ ReadAll(p)
  BY DEF Init, Sections, Busy, ReadAll
<1>2. /\ disk.history = <<>> /\ disk.dispatch.prs = {} /\ disk.dispatch.phase # "settled"
      /\ disk.lease.id <= Len(begun)
  <2>1. CASE FreshStart
    BY <2>1 DEF FreshStart, EmptyCycle, NoLease, NoDispatch, NoAttempt
  <2>2. CASE LegacyStart
    <3>1. disk \in LegacyCycles /\ begun = <<0>>
      BY <2>2 DEF LegacyStart
    <3>2. Len(begun) = 1 /\ LegacyLease.id = 1
      BY <3>1 DEF LegacyLease
    <3>3. CASE \E receipt \in {"none", "active"} :
                  disk = [EmptyCycle EXCEPT !.lease = LegacyLease, !.receipt = receipt,
                             !.dispatch = [NoDispatch EXCEPT !.phase = "unknown"]]
      <4>1. disk.dispatch = [NoDispatch EXCEPT !.phase = "unknown"]
        BY <3>3 DEF EmptyCycle
      <4>2. disk.dispatch.prs = {} /\ disk.dispatch.phase = "unknown"
        BY <4>1 DEF NoDispatch
      <4>3. disk.lease = LegacyLease
        BY <3>3 DEF EmptyCycle
      <4>4. disk.history = <<>>
        BY <3>3 DEF EmptyCycle
      <4> QED BY <3>2, <4>2, <4>3, <4>4
    <3>4. CASE \E receipt \in {"active", "terminal"} :
                  disk = [EmptyCycle EXCEPT !.lease = LegacyLease, !.receipt = receipt]
      <4>1. disk.dispatch = NoDispatch
        BY <3>4 DEF EmptyCycle
      <4>2. disk.dispatch.prs = {} /\ disk.dispatch.phase = "none"
        BY <4>1 DEF NoDispatch
      <4>3. disk.lease = LegacyLease
        BY <3>4 DEF EmptyCycle
      <4>4. disk.history = <<>>
        BY <3>4 DEF EmptyCycle
      <4> QED BY <3>2, <4>2, <4>3, <4>4
    <3> QED BY <3>1, <3>3, <3>4 DEF LegacyCycles
  <2> QED BY <2>1, <2>2 DEF Init
<1>3. EndsNow(disk)
  BY <1>2 DEF EndsNow, Ends
<1> QED BY <1>1, <1>3 DEF FinishedInv, Init

-----------------------------------------------------------------------------

\* A dispatch that the file calls settled left nothing, found or not: its worker
\* stopped, its pull requests are closed, and one that changed files outside the
\* approval made the attempt fail (cycle_settle, observe).
THEOREM SettledFinishedCorrect ==
    ASSUME ~ForeignScans PROVE Spec => []SettledIsFinished
<1>1. Init => TypeInv /\ LiveInv /\ FinishedInv
  BY InitType, InitLive, InitFinished
<1>2. TypeInv /\ LiveInv /\ FinishedInv /\ [Next]_vars => (TypeInv /\ LiveInv /\ FinishedInv)'
  BY NextType, NextLive, NextFinishes
<1>3. TypeInv /\ LiveInv /\ FinishedInv => SettledIsFinished
  <2> SUFFICES ASSUME TypeInv, LiveInv, FinishedInv, disk.dispatch.phase = "settled"
               PROVE  /\ host[disk.lease.id] # "running"
                      /\ open[disk.lease.id] = {}
                      /\ opened[disk.lease.id] \cap OutOfScope # {} => disk.failure # "none"
    BY DEF SettledIsFinished
  <2>1. disk \in CycleStates /\ disk.lease.id # NoAttempt
    BY DEF TypeInv, TypeOK, FinishedInv, EndsNow, Ends
  <2>2. disk.lease.id \in Attempts /\ ~MayBeLive(disk)
    BY <2>1, LeaseId DEF MayBeLive
  <2> QED BY <2>2 DEF LiveInv, HostIsKnown, FinishedInv, EndsNow, Ends
<1> QED BY <1>1, <1>2, <1>3, PTL DEF Spec

\* An attempt that was replaced had finished: its worker gone, the pull requests
\* recorded for it closed, its failure disposed (begin, may_replace_lease).
THEOREM HistoryFinishedCorrect ==
    ASSUME ~ForeignScans PROVE Spec => []HistoryIsFinished
<1>1. Init => TypeInv /\ LiveInv /\ FinishedInv
  BY InitType, InitLive, InitFinished
<1>2. TypeInv /\ LiveInv /\ FinishedInv /\ [Next]_vars => (TypeInv /\ LiveInv /\ FinishedInv)'
  BY NextType, NextLive, NextFinishes
<1>3. FinishedInv => HistoryIsFinished
  BY DEF FinishedInv, EndsNow, Ends, HistoryIsFinished
<1> QED BY <1>1, <1>2, <1>3, PTL DEF Spec
-----------------------------------------------------------------------------
(* One repair at a time: the cycle implements OneRepair *)

StateOf(cs) ==
    IF ~Settled(cs) THEN IF cs.failure = "none" THEN "active" ELSE "failing"
    ELSE IF AwaitingDisposition(cs) THEN "blocked" ELSE "free"

\* From cs to ds an attempt made what OneRepair calls progress, or none.
Leads(cs, ds) ==
    /\ Disposed(ds) <=> Disposed(cs)
    /\ \/ StateOf(ds) = StateOf(cs)
       \/ StateOf(cs) = "active"
       \/ StateOf(cs) = "failing" /\ StateOf(ds) = "blocked"

\* The lease that a run took and has not dispatched
JustLeased(cs) ==
    /\ cs.lease.id = Len(begun) /\ cs.lease.id # NoAttempt
    /\ intents[cs.lease.id] = 0
    /\ cs.dispatch = NoDispatch /\ cs.receipt = "none" /\ ~Reserved(cs)
    /\ cs.failure = "none" /\ cs.disposed = NoAttempt

\* A section saves more than one step of its copy at once: the copy is always one
\* that the file leads to.
PromiseInv ==
    /\ \A a \in Attempts : a > Len(begun) => intents[a] = 0
    /\ \A p \in Processes :
          /\ pc[p] \in Sections => Leads(disk, mem[p])
          /\ pc[p] \in {"read", "recheck"} => ~Settled(mem[p])
          /\ pc[p] = "begun" => JustLeased(mem[p])

KeepsPromise == [Promise!OneNext]_(Promise!oneVars)

LEMMA LeadsFurther ==
    /\ \A a : Leads(a, a)
    /\ \A a, b, c : Leads(a, b) /\ Leads(b, c) => Leads(a, c)
BY DEF Leads

LEMMA UnsettledLeads ==
    ASSUME NEW cs, NEW ds, ~Settled(cs), ds.lease = cs.lease, ds.disposed = cs.disposed,
           KeepsFailure(cs, ds)
    PROVE  Leads(cs, ds)
BY DEF Leads, StateOf, Settled, Disposed, AwaitingDisposition, KeepsFailure

LEMMA LikeLeads ==
    ASSUME NEW cs, NEW ds, Like(cs, ds), ds.failure = cs.failure
    PROVE  Leads(cs, ds) /\ (Settled(ds) <=> Settled(cs))
<1>1. Settled(ds) <=> Settled(cs)
  BY DEF Like, SameAttempt, Settled, Disposed, ReportedActive, Reserved
<1> QED BY <1>1 DEF Like, SameAttempt, Leads, StateOf, Disposed, AwaitingDisposition

LEMMA ParkLeads ==
    ASSUME NEW cs \in CycleStates
    PROVE  Leads(cs, Park(cs)) /\ Leads(cs, NoOp(cs)) /\ Leads(cs, Counted(cs))
<1>1. Park(cs).failure = cs.failure /\ NoOp(cs).failure = cs.failure
      /\ Counted(cs).failure = cs.failure
  BY DEF Park, NoOp, Counted, CycleStates
<1> QED BY <1>1, RecordedLike, LikeLeads

LEMMA FailLeads ==
    ASSUME NEW cs \in CycleStates, NEW reason, ~Settled(cs)
    PROVE  Leads(cs, Fail(cs, reason))
BY RecordedLike, UnsettledLeads DEF Like, SameAttempt

LEMMA LeadingStep ==
    ASSUME UNCHANGED <<begun, intents>>, Leads(disk, disk')
    PROVE  KeepsPromise
<1>1. RepairState = StateOf(disk) /\ RepairState' = StateOf(disk')
  BY DEF RepairState, StateOf
<1>2. Disposed(disk') = Disposed(disk)
  BY DEF Leads, Disposed
<1>3. CASE StateOf(disk') = StateOf(disk)
  BY <1>1, <1>2, <1>3 DEF KeepsPromise, Promise!oneVars
<1>4. CASE StateOf(disk) = "active" /\ StateOf(disk') # "active"
  <2>1. StateOf(disk') \in {"free", "failing", "blocked"}
    BY <1>4 DEF StateOf
  <2> QED BY <1>1, <1>2, <1>4, <2>1 DEF KeepsPromise, Promise!OneNext, Promise!Progress
<1>5. CASE StateOf(disk) = "failing" /\ StateOf(disk') = "blocked"
  BY <1>1, <1>2, <1>5 DEF KeepsPromise, Promise!OneNext, Promise!Progress
<1> QED BY <1>3, <1>4, <1>5 DEF Leads

\* A step of a run that changes the record only
LEMMA RecordPromise ==
    ASSUME TypeInv, LiveInv, PromiseInv, NEW p \in Processes,
           pc[p] # "idle" \/ CycleLockFree,
           \A q \in Processes \ {p} : pc'[q] = pc[q], UNCHANGED ghosts,
           Leads(disk, disk'),
           NEW ds, pc'[p] \in Sections => mem'[p] = ds /\ Leads(disk', ds),
           pc'[p] \in {"read", "recheck"} => ~Settled(ds), pc'[p] # "begun"
    PROVE  PromiseInv' /\ KeepsPromise
<1>1. begun' = begun /\ intents' = intents
  BY DEF ghosts
<1>2. \A q \in Processes \ {p} : pc'[q] = "idle"
  BY DEF LiveInv, OneAtATime, CycleLockFree
<1>3. {"read", "recheck", "begun"} \subseteq Sections /\ "idle" \notin Sections
  BY DEF Sections
<1>4. \A a \in Attempts : a > Len(begun') => intents'[a] = 0
  BY <1>1 DEF PromiseInv
<1>5. \A q \in Processes :
         /\ pc'[q] \in Sections => Leads(disk', mem'[q])
         /\ pc'[q] \in {"read", "recheck"} => ~Settled(mem'[q])
         /\ pc'[q] # "begun"
  BY <1>2, <1>3
<1> QED
  <2>1. KeepsPromise
    BY <1>1, LeadingStep
  <2>2. PromiseInv'
    BY <1>4, <1>5 DEF PromiseInv, Leads
  <2> QED BY <2>1, <2>2

LEMMA EndPromise ==
    ASSUME TypeInv, LiveInv, PromiseInv, NEW p \in Processes, pc[p] # "idle",
           UNCHANGED ghosts, NEW ds, Leads(disk, ds), End(p, ds)
    PROVE  PromiseInv' /\ KeepsPromise
<1>1. pc'[p] = "idle" /\ disk' = ds /\ \A q \in Processes \ {p} : pc'[q] = pc[q]
  BY DEF End, Exit, TypeInv, TypeOK
<1>2. pc'[p] \notin Sections /\ pc'[p] \notin {"read", "recheck", "begun"}
  BY <1>1 DEF Sections
<1> QED BY <1>1, <1>2, RecordPromise

LEMMA ConcludePromise ==
    ASSUME TypeInv, LiveInv, PromiseInv, NEW p \in Processes, pc[p] \in Sections,
           UNCHANGED ghosts, NEW ds, Leads(mem[p], ds), End(p, ds) \/ Conclude(p, ds)
    PROVE  PromiseInv' /\ KeepsPromise
<1>1. Leads(disk, ds) /\ Leads(disk, disk) /\ pc[p] # "idle"
  BY LeadsFurther DEF PromiseInv, Sections
<1>2. CASE End(p, ds)
  BY <1>1, <1>2, EndPromise
<1>3. CASE Continue(p, "observed", ds) /\ UNCHANGED disk
  <2>1. mem'[p] = ds /\ pc'[p] = "observed" /\ \A q \in Processes \ {p} : pc'[q] = pc[q]
    BY <1>3 DEF Continue, TypeInv, TypeOK
  <2>2. Leads(disk, disk') /\ Leads(disk', ds)
    BY <1>1, <1>3
  <2> QED BY <1>1, <2>1, <2>2, RecordPromise
<1> QED BY <1>2, <1>3 DEF Conclude

LEMMA GoesOnPromise ==
    ASSUME TypeInv, LiveInv, PromiseInv, NEW p \in Processes, pc[p] \in Sections,
           UNCHANGED ghosts, NEW saved, Leads(mem[p], saved), disk' \in {disk, saved},
           NEW ds, Leads(saved, ds), NEW label, Continue(p, label, ds), label # "begun",
           label \in {"read", "recheck"} => ~Settled(ds)
    PROVE  PromiseInv' /\ KeepsPromise
<1>1. Leads(disk, saved) /\ Leads(disk, ds) /\ Leads(disk, disk) /\ pc[p] # "idle"
  BY LeadsFurther DEF PromiseInv, Sections
<1>2. mem'[p] = ds /\ pc'[p] = label /\ \A q \in Processes \ {p} : pc'[q] = pc[q]
  BY DEF Continue, TypeInv, TypeOK
<1>3. Leads(disk, disk') /\ Leads(disk', ds)
  BY <1>1
<1> QED BY <1>1, <1>2, <1>3, RecordPromise

\* What is observed has not settled, so its steps are progress or none.
LEMMA ObservePromise ==
    ASSUME TypeInv, LiveInv, FinishedInv, PromiseInv, NEW p \in Processes,
           GateNewWork(p) \/ Observe(p)
    PROVE  PromiseInv' /\ KeepsPromise
<1> DEFINE cs == mem[p]
           approval == cfg[p].approval
<1>1. pc[p] \in Sections /\ UNCHANGED ghosts
  BY DEF GateNewWork, Observe, StopUnsettled, ObservationExhausted, CountObservation,
         ProbeWorker, LookupReferences, ReadPullRequests, RecheckActive,
         ObservationTimeout, Sections
<1>2. cs \in CycleStates /\ pc[p] # "idle" /\ Leads(disk, cs)
  BY <1>1, InSection DEF PromiseInv
<1>3. pc[p] \in {"probe", "lookup", "read", "recheck"} => ~Settled(cs)
  BY DEF FinishedInv, Busy, Pending, Settled, PromiseInv
<1> HIDE DEF cs
<1>4. Leads(cs, cs) /\ Leads(cs, Park(cs)) /\ Leads(cs, Counted(cs))
  BY <1>2, ParkLeads, LeadsFurther
<1>5. ~Settled(cs) => \A reason : Leads(cs, Fail(cs, reason))
  BY <1>2, FailLeads
<1>6. ASSUME NEW ds, Leads(cs, ds), End(p, ds) \/ Conclude(p, ds)
      PROVE  PromiseInv' /\ KeepsPromise
  BY <1>1, <1>6, ConcludePromise DEF cs
<1>7. CASE GateNewWork(p)
  <2>1. CASE End(p, Park(cs))
    BY <1>4, <1>6, <2>1
  <2>2. CASE disk' = cs /\ Continue(p, "refresh", EmptyCycle)
    <3>1. pc'[p] = "refresh" /\ \A q \in Processes \ {p} : pc'[q] = pc[q]
      BY <2>2 DEF Continue, TypeInv, TypeOK
    <3>2. pc'[p] \notin Sections /\ pc'[p] \notin {"read", "recheck", "begun"}
      BY <3>1 DEF Sections
    <3>3. Leads(disk, disk')
      BY <1>2, <2>2
    <3> QED BY <1>1, <1>2, <3>1, <3>2, <3>3, RecordPromise
  <2> QED BY <1>7, <2>1, <2>2 DEF GateNewWork, cs
<1>8. CASE StopUnsettled(p) \/ ObservationExhausted(p)
  BY <1>4, <1>5, <1>6, <1>8 DEF StopUnsettled, ObservationExhausted, cs
<1>9. CASE CountObservation(p)
  <2>1. ~Settled(cs)
    BY <1>9 DEF CountObservation, cs
  <2>2. Counted(cs) \in CycleStates /\ Like(cs, Counted(cs))
    BY <1>2, CountedType, RecordedLike
  <2>3. ~Settled(Counted(cs))
    <3>1. Counted(cs).failure = cs.failure
      BY <1>2 DEF Counted, CycleStates
    <3> QED BY <2>1, <2>2, <3>1, LikeLeads
  <2>4. /\ \A reason : Leads(Counted(cs), Fail(Counted(cs), reason))
        /\ Leads(Counted(cs), Counted(cs))
    BY <2>2, <2>3, FailLeads, LeadsFurther
  <2>5. PICK label \in {"probe", "lookup", "observed"},
             ds \in {Counted(cs), Fail(Counted(cs), "unsettled-reservation"),
                    Fail(Counted(cs), "dispatch-outcome-unknown")} :
           disk' = Counted(cs) /\ Continue(p, label, ds)
    BY <1>9 DEF CountObservation, cs
  <2>6. Leads(Counted(cs), ds) /\ label \notin {"begun", "read", "recheck"}
    BY <2>4
  <2>7. Leads(mem[p], Counted(cs))
    BY <1>4 DEF cs
  <2> QED BY <1>1, <2>5, <2>6, <2>7, GoesOnPromise
<1>10. CASE ProbeWorker(p) \/ ObservationTimeout(p)
  <2>1. PICK label \in {"lookup", "observed"}, ds \in {cs, Park(cs)} :
           Continue(p, label, ds) /\ UNCHANGED disk
    BY <1>10 DEF ProbeWorker, ObservationTimeout, cs
  <2>2. Leads(cs, ds) /\ label \notin {"begun", "read", "recheck"}
    BY <1>4
  <2> QED BY <1>1, <1>4, <2>1, <2>2, GoesOnPromise DEF cs
<1>11. CASE LookupReferences(p)
  <2> DEFINE found == WithReferences(cs, opened[cs.lease.id])
  <2>1. ~Settled(cs) /\ Pending(cs)
    BY <1>3, <1>11 DEF LookupReferences, FinishedInv, Busy, cs
  <2>2. SameAttempt(cs, found) /\ KeepsFailure(cs, found)
    BY <1>2, RecordedOnly, RecordedKeeps DEF KeepsRecord
  <2>3. found \in CycleStates
    <3>1. cs.lease.id \in Attempts
      BY <1>2, <2>1, LeaseId DEF Pending
    <3> QED BY <1>2, <3>1, WithReferencesType DEF TypeInv, TypeOK
  <2> HIDE DEF found
  <2>4. Leads(cs, found) /\ ~Settled(found)
    <3>1. Leads(cs, found)
      BY <2>1, <2>2, UnsettledLeads DEF SameAttempt
    <3>2. ~Settled(found)
      BY <2>1, <2>2 DEF Pending, SameAttempt, Settled, Disposed
    <3> QED BY <3>1, <3>2
  <2>5. ASSUME NEW ds \in CycleStates, ~Settled(ds)
        PROVE  Leads(ds, Replayed(ds)) /\ (Pending(ds) => ~Settled(Replayed(ds)))
    <3>1. SameAttempt(ds, Replayed(ds)) /\ KeepsFailure(ds, Replayed(ds))
      BY ReplayedOnly, ReplayedKeeps DEF KeepsRecord
    <3>2. Leads(ds, Replayed(ds))
      BY <2>5, <3>1, UnsettledLeads DEF SameAttempt
    <3>3. Pending(ds) => ~Settled(Replayed(ds))
      BY <3>1 DEF Pending, SameAttempt, Settled, Disposed
    <3> QED BY <3>2, <3>3
  <2>6. Pending(found)
    BY <2>1, <2>2 DEF Pending, SameAttempt, Disposed
  <2>7. /\ Leads(cs, Replayed(found)) /\ ~Settled(Replayed(found))
        /\ Leads(cs, Replayed(cs))
    BY <1>2, <2>1, <2>3, <2>4, <2>5, <2>6, LeadsFurther
  <2>8. \/ \E ds \in {found, Replayed(found)} : Continue(p, "read", ds) /\ UNCHANGED disk
        \/ \E ds \in {found, cs} : End(p, ds)
        \/ \E ds \in {Replayed(cs), Park(cs)} : Conclude(p, ds)
    BY <1>11 DEF LookupReferences, Keeps, cs, found
  <2>9. CASE \E ds \in {found, Replayed(found)} : Continue(p, "read", ds) /\ UNCHANGED disk
    <3>1. PICK ds \in {found, Replayed(found)} : Continue(p, "read", ds) /\ UNCHANGED disk
      BY <2>9
    <3>2. Leads(cs, ds) /\ ~Settled(ds)
      BY <2>4, <2>7
    <3> QED BY <1>1, <1>4, <3>1, <3>2, GoesOnPromise DEF cs
  <2> QED BY <1>4, <1>6, <2>4, <2>7, <2>8, <2>9
<1>12. CASE ReadPullRequests(p)
  <2> DEFINE isOpen == open[cs.lease.id]
             verdict == Verdict(cs, approval, isOpen)
             replayed == ReplayVerdict(cs, approval)
  <2>1. ~Settled(cs)
    BY <1>3, <1>12 DEF ReadPullRequests
  <2>2. Leads(cs, verdict)
    <3>1. verdict.lease = cs.lease /\ verdict.disposed = cs.disposed
      BY <1>2 DEF Verdict, Fail, Park, CycleStates
    <3>2. KeepsFailure(cs, verdict)
      BY <1>2, VerdictKeepsFailure
    <3> HIDE DEF verdict
    <3> QED BY <2>1, <3>1, <3>2, UnsettledLeads
  <2>3. Leads(cs, replayed)
    <3>1. SameAttempt(cs, replayed) /\ KeepsFailure(cs, replayed)
      BY <1>2, ReplayedOnly, ReplayedKeeps DEF KeepsRecord
    <3> HIDE DEF replayed
    <3> QED BY <2>1, <3>1, UnsettledLeads DEF SameAttempt
  <2>4. /\ cs.dispatch.prs \cap isOpen # {}
        /\ ScopeFailure(cs, approval) # "authority-scope-exceeded"
        => ~Settled(verdict)
    <3> SUFFICES ASSUME cs.dispatch.prs \cap isOpen # {},
                        ScopeFailure(cs, approval) # "authority-scope-exceeded"
                 PROVE  ~Settled(verdict)
      OBVIOUS
    <3>1. verdict = [cs EXCEPT !.observations = 0]
      BY DEF Verdict
    <3>2. Like(cs, verdict) /\ verdict.failure = cs.failure
      BY <1>2, <3>1 DEF Like, SameAttempt, KeepsFailure, CycleStates
    <3> HIDE DEF verdict
    <3> QED BY <2>1, <3>2, LikeLeads
  <2>5. \/ \E ds \in {Park(cs), replayed, verdict} : Conclude(p, ds)
        \/ /\ cs.dispatch.prs \cap isOpen # {}
           /\ ScopeFailure(cs, approval) # "authority-scope-exceeded"
           /\ Continue(p, "recheck", verdict) /\ UNCHANGED disk
    BY <1>12 DEF ReadPullRequests, cs
  <2> HIDE DEF verdict, replayed, isOpen, approval
  <2> QED BY <1>1, <1>4, <1>6, <2>2, <2>3, <2>4, <2>5, GoesOnPromise DEF cs
<1>13. CASE RecheckActive(p)
  <2>1. \E ds \in {cs, Park(cs), Fail(cs, "authority-expired"), Fail(cs, "authority-refused")} :
           Conclude(p, ds)
    BY <1>13 DEF RecheckActive, cs
  <2>2. ~Settled(cs)
    BY <1>3, <1>13 DEF RecheckActive
  <2> QED BY <1>4, <1>5, <1>6, <2>1, <2>2
<1> QED BY <1>7, <1>8, <1>9, <1>10, <1>11, <1>12, <1>13 DEF Observe

LEMMA StartOrRefreshPromise ==
    ASSUME TypeInv, LiveInv, PromiseInv, NEW p \in Processes, StartRun(p) \/ Refresh(p)
    PROVE  PromiseInv' /\ KeepsPromise
<1>1. UNCHANGED ghosts /\ (pc[p] # "idle" \/ CycleLockFree) /\ disk \in CycleStates
  BY DEF StartRun, Refresh, ScanLoad, ScanSave, RefreshRefused, Relock, Unlocked,
         TypeInv, TypeOK
<1>2. Leads(disk, disk) /\ Leads(disk, Park(disk))
  BY <1>1, ParkLeads, LeadsFurther
<1>3. CASE \E label \in {"gate", "scanning", "scanned", "select"}, cs \in CycleStates :
             /\ Continue(p, label, cs) /\ disk' = disk
             /\ label \in {"gate", "select"} => cs = disk
  <2>1. PICK label \in {"gate", "scanning", "scanned", "select"}, cs \in CycleStates :
             /\ Continue(p, label, cs) /\ disk' = disk
             /\ label \in {"gate", "select"} => cs = disk
    BY <1>3
  <2>2. pc'[p] = label /\ mem'[p] = cs /\ \A q \in Processes \ {p} : pc'[q] = pc[q]
    BY <2>1 DEF Continue, TypeInv, TypeOK
  <2>3. /\ pc'[p] \in Sections => mem'[p] = cs /\ Leads(disk', cs)
        /\ pc'[p] \notin {"read", "recheck", "begun"} /\ Leads(disk, disk')
    BY <1>2, <2>1, <2>2 DEF Sections
  <2> QED BY <1>1, <2>2, <2>3, RecordPromise
<1>4. CASE pc[p] # "idle" /\ End(p, Park(disk))
  BY <1>1, <1>2, <1>4, EndPromise
<1>5. CASE ScanSave(p)
  <2>1. mem[p] = disk
    BY <1>5 DEF ScanSave, LiveInv, RunOK, CopyIsCurrent
  <2> QED BY <1>3, <1>5, <2>1, EmptyCycleType DEF ScanSave
<1> QED BY <1>1, <1>3, <1>4, <1>5
        DEF StartRun, Refresh, ScanLoad, RefreshRefused, Relock, Unlocked

LEMMA WindowBound ==
    ASSUME NEW t \in 0..MaxTime
    PROVE  Window(t) \in 0..MaxTime
<1>1. t \in Nat /\ Window(t) \in Nat /\ MaxTime \in Nat
  BY EnvironmentAssumption, WindowType
<1>2. Window(t) <= t
  BY <1>1, ConfigAssumption DEF Window
<1> QED BY <1>1, <1>2

\* A lease is OneRepair's: nothing is active, and its window is new.
LEMMA BeginPromise ==
    ASSUME TypeInv, LiveInv, LeaseInv, PromiseInv, NEW p \in Processes, BeginAttempt(p)
    PROVE  PromiseInv' /\ KeepsPromise
<1> DEFINE w == Window(stamp[p])
           n == Len(begun)
           leased == Begin(disk, FreshId, stamp[p])
<1>1. /\ mem[p] = disk /\ CanBegin(disk, stamp[p]) /\ FreshId = n + 1 /\ FreshId \in Attempts
      /\ disk' = leased /\ Continue(p, "begun", leased)
      /\ begun' = Append(begun, w) /\ intents' = intents
      /\ disk \in CycleStates /\ begun \in Seq(Nat) /\ n \in Nat
  BY DEF BeginAttempt, LiveInv, RunOK, CopyIsCurrent, TypeInv, TypeOK, FreshId
<1>2. w \in 0..MaxTime /\ w \in Nat
  BY WindowBound, EnvironmentAssumption DEF TypeInv, TypeOK
<1>3. /\ leased.lease.id = n + 1 /\ leased.dispatch = NoDispatch
      /\ leased.receipt = "none" /\ leased.failure = "none"
      /\ leased.disposed = NoAttempt
      /\ leased.reservedCost = 0 /\ leased.reservedCalls = 0
  BY <1>1 DEF Begin, EmptyCycle, NewLease
<1> HIDE DEF leased, w
<1>4. Len(begun') = n + 1 /\ begun' # <<>> /\ begun'[n + 1] = w
      /\ DOMAIN begun' = 1..(n + 1) /\ \A i \in 1..n : begun'[i] = begun[i]
  BY <1>1, <1>2
<1>5. n + 1 \in Attempts /\ intents[n + 1] = 0
  BY <1>1 DEF PromiseInv, Attempts
<1>6. JustLeased(disk)'
  BY <1>1, <1>3, <1>4, <1>5 DEF JustLeased, Reserved, NoAttempt
<1>7. PromiseInv'
  <2>1. pc'[p] = "begun" /\ mem'[p] = leased /\ \A q \in Processes \ {p} : pc'[q] = "idle"
    BY <1>1 DEF Continue, BeginAttempt, LiveInv, OneAtATime, TypeInv, TypeOK
  <2>2. Leads(disk', leased)
    BY <1>1, LeadsFurther
  <2>3. \A a \in Attempts : a > Len(begun') => intents'[a] = 0
    BY <1>1, <1>4 DEF PromiseInv, Attempts
  <2>4. ASSUME NEW q \in Processes
        PROVE  /\ pc'[q] \in Sections => Leads(disk', mem'[q])
               /\ pc'[q] \notin {"read", "recheck"}
               /\ pc'[q] = "begun" => JustLeased(mem[q])'
    BY <1>1, <1>6, <2>1, <2>2 DEF Sections, JustLeased
  <2> QED BY <2>3, <2>4 DEF PromiseInv, Leads
<1>8. StateOf(disk) = "free"
  BY <1>1 DEF CanBegin, MayReplaceLease, StateOf, Settled, AwaitingDisposition
<1>9. StateOf(leased) = "free" /\ ~Disposed(leased)
  BY <1>1, <1>3 DEF StateOf, Settled, Disposed, AwaitingDisposition, ReportedActive, Reserved,
                    NoDispatch, NoAttempt
<1>10. RepairState = StateOf(disk) /\ RepairState' = StateOf(disk')
  BY DEF RepairState, StateOf
<1>11. \A i \in 1..n : begun[i] # w
  <2>1. WindowsRise'
    BY LeaseTaken DEF LeaseInv
  <2>2. \A i \in 1..n : i \in DOMAIN begun' /\ n + 1 \in DOMAIN begun' /\ i < n + 1
    BY <1>1, <1>4
  <2>3. \A i \in 1..n : begun'[i] < begun'[n + 1]
    BY <2>1, <2>2 DEF WindowsRise
  <2>4. \A i \in 1..n : begun[i] \in Nat
    BY <1>1
  <2> QED BY <1>2, <1>4, <2>3, <2>4
<1>12. Promise!LeaseAttempt(w)
  BY <1>1, <1>4, <1>5, <1>8, <1>9, <1>10, <1>11 DEF Promise!LeaseAttempt
<1> QED BY <1>2, <1>7, <1>12 DEF KeepsPromise, Promise!OneNext

\* Of one lease only one intent is recorded, and while nothing is active.
LEMMA IntentPromise ==
    ASSUME TypeInv, LiveInv, PromiseInv, NEW p \in Processes, RecordIntent(p)
    PROVE  PromiseInv' /\ KeepsPromise
<1> DEFINE n == Len(begun)
           intended == Intended(disk)
<1>1. /\ mem[p] = disk /\ CanAdmit(disk) /\ disk' = intended
      /\ Continue(p, "launch", intended) /\ begun' = begun
      /\ intents' = [intents EXCEPT ![disk.lease.id] = @ + 1]
      /\ disk \in CycleStates /\ n \in Nat /\ JustLeased(disk)
  <2>1. mem[p] = disk
    BY DEF RecordIntent, LiveInv, RunOK, CopyIsCurrent
  <2>2. JustLeased(disk)
    BY <2>1 DEF RecordIntent, PromiseInv
  <2>3. disk \in CycleStates /\ n \in Nat
    BY DEF TypeInv, TypeOK
  <2> QED BY <2>1, <2>2, <2>3 DEF RecordIntent
<1>2. /\ intended.lease = disk.lease /\ intended.disposed = disk.disposed
      /\ intended.receipt = disk.receipt /\ intended.failure = disk.failure
      /\ intended.dispatch = [NoDispatch EXCEPT !.phase = "intent"]
  <2>1. Admit(disk) \in CycleStates
    BY <1>1, AdmitType
  <2> QED BY <1>1, <2>1 DEF Intended, Admit, CycleStates
<1>3. intended.dispatch.phase = "intent"
  BY <1>2 DEF NoDispatch
<1> HIDE DEF intended
<1>4. n \in Attempts /\ intents'[n] = 1 /\ intents[n] = 0 /\ begun # <<>>
      /\ \A a \in Attempts : a # n => intents'[a] = intents[a]
  <2>1. disk.lease.id = n /\ intents[n] = 0 /\ n \in Attempts /\ n # 0
    BY <1>1, LeaseId DEF JustLeased, NoAttempt
  <2>2. intents \in [Attempts -> Nat] /\ begun # <<>>
    BY <2>1 DEF TypeInv, TypeOK
  <2> QED BY <1>1, <2>1, <2>2
<1>5. StateOf(disk) = "free" /\ ~Disposed(disk)
  BY <1>1 DEF JustLeased, StateOf, Settled, Disposed, AwaitingDisposition, ReportedActive,
              NoDispatch
<1>6. StateOf(intended) = "active" /\ ~Disposed(intended)
  BY <1>1, <1>2, <1>3 DEF JustLeased, StateOf, Settled, Disposed
<1>7. RepairState = StateOf(disk) /\ RepairState' = StateOf(disk')
  BY DEF RepairState, StateOf
<1>8. Promise!DispatchOnce
  <2>1. Disposed(disk') = Disposed(disk) /\ disk' = intended
    BY <1>1, <1>5, <1>6 DEF Disposed
  <2>2. Len(begun') = n
    BY <1>1
  <2> QED BY <1>1, <1>4, <1>5, <1>6, <1>7, <2>1, <2>2 DEF Promise!DispatchOnce
<1>9. PromiseInv'
  <2>1. pc'[p] = "launch" /\ mem'[p] = intended
        /\ \A q \in Processes \ {p} : pc'[q] = "idle"
    BY <1>1 DEF Continue, RecordIntent, LiveInv, OneAtATime, TypeInv, TypeOK
  <2>2. Leads(disk', intended)
    BY <1>1, LeadsFurther
  <2>3. \A a \in Attempts : a > Len(begun') => intents'[a] = 0
    BY <1>1, <1>4 DEF PromiseInv, Attempts
  <2>4. ASSUME NEW q \in Processes
        PROVE  /\ pc'[q] \in Sections => Leads(disk', mem'[q])
               /\ pc'[q] \notin {"read", "recheck", "begun"}
    BY <2>1, <2>2 DEF Sections
  <2> QED BY <2>3, <2>4 DEF PromiseInv, Leads
<1> QED BY <1>8, <1>9 DEF KeepsPromise, Promise!OneNext

LEMMA RefusedPromise ==
    ASSUME TypeInv, LiveInv, PromiseInv, NEW p \in Processes, DispatchRefused(p)
    PROVE  PromiseInv' /\ KeepsPromise
<1>1. /\ mem[p] = disk /\ disk \in CycleStates /\ JustLeased(disk) /\ pc[p] # "idle"
      /\ UNCHANGED ghosts
  BY DEF DispatchRefused, LiveInv, RunOK, CopyIsCurrent, TypeInv, TypeOK, PromiseInv
<1>2. CASE End(p, Park(disk))
  BY <1>1, <1>2, ParkLeads, EndPromise
<1>3. CASE End(p, Fail(disk, "runtime-exhausted"))
  <2> DEFINE failed == Fail(disk, "runtime-exhausted")
  <2>1. Like(disk, failed) /\ failed.failure = "runtime-exhausted"
    BY <1>1, RecordedLike DEF JustLeased, Fail, Park, CycleStates
  <2>2. disk' = failed /\ pc'[p] = "idle" /\ \A q \in Processes \ {p} : pc'[q] = "idle"
    BY <1>1, <1>3 DEF End, Exit, LiveInv, OneAtATime, TypeInv, TypeOK
  <2> HIDE DEF failed
  <2>3. StateOf(disk) = "free" /\ ~Disposed(disk)
    BY <1>1 DEF JustLeased, StateOf, Settled, Disposed, AwaitingDisposition, ReportedActive,
                NoDispatch
  <2>4. StateOf(failed) = "blocked" /\ ~Disposed(failed)
    BY <1>1, <2>1 DEF Like, SameAttempt, JustLeased, StateOf, Settled, Disposed,
                      AwaitingDisposition, ReportedActive, Reserved, NoDispatch
  <2>5. RepairState = StateOf(disk) /\ RepairState' = StateOf(disk')
    BY DEF RepairState, StateOf
  <2>6. begun' = begun /\ intents' = intents /\ begun # <<>> /\ intents[Len(begun)] = 0
    BY <1>1 DEF ghosts, JustLeased, NoAttempt, TypeInv, TypeOK
  <2>7. KeepsPromise
    <3>1. Disposed(disk') = Disposed(disk)
      BY <2>2, <2>3, <2>4 DEF Disposed
    <3>2. Promise!FailUndispatched
      BY <2>2, <2>3, <2>4, <2>5, <2>6, <3>1 DEF Promise!FailUndispatched
    <3> QED BY <3>2 DEF KeepsPromise, Promise!OneNext
  <2>8. \A q \in Processes : pc'[q] = "idle"
    BY <2>2
  <2>9. PromiseInv'
    BY <2>6, <2>8 DEF PromiseInv, Sections
  <2> QED BY <2>7, <2>9
<1> QED BY <1>1, <1>2, <1>3 DEF DispatchRefused

LEMMA DispatchPromise ==
    ASSUME TypeInv, LiveInv, LeaseInv, FinishedInv, PromiseInv,
           NEW p \in Processes, Dispatch(p)
    PROVE  PromiseInv' /\ KeepsPromise
<1> DEFINE cs == mem[p]
<1>1. pc[p] \in Sections
  BY DEF Dispatch, SelectNothing, BeginAttempt, DispatchRefused, RecordIntent,
         HostParked, HostLaunch, HostReturn, Sections
<1>2. cs \in CycleStates /\ pc[p] # "idle"
  BY <1>1, InSection
<1>3. pc[p] \in {"launch", "running"} => ~Settled(cs) /\ Pending(cs)
  BY DEF FinishedInv, Busy, Pending, Settled
<1> HIDE DEF cs
<1>4. CASE SelectNothing(p)
  <2>1. \E ds \in {NoOp(cs), Park(cs)} : End(p, ds)
    BY <1>4 DEF SelectNothing, cs
  <2>2. UNCHANGED ghosts
    BY <1>4 DEF SelectNothing
  <2> QED BY <1>1, <1>2, <2>1, <2>2, ParkLeads, ConcludePromise DEF cs
<1>5. CASE HostParked(p)
  <2> DEFINE charged == Settle(cs, 0, 0)
             parked == Park([charged EXCEPT !.dispatch = NoDispatch])
  <2>1. charged \in CycleStates
    BY <1>2, SettleType
  <2>2. /\ charged.lease = cs.lease /\ charged.disposed = cs.disposed
        /\ charged.failure = cs.failure
    BY <1>2 DEF Settle, CycleStates
  <2> HIDE DEF charged
  <2>3. /\ parked.lease = cs.lease /\ parked.disposed = cs.disposed
        /\ parked.failure = cs.failure
    BY <2>1, <2>2 DEF Park, CycleStates
  <2>4. End(p, parked) /\ UNCHANGED ghosts /\ ~Settled(cs)
    BY <1>3, <1>5 DEF HostParked, cs, charged
  <2> HIDE DEF parked
  <2>5. Leads(cs, parked)
    BY <2>3, <2>4, UnsettledLeads DEF KeepsFailure
  <2> QED BY <1>1, <2>4, <2>5, ConcludePromise DEF cs
<1>6. CASE HostLaunch(p)
  <2>1. Continue(p, "running", cs) /\ disk' = disk /\ UNCHANGED ghosts
    BY <1>6 DEF HostLaunch, cs
  <2>2. Leads(cs, cs)
    BY LeadsFurther
  <2> QED BY <1>1, <2>1, <2>2, GoesOnPromise DEF cs
<1>7. CASE HostReturn(p)
  <2>1. PICK exit \in {"completed", "failed", "call-limit", "timeout"},
             cost \in MeasuredCosts, calls \in MeasuredCalls, outcome \in Outcomes :
           /\ disk' = Returned(cs, outcome, exit, cost, calls)
           /\ Continue(p, "lookup", disk')
           /\ exit = "call-limit" => calls > cs.reservedCalls
    BY <1>7 DEF HostReturn, Outcomes, cs
  <2>2. disk'.lease = cs.lease /\ disk'.disposed = cs.disposed
    BY <1>2, <2>1, ReturnedSays
  <2>3. KeepsFailure(cs, disk')
    BY <1>2, <2>1 DEF Returned, Charged, Settle, Fail, Park, KeepsFailure, CycleStates
  <2>4. Leads(cs, disk') /\ Leads(disk', disk') /\ UNCHANGED ghosts
    BY <1>3, <1>7, <2>2, <2>3, UnsettledLeads, LeadsFurther DEF HostReturn
  <2> QED BY <1>1, <2>1, <2>4, GoesOnPromise DEF cs
<1> QED BY <1>4, <1>5, <1>6, <1>7, BeginPromise, IntentPromise, RefusedPromise DEF Dispatch

\* Only the operator ends a failed attempt, and it stays ended.
LEMMA DisposePromise ==
    ASSUME TypeInv, LiveInv, PromiseInv, NEW p \in Processes, NEW id \in Attempts,
           NEW confirmed \in BOOLEAN, DisposeAttempt(p, id, confirmed)
    PROVE  PromiseInv' /\ KeepsPromise
<1>1. /\ disk' = Dispose(disk) /\ pc' = pc /\ begun' = begun /\ intents' = intents
      /\ CycleLockFree /\ disk \in CycleStates
      /\ disk.lease.id = id /\ disk.failure # "none" /\ id # NoAttempt
  BY DEF DisposeAttempt, CanDispose, ghosts, TypeInv, TypeOK, Attempts, NoAttempt
<1>2. \A q \in Processes : pc'[q] = "idle"
  BY <1>1 DEF CycleLockFree
<1>3. PromiseInv'
  BY <1>1, <1>2 DEF PromiseInv, Sections
<1>4. CASE Disposed(disk)
  <2>1. disk' = disk
    BY <1>1, <1>4 DEF Dispose, Disposed, CycleStates
  <2> QED BY <1>1, <1>3, <2>1, LeadsFurther, LeadingStep
<1>5. CASE ~Disposed(disk)
  <2>1. Disposed(disk')
    BY <1>1 DEF Dispose, Disposed, CycleStates
  <2>2. StateOf(disk) \in {"active", "failing", "blocked"} /\ StateOf(disk) # "active"
    BY <1>1, <1>5 DEF StateOf, AwaitingDisposition
  <2>3. StateOf(disk') = "free"
    BY <2>1 DEF StateOf, Settled, AwaitingDisposition
  <2>4. RepairState = StateOf(disk) /\ RepairState' = StateOf(disk')
    BY DEF RepairState, StateOf
  <2>5. Disposed(disk)' = TRUE
    BY <2>1
  <2>6. Promise!DisposeFailed
    BY <1>1, <2>2, <2>3, <2>4, <2>5 DEF Promise!DisposeFailed
  <2> QED BY <1>3, <2>6 DEF KeepsPromise, Promise!OneNext
<1> QED BY <1>4, <1>5

LEMMA CrashPromise ==
    ASSUME TypeInv, LiveInv, PromiseInv, NEW p \in Processes, Crash(p)
    PROVE  PromiseInv' /\ KeepsPromise
<1>1. disk' = disk /\ pc[p] # "idle" /\ UNCHANGED ghosts
  BY DEF Crash
<1>2. pc'[p] = "idle" /\ \A q \in Processes \ {p} : pc'[q] = pc[q]
  BY DEF Crash, Exit, TypeInv, TypeOK
<1>3. pc'[p] \notin Sections /\ pc'[p] \notin {"read", "recheck", "begun"}
  BY <1>2 DEF Sections
<1>4. Leads(disk, disk')
  BY <1>1, LeadsFurther
<1> QED BY <1>1, <1>2, <1>3, <1>4, RecordPromise

LEMMA NextPromise ==
    ASSUME TypeInv, LiveInv, LeaseInv, FinishedInv, PromiseInv, ~ForeignScans, [Next]_vars
    PROVE  PromiseInv' /\ KeepsPromise
<1>1. ASSUME NEW p \in Processes, StartRun(p) \/ Run(p) \/ Crash(p) \/ Operator(p)
      PROVE  PromiseInv' /\ KeepsPromise
  <2>1. CASE Operator(p)
    BY <2>1, DisposePromise DEF Operator
  <2> QED BY <1>1, <2>1, ObservePromise, StartOrRefreshPromise, DispatchPromise, CrashPromise
          DEF Run
<1>2. CASE Environment \/ UNCHANGED vars
  <2>1. UNCHANGED <<disk, pc, mem, begun, intents>>
    BY <1>2 DEF Environment, Worker, Reviewer, HostExit, OpenPullRequest, ClosePullRequest,
                ForeignScanLoad, ForeignScanSave, Configure, Tick, LiveInv, command, ghosts,
                vars
  <2>2. PromiseInv'
    BY <2>1 DEF PromiseInv, JustLeased
  <2>3. Leads(disk, disk')
    BY <2>1, LeadsFurther
  <2> QED BY <2>1, <2>2, <2>3, LeadingStep
<1> QED BY <1>1, <1>2 DEF Next

LEMMA InitPromise == Init => PromiseInv /\ Promise!OneInit
<1> SUFFICES ASSUME Init PROVE PromiseInv /\ Promise!OneInit
  OBVIOUS
<1>1. \A p \in Processes : pc[p] = "idle"
  BY DEF Init
<1>2. RepairState = StateOf(disk)
  BY DEF RepairState, StateOf
<1>3. CASE FreshStart
  <2>1. disk = EmptyCycle /\ begun = <<>> /\ intents = [a \in Attempts |-> 0]
    BY <1>3 DEF FreshStart
  <2>2. EmptyCycle.lease.id = NoAttempt
    BY DEF EmptyCycle, NoLease
  <2>3. StateOf(disk) = "free" /\ Disposed(disk) = FALSE
    BY <2>1, <2>2 DEF StateOf, Settled, AwaitingDisposition, Disposed
  <2>4. PromiseInv
    BY <1>1, <2>1 DEF PromiseInv, Sections
  <2> QED BY <1>2, <2>1, <2>3, <2>4 DEF Promise!OneInit
<1>4. CASE LegacyStart
  <2>1. /\ disk \in LegacyCycles /\ begun = <<0>>
        /\ intents = [a \in Attempts |-> IF a = 1 THEN 1 ELSE 0]
    BY <1>4 DEF LegacyStart
  <2>2. disk.failure = "none" /\ disk.disposed = NoAttempt /\ disk.lease.id = 1
    <3>1. /\ EmptyCycle.failure = "none" /\ EmptyCycle.disposed = NoAttempt
          /\ LegacyLease.id = 1
      BY DEF EmptyCycle, LegacyLease
    <3>2. CASE \E receipt \in {"none", "active"} :
                  disk = [EmptyCycle EXCEPT !.lease = LegacyLease, !.receipt = receipt,
                             !.dispatch = [NoDispatch EXCEPT !.phase = "unknown"]]
      <4>1. disk.lease = LegacyLease
        BY <3>2 DEF EmptyCycle
      <4>2. disk.failure = "none"
        BY <3>2 DEF EmptyCycle
      <4>3. disk.disposed = NoAttempt
        BY <3>2 DEF EmptyCycle
      <4> QED BY <3>1, <4>1, <4>2, <4>3
    <3>3. CASE \E receipt \in {"active", "terminal"} :
                  disk = [EmptyCycle EXCEPT !.lease = LegacyLease, !.receipt = receipt]
      <4>1. disk.lease = LegacyLease
        BY <3>3 DEF EmptyCycle
      <4>2. disk.failure = "none"
        BY <3>3 DEF EmptyCycle
      <4>3. disk.disposed = NoAttempt
        BY <3>3 DEF EmptyCycle
      <4> QED BY <3>1, <4>1, <4>2, <4>3
    <3> QED BY <2>1, <3>2, <3>3 DEF LegacyCycles
  <2>3. StateOf(disk) \in {"free", "active"} /\ Disposed(disk) = FALSE
    BY <2>2 DEF StateOf, AwaitingDisposition, Disposed, NoAttempt
  <2>4. begun # <<>> /\ Len(begun) = 1 /\ 1 \in Attempts /\ intents[1] = 1 /\ 0 \in 0..MaxTime
    BY <2>1, ConfigAssumption, EnvironmentAssumption DEF Attempts
  <2>5. PromiseInv
    BY <1>1, <2>1, <2>4 DEF PromiseInv, Sections, Attempts
  <2> QED BY <1>2, <2>1, <2>3, <2>4, <2>5 DEF Promise!OneInit
<1> QED BY <1>3, <1>4 DEF Init

\* Every run, kill and disposal is a step of OneRepair or none of it: attempts
\* come one after another, each in a new window, each dispatched at most once
\* while nothing else is active, and none past a failure that was not disposed
\* (README.md "at most one approved repair per window", ADR 0016).
THEOREM OneRepairCorrect == ASSUME ~ForeignScans PROVE Spec => ImplementsOneRepair
<1> DEFINE IInv == TypeInv /\ LiveInv /\ LeaseInv /\ FinishedInv /\ PromiseInv
<1>1. Init => IInv /\ Promise!OneInit
  BY InitType, InitLive, InitLease, InitFinished, InitPromise
<1>2. IInv /\ [Next]_vars => IInv' /\ KeepsPromise
  BY NextType, NextLive, NoLeaseTaken, LeaseTaken, NextFinishes, NextPromise
<1> HIDE DEF IInv
<1>3. IInv /\ [Next]_vars => IInv' /\ [Promise!OneNext]_(Promise!oneVars)
  BY <1>2 DEF KeepsPromise
<1> QED BY <1>1, <1>3, PTL DEF Spec, ImplementsOneRepair
=============================================================================
