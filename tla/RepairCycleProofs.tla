-------------------------- MODULE RepairCycleProofs -------------------------
(***************************************************************************)
(* Proofs about RepairCycle, for every value of its constants: what the    *)
(* operations of the scheduler record return, the type of the cycle's      *)
(* variables, what a launch rests on, and then, provided that no command   *)
(* outside the cycle lock rewrites the file: while a coding host runs, the *)
(* file holds its attempt as one that may be live, whatever was killed     *)
(* (LiveHostIsRecorded), it keeps that host's whole charge, and an         *)
(* attempt's first failure.                                                *)
(***************************************************************************)
EXTENDS RepairCycle, TLAPS

-----------------------------------------------------------------------------
(* The scheduler record: each operation returns a record of the same type. *)

\* The record of a checkout where the cycle never ran is well formed.
LEMMA EmptyCycleType == EmptyCycle \in CycleStates
BY DEF EmptyCycle, CycleStates, NoLease, Leases, NoAttempt, NoDispatch, Dispatches,
       Phases, Outcomes, Failures

LEMMA ParkType ==
    ASSUME NEW cs \in CycleStates
    PROVE  Park(cs) \in CycleStates
BY DEF Park, CycleStates

LEMMA NoOpType ==
    ASSUME NEW cs \in CycleStates
    PROVE  NoOp(cs) \in CycleStates
BY DEF NoOp, CycleStates

LEMMA FailType ==
    ASSUME NEW cs \in CycleStates, NEW reason \in Failures
    PROVE  Fail(cs, reason) \in CycleStates
BY DEF Fail, Park, CycleStates

LEMMA WindowType ==
    ASSUME NEW t \in Nat
    PROVE  Window(t) \in Nat
BY ConfigAssumption DEF Window

LEMMA NewLeaseType ==
    ASSUME NEW id \in Attempts, NEW t \in Nat
    PROVE  NewLease(id, t) \in Leases
BY WindowType, ConfigAssumption DEF NewLease, Leases

LEMMA ArchiveType ==
    ASSUME NEW cs \in CycleStates, cs.lease.id # NoAttempt
    PROVE  Archive(cs) \in Archived
<1>1. cs.lease \in Leases /\ cs.dispatch \in Dispatches /\ cs.failure \in Failures
  BY DEF CycleStates
<1>2. cs.lease.id \in Attempts /\ cs.dispatch.prs \in SUBSET PullRequests
  BY <1>1 DEF Leases, Dispatches
<1>3. Disposed(cs) \in BOOLEAN
  BY DEF Disposed
<1> QED BY <1>1, <1>2, <1>3 DEF Archive, Archived

LEMMA BeginType ==
    ASSUME NEW cs \in CycleStates, NEW id \in Attempts, NEW t \in Nat
    PROVE  Begin(cs, id, t) \in CycleStates
<1>1. NewLease(id, t) \in Leases
  BY NewLeaseType
<1>2. cs.history \in Seq(Archived)
  BY DEF CycleStates
<1> DEFINE history == IF cs.lease.id = NoAttempt THEN cs.history
                      ELSE Append(cs.history, Archive(cs))
<1>3. history \in Seq(Archived)
  BY <1>2, ArchiveType
<1>4. Begin(cs, id, t) = [EmptyCycle EXCEPT !.lease = NewLease(id, t),
                                            !.bound = TRUE, !.history = history]
  BY DEF Begin
<1> HIDE DEF history
<1> QED BY <1>1, <1>3, <1>4, EmptyCycleType DEF CycleStates

LEMMA AdmitType ==
    ASSUME NEW cs \in CycleStates, CanAdmit(cs)
    PROVE  Admit(cs) \in CycleStates
<1>1. /\ cs.consumedCost \in Nat /\ cs.consumedCalls \in Nat
      /\ cs.reservedCost \in Nat /\ cs.reservedCalls \in Nat
  BY DEF CycleStates
<1> DEFINE cost == cs.reservedCost + RemainingCost(cs)
           calls == cs.reservedCalls + RemainingCalls(cs)
<1>2. cost \in Nat /\ calls \in Nat
  BY <1>1, ConfigAssumption DEF CanAdmit, RemainingCost, RemainingCalls
<1>3. Admit(cs) = [cs EXCEPT !.reservedCost = cost, !.reservedCalls = calls]
  BY DEF Admit
<1> HIDE DEF cost, calls
<1> QED BY <1>2, <1>3 DEF CycleStates

LEMMA SettleType ==
    ASSUME NEW cs \in CycleStates, NEW cost \in Nat \cup {Unmeasured}, NEW calls \in Nat
    PROVE  Settle(cs, cost, calls) \in CycleStates
<1>1. /\ cs.consumedCost \in Nat /\ cs.consumedCalls \in Nat /\ cs.reservedCost \in Nat
  BY DEF CycleStates
<1> DEFINE spent == cs.consumedCost + (IF cost = Unmeasured THEN cs.reservedCost ELSE cost)
           made == cs.consumedCalls + calls
           released == [cs EXCEPT !.reservedCost = 0, !.reservedCalls = 0]
<1>2. spent \in Nat /\ made \in Nat
  BY <1>1 DEF Unmeasured
<1>3. released \in CycleStates
  BY DEF CycleStates
<1>4. Settle(cs, cost, calls) =
          [released EXCEPT !.consumedCost = spent, !.consumedCalls = made]
  BY DEF Settle, CycleStates
<1> HIDE DEF spent, made, released
<1> QED BY <1>2, <1>3, <1>4 DEF CycleStates

LEMMA DisposeType ==
    ASSUME NEW cs \in CycleStates
    PROVE  Dispose(cs) \in CycleStates
BY DEF Dispose, CycleStates, Leases

LEMMA WithReferencesType ==
    ASSUME NEW cs \in CycleStates, NEW found \in SUBSET PullRequests
    PROVE  WithReferences(cs, found) \in CycleStates
<1>1. cs.dispatch \in Dispatches
  BY DEF CycleStates
<1>2. [cs.dispatch EXCEPT !.prs = @ \cup found] \in Dispatches
  BY <1>1 DEF Dispatches
<1> QED BY <1>2 DEF WithReferences, CycleStates

-----------------------------------------------------------------------------
(* Type correctness *)

\* Where a process works on an attempt, so that its record has a lease
AttachedLabels == {"probe", "lookup", "read", "recheck", "begun", "launch", "running"}

Attached == \A p \in Processes : pc[p] \in AttachedLabels => mem[p].lease.id # NoAttempt

\* TypeOK alone is not inductive: a lookup indexes the environment by the
\* attempt of the record, which is one only where the record has a lease.
TypeInv == TypeOK /\ Attached

CommandOK ==
    /\ disk \in CycleStates
    /\ pc \in [Processes -> Labels]
    /\ mem \in [Processes -> CycleStates]
    /\ mode \in [Processes -> {"observe", "dispatch"}]
    /\ cfg \in [Processes -> Configs]
    /\ stamp \in [Processes -> 0..MaxTime]

EnvironmentOK ==
    /\ now \in 0..MaxTime
    /\ config \in Configs
    /\ host \in [Attempts -> {"none", "running", "stopped"}]
    /\ opened \in [Attempts -> SUBSET PullRequests]
    /\ open \in [Attempts -> SUBSET PullRequests]
    /\ scans \subseteq CycleStates
    /\ crashes \in Nat
    /\ begun \in Seq(Nat)
    /\ intents \in [Attempts -> Nat]

LEMMA TypeOKParts == TypeOK <=> CommandOK /\ EnvironmentOK
BY DEF TypeOK, CommandOK, EnvironmentOK

\* A lease's id is an attempt's, or NoAttempt.
LEMMA LeaseId ==
    ASSUME NEW cs \in CycleStates
    PROVE  cs.lease.id \in Attempts \cup {NoAttempt}
BY DEF CycleStates, Leases

LEMMA ContinueType ==
    ASSUME TypeInv, NEW p \in Processes, NEW label \in Labels, NEW cs \in CycleStates,
           Continue(p, label, cs),
           label \in AttachedLabels => cs.lease.id # NoAttempt
    PROVE  /\ pc' \in [Processes -> Labels]
           /\ mem' \in [Processes -> CycleStates]
           /\ Attached'
BY DEF TypeInv, TypeOK, Attached, Continue

LEMMA ExitType ==
    ASSUME TypeInv, NEW p \in Processes, Exit(p)
    PROVE  /\ pc' \in [Processes -> Labels]
           /\ mem' \in [Processes -> CycleStates]
           /\ mode' \in [Processes -> {"observe", "dispatch"}]
           /\ cfg' \in [Processes -> Configs]
           /\ stamp' \in [Processes -> 0..MaxTime]
           /\ Attached'
<1>1. /\ "idle" \in Labels /\ "idle" \notin AttachedLabels
      /\ NoConfig \in Configs /\ 0 \in 0..MaxTime
  BY EnvironmentAssumption DEF Labels, AttachedLabels, NoConfig, Configs, ApprovalStates
<1> QED BY <1>1, EmptyCycleType DEF TypeInv, TypeOK, Attached, Exit

LEMMA EndType ==
    ASSUME TypeInv, NEW p \in Processes, NEW cs \in CycleStates, End(p, cs)
    PROVE  CommandOK' /\ Attached'
BY ExitType DEF End, CommandOK

LEMMA ConcludeType ==
    ASSUME TypeInv, NEW p \in Processes, NEW cs \in CycleStates, Conclude(p, cs)
    PROVE  CommandOK' /\ Attached'
<1>1. CASE mode[p] = "dispatch" /\ End(p, cs)
  BY <1>1, EndType
<1>2. CASE Continue(p, "observed", cs) /\ UNCHANGED <<disk, mode, cfg, stamp>>
  <2>1. "observed" \in Labels /\ "observed" \notin AttachedLabels
    BY DEF Labels, Sections, AttachedLabels
  <2> QED BY <1>2, <2>1, ContinueType DEF CommandOK, TypeInv, TypeOK
<1> QED BY <1>1, <1>2 DEF Conclude

\* What is recorded as a failure is one of Failures.
LEMMA ScopeFailureType ==
    ASSUME NEW cs, NEW approval
    PROVE  ScopeFailure(cs, approval) \in Failures
BY DEF ScopeFailure, Failures

LEMMA RunFailureType ==
    ASSUME NEW cs, NEW outcome, NEW exit
    PROVE  RunFailure(cs, outcome, exit) \in Failures
BY DEF RunFailure, Failures

LEMMA CountedType ==
    ASSUME NEW cs \in CycleStates
    PROVE  Counted(cs) \in CycleStates
BY DEF Counted, CycleStates

LEMMA ReplayedType ==
    ASSUME NEW cs \in CycleStates
    PROVE  Replayed(cs) \in CycleStates
<1>1. "unsettled-reservation" \in Failures /\ "dispatch-outcome-unknown" \in Failures
  BY DEF Failures
<1> QED BY <1>1, FailType, ParkType DEF Replayed

LEMMA ReplayVerdictType ==
    ASSUME NEW cs \in CycleStates, NEW approval
    PROVE  ReplayVerdict(cs, approval) \in CycleStates
BY ScopeFailureType, FailType DEF ReplayVerdict

LEMMA VerdictType ==
    ASSUME NEW cs \in CycleStates, NEW approval, NEW isOpen
    PROVE  Verdict(cs, approval, isOpen) \in CycleStates
<1> DEFINE read == [cs EXCEPT !.observations = 0]
           settled == [read EXCEPT !.dispatch.phase = "settled"]
<1>1. read \in CycleStates
  BY DEF CycleStates
<1>2. settled \in CycleStates
  <2>1. read.dispatch \in Dispatches
    BY <1>1 DEF CycleStates
  <2>2. [read.dispatch EXCEPT !.phase = "settled"] \in Dispatches
    BY <2>1 DEF Dispatches, Phases
  <2> QED BY <1>1, <2>2 DEF CycleStates
<1>3. "no-pull-request" \in Failures
  BY DEF Failures
<1> HIDE DEF read
<1> QED BY <1>1, <1>2, <1>3, ScopeFailureType, FailType DEF Verdict, read

LEMMA IntendedType ==
    ASSUME NEW cs \in CycleStates, CanAdmit(cs)
    PROVE  Intended(cs) \in CycleStates
<1>1. [NoDispatch EXCEPT !.phase = "intent"] \in Dispatches
  BY DEF NoDispatch, Dispatches, Phases, Outcomes
<1> QED BY <1>1, AdmitType DEF Intended, CycleStates

LEMMA ReturnedType ==
    ASSUME NEW cs \in CycleStates, NEW outcome \in Outcomes, NEW exit,
           NEW cost \in MeasuredCosts, NEW calls \in MeasuredCalls
    PROVE  Returned(cs, outcome, exit, cost, calls) \in CycleStates
<1>1. cost \in Nat \cup {Unmeasured} /\ calls \in Nat
  BY ConfigAssumption DEF MeasuredCosts, MeasuredCalls
<1>2. cs.reservedCalls \in Nat
  BY DEF CycleStates
<1>3. Charged(cs, outcome, cost, calls) \in CycleStates
  BY <1>1, <1>2, SettleType DEF Charged
<1> DEFINE charged == [Charged(cs, outcome, cost, calls) EXCEPT
                          !.dispatch.phase = "returned", !.dispatch.outcome = outcome]
           record == [Charged(cs, outcome, cost, calls).dispatch EXCEPT
                          !.phase = "returned", !.outcome = outcome]
<1>4. record \in Dispatches
  <2>1. Charged(cs, outcome, cost, calls).dispatch \in Dispatches
    BY <1>3 DEF CycleStates
  <2> QED BY <2>1 DEF Dispatches, Phases
<1>5. charged = [Charged(cs, outcome, cost, calls) EXCEPT !.dispatch = record]
  BY <1>3 DEF CycleStates, Dispatches
<1>6. charged \in CycleStates
  <2> HIDE DEF record
  <2> QED BY <1>3, <1>4, <1>5 DEF CycleStates
<1>7. RunFailure(charged, outcome, exit) \in Failures
  BY RunFailureType
<1> HIDE DEF charged
<1> QED BY <1>6, <1>7, FailType DEF Returned, charged

LEMMA InitType == Init => TypeInv
<1> SUFFICES ASSUME Init PROVE TypeInv
  OBVIOUS
<1>1. disk \in CycleStates
  <2>1. LegacyLease \in Leases
    BY ConfigAssumption DEF LegacyLease, Leases, Attempts
  <2>2. ASSUME NEW receipt \in {"none", "active", "terminal"}
        PROVE  [EmptyCycle EXCEPT !.lease = LegacyLease, !.receipt = receipt] \in CycleStates
    BY <2>1, EmptyCycleType DEF CycleStates
  <2>3. ASSUME NEW receipt \in {"none", "active"}, NEW phase \in {"unknown"}
        PROVE  [EmptyCycle EXCEPT !.lease = LegacyLease, !.receipt = receipt,
                   !.dispatch = [NoDispatch EXCEPT !.phase = phase]] \in CycleStates
    <3>1. [NoDispatch EXCEPT !.phase = phase] \in Dispatches
      BY DEF NoDispatch, Dispatches, Phases, Outcomes
    <3> QED BY <2>1, <3>1, EmptyCycleType DEF CycleStates
  <2>4. \A c \in LegacyCycles : c \in CycleStates
    BY <2>2, <2>3 DEF LegacyCycles
  <2> QED BY <2>4, EmptyCycleType DEF Init, FreshStart, LegacyStart
<1>2. CommandOK
  BY <1>1, EmptyCycleType, EnvironmentAssumption
     DEF Init, CommandOK, Labels, NoConfig, Configs, ApprovalStates
<1>3. EnvironmentOK
  <2>1. begun \in Seq(Nat)
    <3>1. begun = <<>> \/ begun = <<0>>
      BY DEF Init, FreshStart, LegacyStart
    <3>2. <<>> \in Seq(Nat) /\ <<0>> \in Seq(Nat)
      OBVIOUS
    <3> QED BY <3>1, <3>2
  <2>2. /\ host \in [Attempts -> {"none", "running", "stopped"}]
        /\ opened \in [Attempts -> SUBSET PullRequests]
        /\ intents \in [Attempts -> Nat]
    BY DEF Init, FreshStart, LegacyStart
  <2> QED BY <2>1, <2>2, EnvironmentAssumption DEF Init, EnvironmentOK, Configs
<1>4. Attached
  BY DEF Init, Attached, AttachedLabels
<1> QED BY <1>2, <1>3, <1>4, TypeOKParts DEF TypeInv

-----------------------------------------------------------------------------
(* Every action preserves TypeInv.  One lemma for each part of the command *)

\* Nothing of the environment, or of the history, changes in most steps.
LEMMA SameEnvironment ==
    ASSUME TypeInv, UNCHANGED <<now, config, world, scans, crashes, ghosts>>
    PROVE  EnvironmentOK'
BY DEF TypeInv, TypeOK, EnvironmentOK, world, ghosts

LEMMA SameCommand ==
    ASSUME TypeInv, UNCHANGED command
    PROVE  CommandOK' /\ Attached'
BY DEF TypeInv, TypeOK, CommandOK, Attached, command

\* A section that goes on: only its record and its place change.
LEMMA GoesOn ==
    ASSUME TypeInv, NEW p \in Processes, NEW label \in Labels, NEW cs \in CycleStates,
           Continue(p, label, cs), Keeps(p), disk' \in CycleStates,
           label \in AttachedLabels => cs.lease.id # NoAttempt
    PROVE  CommandOK' /\ Attached'
BY ContinueType DEF TypeInv, TypeOK, CommandOK, Keeps

LEMMA StartRunType ==
    ASSUME TypeInv, NEW p \in Processes, StartRun(p)
    PROVE  TypeInv'
<1>1. Continue(p, "gate", disk) /\ "gate" \in Labels /\ "gate" \notin AttachedLabels
  BY DEF StartRun, Labels, Sections, AttachedLabels
<1>2. CommandOK' /\ Attached'
  BY <1>1, ContinueType DEF StartRun, TypeInv, TypeOK, CommandOK
<1>3. EnvironmentOK'
  BY SameEnvironment DEF StartRun
<1> QED BY <1>2, <1>3, TypeOKParts DEF TypeInv, TypeOK, CommandOK, EnvironmentOK

LEMMA DisposeAttemptType ==
    ASSUME TypeInv, NEW p \in Processes, NEW id \in Attempts, NEW confirmed \in BOOLEAN,
           DisposeAttempt(p, id, confirmed)
    PROVE  TypeInv'
<1>1. disk' \in CycleStates
  BY DisposeType DEF DisposeAttempt, TypeInv, TypeOK
<1>2. EnvironmentOK'
  BY SameEnvironment DEF DisposeAttempt
<1> QED BY <1>1, <1>2
        DEF DisposeAttempt, TypeInv, TypeOK, CommandOK, EnvironmentOK, Attached

\* The steps that observe an attempt, or that open and close a section, leave
\* the environment alone.
LEMMA ObserveType ==
    ASSUME TypeInv, NEW p \in Processes, GateNewWork(p) \/ Observe(p)
    PROVE  TypeInv'
<1> DEFINE cs == mem[p]
<1>1. cs \in CycleStates /\ disk \in CycleStates
  BY DEF TypeInv, TypeOK
<1>2. /\ "observed" \in Labels \ AttachedLabels
      /\ "refresh" \in Labels \ AttachedLabels
      /\ {"probe", "lookup", "read", "recheck"} \subseteq Labels
  BY DEF Labels, Sections, Unlocked, AttachedLabels
<1>3. pc[p] \in AttachedLabels => cs.lease.id \in Attempts
  BY <1>1, LeaseId DEF TypeInv, Attached
<1>4. EnvironmentOK'
  BY SameEnvironment
     DEF GateNewWork, Observe, StopUnsettled, ObservationExhausted, CountObservation,
         ProbeWorker, LookupReferences, ReadPullRequests, RecheckActive, ObservationTimeout
<1>5. CommandOK' /\ Attached'
  <2> HIDE DEF cs
  <2>1. CASE GateNewWork(p)
    <3>1. CASE End(p, Park(cs))
      BY <1>1, <3>1, ParkType, EndType
    <3>2. CASE disk' = cs /\ Continue(p, "refresh", EmptyCycle) /\ Keeps(p)
      BY <1>1, <1>2, <3>2, EmptyCycleType, GoesOn
    <3> QED BY <2>1, <3>1, <3>2 DEF GateNewWork, cs
  <2>2. CASE StopUnsettled(p)
    BY <1>1, <2>2, EndType DEF StopUnsettled, cs
  <2>3. CASE ObservationExhausted(p)
    <3>1. "observation-exhausted" \in Failures
      BY DEF Failures
    <3> QED BY <1>1, <2>3, <3>1, FailType, EndType DEF ObservationExhausted, cs
  <2>4. CASE CountObservation(p)
    <3>1. Counted(cs) \in CycleStates /\ disk' = Counted(cs) /\ Keeps(p)
      BY <1>1, <2>4, CountedType DEF CountObservation, cs
    <3>2. CASE \E reason \in Failures : Continue(p, "observed", Fail(Counted(cs), reason))
      BY <1>2, <3>1, <3>2, FailType, GoesOn
    <3>3. CASE Continue(p, IF Replaying(cs) THEN "probe" ELSE "lookup", Counted(cs))
      <4>1. Counted(cs).lease.id # NoAttempt
        BY <1>1, <2>4 DEF CountObservation, Settled, Counted, CycleStates, cs
      <4> QED BY <1>2, <3>1, <3>3, <4>1, GoesOn
    <3>4. "unsettled-reservation" \in Failures /\ "dispatch-outcome-unknown" \in Failures
      BY DEF Failures
    <3> QED BY <2>4, <3>2, <3>3, <3>4 DEF CountObservation, cs
  <2>5. CASE ProbeWorker(p)
    <3>1. cs.lease.id # NoAttempt /\ disk' \in CycleStates /\ Keeps(p)
      BY <1>1, <1>3, <2>5 DEF ProbeWorker, AttachedLabels, Attempts, NoAttempt
    <3>2. CASE Continue(p, "lookup", cs)
      BY <1>1, <1>2, <3>1, <3>2, GoesOn
    <3>3. CASE Continue(p, "observed", Park(cs))
      BY <1>1, <1>2, <3>1, <3>3, ParkType, GoesOn
    <3> QED BY <2>5, <3>2, <3>3 DEF ProbeWorker, cs
  <2>6. CASE LookupReferences(p)
    <3> DEFINE found == WithReferences(cs, opened[cs.lease.id])
    <3>1. cs.lease.id \in Attempts
      BY <1>3, <2>6 DEF LookupReferences, AttachedLabels
    <3>2. found \in CycleStates
      BY <1>1, <3>1, WithReferencesType DEF TypeInv, TypeOK
    <3>3. found.lease = cs.lease /\ cs.lease.id # NoAttempt
      BY <1>1, <3>1 DEF WithReferences, CycleStates, Attempts, NoAttempt
    <3>4. Replayed(found) \in CycleStates /\ Replayed(cs) \in CycleStates
      BY <1>1, <3>2, ReplayedType
    <3>5. Replayed(found).lease.id # NoAttempt
      BY <3>2, <3>3 DEF Replayed, Fail, Park, CycleStates
    <3> HIDE DEF found
    <3>6. CASE \E label \in {"read"}, next \in {Replayed(found), found} :
                  Continue(p, label, next) /\ UNCHANGED disk /\ Keeps(p)
      BY <1>1, <1>2, <3>2, <3>3, <3>4, <3>5, <3>6, GoesOn
    <3>7. CASE Conclude(p, Replayed(cs)) \/ Conclude(p, Park(cs))
      BY <1>1, <3>4, <3>7, ParkType, ConcludeType
    <3>8. CASE End(p, found) \/ End(p, cs)
      BY <1>1, <3>2, <3>8, EndType
    <3> QED BY <2>6, <3>6, <3>7, <3>8 DEF LookupReferences, found, cs
  <2>7. CASE ReadPullRequests(p)
    <3> DEFINE verdict == Verdict(cs, cfg[p].approval, open[cs.lease.id])
    <3>1. verdict \in CycleStates /\ ReplayVerdict(cs, cfg[p].approval) \in CycleStates
      BY <1>1, VerdictType, ReplayVerdictType
    <3>2. verdict.lease.id # NoAttempt
      <4>1. cs.lease.id # NoAttempt
        BY <1>3, <2>7 DEF ReadPullRequests, AttachedLabels, Attempts, NoAttempt
      <4> QED BY <1>1, <4>1 DEF Verdict, Fail, Park, CycleStates
    <3> HIDE DEF verdict
    <3>3. CASE \/ Conclude(p, Park(cs))
               \/ Conclude(p, ReplayVerdict(cs, cfg[p].approval))
               \/ Conclude(p, verdict)
      BY <1>1, <3>1, <3>3, ParkType, ConcludeType
    <3>4. CASE Continue(p, "recheck", verdict) /\ UNCHANGED disk /\ Keeps(p)
      BY <1>1, <1>2, <3>1, <3>2, <3>4, GoesOn
    <3> QED BY <2>7, <3>3, <3>4 DEF ReadPullRequests, verdict, cs
  <2>8. CASE RecheckActive(p)
    <3>1. /\ Park(cs) \in CycleStates
          /\ Fail(cs, "authority-expired") \in CycleStates
          /\ Fail(cs, "authority-refused") \in CycleStates
      <4>1. "authority-expired" \in Failures /\ "authority-refused" \in Failures
        BY DEF Failures
      <4> QED BY <1>1, <4>1, ParkType, FailType
    <3>2. \E next \in CycleStates : Conclude(p, next)
      BY <1>1, <2>8, <3>1 DEF RecheckActive, cs
    <3> QED BY <3>2, ConcludeType
  <2>9. CASE ObservationTimeout(p)
    BY <1>1, <1>2, <2>9, ParkType, GoesOn DEF ObservationTimeout, cs
  <2> QED BY <2>1, <2>2, <2>3, <2>4, <2>5, <2>6, <2>7, <2>8, <2>9 DEF Observe
<1> QED BY <1>4, <1>5 DEF TypeInv, TypeOK, CommandOK, EnvironmentOK

LEMMA RefreshType ==
    ASSUME TypeInv, NEW p \in Processes, Refresh(p)
    PROVE  TypeInv'
<1>1. mem[p] \in CycleStates /\ disk \in CycleStates
  BY DEF TypeInv, TypeOK
<1>2. {"scanning", "scanned", "select"} \subseteq Labels \ AttachedLabels
  BY DEF Labels, Sections, Unlocked, AttachedLabels
<1>3. EnvironmentOK'
  BY SameEnvironment DEF Refresh, ScanLoad, ScanSave, RefreshRefused, Relock
<1>4. CommandOK' /\ Attached'
  <2>1. CASE ScanLoad(p)
    BY <1>1, <1>2, <2>1, GoesOn DEF ScanLoad
  <2>2. CASE ScanSave(p)
    BY <1>1, <1>2, <2>2, EmptyCycleType, GoesOn DEF ScanSave
  <2>3. CASE End(p, Park(disk))
    BY <1>1, <2>3, ParkType, EndType
  <2>4. CASE /\ Continue(p, "select", disk)
             /\ stamp' = [stamp EXCEPT ![p] = now]
             /\ UNCHANGED <<disk, mode, cfg>>
    BY <1>1, <1>2, <2>4, ContinueType DEF TypeInv, TypeOK, CommandOK
  <2> QED BY <2>1, <2>2, <2>3, <2>4 DEF Refresh, RefreshRefused, Relock
<1> QED BY <1>3, <1>4 DEF TypeInv, TypeOK, CommandOK, EnvironmentOK

LEMMA DispatchType ==
    ASSUME TypeInv, NEW p \in Processes, Dispatch(p)
    PROVE  TypeInv'
<1> DEFINE cs == mem[p]
<1>1. cs \in CycleStates
  BY DEF TypeInv, TypeOK
<1>2. {"begun", "launch", "running", "lookup"} \subseteq Labels
  BY DEF Labels, Sections
<1>3. pc[p] \in {"begun", "launch", "running"} => cs.lease.id \in Attempts
  BY <1>1, LeaseId DEF TypeInv, Attached, AttachedLabels
<1> HIDE DEF cs
<1>4. CASE SelectNothing(p)
  <2>1. NoOp(cs) \in CycleStates /\ Park(cs) \in CycleStates
    BY <1>1, NoOpType, ParkType
  <2>2. CommandOK' /\ Attached'
    BY <1>4, <2>1, EndType DEF SelectNothing, cs
  <2>3. EnvironmentOK'
    BY <1>4, SameEnvironment DEF SelectNothing
  <2> QED BY <2>2, <2>3 DEF TypeInv, TypeOK, CommandOK, EnvironmentOK
<1>5. CASE BeginAttempt(p)
  <2> DEFINE leased == Begin(cs, FreshId, stamp[p])
  <2>1. stamp[p] \in 0..MaxTime /\ stamp[p] \in Nat /\ FreshId \in Attempts
    BY <1>5, EnvironmentAssumption DEF TypeInv, TypeOK, BeginAttempt
  <2>2. leased \in CycleStates
    BY <1>1, <2>1, BeginType
  <2>3. leased.lease.id # NoAttempt
    BY <2>1 DEF Begin, NewLease, EmptyCycle, Attempts, NoAttempt
  <2> HIDE DEF leased
  <2>4. Continue(p, "begun", leased) /\ disk' = leased
    BY <1>5 DEF BeginAttempt, leased, cs
  <2>5. CommandOK' /\ Attached'
    BY <1>2, <1>5, <2>2, <2>3, <2>4, ContinueType
       DEF BeginAttempt, TypeInv, TypeOK, CommandOK
  <2>6. begun' \in Seq(Nat)
    BY <1>5, <2>1, WindowType DEF BeginAttempt, TypeInv, TypeOK
  <2>7. EnvironmentOK'
    BY <1>5, <2>6 DEF BeginAttempt, TypeInv, TypeOK, EnvironmentOK, world
  <2> QED BY <2>5, <2>7 DEF TypeInv, TypeOK, CommandOK, EnvironmentOK
<1>6. CASE DispatchRefused(p)
  <2>1. Park(cs) \in CycleStates /\ Fail(cs, "runtime-exhausted") \in CycleStates
    <3>1. "runtime-exhausted" \in Failures
      BY DEF Failures
    <3> QED BY <1>1, <3>1, ParkType, FailType
  <2>2. CommandOK' /\ Attached'
    BY <1>6, <2>1, EndType DEF DispatchRefused, cs
  <2>3. EnvironmentOK'
    BY <1>6, SameEnvironment DEF DispatchRefused
  <2> QED BY <2>2, <2>3 DEF TypeInv, TypeOK, CommandOK, EnvironmentOK
<1>7. CASE RecordIntent(p)
  <2>1. Intended(cs) \in CycleStates
    BY <1>1, <1>7, IntendedType DEF RecordIntent, cs
  <2>2. cs.lease.id \in Attempts /\ Intended(cs).lease.id # NoAttempt
    BY <1>1, <1>3, <1>7
       DEF RecordIntent, Intended, Admit, CycleStates, Attempts, NoAttempt
  <2>3. CommandOK' /\ Attached'
    BY <1>2, <1>7, <2>1, <2>2, GoesOn DEF RecordIntent, cs
  <2>4. EnvironmentOK'
    BY <1>7, <2>2 DEF RecordIntent, TypeInv, TypeOK, EnvironmentOK, world, cs
  <2> QED BY <2>3, <2>4 DEF TypeInv, TypeOK, CommandOK, EnvironmentOK
<1>8. CASE HostParked(p)
  <2>1. [Settle(cs, 0, 0) EXCEPT !.dispatch = NoDispatch] \in CycleStates
    <3>1. Settle(cs, 0, 0) \in CycleStates
      BY <1>1, SettleType
    <3>2. NoDispatch \in Dispatches
      BY DEF NoDispatch, Dispatches, Phases, Outcomes
    <3> QED BY <3>1, <3>2 DEF CycleStates
  <2>2. CommandOK' /\ Attached'
    BY <1>8, <2>1, ParkType, EndType DEF HostParked, cs
  <2>3. EnvironmentOK'
    BY <1>8, SameEnvironment DEF HostParked
  <2> QED BY <2>2, <2>3 DEF TypeInv, TypeOK, CommandOK, EnvironmentOK
<1>9. CASE HostLaunch(p)
  <2>1. cs.lease.id \in Attempts /\ cs.lease.id # NoAttempt
    BY <1>3, <1>9 DEF HostLaunch, Attempts, NoAttempt
  <2>2. CommandOK' /\ Attached'
    BY <1>1, <1>2, <1>9, <2>1, GoesOn DEF HostLaunch, TypeInv, TypeOK, cs
  <2>3. EnvironmentOK'
    BY <1>9, <2>1 DEF HostLaunch, TypeInv, TypeOK, EnvironmentOK, ghosts, cs
  <2> QED BY <2>2, <2>3 DEF TypeInv, TypeOK, CommandOK, EnvironmentOK
<1>10. CASE HostReturn(p)
  <2>1. cs.lease.id \in Attempts
    BY <1>3, <1>10 DEF HostReturn
  <2> DEFINE Exits == {"completed", "failed", "call-limit", "timeout"}
             OutcomeOf(exit, emptied) ==
                 IF ~emptied THEN "unknown"
                 ELSE IF exit \in {"completed", "failed"} THEN exit ELSE "stopped"
  <2>2. \E exit \in Exits, emptied \in BOOLEAN, cost \in MeasuredCosts, calls \in MeasuredCalls :
           /\ disk' = Returned(cs, OutcomeOf(exit, emptied), exit, cost, calls)
           /\ Continue(p, "lookup", Returned(cs, OutcomeOf(exit, emptied), exit, cost, calls))
    BY <1>10 DEF HostReturn, cs
  <2>3. PICK exit \in Exits, emptied \in BOOLEAN, cost \in MeasuredCosts, calls \in MeasuredCalls :
           /\ disk' = Returned(cs, OutcomeOf(exit, emptied), exit, cost, calls)
           /\ Continue(p, "lookup", Returned(cs, OutcomeOf(exit, emptied), exit, cost, calls))
    BY <2>2
  <2> DEFINE outcome == OutcomeOf(exit, emptied)
  <2>4. outcome \in Outcomes
    BY DEF Outcomes
  <2> DEFINE returned == Returned(cs, outcome, exit, cost, calls)
  <2>5. returned \in CycleStates
    BY <1>1, <2>4, ReturnedType
  <2>6. returned.lease.id # NoAttempt
    BY <1>1, <2>1
       DEF Returned, Charged, Settle, Fail, Park, CycleStates, Attempts, NoAttempt
  <2>7. CommandOK' /\ Attached'
    <3> HIDE DEF returned
    <3> QED BY <1>2, <1>10, <2>3, <2>5, <2>6, GoesOn DEF HostReturn, returned
  <2>8. host' \in [Attempts -> {"none", "running", "stopped"}]
    BY <1>10, <2>1 DEF HostReturn, TypeInv, TypeOK, cs
  <2>9. EnvironmentOK'
    BY <1>10, <2>8 DEF HostReturn, TypeInv, TypeOK, EnvironmentOK, ghosts
  <2> QED BY <2>7, <2>9 DEF TypeInv, TypeOK, CommandOK, EnvironmentOK
<1> QED BY <1>4, <1>5, <1>6, <1>7, <1>8, <1>9, <1>10 DEF Dispatch

LEMMA CrashType ==
    ASSUME TypeInv, NEW p \in Processes, Crash(p)
    PROVE  TypeInv'
<1>1. CommandOK' /\ Attached'
  BY ExitType DEF Crash, CommandOK, TypeInv, TypeOK
<1>2. host' \in [Attempts -> {"none", "running", "stopped"}]
  BY DEF Crash, TypeInv, TypeOK
<1>3. scans' \subseteq CycleStates /\ crashes' \in Nat
  BY DEF Crash, TypeInv, TypeOK
<1>4. EnvironmentOK'
  BY <1>2, <1>3 DEF Crash, TypeInv, TypeOK, EnvironmentOK, ghosts
<1> QED BY <1>1, <1>4 DEF TypeInv, TypeOK, CommandOK, EnvironmentOK

LEMMA EnvironmentType ==
    ASSUME TypeInv, Environment
    PROVE  TypeInv'
<1>1. CASE ForeignScanSave
  <2>1. disk' \in CycleStates /\ scans' \subseteq CycleStates
    BY <1>1 DEF ForeignScanSave, TypeInv, TypeOK
  <2> QED BY <1>1, <2>1 DEF ForeignScanSave, TypeInv, TypeOK, Attached, world, ghosts
<1>2. CASE UNCHANGED command /\ EnvironmentOK'
  BY <1>2, SameCommand DEF TypeInv, TypeOK, CommandOK, EnvironmentOK
<1>3. CASE Worker
  <2>1. ASSUME NEW a \in Attempts, HostExit(a)
        PROVE  EnvironmentOK'
    BY <2>1 DEF HostExit, TypeInv, TypeOK, EnvironmentOK, ghosts
  <2>2. ASSUME NEW a \in Attempts, NEW r \in PullRequests, OpenPullRequest(a, r)
        PROVE  EnvironmentOK'
    <3>1. /\ opened' \in [Attempts -> SUBSET PullRequests]
          /\ open' \in [Attempts -> SUBSET PullRequests]
      BY <2>2 DEF OpenPullRequest, TypeInv, TypeOK
    <3> QED BY <2>2, <3>1 DEF OpenPullRequest, TypeInv, TypeOK, EnvironmentOK, ghosts
  <2>3. UNCHANGED command
    BY <1>3 DEF Worker, HostExit, OpenPullRequest
  <2> QED BY <1>2, <1>3, <2>1, <2>2, <2>3 DEF Worker
<1>4. CASE Reviewer
  <2>1. EnvironmentOK'
    BY <1>4 DEF Reviewer, ClosePullRequest, TypeInv, TypeOK, EnvironmentOK, ghosts
  <2> QED BY <1>2, <1>4, <2>1 DEF Reviewer, ClosePullRequest
<1>5. CASE ForeignScanLoad
  <2>1. EnvironmentOK'
    BY <1>5 DEF ForeignScanLoad, TypeInv, TypeOK, EnvironmentOK, world, ghosts
  <2> QED BY <1>2, <1>5, <2>1 DEF ForeignScanLoad
<1>6. CASE Configure
  <2>1. EnvironmentOK'
    BY <1>6, EnvironmentAssumption
       DEF Configure, Configs, TypeInv, TypeOK, EnvironmentOK, world, ghosts
  <2> QED BY <1>2, <1>6, <2>1 DEF Configure
<1>7. CASE Tick
  <2>1. EnvironmentOK'
    BY <1>7, EnvironmentAssumption DEF Tick, TypeInv, TypeOK, EnvironmentOK, world, ghosts
  <2> QED BY <1>2, <1>7, <2>1 DEF Tick
<1> QED BY <1>1, <1>3, <1>4, <1>5, <1>6, <1>7 DEF Environment

LEMMA StutterType ==
    ASSUME TypeInv, UNCHANGED vars
    PROVE  TypeInv'
BY DEF TypeInv, TypeOK, Attached, vars, command, world, ghosts

LEMMA NextType ==
    ASSUME TypeInv, [Next]_vars
    PROVE  TypeInv'
<1>1. ASSUME NEW p \in Processes, StartRun(p) \/ Run(p) \/ Crash(p) \/ Operator(p)
      PROVE  TypeInv'
  BY <1>1, StartRunType, ObserveType, RefreshType, DispatchType, CrashType,
     DisposeAttemptType DEF Run, Operator
<1> QED BY <1>1, EnvironmentType, StutterType DEF Next

\* Every state the program reaches is well typed, from a fresh checkout or from
\* what an earlier version left, for any number of processes and attempts.
THEOREM TypeCorrect == Spec => []TypeOK
<1>1. TypeInv => TypeOK
  BY DEF TypeInv
<1> QED BY <1>1, InitType, NextType, PTL DEF Spec

\* A process that works on an attempt has its lease: kept for what follows.
THEOREM AttachedCorrect == Spec => []TypeInv
BY InitType, NextType, PTL DEF Spec

-----------------------------------------------------------------------------
(* Usage over a ceiling *)

Accounted(cs) == BudgetExceeded(cs) => cs.failure # "none"

\* OverrunIsFailure, for the copies too that a process or a scan may save later
AccountedInv ==
    /\ Accounted(disk)
    /\ \A p \in Processes : Accounted(mem[p])
    /\ \A cs \in scans : Accounted(cs)

\* What charges nothing and forgets no failure
LEMMA ChargesNothing ==
    ASSUME NEW cs \in CycleStates, Accounted(cs), NEW reason, NEW found
    PROVE  /\ Accounted(Park(cs)) /\ Accounted(NoOp(cs)) /\ Accounted(Fail(cs, reason))
           /\ Accounted(Counted(cs)) /\ Accounted(WithReferences(cs, found))
           /\ Accounted(Dispose(cs))
BY DEF CycleStates, Accounted, BudgetExceeded, Park, NoOp, Fail, Counted, WithReferences,
       Dispose

LEMMA ReplayAccounted ==
    ASSUME NEW cs \in CycleStates, Accounted(cs), NEW approval
    PROVE  Accounted(Replayed(cs)) /\ Accounted(ReplayVerdict(cs, approval))
BY ChargesNothing DEF Replayed, ReplayVerdict

LEMMA VerdictAccounted ==
    ASSUME NEW cs \in CycleStates, Accounted(cs), NEW approval, NEW isOpen
    PROVE  Accounted(Verdict(cs, approval, isOpen))
<1> DEFINE read == [cs EXCEPT !.observations = 0]
           settled == [read EXCEPT !.dispatch.phase = "settled"]
<1>1. read \in CycleStates /\ Accounted(read)
  BY DEF CycleStates, Accounted, BudgetExceeded
<1>2. Accounted(settled)
  BY <1>1 DEF CycleStates, Accounted, BudgetExceeded
<1> HIDE DEF read
<1> QED BY <1>1, <1>2, ChargesNothing DEF Verdict, read

LEMMA NewLeaseAccounted ==
    ASSUME NEW cs, NEW id, NEW t
    PROVE  Accounted(EmptyCycle) /\ Accounted(Begin(cs, id, t))
BY ConfigAssumption DEF EmptyCycle, Begin, Accounted, BudgetExceeded

LEMMA IntendedAccounted ==
    ASSUME NEW cs \in CycleStates, Accounted(cs), CanAdmit(cs)
    PROVE  Accounted(Intended(cs))
<1>1. Admit(cs) \in CycleStates
  BY AdmitType
<1>2. Admit(cs).consumedCost = cs.consumedCost /\ Admit(cs).consumedCalls = cs.consumedCalls
      /\ Admit(cs).failure = cs.failure
  BY DEF Admit, CycleStates
<1> QED BY <1>1, <1>2 DEF Intended, CycleStates, Accounted, BudgetExceeded

LEMMA ParkedAccounted ==
    ASSUME NEW cs \in CycleStates, Accounted(cs)
    PROVE  Accounted(Park([Settle(cs, 0, 0) EXCEPT !.dispatch = NoDispatch]))
<1>1. Settle(cs, 0, 0) \in CycleStates
  BY SettleType
<1>2. /\ Settle(cs, 0, 0).consumedCost = cs.consumedCost
      /\ Settle(cs, 0, 0).consumedCalls = cs.consumedCalls
      /\ Settle(cs, 0, 0).failure = cs.failure
  BY DEF Settle, CycleStates, Unmeasured
<1> QED BY <1>1, <1>2 DEF Park, CycleStates, Accounted, BudgetExceeded

\* The charge is compared with the ceilings whatever became of the host.
LEMMA ReturnedAccounted ==
    ASSUME NEW cs \in CycleStates, NEW outcome \in Outcomes, NEW exit,
           NEW cost \in MeasuredCosts, NEW calls \in MeasuredCalls
    PROVE  Accounted(Returned(cs, outcome, exit, cost, calls))
<1> DEFINE charged == [Charged(cs, outcome, cost, calls) EXCEPT
                          !.dispatch.phase = "returned", !.dispatch.outcome = outcome]
           failure == RunFailure(charged, outcome, exit)
<1>1. charged = [f \in DOMAIN charged |-> charged[f]]
         /\ {"parked", "failure", "consumedCost", "consumedCalls"} \subseteq DOMAIN charged
  <2>1. cost \in Nat \cup {Unmeasured} /\ calls \in Nat /\ cs.reservedCalls \in Nat
    BY ConfigAssumption DEF MeasuredCosts, MeasuredCalls, CycleStates
  <2>2. Charged(cs, outcome, cost, calls) \in CycleStates
    BY <2>1, SettleType DEF Charged
  <2> QED BY <2>2 DEF CycleStates
<1> HIDE DEF charged
<1>2. BudgetExceeded(charged) => failure = "budget-exhausted"
  BY DEF RunFailure
<1> HIDE DEF failure
<1>3. Returned(cs, outcome, exit, cost, calls) =
          IF failure = "none" THEN charged ELSE Fail(charged, failure)
  BY DEF Returned, charged, failure
<1>4. CASE failure = "none"
  BY <1>2, <1>3, <1>4 DEF Accounted
<1>5. CASE failure # "none"
  <2>1. Fail(charged, failure).failure # "none"
    BY <1>1, <1>5 DEF Fail, Park
  <2> QED BY <1>3, <1>5, <2>1 DEF Accounted
<1> QED BY <1>4, <1>5
LEMMA InitAccounted == Init => AccountedInv
<1> SUFFICES ASSUME Init PROVE AccountedInv
  OBVIOUS
<1>1. ASSUME NEW cs, cs.consumedCost = 0, cs.consumedCalls = 0
      PROVE  Accounted(cs)
  BY <1>1, ConfigAssumption DEF Accounted, BudgetExceeded
<1>2. ASSUME NEW cs \in LegacyCycles
      PROVE  Accounted(cs)
  <2>1. CASE \E receipt \in {"none", "active"} :
                cs = [EmptyCycle EXCEPT !.lease = LegacyLease, !.receipt = receipt,
                         !.dispatch = [NoDispatch EXCEPT !.phase = "unknown"]]
    BY <1>1, <2>1 DEF EmptyCycle
  <2>2. CASE \E receipt \in {"active", "terminal"} :
                cs = [EmptyCycle EXCEPT !.lease = LegacyLease, !.receipt = receipt]
    BY <1>1, <2>2 DEF EmptyCycle
  <2> QED BY <1>2, <2>1, <2>2 DEF LegacyCycles
<1>3. Accounted(EmptyCycle)
  BY NewLeaseAccounted
<1> QED BY <1>2, <1>3 DEF Init, FreshStart, LegacyStart, AccountedInv

\* A step of a process: it saves or keeps one record, and forgets its copy or
\* goes on with one.
LEMMA StepAccounted ==
    ASSUME TypeInv, AccountedInv, NEW p \in Processes, NEW cs, NEW ds,
           Accounted(cs), Accounted(ds), disk' \in {disk, cs},
           mem' \in {[mem EXCEPT ![p] = ds], [mem EXCEPT ![p] = EmptyCycle]},
           scans' = scans
    PROVE  AccountedInv'
<1>1. Accounted(EmptyCycle)
  BY NewLeaseAccounted
<1>2. \A q \in Processes : mem'[q] \in {mem[q], ds, EmptyCycle}
  BY DEF TypeInv, TypeOK
<1> QED BY <1>1, <1>2 DEF AccountedInv, Accounted, BudgetExceeded

LEMMA ObserveAccounted ==
    ASSUME TypeInv, AccountedInv, NEW p \in Processes, GateNewWork(p) \/ Observe(p)
    PROVE  AccountedInv'
<1> DEFINE cs == mem[p]
<1>1. cs \in CycleStates /\ Accounted(cs) /\ Accounted(EmptyCycle)
  BY NewLeaseAccounted DEF TypeInv, TypeOK, AccountedInv
<1>2. scans' = scans
  BY DEF GateNewWork, Observe, StopUnsettled, ObservationExhausted, CountObservation,
         ProbeWorker, LookupReferences, ReadPullRequests, RecheckActive,
         ObservationTimeout
<1> HIDE DEF cs
<1>3. ASSUME NEW ds, Accounted(ds), End(p, ds) \/ Conclude(p, ds)
      PROVE  AccountedInv'
  BY <1>1, <1>2, <1>3, StepAccounted DEF End, Conclude, Exit, Continue
<1>4. ASSUME NEW ds, Accounted(ds), NEW label, Continue(p, label, ds),
             NEW saved, Accounted(saved), disk' \in {disk, saved}
      PROVE  AccountedInv'
  BY <1>2, <1>4, StepAccounted DEF Continue
<1>5. CASE GateNewWork(p)
  BY <1>1, <1>3, <1>4, <1>5, ChargesNothing DEF GateNewWork, cs
<1>6. CASE StopUnsettled(p) \/ ObservationExhausted(p)
  BY <1>1, <1>3, <1>6, ChargesNothing DEF StopUnsettled, ObservationExhausted, cs
<1>7. CASE CountObservation(p)
  <2>1. Counted(cs) \in CycleStates /\ Accounted(Counted(cs))
    BY <1>1, CountedType, ChargesNothing
  <2>2. \A reason : Accounted(Fail(Counted(cs), reason))
    BY <2>1, ChargesNothing
  <2>3. /\ disk' = Counted(cs)
        /\ \E label : \/ Continue(p, label, Counted(cs))
                      \/ \E reason : Continue(p, label, Fail(Counted(cs), reason))
    BY <1>7 DEF CountObservation, cs
  <2> QED BY <1>4, <2>1, <2>2, <2>3
<1>8. CASE ProbeWorker(p) \/ ObservationTimeout(p)
  BY <1>1, <1>4, <1>8, ChargesNothing DEF ProbeWorker, ObservationTimeout, cs
<1>9. CASE LookupReferences(p)
  <2> DEFINE found == WithReferences(cs, opened[cs.lease.id])
  <2>1. Accounted(found) /\ Accounted(Replayed(cs)) /\ Accounted(Park(cs))
    BY <1>1, ChargesNothing, ReplayAccounted
  <2>2. found \in CycleStates
    <3>1. cs.lease.id \in Attempts
      BY <1>1, <1>9, LeaseId DEF LookupReferences, TypeInv, Attached, AttachedLabels, cs
    <3> QED BY <1>1, <3>1, WithReferencesType DEF TypeInv, TypeOK
  <2>3. Accounted(Replayed(found))
    BY <2>1, <2>2, ReplayAccounted
  <2>4. \/ \E ds \in {found, Replayed(found)} : Continue(p, "read", ds) /\ UNCHANGED disk
        \/ \E ds \in {found, cs} : End(p, ds)
        \/ \E ds \in {Replayed(cs), Park(cs)} : Conclude(p, ds)
    BY <1>9 DEF LookupReferences, cs
  <2> HIDE DEF found
  <2> QED BY <1>1, <1>3, <1>4, <2>1, <2>3, <2>4
<1>10. CASE ReadPullRequests(p)
  <2> DEFINE verdict == Verdict(cs, cfg[p].approval, open[cs.lease.id])
             replayed == ReplayVerdict(cs, cfg[p].approval)
  <2>1. Accounted(verdict) /\ Accounted(replayed) /\ Accounted(Park(cs))
    BY <1>1, VerdictAccounted, ReplayAccounted, ChargesNothing
  <2>2. \/ \E ds \in {Park(cs), replayed, verdict} : Conclude(p, ds)
        \/ Continue(p, "recheck", verdict) /\ UNCHANGED disk
    BY <1>10 DEF ReadPullRequests, cs
  <2> HIDE DEF verdict, replayed
  <2> QED BY <1>1, <1>3, <1>4, <2>1, <2>2
<1>11. CASE RecheckActive(p)
  <2>1. \E ds \in {cs, Park(cs), Fail(cs, "authority-expired"), Fail(cs, "authority-refused")} :
           Conclude(p, ds)
    BY <1>11 DEF RecheckActive, cs
  <2> QED BY <1>1, <1>3, <2>1, ChargesNothing
<1> QED BY <1>5, <1>6, <1>7, <1>8, <1>9, <1>10, <1>11 DEF Observe

LEMMA DispatchAccounted ==
    ASSUME TypeInv, AccountedInv, NEW p \in Processes, Dispatch(p)
    PROVE  AccountedInv'
<1> DEFINE cs == mem[p]
<1>1. cs \in CycleStates /\ Accounted(cs)
  BY DEF TypeInv, TypeOK, AccountedInv
<1>2. scans' = scans
  BY DEF Dispatch, SelectNothing, BeginAttempt, DispatchRefused, RecordIntent, HostParked,
         HostLaunch, HostReturn
<1> HIDE DEF cs
<1>3. ASSUME NEW ds, Accounted(ds), End(p, ds)
      PROVE  AccountedInv'
  BY <1>2, <1>3, StepAccounted DEF End, Exit
<1>4. ASSUME NEW ds, Accounted(ds), NEW label, Continue(p, label, ds), disk' \in {disk, ds}
      PROVE  AccountedInv'
  BY <1>2, <1>4, StepAccounted DEF Continue
<1>5. CASE SelectNothing(p) \/ DispatchRefused(p)
  <2>1. \E ds \in {NoOp(cs), Park(cs), Fail(cs, "runtime-exhausted")} : End(p, ds)
    BY <1>5 DEF SelectNothing, DispatchRefused, cs
  <2> QED BY <1>1, <1>3, <2>1, ChargesNothing
<1>6. CASE BeginAttempt(p)
  BY <1>4, <1>6, NewLeaseAccounted DEF BeginAttempt
<1>7. CASE RecordIntent(p)
  BY <1>1, <1>4, <1>7, IntendedAccounted DEF RecordIntent, cs
<1>8. CASE HostParked(p)
  BY <1>1, <1>3, <1>8, ParkedAccounted DEF HostParked, cs
<1>9. CASE HostLaunch(p)
  BY <1>1, <1>4, <1>9 DEF HostLaunch, cs
<1>10. CASE HostReturn(p)
  <2>1. \E exit \in {"completed", "failed", "call-limit", "timeout"}, outcome \in Outcomes,
           cost \in MeasuredCosts, calls \in MeasuredCalls :
              /\ disk' = Returned(cs, outcome, exit, cost, calls)
              /\ Continue(p, "lookup", Returned(cs, outcome, exit, cost, calls))
    BY <1>10 DEF HostReturn, Outcomes, cs
  <2>2. PICK exit \in {"completed", "failed", "call-limit", "timeout"},
             outcome \in Outcomes, cost \in MeasuredCosts, calls \in MeasuredCalls :
              /\ disk' = Returned(cs, outcome, exit, cost, calls)
              /\ Continue(p, "lookup", Returned(cs, outcome, exit, cost, calls))
    BY <2>1
  <2> DEFINE returned == Returned(cs, outcome, exit, cost, calls)
  <2>3. Accounted(returned)
    BY <1>1, ReturnedAccounted
  <2>4. disk' = returned /\ Continue(p, "lookup", returned)
    BY <2>2
  <2> HIDE DEF returned
  <2> QED BY <1>4, <2>3, <2>4
<1> QED BY <1>5, <1>6, <1>7, <1>8, <1>9, <1>10 DEF Dispatch

LEMMA NextAccounted ==
    ASSUME TypeInv, AccountedInv, [Next]_vars
    PROVE  AccountedInv'
<1>1. disk \in CycleStates /\ Accounted(disk) /\ Accounted(EmptyCycle)
  BY NewLeaseAccounted DEF TypeInv, TypeOK, AccountedInv
<1>2. Accounted(Park(disk)) /\ Accounted(Dispose(disk))
  BY <1>1, ChargesNothing
<1>3. ASSUME NEW p \in Processes, Refresh(p) \/ StartRun(p)
      PROVE  AccountedInv'
  <2>1. Accounted(mem[p])
    BY DEF AccountedInv
  <2>2. scans' = scans
    BY <1>3 DEF Refresh, StartRun, ScanLoad, ScanSave, RefreshRefused, Relock
  <2>3. \/ End(p, Park(disk))
        \/ \E label \in {"gate", "scanning", "scanned", "select"}, ds \in {disk, EmptyCycle} :
              Continue(p, label, ds) /\ disk' \in {disk, mem[p]}
    BY <1>3 DEF Refresh, StartRun, ScanLoad, ScanSave, RefreshRefused, Relock
  <2> QED BY <1>1, <1>2, <2>1, <2>2, <2>3, StepAccounted DEF End, Exit, Continue
<1>4. ASSUME NEW p \in Processes, Operator(p)
      PROVE  AccountedInv'
  BY <1>2, <1>4 DEF Operator, DisposeAttempt, AccountedInv, Accounted, BudgetExceeded
<1>5. ASSUME NEW p \in Processes, Crash(p)
      PROVE  AccountedInv'
  <2>1. mem' = [mem EXCEPT ![p] = EmptyCycle] /\ disk' = disk
        /\ scans' \in {scans, scans \cup {mem[p]}}
    BY <1>5 DEF Crash, Exit
  <2>2. \A q \in Processes : mem'[q] \in {mem[q], EmptyCycle}
    BY <2>1 DEF TypeInv, TypeOK
  <2> QED BY <1>1, <2>1, <2>2 DEF AccountedInv, Accounted, BudgetExceeded
<1>6. CASE Environment
  BY <1>6 DEF Environment, Worker, Reviewer, HostExit, OpenPullRequest, ClosePullRequest,
              ForeignScanLoad, ForeignScanSave, Configure, Tick, command,
              AccountedInv, Accounted, BudgetExceeded
<1>7. CASE UNCHANGED vars
  BY <1>7 DEF vars, command, AccountedInv, Accounted, BudgetExceeded
<1> QED BY <1>3, <1>4, <1>5, <1>6, <1>7, ObserveAccounted, DispatchAccounted DEF Next, Run

\* Usage over a ceiling is never taken for a successful run, whatever a kill, a
\* foreign scan or a later failure does to the record: settle charges it and
\* _outcome_failure compares it before anything else.
THEOREM OverrunCorrect == Spec => []OverrunIsFailure
<1>1. Init => TypeInv /\ AccountedInv
  BY InitType, InitAccounted
<1>2. TypeInv /\ AccountedInv /\ [Next]_vars => (TypeInv /\ AccountedInv)'
  BY NextType, NextAccounted
<1>3. AccountedInv => OverrunIsFailure
  BY DEF AccountedInv, Accounted, OverrunIsFailure
<1> QED BY <1>1, <1>2, <1>3, PTL DEF Spec

-----------------------------------------------------------------------------
(* The inductive invariant *)

HostUp == \E a \in Attempts : host[a] = "running"

\* What the record says of an attempt whose host may run.  No observation and
\* no disposal without a confirmation takes a record out of this set.
MayBeLive(cs) ==
    /\ cs.lease.id # NoAttempt
    /\ cs.disposed # cs.lease.id
    /\ cs.receipt # "terminal"
    /\ \/ cs.dispatch.phase \in {"intent", "unknown"}
       \/ cs.dispatch.phase = "returned" /\ cs.dispatch.outcome = "unknown"
       \/ cs.dispatch.phase = "none" /\ cs.receipt = "active"

\* The cycle lock admits one invocation.
OneAtATime == \A p, q \in Processes : pc[p] # "idle" /\ pc[q] # "idle" => p = q

\* LiveHostIsRecorded, with what the file must say for the next run to keep it so
HostIsKnown ==
    \A a \in Attempts : host[a] = "running" => disk.lease.id = a /\ MayBeLive(disk)

\* Steps that act on the file's record, and not on changes a section has not saved
CopyIsCurrent(p) ==
    pc[p] \in {"gate", "scanning", "select", "begun", "launch"} => mem[p] = disk

\* A section saves its copy on a clean exit: the copy too keeps a live host
CopyKeepsHost(p) ==
    pc[p] \in Sections => mem[p].lease = disk.lease /\ (HostUp => MayBeLive(mem[p]))

\* From the lease to the launch no host runs, so the one launched is the only one
NothingRunsYet(p) ==
    pc[p] \in {"begun", "launch"} =>
        /\ ~HostUp
        /\ mem[p].disposed = NoAttempt
        /\ mem[p].receipt = "none"
        /\ pc[p] = "launch" => mem[p].dispatch.phase = "intent"

\* A run settles its own dispatch from where the host has returned, and reads its
\* pull requests only once the host completed
DispatchIsReturned(p) ==
    mode[p] = "dispatch" =>
        /\ pc[p] \in {"begun", "launch", "running", "lookup", "read", "recheck"}
        /\ pc[p] \in {"lookup", "read", "recheck"} => mem[p].dispatch.phase = "returned"
        /\ pc[p] \in {"read", "recheck"} => mem[p].dispatch.outcome = "completed"

RunOK(p) ==
    CopyIsCurrent(p) /\ CopyKeepsHost(p) /\ NothingRunsYet(p) /\ DispatchIsReturned(p)

LiveInv ==
    /\ scans = {}
    /\ OneAtATime
    /\ HostIsKnown
    /\ \A p \in Processes : RunOK(p)

-----------------------------------------------------------------------------
(* Facts about the record *)

\* ds says the same as cs of whether a host may run
SameAttempt(cs, ds) ==
    /\ ds.lease = cs.lease
    /\ ds.disposed = cs.disposed
    /\ ds.receipt = cs.receipt
    /\ ds.dispatch.phase = cs.dispatch.phase
    /\ ds.dispatch.outcome = cs.dispatch.outcome

LEMMA SameAttemptLive ==
    ASSUME NEW cs, NEW ds, SameAttempt(cs, ds)
    PROVE  MayBeLive(cs) <=> MayBeLive(ds)
BY DEF SameAttempt, MayBeLive

\* Parking, failing, counting and adding references leave it alone.
LEMMA RecordedOnly ==
    ASSUME NEW cs \in CycleStates, NEW reason, NEW found
    PROVE  /\ SameAttempt(cs, Park(cs))
           /\ SameAttempt(cs, NoOp(cs))
           /\ SameAttempt(cs, Fail(cs, reason))
           /\ SameAttempt(cs, Counted(cs))
           /\ SameAttempt(cs, WithReferences(cs, found))
BY DEF CycleStates, Dispatches, SameAttempt, Park, NoOp, Fail, Counted, WithReferences

LEMMA ReplayedOnly ==
    ASSUME NEW cs \in CycleStates, NEW approval
    PROVE  /\ SameAttempt(cs, Replayed(cs))
           /\ SameAttempt(cs, ReplayVerdict(cs, approval))
<1>1. SameAttempt(cs, cs)
  BY DEF SameAttempt
<1> QED BY <1>1, RecordedOnly DEF Replayed, ReplayVerdict

\* What lets new work start excludes a live host.
LEMMA SettledIsNotLive ==
    ASSUME NEW cs \in CycleStates, MayBeLive(cs)
    PROVE  ~Settled(cs) /\ ReportedActive(cs)
BY DEF CycleStates, Dispatches, MayBeLive, Settled, Disposed, ReportedActive

\* A verdict is on a host known to have returned, and keeps the lease.
LEMMA VerdictKeeps ==
    ASSUME NEW cs \in CycleStates, NEW approval, NEW isOpen
    PROVE  Verdict(cs, approval, isOpen).lease = cs.lease
BY DEF Verdict, Fail, Park, CycleStates

\* What the host's return records: its outcome, whatever it charges.
LEMMA ReturnedSays ==
    ASSUME NEW cs \in CycleStates, NEW outcome \in Outcomes, NEW exit,
           NEW cost \in MeasuredCosts, NEW calls \in MeasuredCalls
    PROVE  LET ds == Returned(cs, outcome, exit, cost, calls)
           IN /\ ds.lease = cs.lease /\ ds.disposed = cs.disposed
              /\ ds.receipt = cs.receipt /\ ds.dispatch.phase = "returned"
              /\ ds.dispatch.outcome = outcome
<1> DEFINE charged == Charged(cs, outcome, cost, calls)
           record == [charged.dispatch EXCEPT !.phase = "returned", !.outcome = outcome]
           settled == [charged EXCEPT !.dispatch.phase = "returned",
                                      !.dispatch.outcome = outcome]
<1>1. charged \in CycleStates
  <2>1. cost \in Nat \cup {Unmeasured} /\ calls \in Nat
    BY ConfigAssumption DEF MeasuredCosts, MeasuredCalls
  <2>2. cs.reservedCalls \in Nat
    BY DEF CycleStates
  <2> QED BY <2>1, <2>2, SettleType DEF Charged
<1>2. charged.lease = cs.lease /\ charged.disposed = cs.disposed /\ charged.receipt = cs.receipt
  BY DEF Charged, Settle, CycleStates
<1> HIDE DEF charged
<1>3. record.phase = "returned" /\ record.outcome = outcome
  BY <1>1 DEF CycleStates, Dispatches
<1>4. settled = [charged EXCEPT !.dispatch = record]
  BY <1>1 DEF CycleStates, Dispatches
<1>5. /\ settled.lease = cs.lease /\ settled.disposed = cs.disposed
      /\ settled.receipt = cs.receipt /\ settled.dispatch = record
  <2> HIDE DEF record
  <2> QED BY <1>1, <1>2, <1>4 DEF CycleStates
<1>6. ASSUME NEW reason
      PROVE  LET ds == Fail(settled, reason)
             IN /\ ds.lease = settled.lease /\ ds.disposed = settled.disposed
                /\ ds.receipt = settled.receipt /\ ds.dispatch = settled.dispatch
  <2> HIDE DEF record
  <2> QED BY <1>1, <1>4 DEF Fail, Park, CycleStates
<1> HIDE DEF settled, record
<1> QED BY <1>3, <1>5, <1>6 DEF Returned, charged, settled

LEMMA ReturnedIsNotLive ==
    ASSUME NEW cs \in CycleStates, cs.dispatch.phase = "returned",
           cs.dispatch.outcome # "unknown"
    PROVE  ~MayBeLive(cs)
BY DEF MayBeLive

-----------------------------------------------------------------------------
(* The shapes a step has *)

LEMMA InitLive == Init => LiveInv
<1> SUFFICES ASSUME Init PROVE LiveInv
  OBVIOUS
<1>1. OneAtATime /\ scans = {}
  BY DEF Init, OneAtATime
<1>2. HostIsKnown
  <2>1. CASE FreshStart
    BY <2>1 DEF FreshStart, HostIsKnown
  <2>2. CASE LegacyStart
    <3> SUFFICES ASSUME NEW a \in Attempts, host[a] = "running"
                 PROVE  disk.lease.id = a /\ MayBeLive(disk)
      BY DEF HostIsKnown
    <3>1. disk \in LegacyCycles /\ a = 1 /\ disk.receipt # "terminal"
      BY <2>2 DEF LegacyStart
    <3>2. CASE \E receipt \in {"none", "active"} :
                  disk = [EmptyCycle EXCEPT !.lease = LegacyLease, !.receipt = receipt,
                             !.dispatch = [NoDispatch EXCEPT !.phase = "unknown"]]
      <4>1. /\ disk.lease.id = 1 /\ disk.disposed = 0 /\ disk.receipt # "terminal"
            /\ disk.dispatch.phase = "unknown"
        BY <3>2 DEF EmptyCycle, LegacyLease, NoDispatch, NoAttempt
      <4> QED BY <3>1, <4>1 DEF MayBeLive, NoAttempt
    <3>3. CASE \E receipt \in {"active", "terminal"} :
                  disk = [EmptyCycle EXCEPT !.lease = LegacyLease, !.receipt = receipt]
      <4>1. /\ disk.lease.id = 1 /\ disk.disposed = 0 /\ disk.receipt = "active"
            /\ disk.dispatch.phase = "none"
        BY <3>1, <3>3 DEF EmptyCycle, LegacyLease, NoDispatch, NoAttempt
      <4> QED BY <3>1, <4>1 DEF MayBeLive, NoAttempt
    <3> QED BY <3>1, <3>2, <3>3 DEF LegacyCycles
  <2> QED BY <2>1, <2>2 DEF Init
<1>3. \A p \in Processes : RunOK(p)
  BY DEF Init, RunOK, CopyIsCurrent, CopyKeepsHost, NothingRunsYet,
         DispatchIsReturned, Sections
<1> QED BY <1>1, <1>2, <1>3 DEF LiveInv

\* A host that runs makes its attempt's record one that may be live.
LEMMA HostUpLive ==
    ASSUME HostIsKnown, HostUp
    PROVE  MayBeLive(disk)
BY DEF HostIsKnown, HostUp

\* While process p runs, no other does: a step of p need only keep its own part.
LEMMA OnlyOneMoves ==
    ASSUME TypeInv, LiveInv, NEW p \in Processes,
           pc[p] # "idle" \/ CycleLockFree,
           \A q \in Processes \ {p} : pc'[q] = pc[q] /\ mode'[q] = mode[q],
           scans' = {}, HostIsKnown', RunOK(p)'
    PROVE  LiveInv'
<1>1. \A q \in Processes \ {p} : pc'[q] = "idle"
  BY DEF LiveInv, OneAtATime, CycleLockFree
<1>2. OneAtATime'
  BY <1>1 DEF OneAtATime
<1>3. ASSUME NEW q \in Processes, q # p
      PROVE  RunOK(q)'
  <2>1. pc[q] = "idle" /\ pc'[q] = "idle" /\ mode'[q] = mode[q]
    BY <1>1, <1>3
  <2>2. mode[q] # "dispatch"
    BY <2>1 DEF LiveInv, RunOK, DispatchIsReturned
  <2> QED BY <2>1, <2>2
          DEF RunOK, CopyIsCurrent, CopyKeepsHost, NothingRunsYet,
              DispatchIsReturned, Sections
<1> QED BY <1>2, <1>3 DEF LiveInv

\* An invocation ends, with a record that keeps a live host.
LEMMA EndLive ==
    ASSUME TypeInv, LiveInv, NEW p \in Processes, NEW cs \in CycleStates,
           pc[p] # "idle", End(p, cs), cs.lease = disk.lease,
           HostUp => MayBeLive(cs), UNCHANGED <<host, scans>>
    PROVE  LiveInv'
<1>1. HostIsKnown'
  BY DEF LiveInv, HostIsKnown, HostUp, End
<1>2. pc'[p] = "idle" /\ mode'[p] = "observe"
  BY DEF End, Exit, TypeInv, TypeOK
<1>3. RunOK(p)'
  BY <1>2 DEF RunOK, CopyIsCurrent, CopyKeepsHost, NothingRunsYet,
              DispatchIsReturned, Sections
<1>4. \A q \in Processes \ {p} : pc'[q] = pc[q] /\ mode'[q] = mode[q]
  BY DEF End, Exit, TypeInv, TypeOK
<1> QED BY <1>1, <1>3, <1>4, OnlyOneMoves DEF LiveInv

\* An observation goes on, and has saved its record or not.
LEMMA GoesOnLive ==
    ASSUME TypeInv, LiveInv, NEW p \in Processes, NEW cs \in CycleStates,
           NEW label \in {"probe", "lookup", "read", "recheck", "observed"},
           pc[p] # "idle", Continue(p, label, cs), Keeps(p), cs.lease = disk.lease,
           disk'.lease = disk.lease, HostUp => MayBeLive(cs) /\ MayBeLive(disk'),
           UNCHANGED <<host, scans>>,
           mode[p] = "dispatch" =>
               /\ label \in {"lookup", "read", "recheck"}
               /\ cs.dispatch.phase = "returned"
               /\ label \in {"read", "recheck"} => cs.dispatch.outcome = "completed"
    PROVE  LiveInv'
<1>1. HostIsKnown'
  BY DEF LiveInv, HostIsKnown, HostUp
<1>2. pc'[p] = label /\ mem'[p] = cs /\ mode' = mode
  BY DEF Continue, Keeps, TypeInv, TypeOK
<1>3. HostUp' <=> HostUp
  BY DEF HostUp
<1>4. RunOK(p)'
  <2>1. CopyKeepsHost(p)'
    BY <1>2, <1>3 DEF CopyKeepsHost
  <2>2. CopyIsCurrent(p)' /\ NothingRunsYet(p)' /\ DispatchIsReturned(p)'
    BY <1>2 DEF CopyIsCurrent, NothingRunsYet, DispatchIsReturned
  <2> QED BY <2>1, <2>2 DEF RunOK
<1>5. \A q \in Processes \ {p} : pc'[q] = pc[q] /\ mode'[q] = mode[q]
  BY <1>2 DEF Continue, TypeInv, TypeOK
<1> QED BY <1>1, <1>4, <1>5, OnlyOneMoves DEF LiveInv

\* An observation, or a run's settlement of its own dispatch, ends.
LEMMA ConcludeLive ==
    ASSUME TypeInv, LiveInv, NEW p \in Processes, NEW cs \in CycleStates,
           pc[p] # "idle", Conclude(p, cs), cs.lease = disk.lease,
           HostUp => MayBeLive(cs), UNCHANGED <<host, scans>>
    PROVE  LiveInv'
<1>1. CASE mode[p] = "dispatch" /\ End(p, cs)
  BY <1>1, EndLive
<1>2. CASE /\ mode[p] = "observe" /\ Continue(p, "observed", cs)
           /\ UNCHANGED <<disk, mode, cfg, stamp>>
  BY <1>2, HostUpLive, GoesOnLive DEF Keeps, LiveInv
<1> QED BY <1>1, <1>2 DEF Conclude

-----------------------------------------------------------------------------
(* Every action preserves LiveInv *)

\* What a process in a section has in hand
LEMMA InSection ==
    ASSUME TypeInv, LiveInv, NEW p \in Processes, pc[p] \in Sections
    PROVE  /\ pc[p] # "idle"
           /\ mem[p] \in CycleStates
           /\ mem[p].lease = disk.lease
           /\ HostUp => MayBeLive(mem[p])
BY DEF TypeInv, TypeOK, LiveInv, RunOK, CopyKeepsHost, Sections

LEMMA StartRunLive ==
    ASSUME TypeInv, LiveInv, NEW p \in Processes, StartRun(p)
    PROVE  LiveInv'
<1>1. HostIsKnown' /\ scans' = {}
  BY DEF StartRun, world, LiveInv, HostIsKnown
<1>2. pc'[p] = "gate" /\ mem'[p] = disk /\ disk' = disk /\ mode' = mode
  BY DEF StartRun, Continue, TypeInv, TypeOK
<1>3. mode[p] # "dispatch"
  BY DEF StartRun, LiveInv, RunOK, DispatchIsReturned
<1>4. HostUp' => MayBeLive(disk)
  BY HostUpLive DEF StartRun, world, HostUp, LiveInv
<1>5. RunOK(p)'
  BY <1>2, <1>3, <1>4
     DEF RunOK, CopyIsCurrent, CopyKeepsHost, NothingRunsYet, DispatchIsReturned
<1>6. \A q \in Processes \ {p} : pc'[q] = pc[q] /\ mode'[q] = mode[q]
  BY <1>2 DEF StartRun, Continue, TypeInv, TypeOK
<1> QED BY <1>1, <1>5, <1>6, OnlyOneMoves DEF StartRun

\* Disposing an attempt that may be live takes the operator's word that it is
\* not, and the word is kept.
LEMMA DisposeAttemptLive ==
    ASSUME TypeInv, LiveInv, NEW p \in Processes, NEW id \in Attempts,
           NEW confirmed \in BOOLEAN, DisposeAttempt(p, id, confirmed)
    PROVE  LiveInv'
<1>1. ~HostUp
  <2> SUFFICES ASSUME HostUp PROVE FALSE
    OBVIOUS
  <2>1. host[disk.lease.id] = "running" /\ MayBeLive(disk)
    BY DEF LiveInv, HostIsKnown, HostUp
  <2>2. ReportedActive(disk)
    BY <2>1, SettledIsNotLive DEF TypeInv, TypeOK
  <2> QED BY <2>1, <2>2 DEF DisposeAttempt, CanDispose
<1>2. HostIsKnown' /\ scans' = {}
  BY <1>1 DEF DisposeAttempt, world, LiveInv, HostIsKnown, HostUp
<1>3. RunOK(p)'
  BY DEF DisposeAttempt, LiveInv, RunOK, CopyIsCurrent, CopyKeepsHost, NothingRunsYet,
         DispatchIsReturned, Sections
<1> QED BY <1>2, <1>3, OnlyOneMoves DEF DisposeAttempt

\* New work is gated on the observed record, which a live host keeps unsettled.
LEMMA GateNewWorkLive ==
    ASSUME TypeInv, LiveInv, NEW p \in Processes, GateNewWork(p)
    PROVE  LiveInv'
<1> DEFINE cs == mem[p]
<1>1. pc[p] \in Sections /\ UNCHANGED <<host, scans>>
  BY DEF GateNewWork, Sections, world
<1>2. cs \in CycleStates /\ cs.lease = disk.lease /\ ~HostUp
  BY <1>1, InSection, SettledIsNotLive DEF GateNewWork
<1>3. CASE End(p, Park(cs))
  BY <1>1, <1>2, <1>3, InSection, ParkType, RecordedOnly, EndLive DEF SameAttempt
<1>4. CASE disk' = cs /\ Continue(p, "refresh", EmptyCycle) /\ Keeps(p)
  <2>1. HostIsKnown' /\ scans' = {}
    BY <1>1, <1>2 DEF LiveInv, HostIsKnown, HostUp
  <2>2. pc'[p] = "refresh" /\ mode' = mode
    BY <1>4 DEF Continue, Keeps, TypeInv, TypeOK
  <2>3. mode[p] # "dispatch"
    BY DEF GateNewWork, LiveInv, RunOK, DispatchIsReturned
  <2>4. RunOK(p)'
    BY <2>2, <2>3 DEF RunOK, CopyIsCurrent, CopyKeepsHost, NothingRunsYet,
                      DispatchIsReturned, Sections
  <2>5. \A q \in Processes \ {p} : pc'[q] = pc[q] /\ mode'[q] = mode[q]
    BY <1>4, <2>2 DEF Continue, TypeInv, TypeOK
  <2> QED BY <1>1, <1>2, <2>1, <2>4, <2>5, InSection, OnlyOneMoves
<1> QED BY <1>3, <1>4 DEF GateNewWork

\* An observation never takes a live host's attempt for finished.
LEMMA ObserveLive ==
    ASSUME TypeInv, LiveInv, NEW p \in Processes, Observe(p)
    PROVE  LiveInv'
<1> DEFINE cs == mem[p]
           approval == cfg[p].approval
<1>1. pc[p] \in Sections /\ UNCHANGED <<host, scans>>
  BY DEF Observe, StopUnsettled, ObservationExhausted, CountObservation, ProbeWorker,
         LookupReferences, ReadPullRequests, RecheckActive, ObservationTimeout,
         Sections, world
<1>2. /\ cs \in CycleStates /\ cs.lease = disk.lease /\ pc[p] # "idle"
      /\ HostUp => MayBeLive(cs)
  BY <1>1, InSection
<1>3. mode[p] \in {"observe", "dispatch"} /\ DispatchIsReturned(p)
  BY DEF TypeInv, TypeOK, LiveInv, RunOK
<1> HIDE DEF cs
\* Whatever says the same of the attempt keeps a live host
<1>4. ASSUME NEW ds \in CycleStates, SameAttempt(cs, ds)
      PROVE  ds.lease = disk.lease /\ (HostUp => MayBeLive(ds))
  BY <1>2, <1>4, SameAttemptLive DEF SameAttempt
<1>5. ASSUME NEW ds \in CycleStates, SameAttempt(cs, ds), End(p, ds) \/ Conclude(p, ds)
      PROVE  LiveInv'
  BY <1>1, <1>2, <1>4, <1>5, EndLive, ConcludeLive
<1>6. ASSUME NEW ds \in CycleStates, SameAttempt(cs, ds), Keeps(p), mode[p] = "observe",
             NEW saved, SameAttempt(cs, saved), disk' \in {disk, saved},
             NEW label \in {"probe", "lookup", "read", "observed"}, Continue(p, label, ds)
      PROVE  LiveInv'
  <2>1. saved.lease = disk.lease /\ (HostUp => MayBeLive(saved))
    BY <1>2, <1>6, SameAttemptLive DEF SameAttempt
  <2>2. disk'.lease = disk.lease /\ (HostUp => MayBeLive(disk'))
    BY <1>6, <2>1, HostUpLive DEF LiveInv
  <2> QED BY <1>1, <1>2, <1>4, <1>6, <2>2, GoesOnLive
<1>7. SameAttempt(cs, cs)
  BY DEF SameAttempt
<1>8. CASE StopUnsettled(p)
  BY <1>2, <1>5, <1>7, <1>8 DEF StopUnsettled, cs
<1>9. CASE ObservationExhausted(p)
  <2>1. "observation-exhausted" \in Failures
    BY DEF Failures
  <2> QED BY <1>2, <1>5, <1>9, <2>1, FailType, RecordedOnly DEF ObservationExhausted, cs
<1>10. CASE CountObservation(p)
  <2>1. Counted(cs) \in CycleStates /\ SameAttempt(cs, Counted(cs))
    BY <1>2, CountedType, RecordedOnly
  <2>2. mode[p] = "observe" /\ disk' = Counted(cs) /\ Keeps(p)
    BY <1>3, <1>10 DEF CountObservation, DispatchIsReturned, cs
  <2>3. CASE \E label \in {"probe", "lookup"} : Continue(p, label, Counted(cs))
    BY <1>6, <2>1, <2>2, <2>3
  <2>4. CASE \E reason \in Failures : Continue(p, "observed", Fail(Counted(cs), reason))
    <3>1. PICK reason \in Failures : Continue(p, "observed", Fail(Counted(cs), reason))
      BY <2>4
    <3>2. Fail(Counted(cs), reason) \in CycleStates /\ SameAttempt(cs, Fail(Counted(cs), reason))
      BY <2>1, FailType, RecordedOnly DEF SameAttempt
    <3> QED BY <1>6, <2>1, <2>2, <3>1, <3>2
  <2>5. "unsettled-reservation" \in Failures /\ "dispatch-outcome-unknown" \in Failures
    BY DEF Failures
  <2> QED BY <1>10, <2>3, <2>4, <2>5 DEF CountObservation, cs
<1>11. CASE ProbeWorker(p) \/ ObservationTimeout(p)
  <2>1. mode[p] = "observe" /\ UNCHANGED disk /\ Keeps(p)
    BY <1>3, <1>11 DEF ProbeWorker, ObservationTimeout, DispatchIsReturned
  <2>2. Park(cs) \in CycleStates /\ SameAttempt(cs, Park(cs))
    BY <1>2, ParkType, RecordedOnly
  <2>3. Continue(p, "lookup", cs) \/ Continue(p, "observed", Park(cs))
    BY <1>11 DEF ProbeWorker, ObservationTimeout, cs
  <2> QED BY <1>2, <1>6, <1>7, <2>1, <2>2, <2>3
<1>12. CASE LookupReferences(p)
  <2> DEFINE found == WithReferences(cs, opened[cs.lease.id])
  <2>1. cs.lease.id \in Attempts
    BY <1>2, <1>12, LeaseId DEF LookupReferences, TypeInv, Attached, AttachedLabels, cs
  <2>2. found \in CycleStates /\ SameAttempt(cs, found)
    BY <1>2, <2>1, WithReferencesType, RecordedOnly DEF TypeInv, TypeOK
  <2>3. /\ Replayed(found) \in CycleStates /\ SameAttempt(found, Replayed(found))
        /\ Replayed(cs) \in CycleStates /\ SameAttempt(cs, Replayed(cs))
        /\ Park(cs) \in CycleStates /\ SameAttempt(cs, Park(cs))
    BY <1>2, <2>2, ReplayedType, ReplayedOnly, ParkType, RecordedOnly
  <2>4. SameAttempt(cs, Replayed(found))
    BY <2>2, <2>3 DEF SameAttempt
  <2> HIDE DEF found
  <2>5. CASE Conclude(p, Replayed(cs)) \/ Conclude(p, Park(cs)) \/ End(p, found) \/ End(p, cs)
    BY <1>2, <1>5, <1>7, <2>2, <2>3, <2>5
  <2>6. CASE /\ Continue(p, "read", Replayed(found)) \/ Continue(p, "read", found)
             /\ UNCHANGED disk /\ Keeps(p) /\ mode[p] = "observe"
    BY <1>6, <1>7, <2>2, <2>3, <2>4, <2>6
  <2>7. CASE /\ Continue(p, "read", found) /\ UNCHANGED disk /\ Keeps(p)
             /\ mode[p] = "dispatch" /\ cs.dispatch.outcome = "completed"
    <3>1. found.dispatch.phase = "returned" /\ found.dispatch.outcome = "completed"
      BY <1>3, <1>12, <2>2, <2>7
         DEF LookupReferences, DispatchIsReturned, SameAttempt, cs
    <3>2. HostUp => MayBeLive(disk)
      BY HostUpLive DEF LiveInv
    <3> QED BY <1>1, <1>2, <1>4, <2>2, <2>7, <3>1, <3>2, GoesOnLive
  <2> QED BY <1>3, <1>12, <2>5, <2>6, <2>7 DEF LookupReferences, found, cs
<1>13. CASE ReadPullRequests(p)
  <2> DEFINE verdict == Verdict(cs, approval, open[cs.lease.id])
             replaying == mode[p] = "observe" /\ Replaying(cs)
  <2>1. verdict \in CycleStates /\ verdict.lease = cs.lease
    BY <1>2, VerdictType, VerdictKeeps
  <2>2. /\ ReplayVerdict(cs, approval) \in CycleStates
        /\ SameAttempt(cs, ReplayVerdict(cs, approval))
        /\ Park(cs) \in CycleStates /\ SameAttempt(cs, Park(cs))
    BY <1>2, ReplayVerdictType, ReplayedOnly, ParkType, RecordedOnly
  <2>3. CASE Conclude(p, Park(cs)) \/ Conclude(p, ReplayVerdict(cs, approval))
    BY <1>5, <2>2, <2>3
  \* A verdict is reached on a returned dispatch only, and then no host runs
  <2>4. ~replaying => ~HostUp /\ cs.dispatch.phase = "returned"
    <3>1. ~replaying => cs.dispatch.phase = "returned" /\ cs.dispatch.outcome # "unknown"
      BY <1>3, <1>13 DEF ReadPullRequests, DispatchIsReturned, Replaying, cs
    <3> QED BY <1>2, <3>1, ReturnedIsNotLive
  <2>5. CASE ~replaying /\ Conclude(p, verdict)
    <3> HIDE DEF verdict
    <3> QED BY <1>1, <1>2, <2>1, <2>4, <2>5, ConcludeLive
  <2>6. CASE /\ ~replaying /\ cs.dispatch.prs \cap open[cs.lease.id] # {}
             /\ ScopeFailure(cs, approval) # "authority-scope-exceeded"
             /\ Continue(p, "recheck", verdict) /\ UNCHANGED disk /\ Keeps(p)
    <3>1. mode[p] = "dispatch" => cs.dispatch.outcome = "completed"
      BY <1>3, <1>13 DEF ReadPullRequests, DispatchIsReturned, cs
    <3>2. verdict.dispatch = cs.dispatch
      BY <1>2, <2>6 DEF Verdict, CycleStates, Fail, Park
    <3> HIDE DEF verdict
    <3> QED BY <1>1, <1>2, <2>1, <2>4, <2>6, <3>1, <3>2, GoesOnLive
  <2> QED BY <1>13, <2>3, <2>5, <2>6 DEF ReadPullRequests, cs
<1>14. CASE RecheckActive(p)
  <2>1. "authority-expired" \in Failures /\ "authority-refused" \in Failures
    BY DEF Failures
  <2>2. \A ds \in {cs, Park(cs), Fail(cs, "authority-expired"), Fail(cs, "authority-refused")} :
           ds \in CycleStates /\ SameAttempt(cs, ds)
    BY <1>2, <1>7, <2>1, ParkType, FailType, RecordedOnly
  <2>3. \E ds \in {cs, Park(cs), Fail(cs, "authority-expired"), Fail(cs, "authority-refused")} :
           Conclude(p, ds)
    BY <1>14 DEF RecheckActive, cs
  <2> QED BY <1>5, <2>2, <2>3
<1> QED BY <1>8, <1>9, <1>10, <1>11, <1>12, <1>13, <1>14 DEF Observe

\* Between the sections, with the cycle lock still held, the file does not change
\* but for the scan's rewriting of what it loaded.
LEMMA RefreshLive ==
    ASSUME TypeInv, LiveInv, NEW p \in Processes, Refresh(p)
    PROVE  LiveInv'
<1>1. /\ pc[p] # "idle" /\ disk \in CycleStates /\ mode[p] # "dispatch"
      /\ UNCHANGED <<host, scans>>
  BY DEF Refresh, ScanLoad, ScanSave, RefreshRefused, Relock, Unlocked, world,
         TypeInv, TypeOK, LiveInv, RunOK, DispatchIsReturned
<1>2. HostUp => MayBeLive(disk)
  BY HostUpLive DEF LiveInv
<1>3. CASE End(p, Park(disk))
  <2>1. Park(disk) \in CycleStates /\ SameAttempt(disk, Park(disk))
    BY <1>1, ParkType, RecordedOnly
  <2>2. Park(disk).lease = disk.lease /\ (HostUp => MayBeLive(Park(disk)))
    BY <1>2, <2>1, SameAttemptLive DEF SameAttempt
  <2> QED BY <1>1, <1>3, <2>1, <2>2, EndLive
<1>4. CASE \E label \in {"scanning", "scanned", "select"}, cs \in CycleStates :
             /\ Continue(p, label, cs) /\ UNCHANGED <<disk, mode>>
             /\ label # "scanned" => cs = disk
  <2>1. PICK label \in {"scanning", "scanned", "select"}, cs \in CycleStates :
             /\ Continue(p, label, cs) /\ UNCHANGED <<disk, mode>>
             /\ label # "scanned" => cs = disk
    BY <1>4
  <2>2. pc'[p] = label /\ mem'[p] = cs
    BY <2>1 DEF Continue, TypeInv, TypeOK
  <2>3. HostIsKnown' /\ HostUp' = HostUp
    BY <1>1, <2>1 DEF LiveInv, HostIsKnown, HostUp
  <2>4. RunOK(p)'
    BY <1>1, <1>2, <2>1, <2>2, <2>3
       DEF RunOK, CopyIsCurrent, CopyKeepsHost, NothingRunsYet, DispatchIsReturned, Sections
  <2>5. \A q \in Processes \ {p} : pc'[q] = pc[q] /\ mode'[q] = mode[q]
    BY <2>1 DEF Continue, TypeInv, TypeOK
  <2> QED BY <1>1, <2>3, <2>4, <2>5, OnlyOneMoves DEF LiveInv
<1>5. CASE ScanLoad(p)
  BY <1>1, <1>4, <1>5 DEF ScanLoad, Keeps
<1>6. CASE ScanSave(p)
  <2>1. mem[p] = disk
    BY <1>6 DEF ScanSave, LiveInv, RunOK, CopyIsCurrent
  <2> QED BY <1>4, <1>6, <2>1, EmptyCycleType DEF ScanSave, Keeps
<1>7. CASE RefreshRefused(p)
  BY <1>3, <1>7 DEF RefreshRefused
<1>8. CASE Relock(p)
  BY <1>1, <1>3, <1>4, <1>8 DEF Relock
<1> QED BY <1>5, <1>6, <1>7, <1>8 DEF Refresh

\* The lease is taken and its intent recorded while no host runs; the launch
\* makes the recorded attempt the live one; the return keeps it recorded as live
\* unless its worker tree was seen empty.
LEMMA DispatchLive ==
    ASSUME TypeInv, LiveInv, NEW p \in Processes, Dispatch(p)
    PROVE  LiveInv'
<1> DEFINE cs == mem[p]
<1>1. pc[p] \in Sections /\ scans' = {}
  BY DEF Dispatch, SelectNothing, BeginAttempt, DispatchRefused, RecordIntent,
         HostParked, HostLaunch, HostReturn, Sections, LiveInv
<1>2. /\ cs \in CycleStates /\ cs.lease = disk.lease /\ pc[p] # "idle"
      /\ HostUp => MayBeLive(cs)
  BY <1>1, InSection
<1>3. RunOK(p) /\ HostIsKnown
  BY DEF LiveInv
<1>4. ASSUME NEW label, NEW ds, Continue(p, label, ds), mode' = mode
             \/ mode' = [mode EXCEPT ![p] = "dispatch"]
      PROVE  /\ pc'[p] = label /\ mem'[p] = ds
             /\ \A q \in Processes \ {p} : pc'[q] = pc[q] /\ mode'[q] = mode[q]
  BY <1>4 DEF Continue, TypeInv, TypeOK
<1> HIDE DEF cs
<1>5. CASE SelectNothing(p)
  <2>1. /\ NoOp(cs) \in CycleStates /\ SameAttempt(cs, NoOp(cs))
        /\ Park(cs) \in CycleStates /\ SameAttempt(cs, Park(cs))
    BY <1>2, NoOpType, ParkType, RecordedOnly
  <2>2. \E ds \in {NoOp(cs), Park(cs)} : End(p, ds)
    BY <1>5 DEF SelectNothing, cs
  <2>3. UNCHANGED <<host, scans>>
    BY <1>5 DEF SelectNothing, world
  <2> QED BY <1>2, <2>1, <2>2, <2>3, SameAttemptLive, EndLive DEF SameAttempt
<1>6. CASE BeginAttempt(p)
  <2> DEFINE leased == Begin(cs, FreshId, stamp[p])
  <2>1. ~HostUp
    <3>1. CanBegin(cs, stamp[p])
      BY <1>6 DEF BeginAttempt, cs
    <3> QED BY <1>2, <3>1, SettledIsNotLive DEF CanBegin, MayReplaceLease, MayBeLive
  <2>2. leased.disposed = NoAttempt /\ leased.receipt = "none"
    BY DEF Begin, EmptyCycle
  <2> HIDE DEF leased
  <2>3. /\ disk' = leased /\ Continue(p, "begun", leased) /\ host' = host
        /\ mode' = [mode EXCEPT ![p] = "dispatch"]
    BY <1>6 DEF BeginAttempt, leased, cs, world
  <2>4. ~HostUp' /\ HostIsKnown'
    BY <2>1, <2>3 DEF HostUp, HostIsKnown
  <2>5. RunOK(p)'
    BY <1>4, <2>2, <2>3, <2>4
       DEF RunOK, CopyIsCurrent, CopyKeepsHost, NothingRunsYet, DispatchIsReturned
  <2> QED BY <1>1, <1>2, <1>4, <2>3, <2>4, <2>5, OnlyOneMoves
<1>7. CASE DispatchRefused(p)
  <2>1. "runtime-exhausted" \in Failures
    BY DEF Failures
  <2>2. \A ds \in {Park(cs), Fail(cs, "runtime-exhausted")} :
           ds \in CycleStates /\ SameAttempt(cs, ds)
    BY <1>2, <2>1, ParkType, FailType, RecordedOnly
  <2>3. \E ds \in {Park(cs), Fail(cs, "runtime-exhausted")} : End(p, ds)
    BY <1>7 DEF DispatchRefused, cs
  <2>4. UNCHANGED <<host, scans>>
    BY <1>7 DEF DispatchRefused, world
  <2> QED BY <1>2, <2>2, <2>3, <2>4, SameAttemptLive, EndLive DEF SameAttempt
<1>8. CASE RecordIntent(p)
  <2> DEFINE intended == Intended(cs)
  <2>1. ~HostUp /\ cs.disposed = NoAttempt /\ cs.receipt = "none"
    BY <1>3, <1>8 DEF RecordIntent, RunOK, NothingRunsYet, cs
  <2>2. /\ intended.disposed = NoAttempt /\ intended.receipt = "none"
        /\ intended.dispatch.phase = "intent"
    <3>1. Admit(cs) \in CycleStates
      BY <1>2, <1>8, AdmitType DEF RecordIntent, cs
    <3>2. Admit(cs).disposed = NoAttempt /\ Admit(cs).receipt = "none"
      BY <1>2, <2>1 DEF Admit, CycleStates
    <3> QED BY <3>1, <3>2 DEF Intended, NoDispatch, CycleStates
  <2> HIDE DEF intended
  <2>3. disk' = intended /\ Continue(p, "launch", intended) /\ host' = host /\ mode' = mode
    BY <1>8 DEF RecordIntent, Keeps, intended, cs, world
  <2>4. ~HostUp' /\ HostIsKnown'
    BY <2>1, <2>3 DEF HostUp, HostIsKnown
  <2>5. RunOK(p)'
    BY <1>3, <1>4, <1>8, <2>2, <2>3, <2>4
       DEF RecordIntent, RunOK, CopyIsCurrent, CopyKeepsHost, NothingRunsYet,
           DispatchIsReturned
  <2> QED BY <1>1, <1>2, <1>4, <2>3, <2>4, <2>5, OnlyOneMoves
<1>9. CASE HostParked(p)
  <2> DEFINE parked == Park([Settle(cs, 0, 0) EXCEPT !.dispatch = NoDispatch])
  <2>1. ~HostUp /\ End(p, parked) /\ UNCHANGED <<host, scans>>
    BY <1>3, <1>9 DEF HostParked, RunOK, NothingRunsYet, cs, world
  <2>2. parked \in CycleStates /\ parked.lease = cs.lease
    <3>1. Settle(cs, 0, 0) \in CycleStates /\ NoDispatch \in Dispatches
      BY <1>2, SettleType DEF NoDispatch, Dispatches, Phases, Outcomes
    <3>2. [Settle(cs, 0, 0) EXCEPT !.dispatch = NoDispatch] \in CycleStates
      BY <3>1 DEF CycleStates
    <3>3. Settle(cs, 0, 0).lease = cs.lease
      BY <1>2 DEF Settle, CycleStates
    <3> QED BY <3>1, <3>2, <3>3, ParkType DEF Park, CycleStates
  <2> HIDE DEF parked
  <2> QED BY <1>2, <2>1, <2>2, EndLive
<1>10. CASE HostLaunch(p)
  <2>1. /\ ~HostUp /\ cs = disk /\ cs.lease.id # NoAttempt
        /\ cs.disposed = NoAttempt /\ cs.receipt = "none" /\ cs.dispatch.phase = "intent"
    BY <1>3, <1>10
       DEF HostLaunch, RunOK, CopyIsCurrent, NothingRunsYet, TypeInv, Attached,
           AttachedLabels, cs
  <2>2. /\ host' = [host EXCEPT ![cs.lease.id] = "running"]
        /\ Continue(p, "running", cs) /\ disk' = disk /\ mode' = mode
    BY <1>10 DEF HostLaunch, Keeps, cs
  <2>3. MayBeLive(cs)
    BY <2>1 DEF MayBeLive
  <2>4. HostIsKnown'
    BY <2>1, <2>2, <2>3 DEF HostIsKnown, HostUp, TypeInv, TypeOK
  <2>5. RunOK(p)'
    BY <1>3, <1>4, <1>10, <2>1, <2>2, <2>3
       DEF HostLaunch, RunOK, CopyIsCurrent, CopyKeepsHost, NothingRunsYet,
           DispatchIsReturned
  <2> QED BY <1>1, <1>2, <1>4, <2>2, <2>4, <2>5, OnlyOneMoves
<1>11. CASE HostReturn(p)
  <2> DEFINE Ends == {"completed", "failed", "call-limit", "timeout"}
             OutcomeOf(exit, emptied) ==
                 IF ~emptied THEN "unknown"
                 ELSE IF exit \in {"completed", "failed"} THEN exit ELSE "stopped"
             Record(exit, emptied, cost, calls) ==
                 Returned(cs, OutcomeOf(exit, emptied), exit, cost, calls)
  <2>1. \E exit \in Ends, emptied \in BOOLEAN, cost \in MeasuredCosts, calls \in MeasuredCalls :
           /\ \/ host' = [host EXCEPT ![cs.lease.id] = "stopped"]
              \/ ~emptied /\ UNCHANGED host
           /\ disk' = Record(exit, emptied, cost, calls)
           /\ Continue(p, "lookup", Record(exit, emptied, cost, calls))
    BY <1>11 DEF HostReturn, cs
  <2>2. PICK exit \in Ends, emptied \in BOOLEAN, cost \in MeasuredCosts, calls \in MeasuredCalls :
           /\ \/ host' = [host EXCEPT ![cs.lease.id] = "stopped"]
              \/ ~emptied /\ UNCHANGED host
           /\ disk' = Record(exit, emptied, cost, calls)
           /\ Continue(p, "lookup", Record(exit, emptied, cost, calls))
    BY <2>1
  <2> DEFINE outcome == OutcomeOf(exit, emptied)
             returned == Returned(cs, outcome, exit, cost, calls)
  <2>3. outcome \in Outcomes /\ (outcome = "unknown" <=> ~emptied)
    BY DEF Outcomes
  <2>4. /\ returned.lease = cs.lease /\ returned.disposed = cs.disposed
        /\ returned.receipt = cs.receipt /\ returned.dispatch.phase = "returned"
        /\ returned.dispatch.outcome = outcome
    <3> HIDE DEF outcome
    <3> QED BY <1>2, <2>3, ReturnedSays
  <2>5. disk' = returned /\ Continue(p, "lookup", returned) /\ mode' = mode
    BY <1>11, <2>2 DEF HostReturn, Keeps
  <2> HIDE DEF returned, outcome
  \* a host that still runs is one whose tree was not seen empty
  <2>6. HostUp' => HostUp /\ outcome = "unknown"
    BY <1>2, <1>3, <2>2, <2>3 DEF HostUp, HostIsKnown, TypeInv, TypeOK
  <2>7. HostUp' => MayBeLive(returned)
    BY <1>2, <2>4, <2>6 DEF MayBeLive
  <2>8. HostIsKnown'
    BY <1>2, <1>3, <2>2, <2>4, <2>5, <2>7 DEF HostIsKnown, HostUp, TypeInv, TypeOK
  <2>9. RunOK(p)'
    BY <1>4, <2>4, <2>5, <2>7
       DEF RunOK, CopyIsCurrent, CopyKeepsHost, NothingRunsYet, DispatchIsReturned
  <2> QED BY <1>1, <1>2, <1>4, <2>5, <2>8, <2>9, OnlyOneMoves
<1> QED BY <1>5, <1>6, <1>7, <1>8, <1>9, <1>10, <1>11 DEF Dispatch

\* A kill loses the process's copy, and never the file.
LEMMA CrashLive ==
    ASSUME TypeInv, LiveInv, ~ForeignScans, NEW p \in Processes, Crash(p)
    PROVE  LiveInv'
<1>1. scans' = {} /\ disk' = disk /\ pc[p] # "idle"
  BY DEF Crash, LiveInv
<1>2. pc'[p] = "idle" /\ mode'[p] = "observe"
  BY DEF Crash, Exit, TypeInv, TypeOK
<1>3. HostIsKnown'
  BY <1>1 DEF Crash, LiveInv, HostIsKnown, TypeInv, TypeOK
<1>4. RunOK(p)'
  BY <1>2 DEF RunOK, CopyIsCurrent, CopyKeepsHost, NothingRunsYet, DispatchIsReturned,
              Sections
<1>5. \A q \in Processes \ {p} : pc'[q] = pc[q] /\ mode'[q] = mode[q]
  BY DEF Crash, Exit, TypeInv, TypeOK
<1> QED BY <1>1, <1>3, <1>4, <1>5, OnlyOneMoves

\* The environment can only end a host.
LEMMA EnvironmentLive ==
    ASSUME TypeInv, LiveInv, ~ForeignScans, Environment
    PROVE  LiveInv'
<1>1. UNCHANGED command /\ scans' = {}
  BY DEF Environment, Worker, Reviewer, HostExit, OpenPullRequest, ClosePullRequest,
         ForeignScanLoad, ForeignScanSave, Configure, Tick, LiveInv
<1>2. \A a \in Attempts : host'[a] = "running" => host[a] = "running"
  BY DEF Environment, Worker, Reviewer, HostExit, OpenPullRequest, ClosePullRequest,
         ForeignScanLoad, ForeignScanSave, Configure, Tick, LiveInv, world, TypeInv, TypeOK
<1>3. HostUp' => HostUp
  BY <1>2 DEF HostUp
<1>4. OneAtATime' /\ HostIsKnown'
  BY <1>1, <1>2 DEF command, LiveInv, OneAtATime, HostIsKnown
<1>5. \A p \in Processes : RunOK(p)'
  BY <1>1, <1>3
     DEF command, LiveInv, RunOK, CopyIsCurrent, CopyKeepsHost, NothingRunsYet,
         DispatchIsReturned
<1> QED BY <1>1, <1>4, <1>5 DEF LiveInv

LEMMA NextLive ==
    ASSUME TypeInv, LiveInv, ~ForeignScans, [Next]_vars
    PROVE  LiveInv'
<1>1. ASSUME NEW p \in Processes, StartRun(p) \/ Run(p) \/ Crash(p) \/ Operator(p)
      PROVE  LiveInv'
  BY <1>1, StartRunLive, GateNewWorkLive, ObserveLive, RefreshLive, DispatchLive,
     CrashLive, DisposeAttemptLive DEF Run, Operator
<1>2. CASE UNCHANGED vars
  BY <1>2 DEF vars, command, world, LiveInv, OneAtATime, HostIsKnown, HostUp, RunOK,
              CopyIsCurrent, CopyKeepsHost, NothingRunsYet, DispatchIsReturned
<1> QED BY <1>1, <1>2, EnvironmentLive DEF Next

LEMMA LiveInvSuffices ==
    ASSUME TypeInv, LiveInv
    PROVE  LiveHostIsRecorded
BY SettledIsNotLive DEF TypeInv, TypeOK, LiveInv, HostIsKnown, LiveHostIsRecorded

-----------------------------------------------------------------------------

\* A coding host that runs belongs to the attempt in the state file, which does
\* not read as settled, whatever processes were killed and whenever: the gate of
\* repair_cycle.py cannot start a second one.  It rests on the scan of every
\* other command waiting for the cycle lock, which the code does not ensure.
THEOREM LiveHostCorrect == ASSUME ~ForeignScans PROVE Spec => []LiveHostIsRecorded
<1>1. Init => TypeInv /\ LiveInv
  BY InitType, InitLive
<1>2. TypeInv /\ LiveInv /\ [Next]_vars => (TypeInv /\ LiveInv)'
  BY NextType, NextLive
<1>3. TypeInv /\ LiveInv => LiveHostIsRecorded
  BY LiveInvSuffices
<1> QED BY <1>1, <1>2, <1>3, PTL DEF Spec

-----------------------------------------------------------------------------
(* What the record keeps: the charge of a live host, and the first failure *)

\* What the file must say while a host runs that may spend the whole budget; of
\* an attempt from before dispatch records it says nothing of the kind.
FullyCharged(cs) ==
    /\ cs.reservedCost + cs.consumedCost >= CostCap
    /\ cs.reservedCalls + cs.consumedCalls >= CallLimit

CoversHost(cs) ==
    cs.dispatch.phase = "unknown" \/ cs.receipt # "none" \/ FullyCharged(cs)

KeepsFailure(cs, ds) == cs.failure # "none" => ds.failure = cs.failure

KeepsRecord(cs, ds) == KeepsFailure(cs, ds) /\ (CoversHost(cs) => CoversHost(ds))

\* A section must not save a copy that lacks the charge or the failure the file
\* already has; nor may a host be launched before its charge is in its record.
KeptInv ==
    /\ HostUp => CoversHost(disk)
    /\ \A p \in Processes : pc[p] \in Sections =>
          /\ HostUp => CoversHost(mem[p])
          /\ KeepsFailure(disk, mem[p])
    /\ \A p \in Processes : pc[p] \in {"launch", "running"} => FullyCharged(mem[p])

\* The action of FailureIsKept
FirstFailure == disk'.lease = disk.lease => KeepsFailure(disk, disk')

LEMMA RecordedKeeps ==
    ASSUME NEW cs \in CycleStates, NEW reason, NEW found
    PROVE  /\ KeepsRecord(cs, cs)
           /\ KeepsRecord(cs, Park(cs))
           /\ KeepsRecord(cs, NoOp(cs))
           /\ KeepsRecord(cs, Fail(cs, reason))
           /\ KeepsRecord(cs, Counted(cs))
           /\ KeepsRecord(cs, WithReferences(cs, found))
           /\ KeepsRecord(cs, Dispose(cs))
BY DEF CycleStates, Dispatches, KeepsRecord, KeepsFailure, CoversHost, FullyCharged, Park,
       NoOp, Fail, Counted, WithReferences, Dispose

LEMMA ReplayedKeeps ==
    ASSUME NEW cs \in CycleStates, NEW approval
    PROVE  KeepsRecord(cs, Replayed(cs)) /\ KeepsRecord(cs, ReplayVerdict(cs, approval))
BY RecordedKeeps DEF Replayed, ReplayVerdict

LEMMA VerdictKeepsFailure ==
    ASSUME NEW cs \in CycleStates, NEW approval, NEW isOpen
    PROVE  KeepsFailure(cs, Verdict(cs, approval, isOpen))
BY DEF Verdict, Fail, Park, CycleStates, KeepsFailure

\* A section goes on with ds, or ends; what it saves is either ds or an earlier
\* stage of it.
LEMMA RecordStep ==
    ASSUME TypeInv, LiveInv, KeptInv, NEW p \in Processes, pc[p] \in Sections,
           host' = host, NEW saved, NEW ds, disk' \in {disk, saved},
           \A q \in Processes \ {p} : pc'[q] = pc[q],
           pc'[p] \in Sections => mem'[p] = ds /\ pc'[p] \notin {"launch", "running"},
           KeepsFailure(mem[p], saved), KeepsFailure(mem[p], ds), KeepsFailure(saved, ds),
           HostUp => CoversHost(saved) /\ CoversHost(ds)
    PROVE  KeptInv' /\ FirstFailure
<1>1. HostUp' <=> HostUp
  BY DEF HostUp
<1>2. KeepsFailure(disk, mem[p]) /\ (HostUp => CoversHost(disk))
  BY DEF KeptInv
<1>3. FirstFailure
  BY <1>2 DEF FirstFailure, KeepsFailure
<1>4. HostUp' => CoversHost(disk')
  BY <1>1, <1>2
<1>5. pc'[p] \in Sections => (HostUp' => CoversHost(mem'[p])) /\ KeepsFailure(disk', mem'[p])
  BY <1>1, <1>2 DEF KeepsFailure
<1>6. \A q \in Processes \ {p} : pc'[q] = "idle"
  BY DEF LiveInv, OneAtATime, Sections
<1>7. "idle" \notin Sections /\ {"launch", "running"} \subseteq Sections
  BY DEF Sections
<1>8. \A q \in Processes : pc'[q] \notin {"launch", "running"}
  BY <1>6, <1>7
<1>9. \A q \in Processes : pc'[q] \in Sections =>
         (HostUp' => CoversHost(mem'[q])) /\ KeepsFailure(disk', mem'[q])
  BY <1>5, <1>6, <1>7
<1> QED BY <1>3, <1>4, <1>8, <1>9 DEF KeptInv, CoversHost, FullyCharged, KeepsFailure

LEMMA EndKeeps ==
    ASSUME TypeInv, LiveInv, KeptInv, NEW p \in Processes, pc[p] \in Sections, host' = host,
           NEW ds, KeepsFailure(mem[p], ds), HostUp => CoversHost(ds),
           End(p, ds) \/ Conclude(p, ds)
    PROVE  KeptInv' /\ FirstFailure
<1>1. KeepsFailure(ds, ds)
  BY DEF KeepsFailure
<1>2. CASE End(p, ds)
  <2>1. disk' = ds /\ pc'[p] \notin Sections /\ \A q \in Processes \ {p} : pc'[q] = pc[q]
    BY <1>2 DEF End, Exit, TypeInv, TypeOK, Sections
  <2> QED BY <1>1, <2>1, RecordStep
<1>3. CASE Continue(p, "observed", ds) /\ UNCHANGED disk
  <2>1. mem'[p] = ds /\ pc'[p] = "observed" /\ \A q \in Processes \ {p} : pc'[q] = pc[q]
    BY <1>3 DEF Continue, TypeInv, TypeOK
  <2> QED BY <1>1, <1>3, <2>1, RecordStep
<1> QED BY <1>2, <1>3 DEF Conclude

LEMMA GoesOnKeeps ==
    ASSUME TypeInv, LiveInv, KeptInv, NEW p \in Processes, pc[p] \in Sections, host' = host,
           NEW ds, KeepsRecord(mem[p], ds), NEW saved, KeepsRecord(mem[p], saved),
           KeepsFailure(saved, ds), disk' \in {disk, saved},
           NEW label, label \notin {"launch", "running"}, Continue(p, label, ds)
    PROVE  KeptInv' /\ FirstFailure
<1>1. mem'[p] = ds /\ pc'[p] = label /\ \A q \in Processes \ {p} : pc'[q] = pc[q]
  BY DEF Continue, TypeInv, TypeOK
<1>2. HostUp => CoversHost(saved) /\ CoversHost(ds)
  BY DEF KeptInv, KeepsRecord
<1> QED BY <1>1, <1>2, RecordStep DEF KeepsRecord

\* What an observation adds never takes the charge or the failure away.
LEMMA ObserveKeeps ==
    ASSUME TypeInv, LiveInv, KeptInv, NEW p \in Processes, GateNewWork(p) \/ Observe(p)
    PROVE  KeptInv' /\ FirstFailure
<1> DEFINE cs == mem[p]
           approval == cfg[p].approval
<1>1. pc[p] \in Sections /\ host' = host
  BY DEF GateNewWork, Observe, StopUnsettled, ObservationExhausted, CountObservation,
         ProbeWorker, LookupReferences, ReadPullRequests, RecheckActive,
         ObservationTimeout, Sections, world
<1>2. cs \in CycleStates /\ (HostUp => MayBeLive(cs))
  BY <1>1, InSection
<1>3. DispatchIsReturned(p)
  BY DEF LiveInv, RunOK
<1> HIDE DEF cs
<1>4. ASSUME NEW ds, KeepsRecord(cs, ds), End(p, ds) \/ Conclude(p, ds)
      PROVE  KeptInv' /\ FirstFailure
  <2>1. KeepsFailure(cs, ds) /\ (HostUp => CoversHost(ds))
    BY <1>1, <1>4 DEF KeepsRecord, KeptInv, cs
  <2> QED BY <1>1, <1>4, <2>1, EndKeeps DEF cs
<1>5. ASSUME NEW ds, KeepsRecord(cs, ds), UNCHANGED disk,
             NEW label \in {"probe", "lookup", "read", "recheck", "observed"},
             Continue(p, label, ds)
      PROVE  KeptInv' /\ FirstFailure
  <2>1. KeepsFailure(ds, ds)
    BY DEF KeepsFailure
  <2> QED BY <1>1, <1>5, <2>1, GoesOnKeeps DEF cs
<1>6. /\ KeepsRecord(cs, cs) /\ KeepsRecord(cs, Park(cs)) /\ KeepsRecord(cs, Counted(cs))
      /\ \A reason : KeepsRecord(cs, Fail(cs, reason))
  BY <1>2, RecordedKeeps
<1>7. CASE GateNewWork(p)
  <2>1. CASE End(p, Park(cs))
    BY <1>4, <1>6, <2>1
  <2>2. CASE disk' = cs /\ Continue(p, "refresh", EmptyCycle)
    <3>1. /\ pc'[p] \notin Sections
          /\ \A q \in Processes \ {p} : pc'[q] = pc[q]
      BY <2>2 DEF Continue, TypeInv, TypeOK, Sections
    <3>2. KeepsFailure(cs, cs) /\ (HostUp => CoversHost(cs))
      BY <1>1 DEF KeptInv, KeepsFailure, cs
    <3> QED BY <1>1, <2>2, <3>1, <3>2, RecordStep DEF cs
  <2> QED BY <1>7, <2>1, <2>2 DEF GateNewWork, cs
<1>8. CASE StopUnsettled(p) \/ ObservationExhausted(p)
  BY <1>4, <1>6, <1>8 DEF StopUnsettled, ObservationExhausted, cs
<1>9. CASE CountObservation(p)
  <2>1. Counted(cs) \in CycleStates
    BY <1>2, CountedType
  <2>2. \A reason : KeepsRecord(Counted(cs), Fail(Counted(cs), reason))
    BY <2>1, RecordedKeeps
  <2>3. PICK label \in {"probe", "lookup", "observed"},
             ds \in {Counted(cs), Fail(Counted(cs), "unsettled-reservation"),
                    Fail(Counted(cs), "dispatch-outcome-unknown")} :
           disk' = Counted(cs) /\ Continue(p, label, ds)
    BY <1>9 DEF CountObservation, cs
  <2>4. KeepsFailure(Counted(cs), ds) /\ KeepsRecord(cs, ds)
    BY <1>6, <2>2, <2>3 DEF KeepsRecord, KeepsFailure
  <2> QED BY <1>1, <1>6, <2>3, <2>4, GoesOnKeeps DEF cs
<1>10. CASE ProbeWorker(p) \/ ObservationTimeout(p)
  BY <1>5, <1>6, <1>10 DEF ProbeWorker, ObservationTimeout, cs
<1>11. CASE LookupReferences(p)
  <2> DEFINE found == WithReferences(cs, opened[cs.lease.id])
  <2>1. KeepsRecord(cs, found) /\ KeepsRecord(cs, Replayed(cs))
    BY <1>2, RecordedKeeps, ReplayedKeeps
  <2>2. found \in CycleStates
    <3>1. cs.lease.id \in Attempts
      BY <1>2, <1>11, LeaseId DEF LookupReferences, TypeInv, Attached, AttachedLabels, cs
    <3> QED BY <1>2, <3>1, WithReferencesType DEF TypeInv, TypeOK
  <2>3. KeepsRecord(found, Replayed(found))
    BY <2>2, ReplayedKeeps
  <2>4. KeepsRecord(cs, Replayed(found))
    BY <2>1, <2>3 DEF KeepsRecord, KeepsFailure
  <2>5. \/ \E ds \in {found, Replayed(found)} : Continue(p, "read", ds) /\ UNCHANGED disk
        \/ \E ds \in {found, cs} : End(p, ds)
        \/ \E ds \in {Replayed(cs), Park(cs)} : Conclude(p, ds)
    BY <1>11 DEF LookupReferences, cs
  <2> HIDE DEF found
  <2> QED BY <1>4, <1>5, <1>6, <2>1, <2>4, <2>5
<1>12. CASE ReadPullRequests(p)
  <2> DEFINE verdict == Verdict(cs, approval, open[cs.lease.id])
             replayed == ReplayVerdict(cs, approval)
             replaying == mode[p] = "observe" /\ Replaying(cs)
  <2>1. KeepsFailure(cs, verdict) /\ KeepsRecord(cs, replayed)
    BY <1>2, VerdictKeepsFailure, ReplayedKeeps
  \* a verdict is reached on a returned dispatch only, and then no host runs
  <2>2. ~replaying => ~HostUp
    <3>1. ~replaying => cs.dispatch.phase = "returned" /\ cs.dispatch.outcome # "unknown"
      BY <1>3, <1>12 DEF ReadPullRequests, DispatchIsReturned, Replaying, cs, TypeInv, TypeOK
    <3> QED BY <1>2, <3>1, ReturnedIsNotLive
  <2>3. \/ \E ds \in {Park(cs), replayed} : Conclude(p, ds)
        \/ ~replaying /\ Conclude(p, verdict)
        \/ ~replaying /\ Continue(p, "recheck", verdict) /\ UNCHANGED disk
    BY <1>12 DEF ReadPullRequests, cs
  <2> HIDE DEF verdict, replayed, replaying
  <2>4. CASE \E ds \in {Park(cs), replayed} : Conclude(p, ds)
    BY <1>4, <1>6, <2>1, <2>4
  <2>5. CASE ~replaying /\ Conclude(p, verdict)
    BY <1>1, <2>1, <2>2, <2>5, EndKeeps DEF cs
  <2>6. CASE ~replaying /\ Continue(p, "recheck", verdict) /\ UNCHANGED disk
    <3>1. KeepsRecord(cs, cs) /\ KeepsFailure(verdict, verdict)
      BY <1>6 DEF KeepsFailure
    <3>2. mem'[p] = verdict /\ pc'[p] = "recheck" /\ \A q \in Processes \ {p} : pc'[q] = pc[q]
      BY <2>6 DEF Continue, TypeInv, TypeOK
    <3> QED BY <1>1, <2>1, <2>2, <2>6, <3>1, <3>2, RecordStep DEF cs
  <2> QED BY <2>3, <2>4, <2>5, <2>6
<1>13. CASE RecheckActive(p)
  <2>1. \E ds \in {cs, Park(cs), Fail(cs, "authority-expired"), Fail(cs, "authority-refused")} :
           Conclude(p, ds)
    BY <1>13 DEF RecheckActive, cs
  <2> QED BY <1>4, <1>6, <2>1
<1> QED BY <1>7, <1>8, <1>9, <1>10, <1>11, <1>12, <1>13 DEF Observe

\* While process p runs, no other does: what p and the file have is all there is.
LEMMA OnlyOneKeeps ==
    ASSUME TypeInv, LiveInv, NEW p \in Processes, pc[p] # "idle" \/ CycleLockFree,
           \A q \in Processes \ {p} : pc'[q] = pc[q],
           HostUp' => CoversHost(disk'),
           pc'[p] \in Sections =>
               (HostUp' => CoversHost(mem'[p])) /\ KeepsFailure(disk', mem'[p]),
           pc'[p] \in {"launch", "running"} => FullyCharged(mem'[p])
    PROVE  KeptInv'
<1>1. \A q \in Processes \ {p} : pc'[q] = "idle"
  BY DEF LiveInv, OneAtATime, CycleLockFree
<1>2. "idle" \notin Sections /\ "idle" \notin {"launch", "running"}
  BY DEF Sections
<1> QED BY <1>1, <1>2 DEF KeptInv, CoversHost, FullyCharged, KeepsFailure

LEMMA StartRunKeeps ==
    ASSUME TypeInv, LiveInv, KeptInv, NEW p \in Processes, StartRun(p)
    PROVE  KeptInv' /\ FirstFailure
<1>1. /\ pc'[p] = "gate" /\ mem'[p] = disk /\ disk' = disk /\ host' = host /\ CycleLockFree
      /\ \A q \in Processes \ {p} : pc'[q] = pc[q]
  BY DEF StartRun, Continue, world, TypeInv, TypeOK
<1>2. KeepsFailure(disk, disk) /\ (HostUp => CoversHost(disk))
  BY DEF KeepsFailure, KeptInv
<1>3. HostUp' <=> HostUp
  BY <1>1 DEF HostUp
<1> QED BY <1>1, <1>2, <1>3, OnlyOneKeeps DEF FirstFailure

\* Disposing an attempt changes neither its failure nor its charge.
LEMMA DisposeAttemptKeeps ==
    ASSUME TypeInv, LiveInv, KeptInv, NEW p \in Processes, NEW id \in Attempts,
           NEW confirmed \in BOOLEAN, DisposeAttempt(p, id, confirmed)
    PROVE  KeptInv' /\ FirstFailure
<1>1. /\ disk' = Dispose(disk) /\ UNCHANGED <<pc, mem, host>>
      /\ CycleLockFree /\ disk \in CycleStates /\ pc[p] = "idle"
  BY DEF DisposeAttempt, world, TypeInv, TypeOK
<1>2. KeepsRecord(disk, Dispose(disk)) /\ (HostUp => CoversHost(disk))
  BY <1>1, RecordedKeeps DEF KeptInv
<1>3. HostUp' <=> HostUp
  BY <1>1 DEF HostUp
<1>4. pc'[p] \notin Sections /\ pc'[p] \notin {"launch", "running"}
  BY <1>1 DEF Sections
<1> QED BY <1>1, <1>2, <1>3, <1>4, OnlyOneKeeps DEF FirstFailure, KeepsRecord

\* A scan within the cycle puts back the very record it loaded.
LEMMA RefreshKeeps ==
    ASSUME TypeInv, LiveInv, KeptInv, NEW p \in Processes, Refresh(p)
    PROVE  KeptInv' /\ FirstFailure
<1>1. /\ pc[p] # "idle" /\ disk \in CycleStates /\ host' = host
  BY DEF Refresh, ScanLoad, ScanSave, RefreshRefused, Relock, Unlocked, world,
         TypeInv, TypeOK
<1>2. HostUp' <=> HostUp
  BY <1>1 DEF HostUp
<1>3. KeepsRecord(disk, disk) /\ KeepsRecord(disk, Park(disk)) /\ (HostUp => CoversHost(disk))
  BY <1>1, RecordedKeeps DEF KeptInv
<1>4. ASSUME disk' \in {disk, Park(disk)}, \A q \in Processes \ {p} : pc'[q] = pc[q],
             pc'[p] \in Sections => pc'[p] = "select" /\ disk' = disk /\ mem'[p] = disk
      PROVE  KeptInv' /\ FirstFailure
  <2>1. pc'[p] \notin {"launch", "running"}
    BY <1>4 DEF Sections
  <2>2. FirstFailure
    BY <1>3, <1>4 DEF FirstFailure, KeepsRecord
  <2> QED BY <1>1, <1>2, <1>3, <1>4, <2>1, <2>2, OnlyOneKeeps DEF KeepsRecord
<1>5. CASE End(p, Park(disk))
  <2>1. pc'[p] = "idle" /\ \A q \in Processes \ {p} : pc'[q] = pc[q]
    BY <1>5 DEF End, Exit, TypeInv, TypeOK
  <2> QED BY <1>4, <1>5, <2>1 DEF End, Sections
<1>6. CASE \E label \in {"scanning", "scanned", "select"}, cs \in CycleStates :
             Continue(p, label, cs) /\ disk' = disk /\ (label = "select" => cs = disk)
  <2>1. PICK label \in {"scanning", "scanned", "select"}, cs \in CycleStates :
             Continue(p, label, cs) /\ disk' = disk /\ (label = "select" => cs = disk)
    BY <1>6
  <2>2. /\ pc'[p] = label /\ mem'[p] = cs /\ \A q \in Processes \ {p} : pc'[q] = pc[q]
    BY <2>1 DEF Continue, TypeInv, TypeOK
  <2> QED BY <1>4, <2>1, <2>2 DEF Sections
<1>7. CASE ScanSave(p)
  <2>1. mem[p] = disk
    BY <1>7 DEF ScanSave, LiveInv, RunOK, CopyIsCurrent
  <2> QED BY <1>6, <1>7, <2>1, EmptyCycleType DEF ScanSave
<1>8. CASE ScanLoad(p)
  BY <1>1, <1>6, <1>8 DEF ScanLoad
<1> QED BY <1>1, <1>5, <1>6, <1>7, <1>8 DEF Refresh, RefreshRefused, Relock

\* The admission takes what is left of the budget, and a return that cannot say
\* what became of the host charges all of it.
LEMMA IntendedKeeps ==
    ASSUME NEW cs \in CycleStates, CanAdmit(cs)
    PROVE  KeepsFailure(cs, Intended(cs)) /\ FullyCharged(Intended(cs))
<1> DEFINE admitted == Admit(cs)
           intent == [NoDispatch EXCEPT !.phase = "intent"]
<1>1. admitted \in CycleStates
  BY AdmitType
<1>2. admitted.failure = cs.failure /\ FullyCharged(admitted)
  <2>1. /\ admitted.consumedCost = cs.consumedCost
        /\ admitted.consumedCalls = cs.consumedCalls
        /\ admitted.reservedCost = cs.reservedCost + RemainingCost(cs)
        /\ admitted.reservedCalls = cs.reservedCalls + RemainingCalls(cs)
        /\ admitted.failure = cs.failure
    BY DEF Admit, CycleStates
  <2>2. /\ cs.consumedCost \in Nat /\ cs.consumedCalls \in Nat
        /\ cs.reservedCost \in Nat /\ cs.reservedCalls \in Nat
    BY DEF CycleStates
  <2> HIDE DEF admitted
  <2> QED BY <2>1, <2>2, ConfigAssumption DEF FullyCharged, RemainingCost, RemainingCalls
<1>3. Intended(cs) = [admitted EXCEPT !.dispatch = intent]
  BY DEF Intended
<1> HIDE DEF admitted, intent
<1> QED BY <1>1, <1>2, <1>3 DEF KeepsFailure, FullyCharged, CycleStates

LEMMA ReturnedKeeps ==
    ASSUME NEW cs \in CycleStates, NEW outcome \in Outcomes, NEW exit,
           NEW cost \in MeasuredCosts, NEW calls \in MeasuredCalls
    PROVE  LET ds == Returned(cs, outcome, exit, cost, calls)
           IN /\ KeepsFailure(cs, ds)
              /\ outcome = "unknown" /\ FullyCharged(cs) => FullyCharged(ds)
<1> DEFINE charged == Charged(cs, outcome, cost, calls)
           record == [charged.dispatch EXCEPT !.phase = "returned", !.outcome = outcome]
           settled == [charged EXCEPT !.dispatch.phase = "returned",
                                      !.dispatch.outcome = outcome]
<1>1. cost \in Nat \cup {Unmeasured} /\ calls \in Nat
  BY ConfigAssumption DEF MeasuredCosts, MeasuredCalls
<1>2. /\ cs.reservedCalls \in Nat /\ cs.reservedCost \in Nat
      /\ cs.consumedCalls \in Nat /\ cs.consumedCost \in Nat
  BY DEF CycleStates
<1>3. charged \in CycleStates
  BY <1>1, <1>2, SettleType DEF Charged
<1>4. charged.failure = cs.failure
  BY DEF Charged, Settle, CycleStates
<1>5. outcome = "unknown" /\ FullyCharged(cs) => FullyCharged(charged)
  <2> SUFFICES ASSUME outcome = "unknown", FullyCharged(cs) PROVE FullyCharged(charged)
    OBVIOUS
  <2>1. /\ charged.reservedCost = 0 /\ charged.reservedCalls = 0
        /\ charged.consumedCost = cs.consumedCost + cs.reservedCost
        /\ \/ charged.consumedCalls = cs.consumedCalls + calls /\ calls > cs.reservedCalls
           \/ charged.consumedCalls = cs.consumedCalls + cs.reservedCalls
    BY DEF Charged, Settle, Unmeasured, CycleStates
  <2> HIDE DEF charged
  <2> QED BY <1>1, <1>2, <2>1, ConfigAssumption DEF FullyCharged
<1> HIDE DEF charged
<1>6. settled = [charged EXCEPT !.dispatch = record]
  BY <1>3 DEF CycleStates, Dispatches
<1>7. KeepsFailure(charged, settled) /\ (FullyCharged(charged) => FullyCharged(settled))
  <2> HIDE DEF record
  <2> QED BY <1>3, <1>6 DEF CycleStates, KeepsFailure, FullyCharged
<1>8. ASSUME NEW reason
      PROVE  LET ds == Fail(settled, reason)
             IN /\ KeepsFailure(settled, ds)
                /\ FullyCharged(settled) => FullyCharged(ds)
  <2> HIDE DEF record
  <2> QED BY <1>3, <1>6 DEF Fail, Park, CycleStates, KeepsFailure, FullyCharged
<1> HIDE DEF settled, record
<1>9. Returned(cs, outcome, exit, cost, calls) = settled
      \/ \E reason : Returned(cs, outcome, exit, cost, calls) = Fail(settled, reason)
  BY DEF Returned, charged, settled
<1> QED BY <1>4, <1>5, <1>7, <1>8, <1>9 DEF KeepsFailure

\* Whatever the run records of its own dispatch.
LEMMA DispatchKeeps ==
    ASSUME TypeInv, LiveInv, KeptInv, NEW p \in Processes, Dispatch(p)
    PROVE  KeptInv' /\ FirstFailure
<1> DEFINE cs == mem[p]
<1>1. pc[p] \in Sections
  BY DEF Dispatch, SelectNothing, BeginAttempt, DispatchRefused, RecordIntent,
         HostParked, HostLaunch, HostReturn, Sections
<1>2. /\ cs \in CycleStates /\ cs.lease = disk.lease /\ pc[p] # "idle"
      /\ HostUp => MayBeLive(cs)
  BY <1>1, InSection
<1>3. RunOK(p) /\ HostIsKnown
  BY DEF LiveInv
<1>4. KeepsFailure(disk, cs) /\ (HostUp => CoversHost(cs))
  BY <1>1 DEF KeptInv
<1>5. ASSUME NEW label, NEW ds, Continue(p, label, ds)
      PROVE  pc'[p] = label /\ mem'[p] = ds /\ \A q \in Processes \ {p} : pc'[q] = pc[q]
  BY <1>5 DEF Continue, TypeInv, TypeOK
<1> HIDE DEF cs
<1>6. ASSUME NEW ds, KeepsRecord(cs, ds), host' = host, End(p, ds)
      PROVE  KeptInv' /\ FirstFailure
  <2>1. KeepsFailure(cs, ds) /\ (HostUp => CoversHost(ds))
    BY <1>4, <1>6 DEF KeepsRecord
  <2> QED BY <1>1, <1>6, <2>1, EndKeeps DEF cs
<1>7. CASE SelectNothing(p) \/ DispatchRefused(p)
  <2>1. \E ds \in {NoOp(cs), Park(cs), Fail(cs, "runtime-exhausted")} : End(p, ds)
    BY <1>7 DEF SelectNothing, DispatchRefused, cs
  <2>2. host' = host
    BY <1>7 DEF SelectNothing, DispatchRefused, world
  <2> QED BY <1>2, <1>6, <2>1, <2>2, RecordedKeeps
<1>8. CASE BeginAttempt(p)
  <2> DEFINE leased == Begin(cs, FreshId, stamp[p])
  <2>1. CanBegin(cs, stamp[p]) /\ FreshId \in Attempts
    BY <1>8 DEF BeginAttempt, cs
  <2>2. ~HostUp
    BY <1>2, <2>1, SettledIsNotLive DEF CanBegin, MayReplaceLease, MayBeLive
  <2>3. leased.lease = NewLease(FreshId, stamp[p])
    BY DEF Begin, EmptyCycle
  <2>4. leased.lease # disk.lease
    <3>1. FreshId # NoAttempt
      BY <2>1, ConfigAssumption DEF Attempts, NoAttempt
    <3> QED BY <1>2, <2>1, <2>3, <3>1 DEF CanBegin, MayReplaceLease, NewLease
  <2> HIDE DEF leased
  <2>5. disk' = leased /\ Continue(p, "begun", leased) /\ host' = host
    BY <1>8 DEF BeginAttempt, leased, cs, world
  <2>6. ~HostUp' /\ KeepsFailure(leased, leased)
    BY <2>2, <2>5 DEF HostUp, KeepsFailure
  <2> QED BY <1>2, <1>5, <2>4, <2>5, <2>6, OnlyOneKeeps DEF FirstFailure
<1>9. CASE RecordIntent(p)
  <2> DEFINE intended == Intended(cs)
  <2>1. KeepsFailure(cs, intended) /\ FullyCharged(intended)
    BY <1>2, <1>9, IntendedKeeps DEF RecordIntent, cs
  <2> HIDE DEF intended
  <2>2. disk' = intended /\ Continue(p, "launch", intended) /\ host' = host
    BY <1>9 DEF RecordIntent, intended, cs, world
  <2>3. KeepsFailure(intended, intended) /\ CoversHost(intended)
    BY <2>1 DEF KeepsFailure, CoversHost
  <2>4. FirstFailure
    BY <1>4, <2>1, <2>2 DEF FirstFailure, KeepsFailure
  <2> QED BY <1>2, <1>5, <2>1, <2>2, <2>3, <2>4, OnlyOneKeeps
<1>10. CASE HostParked(p)
  <2> DEFINE parked == Park([Settle(cs, 0, 0) EXCEPT !.dispatch = NoDispatch])
  <2>1. ~HostUp /\ End(p, parked) /\ host' = host
    BY <1>3, <1>10 DEF HostParked, RunOK, NothingRunsYet, cs, world
  <2>2. KeepsFailure(cs, parked)
    BY <1>2 DEF KeepsFailure, Park, Settle, CycleStates
  <2> HIDE DEF parked
  <2> QED BY <1>1, <2>1, <2>2, EndKeeps DEF cs
<1>11. CASE HostLaunch(p)
  <2>1. cs = disk /\ FullyCharged(cs)
    BY <1>3, <1>11 DEF HostLaunch, RunOK, CopyIsCurrent, KeptInv, cs
  <2>2. Continue(p, "running", cs) /\ disk' = disk
    BY <1>11 DEF HostLaunch, cs
  <2>3. CoversHost(cs) /\ KeepsFailure(disk, disk)
    BY <2>1 DEF CoversHost, KeepsFailure
  <2>4. FirstFailure
    BY <2>2, <2>3 DEF FirstFailure
  <2> QED BY <1>2, <1>5, <2>1, <2>2, <2>3, <2>4, OnlyOneKeeps
<1>12. CASE HostReturn(p)
  <2>1. FullyCharged(cs)
    BY <1>12 DEF HostReturn, KeptInv, cs
  <2>2. PICK exit \in {"completed", "failed", "call-limit", "timeout"}, emptied \in BOOLEAN,
             cost \in MeasuredCosts, calls \in MeasuredCalls, outcome \in Outcomes :
           /\ \/ host' = [host EXCEPT ![cs.lease.id] = "stopped"]
              \/ outcome = "unknown" /\ UNCHANGED host
           /\ disk' = Returned(cs, outcome, exit, cost, calls)
           /\ Continue(p, "lookup", disk')
    <3>1. PICK exit \in {"completed", "failed", "call-limit", "timeout"},
               emptied \in BOOLEAN, cost \in MeasuredCosts, calls \in MeasuredCalls :
             LET outcome == IF ~emptied THEN "unknown"
                            ELSE IF exit \in {"completed", "failed"} THEN exit ELSE "stopped"
             IN /\ \/ host' = [host EXCEPT ![cs.lease.id] = "stopped"]
                   \/ ~emptied /\ UNCHANGED host
                /\ disk' = Returned(cs, outcome, exit, cost, calls)
                /\ Continue(p, "lookup", disk')
      BY <1>12 DEF HostReturn, cs
    <3> DEFINE outcome == IF ~emptied THEN "unknown"
                          ELSE IF exit \in {"completed", "failed"} THEN exit ELSE "stopped"
    <3>2. outcome \in Outcomes /\ (~emptied => outcome = "unknown")
      BY DEF Outcomes
    <3>3. /\ \/ host' = [host EXCEPT ![cs.lease.id] = "stopped"]
             \/ ~emptied /\ UNCHANGED host
          /\ disk' = Returned(cs, outcome, exit, cost, calls)
          /\ Continue(p, "lookup", disk')
      BY <3>1
    <3> HIDE DEF outcome
    <3> QED BY <3>2, <3>3
  <2>3. KeepsFailure(cs, disk') /\ (outcome = "unknown" => FullyCharged(disk'))
    BY <1>2, <2>1, <2>2, ReturnedKeeps
  <2>4. HostUp' => outcome = "unknown"
    BY <1>2, <1>3, <2>2 DEF HostUp, HostIsKnown, TypeInv, TypeOK
  <2>5. (HostUp' => CoversHost(disk')) /\ KeepsFailure(disk', disk') /\ FirstFailure
    BY <1>4, <2>3, <2>4 DEF CoversHost, FirstFailure, KeepsFailure
  <2> QED BY <1>2, <1>5, <2>2, <2>5, OnlyOneKeeps
<1> QED BY <1>7, <1>8, <1>9, <1>10, <1>11, <1>12 DEF Dispatch

\* A kill loses the process's copy; a host can only end.
LEMMA CrashKeeps ==
    ASSUME TypeInv, LiveInv, KeptInv, NEW p \in Processes, Crash(p)
    PROVE  KeptInv' /\ FirstFailure
<1>1. disk' = disk /\ pc[p] # "idle"
  BY DEF Crash
<1>2. pc'[p] = "idle" /\ \A q \in Processes \ {p} : pc'[q] = pc[q]
  BY DEF Crash, Exit, TypeInv, TypeOK
<1>3. HostUp' => HostUp
  BY DEF Crash, HostUp, TypeInv, TypeOK
<1>4. (HostUp' => CoversHost(disk')) /\ FirstFailure
  BY <1>1, <1>3 DEF KeptInv, FirstFailure, KeepsFailure
<1>5. pc'[p] \notin Sections /\ pc'[p] \notin {"launch", "running"}
  BY <1>2 DEF Sections
<1> QED BY <1>1, <1>2, <1>4, <1>5, OnlyOneKeeps

LEMMA EnvironmentKeeps ==
    ASSUME TypeInv, LiveInv, KeptInv, ~ForeignScans, Environment
    PROVE  KeptInv' /\ FirstFailure
<1>1. UNCHANGED command
  BY DEF Environment, Worker, Reviewer, HostExit, OpenPullRequest, ClosePullRequest,
         ForeignScanLoad, ForeignScanSave, Configure, Tick, LiveInv
<1>2. \A a \in Attempts : host'[a] = "running" => host[a] = "running"
  BY DEF Environment, Worker, Reviewer, HostExit, OpenPullRequest, ClosePullRequest,
         ForeignScanLoad, ForeignScanSave, Configure, Tick, LiveInv, world, TypeInv, TypeOK
<1>3. HostUp' => HostUp
  BY <1>2 DEF HostUp
<1> QED BY <1>1, <1>3
        DEF command, KeptInv, FirstFailure, CoversHost, FullyCharged, KeepsFailure

LEMMA NextKeeps ==
    ASSUME TypeInv, LiveInv, KeptInv, ~ForeignScans, [Next]_vars
    PROVE  KeptInv' /\ FirstFailure
<1>1. ASSUME NEW p \in Processes, StartRun(p) \/ Run(p) \/ Crash(p) \/ Operator(p)
      PROVE  KeptInv' /\ FirstFailure
  BY <1>1, StartRunKeeps, ObserveKeeps, RefreshKeeps, DispatchKeeps, CrashKeeps,
     DisposeAttemptKeeps DEF Run, Operator
<1>2. CASE UNCHANGED vars
  <2>1. UNCHANGED <<disk, pc, mem, host>>
    BY <1>2 DEF vars, command, world
  <2> QED BY <2>1
          DEF KeptInv, FirstFailure, CoversHost, FullyCharged, KeepsFailure, HostUp
<1> QED BY <1>1, <1>2, EnvironmentKeeps DEF Next

\* An attempt from before dispatch records owes no charge.
LEMMA InitKept == Init => KeptInv
<1> SUFFICES ASSUME Init PROVE KeptInv
  OBVIOUS
<1>1. \A p \in Processes : pc[p] \notin Sections /\ pc[p] \notin {"launch", "running"}
  BY DEF Init, Sections
<1>2. CASE FreshStart
  BY <1>1, <1>2 DEF FreshStart, KeptInv, HostUp
<1>3. CASE LegacyStart
  <2>1. disk \in LegacyCycles
    BY <1>3 DEF LegacyStart
  <2>2. disk.dispatch.phase = "unknown" \/ disk.receipt # "none"
    <3>1. CASE \E receipt \in {"none", "active"} :
                  disk = [EmptyCycle EXCEPT !.lease = LegacyLease, !.receipt = receipt,
                             !.dispatch = [NoDispatch EXCEPT !.phase = "unknown"]]
      <4>1. disk.dispatch = [NoDispatch EXCEPT !.phase = "unknown"]
        BY <3>1 DEF EmptyCycle
      <4> QED BY <4>1 DEF NoDispatch
    <3>2. CASE \E receipt \in {"active", "terminal"} :
                  disk = [EmptyCycle EXCEPT !.lease = LegacyLease, !.receipt = receipt]
      BY <3>2 DEF EmptyCycle
    <3> QED BY <2>1, <3>1, <3>2 DEF LegacyCycles
  <2> QED BY <1>1, <2>2 DEF KeptInv, CoversHost
<1> QED BY <1>2, <1>3 DEF Init

\* While a coding host runs, the state file holds the whole cost and every call
\* as reserved or charged: a run killed after the launch, and a return that could
\* not establish the outcome, leave no budget to admit another from.
THEOREM LiveHostChargedCorrect == ASSUME ~ForeignScans PROVE Spec => []LiveHostIsCharged
<1>1. Init => TypeInv /\ LiveInv /\ KeptInv
  BY InitType, InitLive, InitKept
<1>2. TypeInv /\ LiveInv /\ KeptInv /\ [Next]_vars => (TypeInv /\ LiveInv /\ KeptInv)'
  BY NextType, NextLive, NextKeeps
<1>3. KeptInv => LiveHostIsCharged
  BY DEF KeptInv, CoversHost, FullyCharged, HostUp, LiveHostIsCharged
<1> QED BY <1>1, <1>2, <1>3, PTL DEF Spec

\* The failure an attempt is first given stays in the state file until the next
\* lease: no later observation, run, kill or disposal replaces or clears it.
THEOREM FailureKeptCorrect == ASSUME ~ForeignScans PROVE Spec => FailureIsKept
<1>1. Init => TypeInv /\ LiveInv /\ KeptInv
  BY InitType, InitLive, InitKept
<1>2. TypeInv /\ LiveInv /\ KeptInv /\ [Next]_vars => (TypeInv /\ LiveInv /\ KeptInv)'
  BY NextType, NextLive, NextKeeps
<1>3. TypeInv /\ LiveInv /\ KeptInv /\ [Next]_vars
        => [disk'.lease = disk.lease /\ disk.failure # "none"
              => disk'.failure = disk.failure]_disk
  BY NextKeeps DEF FirstFailure, KeepsFailure
<1> QED BY <1>1, <1>2, <1>3, PTL DEF Spec, FailureIsKept

-----------------------------------------------------------------------------
(* What a launch rests on *)

\* Between the recheck that authorizes a dispatch and the launch of its host lies
\* a save; the run launches on the configuration it decoded at its start.
ApprovedInv == \A q \in Processes : pc[q] = "launch" => cfg[q].approval = "held"

LEMMA ApprovalKept ==
    ASSUME TypeInv, [Next]_vars, NEW q \in Processes
    PROVE  pc'[q] = "launch" => \/ cfg'[q].approval = "held"
                                \/ pc[q] = "launch" /\ cfg'[q] = cfg[q]
<1>1. ASSUME NEW p \in Processes, NEW label, NEW cs, Continue(p, label, cs),
             label # "launch", \A r \in Processes \ {p} : cfg'[r] = cfg[r]
      PROVE  pc'[q] = "launch" => pc[q] = "launch" /\ cfg'[q] = cfg[q]
  BY <1>1 DEF Continue, TypeInv, TypeOK
<1>2. ASSUME NEW p \in Processes, Exit(p)
      PROVE  pc'[q] = "launch" => pc[q] = "launch" /\ cfg'[q] = cfg[q]
  BY <1>2 DEF Exit, TypeInv, TypeOK
<1>3. ASSUME NEW p \in Processes, GateNewWork(p) \/ Observe(p)
      PROVE  pc'[q] = "launch" => pc[q] = "launch" /\ cfg'[q] = cfg[q]
  <2>1. \/ Exit(p)
        \/ \E label \in {"refresh", "probe", "lookup", "read", "recheck", "observed"} :
              Continue(p, label, mem'[p]) /\ cfg' = cfg
    <3>1. ASSUME NEW label, NEW cs, Continue(p, label, cs)
          PROVE  Continue(p, label, mem'[p])
      BY <3>1 DEF Continue, TypeInv, TypeOK
    <3> QED BY <1>3, <3>1
            DEF GateNewWork, Observe, StopUnsettled, ObservationExhausted,
                CountObservation, ProbeWorker, LookupReferences, ReadPullRequests,
                RecheckActive, ObservationTimeout, Conclude, End, Keeps
  <2> QED BY <1>1, <1>2, <2>1
<1>4. ASSUME NEW p \in Processes, Dispatch(p)
      PROVE  pc'[q] = "launch" => \/ cfg'[q].approval = "held"
                                  \/ pc[q] = "launch" /\ cfg'[q] = cfg[q]
  <2>1. CASE RecordIntent(p)
    <3>1. cfg' = cfg /\ \A r \in Processes \ {p} : pc'[r] = pc[r]
      BY <2>1 DEF RecordIntent, Continue, Keeps, TypeInv, TypeOK
    \* every state of the approval but one is refused
    <3>2. cfg[p].approval = "held"
      <4>1. cfg[p].approval \in ApprovalStates
        BY DEF TypeInv, TypeOK, Configs
      <4> QED BY <2>1, <4>1 DEF RecordIntent, Authorize, ApprovalStates
    <3> QED BY <3>1, <3>2
  <2>2. CASE ~RecordIntent(p)
    <3>1. ASSUME NEW label, NEW cs, Continue(p, label, cs)
          PROVE  Continue(p, label, mem'[p])
      BY <3>1 DEF Continue, TypeInv, TypeOK
    <3>2. \/ Exit(p)
          \/ \E label \in {"begun", "running", "lookup"} :
                Continue(p, label, mem'[p]) /\ cfg' = cfg
      BY <1>4, <2>2, <3>1
         DEF Dispatch, SelectNothing, BeginAttempt, DispatchRefused, HostParked,
             HostLaunch, HostReturn, End, Keeps
    <3> QED BY <1>1, <1>2, <3>2
  <2> QED BY <2>1, <2>2
<1>5. ASSUME NEW p \in Processes, Refresh(p)
      PROVE  pc'[q] = "launch" => pc[q] = "launch" /\ cfg'[q] = cfg[q]
  BY <1>1, <1>2, <1>5 DEF Refresh, ScanLoad, ScanSave, RefreshRefused, Relock, End, Keeps
<1>6. ASSUME NEW p \in Processes, StartRun(p)
      PROVE  pc'[q] = "launch" => pc[q] = "launch" /\ cfg'[q] = cfg[q]
  <2>1. Continue(p, "gate", disk) /\ \A r \in Processes \ {p} : cfg'[r] = cfg[r]
    BY <1>6 DEF StartRun, TypeInv, TypeOK
  <2> QED BY <1>1, <2>1
<1>7. ASSUME NEW p \in Processes, Crash(p) \/ Operator(p)
      PROVE  pc'[q] = "launch" => pc[q] = "launch" /\ cfg'[q] = cfg[q]
  BY <1>2, <1>7 DEF Crash, Operator, DisposeAttempt
<1>8. ASSUME Environment \/ UNCHANGED vars
      PROVE  pc' = pc /\ cfg' = cfg
  BY <1>8 DEF Environment, Worker, Reviewer, HostExit, OpenPullRequest,
              ClosePullRequest, ForeignScanLoad, ForeignScanSave, Configure, Tick,
              command, vars
<1> QED BY <1>3, <1>4, <1>5, <1>6, <1>7, <1>8 DEF Next, Run

\* Only a launch lets a host run.
LEMMA OnlyLaunchStarts ==
    ASSUME TypeInv, [Next]_vars, NEW a \in Attempts, host[a] # "running", host'[a] = "running"
    PROVE  \E p \in Processes : HostLaunch(p) /\ a = mem[p].lease.id
<1>1. ASSUME NEW p \in Processes, StartRun(p) \/ Operator(p) \/ GateNewWork(p) \/ Refresh(p)
      PROVE  FALSE
  BY <1>1 DEF StartRun, Operator, DisposeAttempt, GateNewWork, Refresh, ScanLoad, ScanSave,
              RefreshRefused, Relock, world
<1>2. ASSUME NEW p \in Processes, Observe(p) PROVE FALSE
  BY <1>2 DEF Observe, StopUnsettled, ObservationExhausted, CountObservation, ProbeWorker,
              LookupReferences, ReadPullRequests, RecheckActive, ObservationTimeout, world
<1>3. ASSUME NEW p \in Processes, Dispatch(p)
      PROVE  HostLaunch(p) /\ a = mem[p].lease.id
  <2>1. CASE HostLaunch(p)
    BY <2>1 DEF HostLaunch, TypeInv, TypeOK
  <2>2. CASE HostReturn(p)
    BY <2>2 DEF HostReturn, TypeInv, TypeOK
  <2> QED BY <1>3, <2>1, <2>2
          DEF Dispatch, SelectNothing, BeginAttempt, DispatchRefused, RecordIntent,
              HostParked, world
<1>4. ASSUME NEW p \in Processes, Crash(p) PROVE FALSE
  BY <1>4 DEF Crash, TypeInv, TypeOK
<1>5. ASSUME Environment \/ UNCHANGED vars PROVE FALSE
  BY <1>5 DEF Environment, Worker, Reviewer, HostExit, OpenPullRequest, ClosePullRequest,
              ForeignScanLoad, ForeignScanSave, Configure, Tick, vars, world, TypeInv, TypeOK
<1> QED BY <1>1, <1>2, <1>3, <1>4, <1>5 DEF Next, Run

\* A host starts only on an intent the state file holds, in time for the lease and
\* the approval, and under an approval its run read as held, however long the
\* steps in between took and whatever changed meanwhile.
THEOREM LaunchAuthorizedCorrect == ASSUME ~ForeignScans PROVE Spec => LaunchIsAuthorized
<1> DEFINE Launchable(a) ==
               /\ disk.lease.id = a /\ disk.dispatch.phase = "intent"
               /\ now < disk.lease.deadline
               /\ now < ApprovalExpiry
               /\ \E p \in Processes : mem[p].lease.id = a /\ cfg[p].approval = "held"
<1>1. Init => TypeInv /\ LiveInv /\ ApprovedInv
  BY InitType, InitLive DEF Init, ApprovedInv
<1>2. TypeInv /\ LiveInv /\ ApprovedInv /\ [Next]_vars => (TypeInv /\ LiveInv /\ ApprovedInv)'
  BY NextType, NextLive, ApprovalKept DEF ApprovedInv
<1>3. ASSUME TypeInv, LiveInv, ApprovedInv, [Next]_vars,
             NEW a \in Attempts, host[a] # "running", host'[a] = "running"
      PROVE  Launchable(a)
  <2>1. PICK p \in Processes : HostLaunch(p) /\ a = mem[p].lease.id
    BY <1>3, OnlyLaunchStarts
  <2>2. mem[p] = disk /\ mem[p].dispatch.phase = "intent" /\ cfg[p].approval = "held"
    BY <1>3, <2>1 DEF HostLaunch, LiveInv, RunOK, CopyIsCurrent, NothingRunsYet, ApprovedInv
  <2>3. now < RequestDeadline(disk)
    BY <2>1, <2>2 DEF HostLaunch
  <2>4. now < disk.lease.deadline /\ now < ApprovalExpiry
    <3>1. now \in Nat
      BY <1>3, EnvironmentAssumption DEF TypeInv, TypeOK
    <3>2. disk.lease.deadline \in Nat
      BY <1>3 DEF TypeInv, TypeOK, CycleStates, Leases
    <3> QED BY <2>3, <3>1, <3>2, EnvironmentAssumption DEF RequestDeadline
  <2> QED BY <2>1, <2>2, <2>4
<1>4. TypeInv /\ LiveInv /\ ApprovedInv /\ [Next]_vars
        => [\A a \in Attempts : host[a] # "running" /\ host'[a] = "running" =>
              Launchable(a)]_host
  BY <1>3
<1> QED BY <1>1, <1>2, <1>4, PTL DEF Spec, LaunchIsAuthorized

-----------------------------------------------------------------------------
(* What no command outside the cycle lock can undo *)

\* The cycle lock, the history of the dispatches and what a run carries from its
\* lease to the end of its host do not depend on the file.
DispatchInv ==
    /\ OneAtATime
    /\ DispatchedOnce
    /\ \A a \in Attempts : a > Len(begun) => intents[a] = 0
    /\ \A p \in Processes : pc[p] = "begun" =>
          mem[p].lease.id <= Len(begun) /\ intents[mem[p].lease.id] = 0
    /\ \A p \in Processes : pc[p] \in {"launch", "running"} => intents[mem[p].lease.id] = 1

\* A host's state changes while it runs, or by the run that launched it.
HostStep ==
    \A a \in Attempts :
        \/ host'[a] = host[a] \/ host[a] = "running"
        \/ \E p \in Processes : pc[p] = "running" /\ a = mem[p].lease.id

\* p moves, and no other process does
Moves(p) ==
    /\ pc[p] # "idle" \/ CycleLockFree
    /\ \A q \in Processes \ {p} : pc'[q] = pc[q] /\ mem'[q] = mem[q]

\* A step that neither leases, dispatches nor launches.
PlainStep ==
    /\ HostStep /\ UNCHANGED ghosts
    /\ \/ UNCHANGED <<pc, mem>>
       \/ \E p \in Processes : Moves(p) /\ pc'[p] \notin {"begun", "launch", "running"}

LEMMA PlainMove ==
    ASSUME TypeInv, NEW p \in Processes, pc[p] # "idle" \/ CycleLockFree, UNCHANGED ghosts,
           HostStep,
           Exit(p) \/ \E label, cs : label \notin {"begun", "launch", "running"}
                                      /\ Continue(p, label, cs)
    PROVE  PlainStep
<1>1. Moves(p)
  BY DEF Exit, Continue, Moves, TypeInv, TypeOK
<1>2. pc'[p] \notin {"begun", "launch", "running"}
  BY DEF Exit, Continue, TypeInv, TypeOK
<1> QED
  BY <1>1, <1>2 DEF PlainStep

LEMMA DispatchSteps ==
    ASSUME TypeInv, [Next]_vars
    PROVE  \/ PlainStep
           \/ \E p \in Processes : BeginAttempt(p) \/ RecordIntent(p) \/ HostLaunch(p)
<1>1. ASSUME UNCHANGED host PROVE HostStep
  BY <1>1 DEF HostStep
<1>2. ASSUME NEW p \in Processes, GateNewWork(p) \/ Observe(p) PROVE PlainStep
  <2>1. pc[p] # "idle" /\ UNCHANGED <<host, ghosts>>
    BY <1>2 DEF GateNewWork, Observe, StopUnsettled, ObservationExhausted, CountObservation,
                ProbeWorker, LookupReferences, ReadPullRequests, RecheckActive,
                ObservationTimeout, world
  <2>2. \/ Exit(p)
        \/ \E label \in {"refresh", "probe", "lookup", "read", "recheck", "observed"} :
              Continue(p, label, mem'[p])
    <3>1. ASSUME NEW label, NEW cs, Continue(p, label, cs)
          PROVE  Continue(p, label, mem'[p])
      BY <3>1 DEF Continue, TypeInv, TypeOK
    <3> QED
      BY <1>2, <3>1
         DEF GateNewWork, Observe, StopUnsettled, ObservationExhausted, CountObservation,
             ProbeWorker, LookupReferences, ReadPullRequests, RecheckActive,
             ObservationTimeout, Conclude, End
  <2> QED
    BY <1>1, <2>1, <2>2, PlainMove
<1>3. ASSUME NEW p \in Processes, Refresh(p) PROVE PlainStep
  <2>1. pc[p] # "idle" /\ UNCHANGED <<host, ghosts>>
    BY <1>3 DEF Refresh, ScanLoad, ScanSave, RefreshRefused, Relock, world, Unlocked
  <2>2. \/ Exit(p)
        \/ \E label, cs : label \in {"scanning", "scanned", "select"} /\ Continue(p, label, cs)
    BY <1>3 DEF Refresh, ScanLoad, ScanSave, RefreshRefused, Relock, End
  <2> QED
    BY <1>1, <2>1, <2>2, PlainMove
<1>4. ASSUME NEW p \in Processes, SelectNothing(p) \/ DispatchRefused(p) \/ HostParked(p)
      PROVE  PlainStep
  <2>1. pc[p] # "idle" /\ UNCHANGED <<host, ghosts>>
    BY <1>4 DEF SelectNothing, DispatchRefused, HostParked, world
  <2>2. Exit(p)
    BY <1>4 DEF SelectNothing, DispatchRefused, HostParked, End
  <2> QED
    BY <1>1, <2>1, <2>2, PlainMove
<1>5. ASSUME NEW p \in Processes, HostReturn(p) PROVE PlainStep
  <2>1. pc[p] = "running" /\ UNCHANGED ghosts /\ \E cs : Continue(p, "lookup", cs)
    BY <1>5 DEF HostReturn
  <2>2. HostStep
    BY <1>5, <2>1 DEF HostReturn, HostStep, TypeInv, TypeOK
  <2> QED
    BY <2>1, <2>2, PlainMove
<1>6. ASSUME NEW p \in Processes, Crash(p) PROVE PlainStep
  <2>1. pc[p] # "idle" /\ UNCHANGED ghosts /\ Exit(p)
    BY <1>6 DEF Crash
  <2>2. HostStep
    BY <1>6 DEF Crash, HostStep, TypeInv, TypeOK
  <2> QED
    BY <2>1, <2>2, PlainMove
<1>7. ASSUME NEW p \in Processes, StartRun(p) PROVE PlainStep
  <2>1. CycleLockFree /\ UNCHANGED <<host, ghosts>> /\ Continue(p, "gate", disk)
    BY <1>7 DEF StartRun, world
  <2> QED
    BY <1>1, <2>1, PlainMove
<1>8. ASSUME NEW p \in Processes, Operator(p) PROVE PlainStep
  BY <1>1, <1>8 DEF Operator, DisposeAttempt, world, PlainStep
<1>9. ASSUME Environment \/ UNCHANGED vars PROVE PlainStep
  <2>1. UNCHANGED <<pc, mem, ghosts>>
    BY <1>9 DEF Environment, Worker, Reviewer, HostExit, OpenPullRequest, ClosePullRequest,
                ForeignScanLoad, ForeignScanSave, Configure, Tick, command, vars
  <2>2. HostStep
    BY <1>9 DEF Environment, Worker, Reviewer, HostExit, OpenPullRequest, ClosePullRequest,
                ForeignScanLoad, ForeignScanSave, Configure, Tick, vars, world, HostStep,
                TypeInv, TypeOK
  <2> QED
    BY <2>1, <2>2 DEF PlainStep
<1> QED
  BY <1>2, <1>3, <1>4, <1>5, <1>6, <1>7, <1>8, <1>9 DEF Next, Run, Dispatch

LEMMA MovesAlone ==
    ASSUME OneAtATime, NEW p \in Processes, Moves(p)
    PROVE  OneAtATime' /\ \A q \in Processes \ {p} : pc'[q] = "idle"
BY DEF Moves, OneAtATime, CycleLockFree

LEMMA DispatchNext ==
    ASSUME TypeInv, DispatchInv, [Next]_vars
    PROVE  DispatchInv'
<1>1. CASE PlainStep
  <2>1. UNCHANGED <<begun, intents>>
    BY <1>1 DEF PlainStep, ghosts
  <2>2. ASSUME NEW a \in Attempts, host'[a] # "none" PROVE intents[a] = 1
    BY <1>1, <2>2 DEF PlainStep, HostStep, DispatchInv, DispatchedOnce
  <2>3. CASE UNCHANGED <<pc, mem>>
    BY <2>1, <2>2, <2>3 DEF DispatchInv, DispatchedOnce, OneAtATime
  <2>4. ASSUME NEW p \in Processes, Moves(p), pc'[p] \notin {"begun", "launch", "running"}
        PROVE  DispatchInv'
    <3>1. \A q \in Processes : pc'[q] \notin {"begun", "launch", "running"}
      BY <2>4, MovesAlone DEF DispatchInv
    <3> QED
      BY <2>1, <2>2, <2>4, <3>1, MovesAlone DEF DispatchInv, DispatchedOnce
  <2> QED
    BY <1>1, <2>3, <2>4 DEF PlainStep
<1>2. ASSUME NEW p \in Processes, BeginAttempt(p) PROVE DispatchInv'
  <2>1. Moves(p) /\ UNCHANGED <<host, intents>> /\ pc'[p] = "begun"
    BY <1>2 DEF BeginAttempt, Continue, Moves, TypeInv, TypeOK, world
  <2>2. mem'[p].lease.id = FreshId /\ FreshId \in Attempts
    BY <1>2 DEF BeginAttempt, Continue, Begin, NewLease, EmptyCycle, TypeInv, TypeOK
  <2>3. FreshId = Len(begun) + 1 /\ Len(begun) \in Nat /\ Len(begun') = Len(begun) + 1
    <3>1. begun \in Seq(Nat) /\ \E w : begun' = Append(begun, w)
      BY <1>2 DEF BeginAttempt, TypeInv, TypeOK
    <3> QED
      BY <3>1 DEF FreshId
  <2>4. \A q \in Processes \ {p} : pc'[q] = "idle"
    BY <2>1, MovesAlone DEF DispatchInv
  <2>5. intents[FreshId] = 0 /\ \A a \in Attempts : a > Len(begun') => intents[a] = 0
    BY <2>2, <2>3 DEF DispatchInv, Attempts
  <2> QED
    BY <2>1, <2>2, <2>3, <2>4, <2>5, MovesAlone DEF DispatchInv, DispatchedOnce
<1>3. ASSUME NEW p \in Processes, RecordIntent(p) PROVE DispatchInv'
  <2> DEFINE a == mem[p].lease.id
  <2>1. Moves(p) /\ UNCHANGED <<host, begun>> /\ pc[p] = "begun" /\ pc'[p] = "launch"
    BY <1>3 DEF RecordIntent, Continue, Moves, TypeInv, TypeOK, world
  <2>2. mem'[p].lease = mem[p].lease
    <3>1. mem'[p] = Intended(mem[p]) /\ mem[p] \in CycleStates
      BY <1>3 DEF RecordIntent, Continue, TypeInv, TypeOK
    <3>2. Intended(mem[p]).lease = mem[p].lease
      BY <3>1 DEF Intended, Admit, CycleStates
    <3> QED
      BY <3>1, <3>2
  <2>3. a \in Attempts
    BY <2>1, LeaseId DEF TypeInv, TypeOK, Attached, AttachedLabels
  <2>4. intents' = [intents EXCEPT ![a] = 1] /\ intents[a] = 0 /\ a <= Len(begun)
    <3>1. intents' = [intents EXCEPT ![a] = intents[a] + 1]
      BY <1>3 DEF RecordIntent
    <3>2. intents[a] = 0 /\ a <= Len(begun)
      BY <2>1 DEF DispatchInv
    <3> QED
      BY <3>1, <3>2
  <2>5. \A q \in Processes \ {p} : pc'[q] = "idle"
    BY <2>1, MovesAlone DEF DispatchInv
  <2>6. \A b \in Attempts : intents'[b] = IF b = a THEN 1 ELSE intents[b]
    BY <2>4 DEF TypeInv, TypeOK
  <2>7. a <= Len(begun) /\ a \in Int /\ Len(begun) \in Int
    BY <2>3, <2>4 DEF TypeInv, TypeOK, Attempts
  <2> HIDE DEF a
  <2>8. \A b \in Attempts : b > Len(begun') => intents'[b] = 0
    BY <2>1, <2>6, <2>7 DEF DispatchInv, Attempts
  <2>9. DispatchedOnce'
    BY <2>1, <2>6 DEF DispatchInv, DispatchedOnce
  <2>10. intents'[mem'[p].lease.id] = 1
    BY <2>2, <2>3, <2>6 DEF a
  <2> QED
    BY <2>1, <2>5, <2>8, <2>9, <2>10, MovesAlone DEF DispatchInv
<1>4. ASSUME NEW p \in Processes, HostLaunch(p) PROVE DispatchInv'
  <2>1. /\ Moves(p) /\ UNCHANGED <<begun, intents>> /\ pc[p] = "launch" /\ pc'[p] = "running"
        /\ mem'[p] = mem[p] /\ host' = [host EXCEPT ![mem[p].lease.id] = "running"]
    BY <1>4 DEF HostLaunch, Continue, Moves, TypeInv, TypeOK, ghosts
  <2>2. \A q \in Processes \ {p} : pc'[q] = "idle"
    BY <2>1, MovesAlone DEF DispatchInv
  <2>3. DispatchedOnce'
    BY <2>1 DEF DispatchInv, DispatchedOnce, TypeInv, TypeOK
  <2> QED
    BY <2>1, <2>2, <2>3, MovesAlone DEF DispatchInv
<1> QED
  BY <1>1, <1>2, <1>3, <1>4, DispatchSteps

LEMMA InitDispatch == Init => DispatchInv
<1> SUFFICES ASSUME Init PROVE DispatchInv
  OBVIOUS
<1>1. \A p \in Processes : pc[p] = "idle"
  BY DEF Init
<1>2. CASE FreshStart
  BY <1>1, <1>2 DEF FreshStart, DispatchInv, DispatchedOnce, OneAtATime
<1>3. CASE LegacyStart
  <2>1. begun = <<0>> /\ \A a \in Attempts : intents[a] = IF a = 1 THEN 1 ELSE 0
    BY <1>3 DEF LegacyStart
  <2>2. \A a \in Attempts : host[a] # "none" => a = 1
    BY <1>3 DEF LegacyStart
  <2>3. Len(begun) = 1
    BY <2>1
  <2> QED
    BY <1>1, <2>1, <2>2, <2>3 DEF DispatchInv, DispatchedOnce, OneAtATime, Attempts
<1> QED
  BY <1>2, <1>3 DEF Init

\* No attempt is dispatched twice and no host runs but for its attempt's one
\* dispatch, whatever other commands make of the state file: only the run that
\* leased an attempt dispatches it, and it holds the cycle lock until it is over.
THEOREM DispatchedOnceCorrect == Spec => []DispatchedOnce
<1>1. Init => TypeInv /\ DispatchInv
  BY InitType, InitDispatch
<1>2. TypeInv /\ DispatchInv /\ [Next]_vars => (TypeInv /\ DispatchInv)'
  BY NextType, DispatchNext
<1>3. DispatchInv => DispatchedOnce
  BY DEF DispatchInv
<1> QED
  BY <1>1, <1>2, <1>3, PTL DEF Spec

\* What of LaunchIsAuthorized rests on the run alone: it launches before its
\* lease's deadline and the approval's expiry, under an approval it read as held.
LaunchIsInTime ==
    [][\A a \in Attempts : host[a] # "running" /\ host'[a] = "running" =>
         /\ now < ApprovalExpiry
         /\ \E p \in Processes : /\ mem[p].lease.id = a
                                 /\ now < mem[p].lease.deadline
                                 /\ cfg[p].approval = "held"]_host

\* Also when scans outside the cycle rewrite the state file, no host is started
\* late or without an approval.
THEOREM LaunchInTimeCorrect == Spec => LaunchIsInTime
<1> DEFINE InTime(a) ==
               /\ now < ApprovalExpiry
               /\ \E p \in Processes : /\ mem[p].lease.id = a
                                       /\ now < mem[p].lease.deadline
                                       /\ cfg[p].approval = "held"
<1>1. Init => TypeInv /\ ApprovedInv
  BY InitType DEF Init, ApprovedInv
<1>2. TypeInv /\ ApprovedInv /\ [Next]_vars => (TypeInv /\ ApprovedInv)'
  BY NextType, ApprovalKept DEF ApprovedInv
<1>3. ASSUME TypeInv, ApprovedInv, [Next]_vars,
             NEW a \in Attempts, host[a] # "running", host'[a] = "running"
      PROVE  InTime(a)
  <2>1. PICK p \in Processes : HostLaunch(p) /\ a = mem[p].lease.id
    BY <1>3, OnlyLaunchStarts
  <2>2. now < RequestDeadline(mem[p]) /\ cfg[p].approval = "held"
    BY <1>3, <2>1 DEF HostLaunch, ApprovedInv
  <2>3. now \in Nat /\ mem[p].lease.deadline \in Nat
    <3>1. now \in 0..MaxTime /\ mem[p] \in CycleStates
      BY <1>3 DEF TypeInv, TypeOK
    <3>2. mem[p].lease \in Leases
      BY <3>1 DEF CycleStates
    <3> QED
      BY <3>1, <3>2, EnvironmentAssumption DEF Leases
  <2>4. now < mem[p].lease.deadline /\ now < ApprovalExpiry
    BY <2>2, <2>3, EnvironmentAssumption DEF RequestDeadline
  <2> QED
    BY <2>1, <2>2, <2>4
<1>4. TypeInv /\ ApprovedInv /\ [Next]_vars
        => [\A a \in Attempts : host[a] # "running" /\ host'[a] = "running" => InTime(a)]_host
  BY <1>3
<1> QED
  BY <1>1, <1>2, <1>4, PTL DEF Spec, LaunchIsInTime

=============================================================================
