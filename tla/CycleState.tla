----------------------------- MODULE CycleState -----------------------------
(***************************************************************************)
(* The scheduler record of the repair cycle: engine/repair_cycle.py.       *)
(*                                                                         *)
(* A record is the value of CycleState, the part of the JSON state file    *)
(* under "repair_cycle".  Every method of the class is an operator from    *)
(* the record (and its arguments) to the new record, or to a value it      *)
(* returns.  The state machine that applies them is in RepairCycle.        *)
(*                                                                         *)
(* Abstractions.  Time is counted in ticks and a window is WindowLength of *)
(* them.  parked_reason is kept as "is one set": no branch of the program  *)
(* reads which one.  authority is kept as "is a work item bound".  A legacy*)
(* receipt is its state.  The dispatch record keeps what a branch reads:   *)
(* its phase, its outcome and the pull requests found so far.              *)
(***************************************************************************)
EXTENDS Integers, Sequences

CONSTANTS
    MaxAttempts,       \* bound: how many attempt ids a behaviour may mint
    PullRequests,      \* pull requests one attempt may open on its branch
    WindowLength,      \* window_minutes, in ticks
    Runtime,           \* runtime_seconds, in ticks
    CostCap,           \* cost_cap_usd
    CallLimit,         \* call_limit
    ObservationLimit   \* observation_call_limit

\* CycleConfig.from_mapping refuses a bound that is not positive
ASSUME ConfigAssumption ==
    /\ MaxAttempts \in Nat \ {0}
    /\ WindowLength \in Nat \ {0}
    /\ Runtime \in Nat \ {0}
    /\ CostCap \in Nat \ {0}
    /\ CallLimit \in Nat \ {0}
    /\ ObservationLimit \in Nat \ {0}

Attempts == 1..MaxAttempts

-----------------------------------------------------------------------------
(* Types *)

NoAttempt == 0

Leases == [id : Attempts \cup {NoAttempt}, window : Nat, deadline : Nat]
NoLease == [id |-> NoAttempt, window |-> 0, deadline |-> 0]

Phases == {"none", "intent", "returned", "unknown", "settled"}
Outcomes == {"none", "completed", "failed", "stopped", "unknown"}
Dispatches == [phase : Phases, outcome : Outcomes, prs : SUBSET PullRequests]
NoDispatch == [phase |-> "none", outcome |-> "none", prs |-> {}]

Failures ==
    {"none", "observation-exhausted", "unsettled-reservation",
     "dispatch-outcome-unknown", "authority-scope-exceeded", "no-pull-request",
     "authority-refused", "runtime-exhausted", "authority-expired",
     "budget-exhausted", "host-failed"}

\* One entry of attempt_history
Archived ==
    [attempt : Attempts, failure : Failures, disposed : BOOLEAN,
     prs : SUBSET PullRequests]

CycleStates ==
    [lease : Leases, receipt : {"none", "active", "terminal"}, parked : BOOLEAN,
     observations : Nat, failure : Failures,
     disposed : Attempts \cup {NoAttempt},
     consumedCost : Nat, consumedCalls : Nat,
     reservedCost : Nat, reservedCalls : Nat,
     dispatch : Dispatches, bound : BOOLEAN, history : Seq(Archived)]

EmptyCycle ==
    [lease |-> NoLease, receipt |-> "none", parked |-> FALSE,
     observations |-> 0, failure |-> "none", disposed |-> NoAttempt,
     consumedCost |-> 0, consumedCalls |-> 0,
     reservedCost |-> 0, reservedCalls |-> 0,
     dispatch |-> NoDispatch, bound |-> FALSE, history |-> <<>>]

-----------------------------------------------------------------------------
(* Questions the program asks of the record *)

Window(t) == t \div WindowLength

Disposed(cs) == cs.lease.id # NoAttempt /\ cs.disposed = cs.lease.id

AwaitingDisposition(cs) ==
    cs.lease.id # NoAttempt /\ cs.failure # "none" /\ ~Disposed(cs)

Reserved(cs) == cs.reservedCalls # 0 \/ cs.reservedCost # 0

ReportedActive(cs) ==
    \/ cs.receipt = "active"
    \/ /\ cs.dispatch.phase \notin {"none", "settled"}
       /\ \/ cs.dispatch.phase # "returned"
          \/ cs.dispatch.outcome \in {"unknown", "completed"}
          \/ cs.dispatch.prs # {}

Settled(cs) ==
    \/ cs.lease.id = NoAttempt
    \/ Disposed(cs)
    \/ cs.receipt = "terminal"
    \/ cs.dispatch.phase = "settled"
    \/ cs.dispatch.phase = "none" /\ ~ReportedActive(cs) /\ ~Reserved(cs)

BudgetExceeded(cs) ==
    cs.consumedCost > CostCap \/ cs.consumedCalls > CallLimit

MayReplaceLease(cs, window) ==
    cs.lease.window # window /\ Settled(cs) /\ ~AwaitingDisposition(cs)

CanBegin(cs, t) ==
    cs.lease.id = NoAttempt \/ MayReplaceLease(cs, Window(t))

-----------------------------------------------------------------------------
(* Changes to the record *)

Park(cs) == [cs EXCEPT !.parked = TRUE]

NoOp(cs) == [cs EXCEPT !.parked = FALSE]

\* Fault: the last failure wins
FailOverwriting(cs, reason) == Park([cs EXCEPT !.failure = reason])

\* The first failure is kept: a later one only parks again
Fail(cs, reason) ==
    Park([cs EXCEPT !.failure = IF @ = "none" THEN reason ELSE @])

\* Fault: the window is keyed by the deadline
NewLeaseByDeadline(id, t) ==
    [id |-> id, window |-> Window(t + Runtime), deadline |-> t + Runtime]

NewLease(id, t) == [id |-> id, window |-> Window(t), deadline |-> t + Runtime]

Archive(cs) ==
    [attempt |-> cs.lease.id, failure |-> cs.failure,
     disposed |-> Disposed(cs), prs |-> cs.dispatch.prs]

\* begin, then the binding the selection returned
Begin(cs, id, t) ==
    [EmptyCycle EXCEPT
        !.lease = NewLease(id, t),
        !.bound = TRUE,
        !.history = IF cs.lease.id = NoAttempt THEN cs.history
                    ELSE Append(cs.history, Archive(cs))]

RemainingCost(cs) == CostCap - cs.consumedCost - cs.reservedCost
RemainingCalls(cs) == CallLimit - cs.consumedCalls - cs.reservedCalls
CanAdmit(cs) == RemainingCost(cs) > 0 /\ RemainingCalls(cs) > 0

\* admit: the whole remaining budget is reserved
Admit(cs) ==
    [cs EXCEPT !.reservedCost = @ + RemainingCost(cs),
               !.reservedCalls = @ + RemainingCalls(cs)]

Unmeasured == -1

\* Fault: an unmeasured cost is added like a measured one
SettleAsReported(cs, cost, calls) ==
    [cs EXCEPT !.reservedCost = 0, !.reservedCalls = 0,
               !.consumedCost = @ + cost, !.consumedCalls = @ + calls]

\* settle, for the admission that holds the whole reservation.  An unmeasured
\* cost charges the admission.
Settle(cs, cost, calls) ==
    [cs EXCEPT !.reservedCost = 0, !.reservedCalls = 0,
               !.consumedCost =
                   @ + (IF cost = Unmeasured THEN cs.reservedCost ELSE cost),
               !.consumedCalls = @ + calls]

\* Fault: the confirmation is not taken into account
CanDisposeInactive(cs, id, confirmed) ==
    cs.lease.id = id /\ cs.failure # "none" /\ ~ReportedActive(cs)

CanDispose(cs, id, confirmed) ==
    /\ cs.lease.id = id
    /\ cs.failure # "none"
    /\ ReportedActive(cs) => confirmed

Dispose(cs) == [cs EXCEPT !.disposed = cs.lease.id]

WithReferences(cs, found) == [cs EXCEPT !.dispatch.prs = @ \cup found]

Refused(cs, t, usable) ==
    \/ ~usable
    \/ AwaitingDisposition(cs)
    \/ ~Settled(cs)
    \/ cs.lease.id # NoAttempt /\ cs.lease.window = Window(t)
=============================================================================
