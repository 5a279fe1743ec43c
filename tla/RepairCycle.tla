----------------------------- MODULE RepairCycle ----------------------------
(***************************************************************************)
(* One invocation of `repair-cycle` after another, or at the same time:    *)
(* app/commands/repair_cycle.py over the record of CycleState.             *)
(*                                                                         *)
(* A process of the command takes the cycle lock, then works in two        *)
(* sections under the state lock.  The first observes the recorded attempt *)
(* and gates new work; between the two the state lock is released for the  *)
(* scan and the publication; the second reloads the file, leases, and      *)
(* dispatches one coding host.  Inside a section the process works on its  *)
(* own copy of the record (mem) and the file (disk) only changes where the *)
(* code saves: at the points it persists before an external call, and on a *)
(* clean exit of the section.                                              *)
(*                                                                         *)
(* Around it: the coding host, which outlives a killed process; the pull   *)
(* requests it opens; the operator's configuration and disposals; the host *)
(* clock; and other commands that rewrite the state file with no lock.     *)
(***************************************************************************)
EXTENDS CycleState

CONSTANTS
    Processes,       \* concurrent invocations of the command
    MaxTime,         \* bound: last tick of the clock
    MaxCrashes,      \* bound: kills of a process in a behaviour
    ApprovalExpiry,  \* the approval's expires_at
    OutOfScope,      \* pull requests that change a file outside the approval
    Approvals,       \* states of the approval the operator may configure
    ForeignScans     \* whether a scan outlives its invocation or is started by hand

\* The trusted configuration's approval of the selected repair: in force; of
\* another reviewed brief or other evidence; marked revoked; for less than the
\* lease's calls, cost or runtime; removed; or unreadable because the authority
\* block is untrusted, unsupported or invalid.  Its files stay what they are.
ApprovalStates == {"held", "mismatched", "revoked", "stricter", "absent", "unusable"}

ASSUME EnvironmentAssumption ==
    /\ MaxTime \in Nat
    /\ MaxCrashes \in Nat
    /\ ApprovalExpiry \in Nat
    /\ OutOfScope \subseteq PullRequests
    /\ Approvals \subseteq ApprovalStates
    /\ ForeignScans \in BOOLEAN

VARIABLES
    \* the command
    disk,     \* the record in the state file
    pc,       \* where each process is
    mem,      \* each process's copy of the record
    mode,     \* whether a process observes an attempt or settles its own run
    cfg,      \* the configuration each process decoded when it started
    stamp,    \* the clock reading each process selects with
    \* its environment
    now,      \* host clock
    config,   \* the configuration file
    host,     \* each attempt's worker tree
    opened,   \* pull requests each attempt has opened
    open,     \* those of them still open
    scans,    \* copies of the record held by a scan outside the cycle
    crashes,  \* kills so far
    \* history
    begun,    \* the window each attempt was leased in, in order
    intents   \* how often each attempt's dispatch was recorded

command == <<disk, pc, mem, mode, cfg, stamp>>
world == <<host, opened, open>>
ghosts == <<begun, intents>>
vars == <<command, now, config, world, scans, crashes, ghosts>>

Configs == [usable : BOOLEAN, approval : ApprovalStates]
NoConfig == [usable |-> FALSE, approval |-> "absent"]

Sections == {"gate", "probe", "lookup", "read", "recheck", "observed",
             "select", "begun", "launch", "running"}
Unlocked == {"refresh", "scanning", "scanned"}
Labels == {"idle"} \cup Sections \cup Unlocked

TypeOK ==
    /\ disk \in CycleStates
    /\ pc \in [Processes -> Labels]
    /\ mem \in [Processes -> CycleStates]
    /\ mode \in [Processes -> {"observe", "dispatch"}]
    /\ cfg \in [Processes -> Configs]
    /\ stamp \in [Processes -> 0..MaxTime]
    /\ now \in 0..MaxTime
    /\ config \in Configs
    /\ host \in [Attempts -> {"none", "running", "stopped"}]
    /\ opened \in [Attempts -> SUBSET PullRequests]
    /\ open \in [Attempts -> SUBSET PullRequests]
    /\ scans \subseteq CycleStates
    /\ crashes \in Nat
    /\ begun \in Seq(Nat)
    /\ intents \in [Attempts -> Nat]

-----------------------------------------------------------------------------
(* Locks, control and persistence *)

\* Fault: the invocation takes no cycle lock
CycleLockNotTaken == TRUE

\* flock on <state>.json.cycle.lock is held from start to end of an invocation
CycleLockFree == \A p \in Processes : pc[p] = "idle"

StateLockFree == \A p \in Processes : pc[p] \notin Sections

\* The section goes on with record cs, which is not saved
Continue(p, label, cs) ==
    /\ pc' = [pc EXCEPT ![p] = label]
    /\ mem' = [mem EXCEPT ![p] = cs]

\* The process's memory is gone; what it kept there no longer matters
Exit(p) ==
    /\ pc' = [pc EXCEPT ![p] = "idle"]
    /\ mem' = [mem EXCEPT ![p] = EmptyCycle]
    /\ mode' = [mode EXCEPT ![p] = "observe"]
    /\ cfg' = [cfg EXCEPT ![p] = NoConfig]
    /\ stamp' = [stamp EXCEPT ![p] = 0]

\* The section ends cleanly: state_lock saves, and the invocation is over
End(p, cs) == disk' = cs /\ Exit(p)

\* An observation or a settlement ends: an observing run then looks at what it
\* may still do, a dispatching one is over
Conclude(p, cs) ==
    \/ /\ mode[p] = "observe"
       /\ Continue(p, "observed", cs)
       /\ UNCHANGED <<disk, mode, cfg, stamp>>
    \/ mode[p] = "dispatch" /\ End(p, cs)

Keeps(p) == UNCHANGED <<mode, cfg, stamp>>

-----------------------------------------------------------------------------
(* The authority check *)

\* source_comparison and _work_item: the repair's source is as reviewed, cannot
\* be read, has changed, or there is no such published small repair
Sources == {"current", "unreadable", "changed", "unavailable"}

\* _authorize and check_authority.  Selection picks a work item; later checks
\* need the one bound, and "unavailable" is also one whose key has changed.
Authorize(cs, approval, source, t, select) ==
    IF ~select /\ ~cs.bound THEN "authority-missing"
    ELSE IF approval = "unusable" THEN "authority-unusable"
    ELSE IF source = "unavailable" THEN "selected-repair-unavailable"
    ELSE IF source = "unreadable" THEN "source-unreadable"
    ELSE IF source = "changed" THEN "source-not-current"
    ELSE IF approval = "absent" /\ select THEN "authority-missing"
    ELSE IF approval = "mismatched" THEN "authority-mismatch"
    ELSE IF approval \in {"absent", "revoked"} THEN "authority-revoked"
    ELSE IF t >= ApprovalExpiry THEN "authority-expired"
    ELSE IF approval = "stricter" THEN "authority-limits-exceeded"
    ELSE "authorized"

NoOpReasons == {"selected-repair-unavailable", "authority-missing"}

\* Fault: one pull request within the approval is enough
ScopeFailureOfAll(cs, approval) ==
    IF cs.dispatch.prs = {} THEN "none"
    ELSE IF approval \in {"unusable", "absent"} \/ ~cs.bound THEN "authority-refused"
    ELSE IF cs.dispatch.prs \subseteq OutOfScope THEN "authority-scope-exceeded"
    ELSE "none"

\* _scope_failure: an approval that is gone or unreadable fails closed; one that
\* has expired or is marked revoked still says which files it allowed
ScopeFailure(cs, approval) ==
    IF cs.dispatch.prs = {} THEN "none"
    ELSE IF approval \in {"unusable", "absent"} \/ ~cs.bound THEN "authority-refused"
    ELSE IF cs.dispatch.prs \cap OutOfScope # {} THEN "authority-scope-exceeded"
    ELSE "none"

\* Fault: the approval's expiry does not bound the run
RequestLeaseDeadline(cs) == cs.lease.deadline

\* The run ends at the earlier of the lease's deadline and the approval's expiry
RequestDeadline(cs) ==
    IF cs.lease.deadline < ApprovalExpiry THEN cs.lease.deadline ELSE ApprovalExpiry

-----------------------------------------------------------------------------
(* First section: observe the recorded attempt, gate new work *)

\* The command decodes the configuration, takes the cycle lock and, in a run
\* that disposes nothing, the state lock
StartRun(p) ==
    /\ pc[p] = "idle"
    /\ CycleLockFree
    /\ StateLockFree
    /\ Continue(p, "gate", disk)
    /\ cfg' = [cfg EXCEPT ![p] = config]
    /\ UNCHANGED <<disk, mode, stamp, now, config, world, scans, crashes, ghosts>>

\* --dispose-attempt: the whole run is this.  --confirm-stopped is the
\* operator's word that worker and pull requests are finished, and is kept.
DisposeAttempt(p, id, confirmed) ==
    /\ pc[p] = "idle"
    /\ CycleLockFree
    /\ StateLockFree
    /\ confirmed => host[id] # "running" /\ open[id] = {}
    /\ CanDispose(disk, id, confirmed)
    /\ disk' = Dispose(disk)
    /\ UNCHANGED <<pc, mem, mode, cfg, stamp, now, config, world, scans, crashes, ghosts>>

\* A settled attempt, before or after this run's observation: new work is
\* refused, or the section is saved and the state lock released
GateNewWork(p) ==
    /\ pc[p] \in {"gate", "observed"}
    /\ Settled(mem[p])
    /\ \/ /\ Refused(mem[p], now, cfg[p].usable)
          /\ End(p, Park(mem[p]))
       \/ /\ ~Refused(mem[p], now, cfg[p].usable)
          /\ disk' = mem[p]
          /\ Continue(p, "refresh", EmptyCycle)
          /\ Keeps(p)
    /\ UNCHANGED <<now, config, world, scans, crashes, ghosts>>

\* The observation left the attempt unsettled: the run ends there
StopUnsettled(p) ==
    /\ pc[p] = "observed"
    /\ ~Settled(mem[p])
    /\ End(p, mem[p])
    /\ UNCHANGED <<now, config, world, scans, crashes, ghosts>>

ObservationExhausted(p) ==
    /\ pc[p] = "gate"
    /\ ~Settled(mem[p])
    /\ mem[p].observations >= ObservationLimit
    /\ End(p, Fail(mem[p], "observation-exhausted"))
    /\ UNCHANGED <<now, config, world, scans, crashes, ghosts>>

\* Fault: only an observation that finds the attempt not parked is counted
CountedUnlessParked(cs) == [cs EXCEPT !.observations = IF cs.parked THEN @ ELSE @ + 1]

\* Fault: each observation starts with a clean record
CountedAfresh(cs) == [cs EXCEPT !.observations = @ + 1, !.failure = "none"]

Counted(cs) == [cs EXCEPT !.observations = @ + 1]

\* What the dispatch left behind is not known from its record
Replaying(cs) == cs.dispatch.phase # "returned" \/ cs.dispatch.outcome = "unknown"

\* The observation is counted and saved before any external call
CountObservation(p) ==
    /\ pc[p] = "gate"
    /\ ~Settled(mem[p])
    /\ mem[p].observations < ObservationLimit
    /\ disk' = Counted(mem[p])
    /\ \/ /\ mem[p].dispatch.phase = "none"
          /\ Continue(p, "observed",
                 Fail(Counted(mem[p]), IF Reserved(mem[p]) THEN "unsettled-reservation"
                                       ELSE "dispatch-outcome-unknown"))
       \/ /\ mem[p].dispatch.phase # "none"
          /\ Continue(p, IF Replaying(mem[p]) THEN "probe" ELSE "lookup", Counted(mem[p]))
    /\ Keeps(p)
    /\ UNCHANGED <<now, config, world, scans, crashes, ghosts>>

\* worker_alive: the attempt's marker is carried by no process, or by some, or
\* the platform cannot say.  A process whose environment cannot be read counts as
\* unmarked, so the answer "by none" is possible while the host runs.
ProbeWorker(p) ==
    /\ pc[p] = "probe"
    /\ \/ Continue(p, "lookup", mem[p])
       \/ Continue(p, "observed", Park(mem[p]))
    /\ Keeps(p)
    /\ UNCHANGED <<disk, now, config, world, scans, crashes, ghosts>>

\* _replay_dispatch once no worker was found
Replayed(cs) ==
    IF Reserved(cs) THEN Fail(cs, "unsettled-reservation")
    ELSE IF cs.dispatch.phase = "unknown" \/ cs.dispatch.outcome = "unknown"
         THEN Fail(cs, "dispatch-outcome-unknown")
    ELSE Park(cs)

\* _add_references: the attempt's pull requests are those on its branch, in any
\* state.  The lookup may fail, and then nothing recorded is dropped.
LookupReferences(p) ==
    LET found == WithReferences(mem[p], opened[mem[p].lease.id])
        replaying == mode[p] = "observe" /\ Replaying(mem[p])
        verdict == \/ mode[p] = "observe"
                   \/ mem[p].dispatch.outcome = "completed" /\ mem[p].failure = "none"
    IN /\ pc[p] = "lookup"
       /\ \/ /\ replaying
             /\ \/ Continue(p, "read", Replayed(found)) /\ UNCHANGED disk /\ Keeps(p)
                \/ Conclude(p, Replayed(mem[p]))
          \/ /\ ~replaying /\ verdict
             /\ \/ Continue(p, "read", found) /\ UNCHANGED disk /\ Keeps(p)
                \/ Conclude(p, Park(mem[p]))
          \/ /\ ~verdict
             /\ End(p, found) \/ End(p, mem[p])
       /\ UNCHANGED <<now, config, world, scans, crashes, ghosts>>

\* _replay_dispatch went on to read the pull requests it found
ReplayVerdict(cs, approval) ==
    LET scope == ScopeFailure(cs, approval)
    IN IF scope = "none" THEN cs ELSE Fail(cs, scope)

\* Fault: a pull request within scope settles the attempt, open or not
VerdictOnOpen(cs, approval, isOpen) ==
    LET read == [cs EXCEPT !.observations = 0]
        scope == ScopeFailure(cs, approval)
    IN IF scope # "none" THEN Fail(read, scope)
       ELSE IF cs.dispatch.prs = {} /\ cs.dispatch.outcome = "completed"
            THEN Fail(read, "no-pull-request")
       ELSE [read EXCEPT !.dispatch.phase = "settled"]

\* _check_pull_requests, with isOpen the pull requests read as open.  The
\* verdict resets the allowance of observations that reached none.
Verdict(cs, approval, isOpen) ==
    LET read == [cs EXCEPT !.observations = 0]
        scope == ScopeFailure(cs, approval)
    IN IF scope = "authority-scope-exceeded" THEN Fail(read, scope)
       ELSE IF cs.dispatch.prs = {} /\ cs.dispatch.outcome = "completed"
            THEN Fail(read, "no-pull-request")
       ELSE IF cs.dispatch.prs \cap isOpen # {} THEN read
       ELSE IF scope # "none" THEN Fail(read, scope)
       ELSE [read EXCEPT !.dispatch.phase = "settled"]

ReadPullRequests(p) ==
    LET cs == mem[p]
        isOpen == open[cs.lease.id]
        verdict == Verdict(cs, cfg[p].approval, isOpen)
        replaying == mode[p] = "observe" /\ Replaying(cs)
        rechecked == /\ ~replaying
                     /\ cs.dispatch.prs \cap isOpen # {}
                     /\ ScopeFailure(cs, cfg[p].approval) # "authority-scope-exceeded"
    IN /\ pc[p] = "read"
       /\ \/ Conclude(p, Park(cs))        \* pull-request-lookup-unavailable
          \/ replaying /\ Conclude(p, ReplayVerdict(cs, cfg[p].approval))
          \/ ~replaying /\ ~rechecked /\ Conclude(p, verdict)
          \/ rechecked /\ Continue(p, "recheck", verdict) /\ UNCHANGED disk /\ Keeps(p)
       /\ UNCHANGED <<now, config, world, scans, crashes, ghosts>>

\* _recheck_active: an open attempt whose authority no longer holds fails,
\* unless its source merely cannot be read now
RecheckActive(p) ==
    /\ pc[p] = "recheck"
    /\ \E source \in Sources :
         LET found == Authorize(mem[p], cfg[p].approval, source, now, FALSE)
         IN Conclude(p, CASE found = "authorized"        -> mem[p]
                          [] found = "source-unreadable" -> Park(mem[p])
                          [] found = "authority-expired" -> Fail(mem[p], found)
                          [] OTHER                       -> Fail(mem[p], "authority-refused"))
    /\ UNCHANGED <<now, config, world, scans, crashes, ghosts>>

\* The alarm of the observation's time bound may interrupt any external call.
\* What the interrupted calls had already put in the record stays there.
ObservationTimeout(p) ==
    /\ mode[p] = "observe"
    /\ pc[p] \in {"probe", "lookup", "read", "recheck"}
    /\ Continue(p, "observed", Park(mem[p]))
    /\ Keeps(p)
    /\ UNCHANGED <<disk, now, config, world, scans, crashes, ghosts>>

-----------------------------------------------------------------------------
(* Between the sections: the scan and the publication, with no state lock *)

\* The scan subprocess loads the whole state file
ScanLoad(p) ==
    /\ pc[p] = "refresh"
    /\ Continue(p, "scanning", disk)
    /\ Keeps(p)
    /\ UNCHANGED <<disk, now, config, world, scans, crashes, ghosts>>

\* and rewrites it, the scheduler record included, without the state lock
ScanSave(p) ==
    /\ pc[p] = "scanning"
    /\ disk' = mem[p]
    /\ Continue(p, "scanned", EmptyCycle)
    /\ Keeps(p)
    /\ UNCHANGED <<now, config, world, scans, crashes, ghosts>>

\* The checkout is not current, the scan fails or the publication fails: the
\* run parks the record it reloads
RefreshRefused(p) ==
    /\ pc[p] \in Unlocked
    /\ StateLockFree
    /\ End(p, Park(disk))
    /\ UNCHANGED <<now, config, world, scans, crashes, ghosts>>

\* Publication done: the second section reloads the file and gates again
Relock(p) ==
    /\ pc[p] = "scanned"
    /\ StateLockFree
    /\ \/ Refused(disk, now, cfg[p].usable) /\ End(p, Park(disk))
       \/ /\ ~Refused(disk, now, cfg[p].usable)
          /\ Continue(p, "select", disk)
          /\ stamp' = [stamp EXCEPT ![p] = now]
          /\ UNCHANGED <<disk, mode, cfg>>
    /\ UNCHANGED <<now, config, world, scans, crashes, ghosts>>

-----------------------------------------------------------------------------
(* Second section: select, lease, record the intent, run the host *)

\* Nothing authorized, or the selection timed out: no lease
SelectNothing(p) ==
    /\ pc[p] = "select"
    /\ \/ \E source \in Sources :
            LET found == Authorize(mem[p], cfg[p].approval, source, stamp[p], TRUE)
            IN /\ found # "authorized"
               /\ End(p, IF found \in NoOpReasons THEN NoOp(mem[p]) ELSE Park(mem[p]))
       \/ End(p, Park(mem[p]))
    /\ UNCHANGED <<now, config, world, scans, crashes, ghosts>>

FreshId == Len(begun) + 1

\* The lease, with its binding, is saved before the recheck that may launch
BeginAttempt(p) ==
    LET leased == Begin(mem[p], FreshId, stamp[p])
    IN /\ pc[p] = "select"
       /\ Authorize(mem[p], cfg[p].approval, "current", stamp[p], TRUE) = "authorized"
       /\ CanBegin(mem[p], stamp[p])
       /\ FreshId \in Attempts
       /\ disk' = leased
       /\ Continue(p, "begun", leased)
       /\ begun' = Append(begun, Window(stamp[p]))
       /\ mode' = [mode EXCEPT ![p] = "dispatch"]
       /\ UNCHANGED <<cfg, stamp, now, config, world, scans, crashes, intents>>

\* The recheck refuses or times out, or the worktree lookup fails: the attempt
\* keeps its lease and dispatched nothing
DispatchRefused(p) ==
    /\ pc[p] = "begun"
    /\ \/ now >= mem[p].lease.deadline /\ End(p, Fail(mem[p], "runtime-exhausted"))
       \/ now < mem[p].lease.deadline /\ End(p, Park(mem[p]))
    /\ UNCHANGED <<now, config, world, scans, crashes, ghosts>>

Intended(cs) == [Admit(cs) EXCEPT !.dispatch = [NoDispatch EXCEPT !.phase = "intent"]]

\* Fault: the intent is not saved before the launch
RecordIntentUnsaved(p) ==
    /\ pc[p] = "begun"
    /\ now < mem[p].lease.deadline
    /\ Authorize(mem[p], cfg[p].approval, "current", now, FALSE) = "authorized"
    /\ CanAdmit(mem[p])
    /\ Continue(p, "launch", Intended(mem[p]))
    /\ intents' = [intents EXCEPT ![mem[p].lease.id] = @ + 1]
    /\ Keeps(p)
    /\ UNCHANGED <<disk, now, config, world, scans, crashes, begun>>

\* The recheck authorizes; the budget is reserved and the intent saved
RecordIntent(p) ==
    /\ pc[p] = "begun"
    /\ now < mem[p].lease.deadline
    /\ Authorize(mem[p], cfg[p].approval, "current", now, FALSE) = "authorized"
    /\ CanAdmit(mem[p])
    /\ disk' = Intended(mem[p])
    /\ Continue(p, "launch", Intended(mem[p]))
    /\ intents' = [intents EXCEPT ![mem[p].lease.id] = @ + 1]
    /\ Keeps(p)
    /\ UNCHANGED <<now, config, world, scans, crashes, begun>>

\* Fault: the run tries the launch again
HostParkedRetries(p) ==
    /\ pc[p] = "launch"
    /\ Continue(p, "begun", Park([Settle(mem[p], 0, 0) EXCEPT !.dispatch = NoDispatch]))
    /\ Keeps(p)
    /\ UNCHANGED <<disk, now, config, world, scans, crashes, ghosts>>

\* The adapter's preflight or the launch itself fails: nothing ran, the
\* reservation is returned and the record of the dispatch is dropped
HostParked(p) ==
    /\ pc[p] = "launch"
    /\ End(p, Park([Settle(mem[p], 0, 0) EXCEPT !.dispatch = NoDispatch]))
    /\ UNCHANGED <<now, config, world, scans, crashes, ghosts>>

\* The adapter's preflight has just looked at the deadline
HostLaunch(p) ==
    /\ pc[p] = "launch"
    /\ now < RequestDeadline(mem[p])
    /\ host' = [host EXCEPT ![mem[p].lease.id] = "running"]
    /\ Continue(p, "running", mem[p])
    /\ Keeps(p)
    /\ UNCHANGED <<disk, now, config, opened, open, scans, crashes, ghosts>>

\* bound: usage is measured up to one past each ceiling
MeasuredCosts == {Unmeasured} \cup 0..(CostCap + 1)
MeasuredCalls == 0..(CallLimit + 1)

\* Fault: a completed run is not compared with its budget
RunFailureOutcomeFirst(cs, outcome, exit) ==
    IF outcome = "completed" THEN "none"
    ELSE IF BudgetExceeded(cs) THEN "budget-exhausted"
    ELSE IF outcome = "failed" THEN "host-failed"
    ELSE IF outcome = "unknown" THEN "dispatch-outcome-unknown"
    ELSE IF exit = "call-limit" THEN "budget-exhausted"
    ELSE IF RequestDeadline(cs) < cs.lease.deadline THEN "authority-expired"
    ELSE "runtime-exhausted"

\* _outcome_failure, after the budget is compared
RunFailure(cs, outcome, exit) ==
    IF BudgetExceeded(cs) THEN "budget-exhausted"
    ELSE IF outcome = "completed" THEN "none"
    ELSE IF outcome = "failed" THEN "host-failed"
    ELSE IF outcome = "unknown" THEN "dispatch-outcome-unknown"
    ELSE IF exit = "call-limit" THEN "budget-exhausted"
    ELSE IF RequestDeadline(cs) < cs.lease.deadline THEN "authority-expired"
    ELSE "runtime-exhausted"

\* Fault: what the stream reported is charged whatever became of the host
ChargedAsReported(cs, outcome, cost, calls) == Settle(cs, cost, calls)

\* What is charged: work in flight when the host was stopped may have spent
\* the whole admission
Charged(cs, outcome, cost, calls) ==
    IF outcome \in {"stopped", "unknown"}
    THEN Settle(cs, Unmeasured, IF calls > cs.reservedCalls THEN calls ELSE cs.reservedCalls)
    ELSE Settle(cs, cost, calls)

Returned(cs, outcome, exit, cost, calls) ==
    LET charged == [Charged(cs, outcome, cost, calls) EXCEPT
                       !.dispatch.phase = "returned", !.dispatch.outcome = outcome]
        failure == RunFailure(charged, outcome, exit)
    IN IF failure = "none" THEN charged ELSE Fail(charged, failure)

\* The host exited or had to be stopped, and its worker tree was then verified
\* empty or not.  The outcome, its charge and its failure are saved before the
\* references are looked up.
HostReturn(p) ==
    /\ pc[p] = "running"
    /\ \E exit \in {"completed", "failed", "call-limit", "timeout"},
          emptied \in BOOLEAN, cost \in MeasuredCosts, calls \in MeasuredCalls :
         LET outcome == IF ~emptied THEN "unknown"
                        ELSE IF exit \in {"completed", "failed"} THEN exit ELSE "stopped"
             cs == Returned(mem[p], outcome, exit, cost, calls)
         IN /\ exit = "call-limit" => calls > mem[p].reservedCalls
            /\ exit = "timeout" => now >= RequestDeadline(mem[p])
            /\ \/ host' = [host EXCEPT ![mem[p].lease.id] = "stopped"]
               \/ ~emptied /\ UNCHANGED host
            /\ disk' = cs
            /\ Continue(p, "lookup", cs)
    /\ Keeps(p)
    /\ UNCHANGED <<now, config, opened, open, scans, crashes, ghosts>>

-----------------------------------------------------------------------------
(* The environment *)

\* A kill loses the process's memory and its locks.  A host it runs keeps
\* running, unless the signal was one the adapter turns into stopping the tree.
\* A scan subprocess may outlive it.
Crash(p) ==
    /\ pc[p] # "idle"
    /\ crashes < MaxCrashes
    /\ crashes' = crashes + 1
    /\ Exit(p)
    /\ \/ UNCHANGED host
       \/ pc[p] = "running" /\ host' = [host EXCEPT ![mem[p].lease.id] = "stopped"]
    /\ \/ UNCHANGED scans
       \/ ForeignScans /\ pc[p] = "scanning" /\ scans' = scans \cup {mem[p]}
    /\ UNCHANGED <<disk, now, config, opened, open, ghosts>>

\* A host nobody watches ends
HostExit(a) ==
    /\ host[a] = "running"
    /\ \A p \in Processes : ~(pc[p] = "running" /\ mem[p].lease.id = a)
    /\ host' = [host EXCEPT ![a] = "stopped"]
    /\ UNCHANGED <<command, now, config, opened, open, scans, crashes, ghosts>>

OpenPullRequest(a, r) ==
    /\ host[a] = "running"
    /\ r \notin opened[a]
    /\ opened' = [opened EXCEPT ![a] = @ \cup {r}]
    /\ open' = [open EXCEPT ![a] = @ \cup {r}]
    /\ UNCHANGED <<command, now, config, host, scans, crashes, ghosts>>

\* Merged or closed by a reviewer
ClosePullRequest(a, r) ==
    /\ r \in open[a]
    /\ open' = [open EXCEPT ![a] = @ \ {r}]
    /\ UNCHANGED <<command, now, config, host, opened, scans, crashes, ghosts>>

\* A scan started by hand, or any other command that loads the state file and
\* saves it back with no lock
ForeignScanLoad ==
    /\ ForeignScans
    /\ scans = {}
    /\ scans' = {disk}
    /\ UNCHANGED <<command, now, config, world, crashes, ghosts>>

ForeignScanSave ==
    /\ \E copy \in scans : disk' = copy /\ scans' = scans \ {copy}
    /\ UNCHANGED <<pc, mem, mode, cfg, stamp, now, config, world, crashes, ghosts>>

Configure ==
    /\ config' \in [usable : BOOLEAN, approval : Approvals]
    /\ UNCHANGED <<command, now, world, scans, crashes, ghosts>>

Tick ==
    /\ now < MaxTime
    /\ now' = now + 1
    /\ UNCHANGED <<command, config, world, scans, crashes, ghosts>>

-----------------------------------------------------------------------------
(* The specification *)

\* Attempt 1 as a version of the program before dispatch records left it: its
\* dispatch is unknown, or it has only a receipt.  Nothing binds its authority.
LegacyLease == [id |-> 1, window |-> 0, deadline |-> Runtime]
LegacyCycles ==
    {[EmptyCycle EXCEPT !.lease = LegacyLease, !.receipt = receipt,
                        !.dispatch = [NoDispatch EXCEPT !.phase = phase]] :
        receipt \in {"none", "active"}, phase \in {"unknown"}}
    \cup {[EmptyCycle EXCEPT !.lease = LegacyLease, !.receipt = receipt] :
        receipt \in {"active", "terminal"}}

FreshStart ==
    /\ disk = EmptyCycle
    /\ begun = <<>>
    /\ host = [a \in Attempts |-> "none"]
    /\ opened = [a \in Attempts |-> {}]
    /\ intents = [a \in Attempts |-> 0]

LegacyStart ==
    /\ disk \in LegacyCycles
    /\ begun = <<0>>
    /\ \E h \in {"none", "running", "stopped"}, found \in SUBSET PullRequests :
         /\ disk.receipt = "terminal" => h # "running" /\ found = {}
         /\ h = "none" => found = {}
         /\ host = [a \in Attempts |-> IF a = 1 THEN h ELSE "none"]
         /\ opened = [a \in Attempts |-> IF a = 1 THEN found ELSE {}]
    /\ intents = [a \in Attempts |-> IF a = 1 THEN 1 ELSE 0]

Init ==
    /\ FreshStart \/ LegacyStart
    /\ open = opened
    /\ pc = [p \in Processes |-> "idle"]
    /\ mem = [p \in Processes |-> EmptyCycle]
    /\ mode = [p \in Processes |-> "observe"]
    /\ cfg = [p \in Processes |-> NoConfig]
    /\ stamp = [p \in Processes |-> 0]
    /\ now = 0
    /\ config \in [usable : BOOLEAN, approval : Approvals]
    /\ scans = {}
    /\ crashes = 0

Observe(p) ==
    \/ StopUnsettled(p) \/ ObservationExhausted(p) \/ CountObservation(p)
    \/ ProbeWorker(p) \/ LookupReferences(p) \/ ReadPullRequests(p)
    \/ RecheckActive(p) \/ ObservationTimeout(p)

Refresh(p) == ScanLoad(p) \/ ScanSave(p) \/ RefreshRefused(p) \/ Relock(p)

Dispatch(p) ==
    \/ SelectNothing(p) \/ BeginAttempt(p) \/ DispatchRefused(p) \/ RecordIntent(p)
    \/ HostParked(p) \/ HostLaunch(p) \/ HostReturn(p)

Run(p) == GateNewWork(p) \/ Observe(p) \/ Refresh(p) \/ Dispatch(p)

Operator(p) == \E id \in Attempts, confirmed \in BOOLEAN : DisposeAttempt(p, id, confirmed)

Reviewer == \E a \in Attempts, r \in PullRequests : ClosePullRequest(a, r)

Worker == \E a \in Attempts : HostExit(a) \/ \E r \in PullRequests : OpenPullRequest(a, r)

Environment == Worker \/ Reviewer \/ ForeignScanLoad \/ ForeignScanSave \/ Configure \/ Tick

Next ==
    \/ \E p \in Processes : StartRun(p) \/ Run(p) \/ Crash(p) \/ Operator(p)
    \/ Environment

Spec == Init /\ [][Next]_vars

\* The timer starts a run again and again, and a started run takes its steps:
\* every external call in it is bounded.  Nothing is assumed of the operator,
\* the reviewer, the worker or the lookups' success.
TimerFairness ==
    /\ WF_vars(\E p \in Processes : StartRun(p))
    /\ \A p \in Processes : WF_vars(Run(p))

FairSpec == Spec /\ TimerFairness

\* Besides: a worker ends, reviewers finish with every pull request, and the
\* operator, who can only dispose between runs, does so in the end
Attended ==
    /\ WF_vars(\E a \in Attempts : HostExit(a))
    /\ WF_vars(Reviewer)
    /\ SF_vars(\E p \in Processes : Operator(p))

-----------------------------------------------------------------------------
(* Properties *)

\* A coding host that runs is the current attempt's, and the state file says it
\* may: whatever was killed, and whenever, no later run takes its place.  So
\* two hosts never run at once ("One worker, one pull request").
LiveHostIsRecorded ==
    \A a \in Attempts : host[a] = "running" => disk.lease.id = a /\ ~Settled(disk)

\* What the running host may spend is reserved or charged in the state file,
\* all of it, also when its outcome was never established.
LiveHostIsCharged ==
    \A a \in Attempts :
        host[a] = "running" /\ disk.dispatch.phase # "unknown" /\ disk.receipt = "none" =>
            /\ disk.reservedCost + disk.consumedCost >= CostCap
            /\ disk.reservedCalls + disk.consumedCalls >= CallLimit

\* An attempt that was replaced had finished: its worker gone, every pull
\* request recorded for it closed, and its failure, if any, disposed.
HistoryIsFinished ==
    \A i \in DOMAIN disk.history :
        LET past == disk.history[i]
        IN /\ host[past.attempt] # "running"
           /\ past.prs \cap open[past.attempt] = {}
           /\ past.failure # "none" => past.disposed

\* A dispatch the file calls settled left nothing: its worker stopped, no pull
\* request of its branch, found or not, is open, and one that changed files
\* outside the approval made the attempt fail.
SettledIsFinished ==
    LET a == disk.lease.id
    IN disk.dispatch.phase = "settled" =>
         /\ host[a] # "running"
         /\ open[a] = {}
         /\ opened[a] \cap OutOfScope # {} => disk.failure # "none"

\* No window has two leases, for timer and manual runs alike.
OneLeasePerWindow ==
    \A i, j \in DOMAIN begun : begun[i] = begun[j] => i = j

\* Usage over a ceiling is never taken for a successful run.
OverrunIsFailure == BudgetExceeded(disk) => disk.failure # "none"

\* The first failure of an attempt stays the one recorded until the next lease.
FailureIsKept ==
    [][disk'.lease = disk.lease /\ disk.failure # "none"
         => disk'.failure = disk.failure]_disk

\* A host starts only with its intent already in the state file, under an
\* approval the run read as held and which has not expired, and before the
\* lease's deadline, however long the steps since the selection took.
LaunchIsAuthorized ==
    [][\A a \in Attempts : host[a] # "running" /\ host'[a] = "running" =>
         /\ disk.lease.id = a /\ disk.dispatch.phase = "intent"
         /\ now < disk.lease.deadline
         /\ now < ApprovalExpiry
         /\ \E p \in Processes : mem[p].lease.id = a /\ cfg[p].approval = "held"]_host

\* An attempt is dispatched once and its host runs for that dispatch alone, also
\* when commands outside the cycle lock put old records back: what was leased is
\* dispatched by the run that leased it or never.
DispatchedOnce ==
    \A a \in Attempts : intents[a] <= 1 /\ (host[a] # "none" => intents[a] = 1)

\* Left to the timer alone, an attempt is settled, or its failure is recorded
\* for the operator, or it waits for an open pull request: runs that reach no
\* verdict do not go on for ever, also after scans outside the cycle put old
\* copies of the record back, once they stop.
AttemptIsResolved ==
    <>[](scans = {}) =>
        (~Settled(disk) ~>
            \/ Settled(disk)
            \/ disk.failure # "none"
            \/ disk.dispatch.prs \cap open[disk.lease.id] # {})

Free == Settled(disk) /\ ~AwaitingDisposition(disk)

\* With an attentive operator no sequence of crashes, failed lookups and
\* refusals, and none of scans outside the cycle that comes to an end, leaves an
\* attempt that can neither settle nor be disposed.
EveryAttemptEnds == Attended /\ <>[](scans = {}) => (~Free ~> Free)

\* reported_active: "whether a worker or an open pull request may still belong
\* to the attempt" (engine/repair_cycle.py:424)
ReportedActiveIsComplete ==
    LET a == disk.lease.id
    IN CycleLockFree /\ a # NoAttempt /\ ~ReportedActive(disk) =>
         host[a] # "running" /\ open[a] = {}

\* The abstract promise, read off the state file
RepairState ==
    IF ~Settled(disk) THEN IF disk.failure = "none" THEN "active" ELSE "failing"
    ELSE IF AwaitingDisposition(disk) THEN "blocked" ELSE "free"

Promise == INSTANCE OneRepair WITH
    Windows <- 0..MaxTime,
    windows <- begun,
    dispatches <- IF begun = <<>> THEN 0 ELSE intents[Len(begun)],
    state <- RepairState,
    disposed <- Disposed(disk)

\* Every behaviour of the cycle is one of OneRepair's: one attempt at a time,
\* dispatched once, in a window of its own, and none past an undisposed failure.
ImplementsOneRepair == Promise!OneInit /\ [][Promise!OneNext]_(Promise!oneVars)
=============================================================================
