----------------------------- MODULE StateStore ------------------------------
(***************************************************************************)
(* The state file (engine/_state/persistence.py): loading it with its      *)
(* backup and with the saved plan to fall back on, saving it, and the lock *)
(* around the two, by processes that interleave and may be killed.         *)
(*                                                                         *)
(* What a state holds is abstracted to the set of processes whose update   *)
(* it has, and to the source of its inventory.                             *)
(***************************************************************************)
EXTENDS FiniteSets, Integers

CONSTANTS
    Writers,    \* processes that update the file under state_lock
    Unlocked,   \* processes that load it, and may save it later, with no lock
    NoOne,      \* nobody holds the lock
    MaxFaults   \* bound on damages of the file and failed copies to the backup

Procs == Writers \cup Unlocked

ASSUME StoreAssumption ==
    /\ NoOne \notin Procs /\ MaxFaults \in Nat
    /\ Writers \cap Unlocked = {}

VARIABLES
    primary, backup, corrupted,  \* .json, .json.bak, .json.corrupted
    lock,      \* who holds the flock of .json.lock
    pc,        \* where each process is
    mem,       \* the state a process has in memory
    fallback,  \* it is a fresh state that stands for one not decoded
    from,      \* the file its copy to the backup has open
    saved,     \* processes whose save was complete
    meddled,   \* a process without the lock has begun to save
    dropped,   \* updates a writer's load read and left out of what it made of them
    strayed,   \* processes that moved a file aside that decodes
    faults

files == <<primary, backup, corrupted>>
vars == <<files, lock, pc, mem, fallback, from, saved, meddled, dropped, strayed, faults>>

File(kind, has, source) == [kind |-> kind, has |-> has, source |-> source]
State(has, source) == File("state", has, source)
Missing == File("missing", {}, "empty")
Junk == File("junk", {}, "empty")        \* cannot be decoded
Invalid == File("invalid", {}, "empty")  \* decoded, but the invariants fail
Fresh == State({}, "empty")

Sources == {"empty", "scan", "plan"}
States == [kind : {"state"}, has : SUBSET Procs, source : Sources]
Files == {Missing, Junk, Invalid} \cup States

TypeOK ==
    /\ primary \in Files /\ backup \in Files /\ corrupted \in Files
    /\ lock \in Writers \cup {NoOne}
    /\ pc \in [Procs -> {"idle", "exists", "read", "backup", "rename", "loaded",
                         "copy", "copying", "replace", "ended"}]
    /\ mem \in [Procs -> States] /\ from \in [Procs -> Files]
    /\ fallback \in [Procs -> BOOLEAN]
    /\ saved \subseteq Procs /\ strayed \subseteq Procs /\ dropped \subseteq Procs
    /\ meddled \in BOOLEAN
    /\ faults \in 0..MaxFaults

\* Nothing yet, or a state that a scan, or a load from the plan alone, left.
Init ==
    /\ primary \in {Missing, State({}, "scan"), State({}, "plan")}
    /\ backup = Missing /\ corrupted = Missing
    /\ lock = NoOne /\ faults = 0 /\ meddled = FALSE
    /\ saved = {} /\ strayed = {} /\ dropped = {}
    /\ pc = [p \in Procs |-> "idle"]
    /\ mem = [p \in Procs |-> Fresh] /\ from = [p \in Procs |-> Missing]
    /\ fallback = [p \in Procs |-> FALSE]

GoTo(p, label) == pc' = [pc EXCEPT ![p] = label]

\* Fault: the lock file stays taken when its holder dies.
ReleaseUnlessKilled(p) == lock' = IF lock = p /\ pc[p] = "replace" THEN NoOne ELSE lock

\* The flock goes with the process, or in the finally of state_lock.
Release(p) == lock' = IF lock = p THEN NoOne ELSE lock

\* A process that ends forgets what it held.
Ends(p) ==
    /\ GoTo(p, "ended") /\ Release(p)
    /\ mem' = [mem EXCEPT ![p] = Fresh] /\ from' = [from EXCEPT ![p] = Missing]
    /\ fallback' = [fallback EXCEPT ![p] = FALSE]

\* Fault: the lock is not waited for.
AcquireAnyway(p) ==
    /\ pc[p] = "idle"
    /\ lock' = IF p \in Writers THEN p ELSE lock
    /\ GoTo(p, "exists")
    /\ UNCHANGED <<files, mem, fallback, from, saved, meddled, dropped, strayed, faults>>

\* state_lock takes the lock before it loads; load_state alone does not.
Acquire(p) ==
    /\ pc[p] = "idle"
    /\ IF p \in Writers THEN lock = NoOne /\ lock' = p ELSE UNCHANGED lock
    /\ GoTo(p, "exists")
    /\ UNCHANGED <<files, mem, fallback, from, saved, meddled, dropped, strayed, faults>>

\* The lock is held for longer than a writer waits.
GiveUp(p) ==
    /\ pc[p] = "idle" /\ p \in Writers /\ lock # NoOne
    /\ Ends(p)
    /\ UNCHANGED <<files, saved, meddled, dropped, strayed, faults>>

-----------------------------------------------------------------------------
(* _load_state_reporting_fallback                                          *)

\* Fault: a live plan takes over from a scan.
RebuiltWhenLive(s, planIsLive) == planIsLive \/ s.source = "plan"

\* A live plan takes over from any state but a scan's; a state that was built
\* from a plan does not outlive it.
Rebuilt(s, planIsLive) == s.source # "scan" /\ (planIsLive \/ s.source = "plan")

Reconstructed(s, planIsLive) ==
    IF ~Rebuilt(s, planIsLive) THEN s
    ELSE IF planIsLive THEN State({}, "plan") ELSE Fresh

\* The state lock is not the plan's: plan commands may give it work, take the
\* last of it or break it between any two loads, so each finds it live or not.
Loads(p, s, isFallback) ==
    \E planIsLive \in BOOLEAN :
        LET loaded == Reconstructed(s, planIsLive) IN
        /\ mem' = [mem EXCEPT ![p] = loaded]
        /\ fallback' = [fallback EXCEPT ![p] = isFallback]
        /\ dropped' = IF p \in Writers /\ s.source # "scan"
                      THEN dropped \cup (s.has \ loaded.has) ELSE dropped
        /\ GoTo(p, "loaded")

\* No file and no copy that an earlier load moved aside.
FirstRun == corrupted = Missing

Exists(p) ==
    /\ pc[p] = "exists"
    /\ \/ primary = Missing /\ Loads(p, Fresh, ~FirstRun)
       \/ primary # Missing /\ GoTo(p, "read") /\ UNCHANGED <<mem, fallback, dropped>>
    /\ UNCHANGED <<files, lock, from, saved, meddled, strayed, faults>>

Read(p) ==
    /\ pc[p] = "read"
    /\ \/ primary.kind = "state" /\ Loads(p, primary, FALSE)
       \/ primary.kind = "invalid" /\ Loads(p, Fresh, TRUE)
       \/ /\ primary.kind \in {"junk", "missing"}
          /\ GoTo(p, "backup") /\ UNCHANGED <<mem, fallback, dropped>>
    /\ UNCHANGED <<files, lock, from, saved, meddled, strayed, faults>>

ReadBackup(p) ==
    /\ pc[p] = "backup"
    /\ \/ backup.kind = "state" /\ Loads(p, backup, FALSE)
       \/ backup.kind # "state" /\ GoTo(p, "rename") /\ UNCHANGED <<mem, fallback, dropped>>
    /\ UNCHANGED <<files, lock, from, saved, meddled, strayed, faults>>

\* The file, whatever it is by now, is moved aside; or the rename fails.
MoveAside(p) ==
    /\ pc[p] = "rename"
    /\ \/ /\ primary # Missing /\ corrupted' = primary /\ primary' = Missing
          /\ strayed' = IF primary.kind = "state" THEN strayed \cup {p} ELSE strayed
       \/ UNCHANGED <<primary, corrupted, strayed>>
    /\ Loads(p, Fresh, TRUE)
    /\ UNCHANGED <<backup, lock, from, saved, meddled, faults>>

-----------------------------------------------------------------------------
(* The section itself, and save_state                                      *)

\* Fault: a fallback is updated and saved like any other state.
MayUpdateAnything(p) == TRUE

\* state_lock refuses to yield a fallback; a scan does not ask, and a command
\* that only reads is done.
MayUpdate(p) == p \in Writers => ~fallback[p]

Update(p) ==
    /\ pc[p] = "loaded"
    /\ \/ /\ p \in Unlocked \/ ~MayUpdate(p)
          /\ Ends(p) /\ UNCHANGED meddled
       \/ /\ MayUpdate(p)
          /\ GoTo(p, "copy") /\ UNCHANGED <<lock, fallback, from>>
          /\ mem' = [mem EXCEPT ![p] =
                State(@.has \cup {p}, IF p \in Unlocked THEN "scan" ELSE @.source)]
          /\ meddled' = (meddled \/ p \in Unlocked)
    /\ UNCHANGED <<files, saved, dropped, strayed, faults>>

\* copy2 opens what is the state file now and empties the backup.
CopyOpen(p) ==
    /\ pc[p] = "copy" /\ primary # Missing
    /\ from' = [from EXCEPT ![p] = primary] /\ backup' = Junk
    /\ GoTo(p, "copying")
    /\ UNCHANGED <<primary, corrupted, lock, mem, fallback, saved, meddled,
                   dropped, strayed, faults>>

CopyDone(p) ==
    /\ pc[p] = "copying"
    /\ backup' = from[p] /\ from' = [from EXCEPT ![p] = Missing]
    /\ GoTo(p, "replace")
    /\ UNCHANGED <<primary, corrupted, lock, mem, fallback, saved, meddled,
                   dropped, strayed, faults>>

NothingToCopy(p) ==
    /\ pc[p] = "copy" /\ primary = Missing
    /\ GoTo(p, "replace")
    /\ UNCHANGED <<files, lock, mem, fallback, from, saved, meddled, dropped, strayed,
                   faults>>

\* A copy that fails is only logged.
CopyFails(p) ==
    /\ pc[p] \in {"copy", "copying"} /\ primary # Missing /\ faults < MaxFaults
    /\ faults' = faults + 1 /\ from' = [from EXCEPT ![p] = Missing]
    /\ GoTo(p, "replace")
    /\ UNCHANGED <<files, lock, mem, fallback, saved, meddled, dropped, strayed>>

\* safe_write_text: a temporary file replaces the state file.
Replace(p) ==
    /\ pc[p] = "replace"
    /\ primary' = mem[p] /\ saved' = saved \cup {p}
    /\ Ends(p)
    /\ UNCHANGED <<backup, corrupted, meddled, dropped, strayed, faults>>

\* The body of the section raises, a write fails, or the process is killed.
Fail(p) ==
    /\ pc[p] \notin {"idle", "ended"}
    /\ Ends(p)
    /\ UNCHANGED <<files, saved, meddled, dropped, strayed, faults>>

\* A power failure after the rename, a bad disk, an edit by hand.
Damage ==
    /\ faults < MaxFaults /\ primary.kind = "state"
    /\ faults' = faults + 1
    /\ primary' \in {Junk, Invalid}
    /\ UNCHANGED <<backup, corrupted, lock, pc, mem, fallback, from, saved, meddled,
                   dropped, strayed>>

Step(p) ==
    \/ Acquire(p) \/ Exists(p) \/ Read(p) \/ ReadBackup(p) \/ MoveAside(p)
    \/ Update(p) \/ CopyOpen(p) \/ CopyDone(p) \/ NothingToCopy(p) \/ Replace(p)

Next ==
    \/ Damage
    \/ \E p \in Procs : Step(p) \/ GiveUp(p) \/ CopyFails(p) \/ Fail(p)

Spec == Init /\ [][Next]_vars

\* A process that runs goes on, and flock does not starve a writer for ever.
LiveSpec == Spec /\ \A p \in Procs : WF_vars(Step(p)) /\ SF_vars(Acquire(p))

-----------------------------------------------------------------------------
\* The updates the file holds, for a reader of the abstract register.
Held == IF primary.kind = "state" THEN primary.has ELSE {}

Register == INSTANCE AtomicStore WITH
    value <- Held, sound <- faults = 0 /\ dropped = {} /\ ~meddled

\* Locked sections are atomic whatever interleaves, other loads and changes of
\* the plan included, and wherever one is killed: none is lost, and none is seen
\* that did not complete; until a load drops updates of a state without a scan.
ImplementsAtomicStore == Register!Spec

\* While only locked sections save, the file lacks no more of what they saved
\* than one update for each damage, failed copy and load without the lock that
\* moves a good file aside, and those that a load dropped from a state without
\* a scan; a kill costs none, and a locked section never starts over.
LossIsBounded ==
    primary.kind = "state" /\ ~meddled =>
        Cardinality(saved \ (primary.has \cup dropped)) <= faults + Cardinality(strayed)

\* Every process that wants the file gets its turn and ends: no killed holder
\* keeps the others out.
EverySectionEnds == \A p \in Procs : <>(pc[p] = "ended")
==============================================================================
