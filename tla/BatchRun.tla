------------------------------- MODULE BatchRun -------------------------------
(***************************************************************************)
(* The batches of a review packet (execute_batches, collect_batch_results, *)
(* execute_batch_run, merge_and_import_batch_run): a pool of workers, or   *)
(* the main thread alone, runs them; the main thread takes what is done,   *)
(* then reads the output files, writes the statuses, and imports what      *)
(* there is or gives up. A run that misses answers asks for another one,   *)
(* of the batches it misses.                                               *)
(*                                                                         *)
(* A task is a batch as BatchAttempts has it, seen from outside: it ends   *)
(* with a code and an output file. Code 0 comes with a JSON object, which  *)
(* need not be an answer: that has to parse and to normalize as well.      *)
(***************************************************************************)
EXTENDS Integers, FiniteSets

CONSTANTS
    Batches,   \* of the packet
    Workers,   \* --max-parallel-batches
    MaxRuns    \* bounds the runs

ASSUME RunAssumption ==
    /\ IsFiniteSet(Batches) /\ Batches # {} /\ Workers \in Nat \ {0} /\ MaxRuns \in Nat

VARIABLES
    runs, pc, sel,          \* the run, and its batches
    parallel, partial,      \* --parallel, --allow-partial
    started, code, file,    \* of its tasks
    taken, failures,        \* by the main thread
    status,                 \* in the summary of the run
    asked,                  \* batches the last run asks to retry (--only-batches)
    imported,               \* since the whole packet was run last
    unreported,             \* history: tasks of which the end was not reported
    kept                    \* history: since then no run left an answer unused

how == <<sel, parallel, partial>>
tasks == <<started, code, file>>
drained == <<taken, failures, unreported>>
past == <<runs, asked, imported, kept>>
vars == <<pc, how, tasks, drained, status, past>>

Running == -1
ended == {b \in started : code[b] # Running}

\* What the output file holds, or else the stdout in the log: nothing, nothing
\* that can be used, or a payload that can.
Files == {"none", "junk", "answer"}
Statuses == {"pending", "queued", "running", "succeeded", "failed", "recovered",
             "missing_output", "parse_failed", "interrupted"}

TypeOK ==
    /\ runs \in 0..MaxRuns /\ pc \in {"idle", "drain", "shutdown", "collected"}
    /\ taken \subseteq ended /\ started \subseteq sel /\ sel \subseteq Batches
    /\ parallel \in BOOLEAN /\ partial \in BOOLEAN /\ kept \in BOOLEAN
    /\ failures \subseteq taken /\ unreported \subseteq taken
    /\ imported \subseteq Batches /\ asked \subseteq Batches
    /\ code \in [Batches -> {Running, 0, 1}] /\ file \in [Batches -> Files]
    /\ status \in [Batches -> Statuses]
    /\ Cardinality(started \ ended) <= Workers

Init ==
    /\ runs = 0 /\ pc = "idle" /\ sel = {} /\ parallel = FALSE /\ partial = FALSE
    /\ started = {} /\ taken = {} /\ failures = {} /\ unreported = {}
    /\ code = [b \in Batches |-> Running] /\ file = [b \in Batches |-> "none"]
    /\ status = [b \in Batches |-> "pending"]
    /\ asked = {} /\ imported = {} /\ kept = FALSE

\* A run of the whole packet, or the retry that the last run asked for.
Begin(which, pool, some) ==
    /\ pc = "idle" /\ runs < MaxRuns /\ which # {}
    /\ runs' = runs + 1 /\ pc' = "drain"
    /\ sel' = which /\ parallel' = pool /\ partial' = some
    /\ started' = {} /\ taken' = {} /\ failures' = {} /\ unreported' = {}
    /\ code' = [b \in Batches |-> Running] /\ file' = [b \in Batches |-> "none"]
    /\ status' = [b \in Batches |-> IF pool /\ b \in which THEN "queued" ELSE "pending"]
    /\ asked' = {}
    /\ imported' = IF which = Batches THEN {} ELSE imported
    /\ kept' = (kept \/ which = Batches)

\* The progress callback sets the status; then it may still raise.
Report(b, text) == status' = [status EXCEPT ![b] = text]

FreeWorker == Cardinality(started \ ended) < Workers

\* A worker takes a task, also while the pool shuts down; alone, the main
\* thread takes the next when it is through with the last.
StartTask(b) ==
    /\ pc = "drain" \/ (parallel /\ pc = "shutdown")
    /\ b \in sel \ started
    /\ IF parallel THEN FreeWorker ELSE started = taken
    /\ started' = started \cup {b} /\ Report(b, "running")
    /\ UNCHANGED <<past, pc, how, code, file, drained>>

\* run_codex_batch returns, or raises and has no code: 1 stands for both.
EndTask(b) ==
    /\ b \in started \ ended
    /\ \E c \in {0, 1}, f \in Files :
          /\ c = 0 => f # "none"
          /\ code' = [code EXCEPT ![b] = c] /\ file' = [file EXCEPT ![b] = f]
    /\ UNCHANGED <<past, pc, how, started, drained, status>>

Reported(b) == IF code[b] = 0 THEN "succeeded" ELSE "failed"

\* Fault: only a task that went well leaves the set of pending ones.
DrainsSuccess(b) == code[b] = 0

Drains(b) == b \in ended \ taken

\* Fault: in the pool, too, a report that fails clears the failure.
NotFailing(b) == {b}

\* execute_serial_tasks forgets a failure whose report raised; the pool keeps the
\* failed reports apart.
Cleared(b) == IF parallel THEN {} ELSE {b}

Take(b) ==
    /\ pc = "drain" /\ b \in ended \ taken /\ Drains(b) /\ taken' = taken \cup {b}
    /\ Report(b, Reported(b))
    /\ LET found == failures \cup {x \in {b} : code[x] # 0} IN
       \/ failures' = found /\ UNCHANGED unreported
       \/ failures' = found \ Cleared(b) /\ unreported' = unreported \cup {b}
    /\ UNCHANGED <<past, pc, how, tasks>>

-----------------------------------------------------------------------------
(* The end of a run                                                        *)

\* collect_batch_results reads the file of every batch, failed or not.
Readable == {b \in sel : file[b] = "answer"}

\* Fault: only a batch of which the runner failed is missing.
MissingOfFailures == failures \ Readable

\* The failures that collect_batch_results returns.
Missing == sel \ Readable

\* collect_and_reconcile_results.
Reconciled(b) ==
    IF b \notin Missing THEN (IF b \in failures THEN "recovered" ELSE "succeeded")
    ELSE IF b \in failures THEN "failed"
    ELSE IF file[b] = "none" THEN "missing_output" ELSE "parse_failed"

\* The statuses are written, and a retry of what is missing is asked for.
Collect ==
    /\ pc = "drain" /\ taken = sel /\ pc' = "collected"
    /\ status' = [b \in Batches |-> IF b \in sel THEN Reconciled(b) ELSE status[b]]
    /\ asked' = Missing
    /\ UNCHANGED <<runs, imported, kept, how, tasks, drained>>

\* Fault: what there is is imported.
GivesUpWithoutResults == Missing # {} /\ Readable = {}

GivesUp == Missing # {} /\ (~partial \/ Readable = {})

EndRun ==
    /\ pc = "collected" /\ pc' = "idle"
    /\ UNCHANGED <<runs, asked, how, tasks, drained, status>>

\* print_failures_and_raise: the answers there are stay where they are.
GiveUp ==
    /\ GivesUp /\ EndRun
    /\ kept' = (kept /\ Readable = {}) /\ UNCHANGED imported

\* The merged answers are imported, all in one save.
Import == ~GivesUp /\ EndRun /\ imported' = imported \cup Readable /\ UNCHANGED kept

\* Or they are not: dimensions are missing (enforce_import_coverage, not for a
\* retry or with --allow-partial), the payload does not pass, an issue is skipped
\* (not with --allow-partial), or other scores are due to be imported.
Refuse == ~GivesUp /\ EndRun /\ kept' = FALSE /\ UNCHANGED imported

\* mark_interrupted_batches, and the end of the program: nothing is collected.
MarkInterrupted ==
    /\ pc' = "idle" /\ kept' = FALSE
    /\ status' = [b \in Batches |->
          IF b \in sel /\ status[b] \in {"pending", "queued", "running"}
          THEN "interrupted" ELSE status[b]]
    /\ UNCHANGED <<runs, asked, imported, how, code, file, drained>>

\* Ctrl-C in the main thread. It leaves the pool, which waits for its tasks;
\* alone, it abandons the task it runs.
Interrupt ==
    /\ pc = "drain" /\ taken # sel
    /\ \/ /\ parallel /\ pc' = "shutdown"
          /\ UNCHANGED <<past, how, tasks, drained, status>>
       \/ ~parallel /\ MarkInterrupted /\ started' = ended

LeavePool ==
    /\ pc = "shutdown" /\ ended = sel /\ MarkInterrupted /\ UNCHANGED started

Over == pc = "idle" /\ UNCHANGED vars

Work ==
    \/ Collect \/ GiveUp \/ Import \/ Refuse \/ LeavePool
    \/ \E b \in Batches : StartTask(b) \/ EndTask(b) \/ Take(b)

Next ==
    \/ Work \/ Interrupt \/ Over
    \/ \E which \in {Batches, asked}, pool, some \in BOOLEAN : Begin(which, pool, some)

Spec == Init /\ [][Next]_vars

\* The threads go on, and every task ends: BatchEnds, as far as it goes.
LiveSpec == Spec /\ WF_vars(Work)

-----------------------------------------------------------------------------
\* The summary of a run says of every batch whether it has an answer, and whether
\* its runner failed, whatever the progress reports did and though the runner's
\* code and the answer may disagree. Of a batch whose end could not be reported,
\* the loop without a pool forgets that it failed: there the summary is wrong.
StatusIsTrue ==
    [][Collect => \A b \in sel :
          /\ status'[b] \in {"succeeded", "recovered"} <=> file[b] = "answer"
          /\ parallel \/ b \notin unreported =>
                (status'[b] \in {"failed", "recovered"} <=> code[b] # 0)]_vars

\* A batch of the packet is imported or asked for again, however many runs it
\* takes, unless a run was interrupted, its import was refused, or it gave up
\* without --allow-partial on answers it had.
NoBatchIsDropped == kept /\ pc = "idle" => Batches \subseteq imported \cup asked

\* Without --allow-partial, nothing of a run is imported that misses an answer,
\* whether its runner failed or left what cannot be used.
WholeOrNothing ==
    [][~partial /\ imported' \ imported # {} => \A b \in sel : file[b] = "answer"]_vars

\* When the answers of a retry are imported, those of the other batches are:
\* the coverage gate is skipped because "the original run already covered the
\* remaining dimensions" (execution_phases.py:588-591).
RetryCompletes ==
    [][imported' \ imported # {} => Batches \ sel \subseteq imported]_vars

\* Every run ends, after a Ctrl-C too.
RunEnds == (pc # "idle") ~> (pc = "idle")
===============================================================================
