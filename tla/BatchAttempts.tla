----------------------------- MODULE BatchAttempts -----------------------------
(***************************************************************************)
(* One batch of a review (run_codex_batch, runner_process_impl): a runner  *)
(* process that is watched by polling, stopped when it is too old or has   *)
(* gone quiet, and started again a few times. The runner, and what is left *)
(* of an earlier one, write the same output file at their own pace.        *)
(*                                                                         *)
(* Time counts polls. A poll looks at the process, then at the clock, then *)
(* at the output file; it takes no time, and the next comes one later.     *)
(* An answer is what run_codex_batch takes for one: any JSON object.       *)
(***************************************************************************)
EXTENDS Integers, FiniteSets

CONSTANTS
    MaxAttempts,    \* max_retries + 1
    Timeout,        \* of one attempt, in polls
    Stall,          \* how long the output must be quiet; 0 turns it off
    Second          \* polls in a second, the unit of a file's time

ASSUME BatchAssumption ==
    /\ MaxAttempts \in Nat \ {0} /\ Timeout \in Nat \ {0}
    /\ Stall \in Nat /\ Second \in Nat \ {0}

VARIABLES
    attempt, pc, proc,  \* of the runner, and of the loop that watches it
    now,                \* polls since the attempt began
    output,             \* the text in the output file: none, partial or an answer
    seen, stable,       \* what the last poll knew of it; -1 for no time yet
    active,             \* when the stream last said something
    stopped,            \* why the runner was stopped: no, timeout or stall
    code,               \* what run_codex_batch returned; -1 before
    left,               \* attempts of which a process is left
    wrote, age          \* when this attempt last wrote; polls of all attempts

vars == <<attempt, pc, proc, now, output, seen, stable, active, stopped, code, left, wrote, age>>
watch == <<now, seen, stable, active, stopped, age>>

Texts == {"partial", "answer"}
Exits == {"ok", "transient", "permanent"}
NotYet == -1

TypeOK ==
    /\ attempt \in 1..MaxAttempts
    /\ pc \in {"start", "feeding", "watch", "stopping", "decide", "done"}
    /\ proc \in {"none", "running", "killed"} \cup Exits
    /\ now \in 0..Timeout /\ age \in 0..(MaxAttempts * Timeout)
    /\ output \in {"none"} \cup Texts /\ seen \in BOOLEAN
    /\ {stable, active, wrote} \subseteq NotYet..now
    /\ stopped \in {"no", "timeout", "stall"}
    /\ code \in {NotYet, 0, 1, 124, 127} /\ left \subseteq 1..MaxAttempts

Init ==
    /\ attempt = 1 /\ pc = "start" /\ proc = "none" /\ output = "none"
    /\ now = 0 /\ seen = FALSE /\ stable = NotYet /\ active = 0
    /\ stopped = "no" /\ code = NotYet /\ left = {} /\ wrote = NotYet /\ age = 0

-----------------------------------------------------------------------------
(* The runner                                                              *)

Alive == proc = "running" /\ pc \in {"feeding", "watch", "stopping"}

\* A line on stdout or stderr (_drain_stream); nobody reads it before the watch.
Prints ==
    /\ Alive /\ pc # "feeding" /\ active' = now
    /\ UNCHANGED <<attempt, pc, proc, now, output, seen, stable, stopped, code, left, wrote, age>>

\* A change of the file shows in its size and in the second of its time: one
\* within a second of the last that a poll noticed may not.
Noticed == {FALSE} \cup (IF now <= stable + Second THEN {seen} ELSE {})

\* It writes the file, also while it is asked to terminate.
Writes(text) ==
    /\ Alive /\ output' = text /\ seen' \in Noticed /\ wrote' = now
    /\ UNCHANGED <<attempt, pc, proc, now, stable, active, stopped, code, left, age>>

Exit(how) ==
    /\ Alive /\ proc' = how
    /\ left' \in {left, left \cup {attempt}}
    /\ UNCHANGED <<attempt, pc, watch, output, code, wrote>>

\* It, or a process it left, takes the prompt from its stdin.
Reads ==
    /\ pc = "feeding"
    /\ proc = "running" \/ attempt \in left
    /\ pc' = "watch"
    /\ UNCHANGED <<attempt, proc, watch, output, code, left, wrote>>

\* What is left of an earlier runner, or of this one, writes the file.
LeftoverWrites(text) ==
    /\ left # {} /\ output' = text /\ seen' \in Noticed
    /\ UNCHANGED <<attempt, pc, proc, now, stable, active, stopped, code, left, wrote, age>>

-----------------------------------------------------------------------------
(* The loop                                                                *)

\* run_batch_attempt: a new watch over a new process, and the same file. A long
\* prompt is first written to its stdin, which blocks unless the pipe holds it.
Start ==
    /\ pc = "start"
    /\ \/ pc' \in {"feeding", "watch"} /\ proc' = "running" /\ code' = code
       \/ pc' = "done" /\ proc' = "none" /\ code' = 127
    /\ now' = 0 /\ seen' = FALSE /\ stable' = NotYet /\ active' = 0
    /\ stopped' = "no" /\ wrote' = NotYet
    /\ UNCHANGED <<attempt, output, left, age>>

\* _write_runner_stdin gives up when nobody is there to read.
FeedFails ==
    /\ pc = "feeding" /\ proc \in Exits /\ attempt \notin left
    /\ pc' = "watch"
    /\ UNCHANGED <<attempt, proc, watch, output, code, left, wrote>>

\* The attempt's time runs while it blocks.
FeedLasts ==
    /\ pc = "feeding" /\ now < Timeout
    /\ now' = now + 1 /\ age' = age + 1
    /\ UNCHANGED <<attempt, pc, proc, output, seen, stable, active, stopped, code, left, wrote>>

\* _check_stall: the file is there, it and the stream did not change for long.
Quiet ==
    /\ output # "none" /\ seen
    /\ now - stable >= Stall /\ now - active >= Stall

\* Fault: the delay runs from the first look at the file.
LookOnce ==
    /\ seen' = (output # "none")
    /\ stable' = IF stable = NotYet THEN now ELSE stable

\* What _check_stall remembers of a file it does not find quiet.
Look ==
    /\ seen' = (output # "none")
    /\ stable' = IF output # "none" THEN (IF seen THEN stable ELSE now)
                 ELSE IF stable = NotYet THEN now ELSE stable

\* Fault: a runner without output is not timed out.
ExpiredWithOutput == now >= Timeout /\ output # "none"

Expired == now >= Timeout

StopFor(why) ==
    /\ stopped' = why /\ pc' = "stopping" /\ UNCHANGED <<now, seen, stable, age>>

\* One turn of _monitor_runner_process.
Poll ==
    /\ pc = "watch" /\ proc = "running"
    /\ \/ Expired /\ StopFor("timeout")
       \/ ~Expired /\ Stall > 0 /\ Quiet /\ StopFor("stall")
       \/ /\ ~Expired /\ ~(Stall > 0 /\ Quiet)
          /\ IF Stall > 0 THEN Look ELSE UNCHANGED <<seen, stable>>
          /\ now' = IF now < Timeout THEN now + 1 ELSE now
          /\ age' = IF now < Timeout THEN age + 1 ELSE age
          /\ UNCHANGED <<pc, stopped>>
    /\ UNCHANGED <<attempt, proc, output, active, code, left, wrote>>

SeesExit ==
    /\ pc = "watch" /\ proc \in Exits /\ pc' = "decide"
    /\ UNCHANGED <<attempt, proc, watch, output, code, left, wrote>>

\* _terminate_process and the joins: the runner is gone, its children may not be.
Stopped ==
    /\ pc = "stopping" /\ pc' = "decide" /\ proc' = "killed"
    /\ left' \in {left, left \cup {attempt}}
    /\ UNCHANGED <<attempt, watch, output, code, wrote>>

Return(c) ==
    /\ pc' = "done" /\ code' = c
    /\ UNCHANGED <<attempt, proc, watch, output, left, wrote>>

Retry ==
    /\ pc' = "start" /\ attempt' = attempt + 1
    /\ UNCHANGED <<proc, watch, output, code, left, wrote>>

\* Fault: what a stopped runner wrote is not looked at.
RecoversNothing == FALSE

\* handle_timeout_or_stall: the answer of a stopped runner counts.
Recovers == output = "answer"

\* Fault: exit 0 is taken for an answer.
AcceptsAnything == TRUE

\* handle_successful_attempt_core, after its grace wait.
Valid == output = "answer"

\* The exit code of a runner that failed is returned as it is.
Codes == {1, 124, 127}

MayRetry == attempt < MaxAttempts

DecideStopped ==
    /\ pc = "decide" /\ stopped # "no"
    /\ IF Recovers THEN Return(0) ELSE IF MayRetry THEN Retry ELSE Return(124)

DecideExited ==
    /\ pc = "decide" /\ stopped = "no"
    /\ \/ proc = "ok" /\ Return(IF Valid THEN 0 ELSE 1)
       \/ proc = "transient" /\ MayRetry /\ Retry
       \/ proc = "transient" /\ ~MayRetry /\ \E c \in Codes : Return(c)
       \/ proc = "permanent" /\ \E c \in Codes : Return(c)

Finished == pc = "done" /\ UNCHANGED vars

Loop == Start \/ FeedFails \/ Poll \/ SeesExit \/ Stopped \/ DecideStopped \/ DecideExited

Next ==
    \/ Loop \/ FeedLasts \/ Finished \/ Reads \/ Prints
    \/ \E text \in Texts : Writes(text) \/ LeftoverWrites(text)
    \/ \E how \in Exits : Exit(how)

Spec == Init /\ [][Next]_vars

\* The loop goes on, unless it blocks on the runner's stdin; the runner may hang
\* for ever, and need not read.
LiveSpec == Spec /\ WF_vars(Loop)

-----------------------------------------------------------------------------
\* A runner is stopped as stalled only when it was quiet for the whole delay,
\* however late it began to: it did not print since, and it wrote at most what
\* leaves the file's size and second as they were.
StallIsQuiet ==
    [][stopped = "no" /\ stopped' = "stall"
         => now - active >= Stall /\ now - wrote >= Stall - Second]_vars

\* With no process left behind, the answer in the output file decides, whether
\* the runner exited, was stopped while it wrote, or was started again: a
\* success has one, and a batch that is given up when its runner was stopped has
\* none, not even one that came in at the last moment or from an earlier attempt.
AnswerDecides ==
    left = {} => /\ code = 0 => output = "answer"
                 /\ code = 124 /\ stopped # "no" => output # "answer"

\* Once a runner has its prompt, nothing it does keeps the batch from ending: it
\* may hang, print for ever or rewrite its output for ever, and processes may be
\* left. A prompt on stdin that no one takes does: that write has no timeout.
BatchEnds == []<>(pc # "feeding") => <>(pc = "done")
==============================================================================
