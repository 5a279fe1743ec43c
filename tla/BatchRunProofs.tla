---------------------------- MODULE BatchRunProofs ----------------------------
(***************************************************************************)
(* What a run of review batches reports, imports and asks for again is     *)
(* right for any number of batches, of workers and of runs.                *)
(***************************************************************************)
EXTENDS BatchRun, TLAPS

-----------------------------------------------------------------------------
(* The bookkeeping of failures *)

\* The loop without a pool forgets a failure whose report fails.
Forgotten == {b \in Batches : parallel = FALSE /\ b \in unreported}

\* What the main thread knows of the tasks it took is what became of them.
FailuresInv ==
    /\ parallel = TRUE \/ parallel = FALSE
    /\ started \subseteq sel /\ sel \subseteq Batches /\ asked \subseteq Batches
    /\ code = [b \in Batches |-> code[b]]
    /\ \A b \in taken : b \in started /\ code[b] # Running
    /\ failures \subseteq taken /\ unreported \subseteq taken
    /\ \A b \in taken : b \in failures <=> code[b] # 0 /\ b \notin Forgotten

LEMMA FailuresInit == Init => FailuresInv
BY DEF Init, FailuresInv

LEMMA FailuresBegin ==
    ASSUME FailuresInv, NEW which \in {Batches, asked}, NEW pool \in BOOLEAN,
           NEW some \in BOOLEAN, Begin(which, pool, some)
    PROVE  FailuresInv'
BY DEF Begin, FailuresInv

LEMMA FailuresEndTask ==
    ASSUME FailuresInv, NEW b \in Batches, EndTask(b)
    PROVE  FailuresInv'
<1>1. PICK c \in {0, 1} : code' = [code EXCEPT ![b] = c]
  BY DEF EndTask
<1>2. b \notin taken
  BY DEF EndTask, ended, FailuresInv
<1>3. UNCHANGED <<parallel, sel, asked, started, taken, failures, unreported>>
  BY DEF EndTask, how, past, drained
<1>4. \A x \in taken : code'[x] = code[x]
  BY <1>1, <1>2 DEF FailuresInv
<1>5. code' = [x \in Batches |-> code'[x]]
  BY <1>1 DEF FailuresInv
<1> QED
  BY <1>3, <1>4, <1>5 DEF FailuresInv, Forgotten

LEMMA FailuresTake ==
    ASSUME FailuresInv, NEW b \in Batches, Take(b)
    PROVE  FailuresInv'
<1> DEFINE found == failures \cup {x \in {b} : code[x] # 0}
<1>1. /\ b \in ended \ taken /\ taken' = taken \cup {b}
      /\ UNCHANGED <<parallel, sel, asked, started, code>>
      /\ \/ failures' = found /\ UNCHANGED unreported
         \/ unreported' = unreported \cup {b} /\ failures' = found \ Cleared(b)
  BY DEF Take, how, tasks, past
<1>2. b \notin failures /\ b \notin unreported
  BY <1>1 DEF FailuresInv
<1>3. CASE failures' = found /\ UNCHANGED unreported
  BY <1>1, <1>2, <1>3 DEF FailuresInv, Forgotten, ended
<1>4. CASE unreported' = unreported \cup {b} /\ failures' = found \ Cleared(b)
  <2>1. CASE parallel = TRUE
    BY <1>1, <1>2, <1>4, <2>1 DEF FailuresInv, Forgotten, ended, Cleared
  <2>2. CASE parallel = FALSE
    BY <1>1, <1>2, <1>4, <2>2 DEF FailuresInv, Forgotten, ended, Cleared
  <2> QED
    BY <2>1, <2>2 DEF FailuresInv
<1> QED
  BY <1>1, <1>3, <1>4

LEMMA FailuresNext == FailuresInv /\ [Next]_vars => FailuresInv'
<1> SUFFICES ASSUME FailuresInv, [Next]_vars PROVE FailuresInv'
  OBVIOUS
<1>1. ASSUME NEW b \in Batches, StartTask(b) PROVE FailuresInv'
  BY <1>1 DEF StartTask, how, past, drained, FailuresInv, Forgotten
<1>2. CASE Collect
  BY <1>2 DEF Collect, how, tasks, drained, FailuresInv, Forgotten, Missing
<1>3. CASE GiveUp \/ Import \/ Refuse
  BY <1>3 DEF GiveUp, Import, Refuse, EndRun, how, tasks, drained, FailuresInv, Forgotten
<1>4. CASE LeavePool
  BY <1>4 DEF LeavePool, MarkInterrupted, how, drained, FailuresInv, Forgotten
<1>5. CASE Interrupt
  BY <1>5 DEF Interrupt, MarkInterrupted, how, past, tasks, drained, ended, FailuresInv,
     Forgotten
<1>6. CASE UNCHANGED vars
  BY <1>6 DEF vars, how, past, tasks, drained, FailuresInv, Forgotten
<1> QED
  BY <1>1, <1>2, <1>3, <1>4, <1>5, <1>6, FailuresBegin, FailuresEndTask, FailuresTake
     DEF Next, Work, Over

-----------------------------------------------------------------------------
(* The summary of a run *)

LEMMA StatusStep ==
    ASSUME FailuresInv, Collect, NEW b \in sel
    PROVE  /\ status'[b] \in {"succeeded", "recovered"} <=> file[b] = "answer"
           /\ parallel \/ b \notin unreported =>
                 (status'[b] \in {"failed", "recovered"} <=> code[b] # 0)
<1>1. b \in Batches /\ b \in taken
  BY DEF Collect, FailuresInv
<1>2. status'[b] = Reconciled(b)
  BY <1>1 DEF Collect
<1>3. b \in failures <=> code[b] # 0 /\ b \notin Forgotten
  BY <1>1 DEF FailuresInv
<1>4. b \in Forgotten <=> ~parallel /\ b \in unreported
  BY <1>1 DEF FailuresInv, Forgotten
<1>5. b \in Missing <=> file[b] # "answer"
  BY DEF Missing, Readable
<1>6. CASE b \notin Missing
  BY <1>2, <1>3, <1>4, <1>5, <1>6 DEF Reconciled
<1>7. CASE b \in Missing
  BY <1>2, <1>3, <1>4, <1>5, <1>7 DEF Reconciled
<1> QED
  BY <1>6, <1>7

\* Whatever the order in which tasks end, what they leave and whichever progress
\* reports fail, the summary that collect_and_reconcile_results writes says of
\* every batch whether it has an answer, and, unless the loop without a pool
\* could not report its end, whether its runner failed.
THEOREM StatusCorrect == Spec => StatusIsTrue
<1>1. FailuresInv /\ [Next]_vars =>
         [Collect => \A b \in sel :
            /\ status'[b] \in {"succeeded", "recovered"} <=> file[b] = "answer"
            /\ parallel \/ b \notin unreported =>
                  (status'[b] \in {"failed", "recovered"} <=> code[b] # 0)]_vars
  BY StatusStep
<1> QED
  BY <1>1, FailuresInit, FailuresNext, PTL DEF Spec, StatusIsTrue

-----------------------------------------------------------------------------
(* What is imported *)

\* While a run goes on it stands for what the last one asked for; once it is
\* collected, all tasks have ended, and what it asks for is what they lack.
DroppedInv ==
    /\ kept \in BOOLEAN
    /\ kept /\ pc = "idle" => Batches \subseteq imported \cup asked
    /\ kept /\ pc # "idle" => Batches \subseteq imported \cup sel
    /\ pc = "collected" => sel \subseteq taken /\ asked = Missing

LEMMA DroppedBegin ==
    ASSUME DroppedInv, NEW which \in {Batches, asked}, NEW pool \in BOOLEAN,
           NEW some \in BOOLEAN, Begin(which, pool, some)
    PROVE  DroppedInv'
<1>1. pc = "idle" /\ pc' = "drain" /\ sel' = which /\ kept' \in BOOLEAN
  BY DEF Begin
<1>2. CASE which = Batches
  BY <1>1, <1>2 DEF DroppedInv
<1>3. CASE which = asked /\ which # Batches
  <2>1. imported' = imported /\ kept' = kept
    BY <1>3 DEF Begin, DroppedInv
  <2> QED
    BY <1>1, <1>3, <2>1 DEF DroppedInv
<1> QED
  BY <1>2, <1>3

LEMMA DroppedNext == FailuresInv /\ DroppedInv /\ [Next]_vars => DroppedInv'
<1> SUFFICES ASSUME FailuresInv, DroppedInv, [Next]_vars PROVE DroppedInv'
  OBVIOUS
<1>1. ASSUME NEW b \in Batches, StartTask(b) \/ Take(b) PROVE DroppedInv'
  <2>1. UNCHANGED <<pc, sel, imported, asked, kept>> /\ pc # "collected"
    BY <1>1 DEF StartTask, Take, past, how
  <2> QED
    BY <2>1 DEF DroppedInv
<1>2. ASSUME NEW b \in Batches, EndTask(b) PROVE DroppedInv'
  <2>1. UNCHANGED <<pc, sel, imported, asked, kept>>
    BY <1>2 DEF EndTask, past, how
  <2>2. pc # "collected"
    BY <1>2 DEF EndTask, ended, FailuresInv, DroppedInv
  <2> QED
    BY <2>1, <2>2 DEF DroppedInv
<1>3. CASE Collect
  BY <1>3 DEF Collect, how, tasks, drained, DroppedInv, Missing, Readable
<1>4. CASE GiveUp \/ Import \/ Refuse
  <2>1. pc = "collected" /\ pc' = "idle" /\ asked' = asked /\ asked = sel \ Readable
    BY <1>4 DEF GiveUp, Import, Refuse, EndRun, DroppedInv, Missing
  <2>2. CASE GiveUp
    <3>1. kept' = (kept /\ Readable = {}) /\ imported' = imported
      BY <2>2 DEF GiveUp
    <3> QED
      BY <2>1, <3>1 DEF DroppedInv
  <2>3. CASE Import
    BY <2>1, <2>3 DEF Import, DroppedInv
  <2>4. CASE Refuse
    BY <2>1, <2>4 DEF Refuse, DroppedInv
  <2> QED
    BY <1>4, <2>2, <2>3, <2>4
<1>5. CASE LeavePool
  BY <1>5 DEF LeavePool, MarkInterrupted, DroppedInv
<1>6. CASE Interrupt
  <2>1. CASE pc' = "shutdown" /\ UNCHANGED <<past, how>>
    BY <1>6, <2>1 DEF Interrupt, past, how, DroppedInv
  <2>2. CASE MarkInterrupted
    BY <2>2 DEF MarkInterrupted, DroppedInv
  <2> QED
    BY <1>6, <2>1, <2>2 DEF Interrupt
<1>7. CASE UNCHANGED vars
  BY <1>7 DEF vars, how, past, tasks, drained, DroppedInv, Missing, Readable
<1> QED
  BY <1>1, <1>2, <1>3, <1>4, <1>5, <1>6, <1>7, DroppedBegin DEF Next, Work, Over

\* A batch whose runner failed, or left nothing or what cannot be used, is asked
\* for again and the others are imported, through any number of retries, unless
\* a run was interrupted, refused or gave up on answers it had.
THEOREM DroppedCorrect == Spec => []NoBatchIsDropped
<1>1. Init => DroppedInv
  BY DEF Init, DroppedInv
<1>2. DroppedInv => NoBatchIsDropped
  BY DEF DroppedInv, NoBatchIsDropped
<1> QED
  BY <1>1, <1>2, FailuresInit, FailuresNext, DroppedNext, PTL DEF Spec

\* Without --allow-partial an import has the answers of the whole run, whatever
\* codes its runners ended with.
THEOREM WholeCorrect == Spec => WholeOrNothing
<1>1. [Next]_vars =>
         [~partial /\ imported' \ imported # {} => \A b \in sel : file[b] = "answer"]_vars
  <2> SUFFICES ASSUME [Next]_vars, ~partial, imported' \ imported # {}
               PROVE  \A b \in sel : file[b] = "answer"
    OBVIOUS
  <2>1. imported' # imported /\ imported' # {}
    OBVIOUS
  <2>2. Import
    BY <2>1 DEF Next, Work, vars, past, Begin, StartTask, EndTask, Take, Collect, GiveUp,
       Refuse, EndRun, Interrupt, LeavePool, MarkInterrupted, Over
  <2> QED
    BY <2>2 DEF Import, GivesUp, Missing, Readable
<1> QED
  BY <1>1, PTL DEF Spec, WholeOrNothing
=============================================================================
