-------------------------- MODULE BatchAttemptsProofs --------------------------
(***************************************************************************)
(* The watch over a review batch is right for any number of attempts, any  *)
(* timeout and any stall delay.                                            *)
(***************************************************************************)
EXTENDS BatchAttempts, TLAPS

-----------------------------------------------------------------------------
(* A stall is quiet *)

\* The clocks of the watch: what it knows of the file is at most a second older
\* than the last change of it.
WatchInv ==
    /\ now \in Nat
    /\ stable \in Int /\ active \in Int /\ wrote \in Int
    /\ stable <= now /\ active <= now /\ wrote <= now
    /\ seen = TRUE \/ seen = FALSE
    /\ seen = TRUE => wrote <= stable + Second

LEMMA NotYetIsEarlier == NotYet \in Int /\ \A n \in Nat : NotYet <= n
BY DEF NotYet

LEMMA WatchInit == Init => WatchInv
<1> SUFFICES ASSUME Init PROVE WatchInv
  OBVIOUS
<1>1. now = 0 /\ active = 0 /\ stable = NotYet /\ wrote = NotYet /\ seen = FALSE
  BY DEF Init
<1> QED
  BY <1>1, NotYetIsEarlier DEF WatchInv

LEMMA WatchNext == WatchInv /\ [Next]_vars => WatchInv'
<1> SUFFICES ASSUME WatchInv, [Next]_vars PROVE WatchInv'
  OBVIOUS
<1> USE BatchAssumption DEF WatchInv
<1>1. CASE Start
  BY <1>1 DEF Start, NotYet
<1>2. CASE Poll
  <2>1. CASE UNCHANGED <<now, seen, stable>>
    BY <1>2, <2>1 DEF Poll, StopFor
  <2>2. CASE /\ IF Stall > 0 THEN Look ELSE UNCHANGED <<seen, stable>>
             /\ now' = IF now < Timeout THEN now + 1 ELSE now
    <3>1. now' \in Nat /\ now <= now' /\ active' = active /\ wrote' = wrote
      BY <1>2, <2>2 DEF Poll
    <3>2. CASE Look
      <4>1. CASE output = "none"
        <5>1. seen' = FALSE /\ (stable' = stable \/ stable' = now)
          BY <3>2, <4>1 DEF Look
        <5> QED
          BY <3>1, <5>1
      <4>2. CASE output # "none"
        <5>1. seen' = TRUE /\ stable' = (IF seen = TRUE THEN stable ELSE now)
          BY <3>2, <4>2 DEF Look
        <5> QED
          BY <3>1, <5>1
      <4> QED
        BY <4>1, <4>2
    <3>3. CASE UNCHANGED <<seen, stable>>
      BY <3>1, <3>3
    <3> QED
      BY <2>2, <3>2, <3>3
  <2> QED
    BY <1>2, <2>1, <2>2 DEF Poll, StopFor
<1>3. CASE SeesExit \/ Stopped \/ DecideStopped \/ DecideExited
  BY <1>3 DEF SeesExit, Stopped, DecideStopped, DecideExited, Return, Retry, watch
<1>8. CASE FeedFails \/ Reads
  BY <1>8 DEF FeedFails, Reads, watch
<1>9. CASE FeedLasts
  BY <1>9 DEF FeedLasts
<1>4. CASE Prints
  BY <1>4 DEF Prints
<1>5. ASSUME NEW text \in Texts, Writes(text) \/ LeftoverWrites(text)
      PROVE  WatchInv'
  <2>1. /\ seen' = FALSE \/ (seen' = seen /\ now <= stable + Second)
        /\ now' = now /\ stable' = stable /\ active' = active
        /\ wrote' = now \/ wrote' = wrote
    BY <1>5 DEF Writes, LeftoverWrites, Noticed
  <2> QED
    BY <2>1
<1>6. ASSUME NEW how \in Exits, Exit(how)
      PROVE  WatchInv'
  BY <1>6 DEF Exit, watch
<1>7. CASE Finished \/ UNCHANGED vars
  BY <1>7 DEF Finished, vars
<1> QED
  BY <1>1, <1>2, <1>3, <1>4, <1>5, <1>6, <1>7, <1>8, <1>9 DEF Next, Loop

LEMMA OnlyPollStalls ==
    ASSUME [Next]_vars, stopped = "no", stopped' = "stall"
    PROVE  Poll /\ Quiet
BY DEF Next, Loop, Start, FeedFails, FeedLasts, Reads, Poll, SeesExit, Stopped, DecideStopped, DecideExited, Return,
       Retry, Prints, Writes, LeftoverWrites, Exit, Finished, StopFor, watch, vars

\* A runner is stopped as stalled only when it printed nothing for the whole
\* delay and wrote nothing but what the file's size and second do not show
\* (_check_stall), whatever the delay and the timeout are.
THEOREM StallCorrect == Spec => StallIsQuiet
<1>1. ASSUME WatchInv, [Next]_vars, stopped = "no", stopped' = "stall"
      PROVE  now - active >= Stall /\ now - wrote >= Stall - Second
  <2>1. Quiet
    BY <1>1, OnlyPollStalls
  <2> QED
    BY <1>1, <2>1, BatchAssumption DEF Quiet, WatchInv
<1>2. WatchInv /\ [Next]_vars
        => [stopped = "no" /\ stopped' = "stall"
              => now - active >= Stall /\ now - wrote >= Stall - Second]_vars
  BY <1>1
<1> QED
  BY <1>2, WatchInit, WatchNext, PTL DEF Spec, StallIsQuiet

-----------------------------------------------------------------------------
(* The answer decides *)

\* A code is returned once, at the end; then only what is left behind writes.
DecideInv ==
    /\ code # NotYet => pc = "done"
    /\ AnswerDecides

LEMMA DecideInit == Init => DecideInv
BY DEF Init, DecideInv, AnswerDecides, NotYet

LEMMA DecideNext == DecideInv /\ [Next]_vars => DecideInv'
<1> SUFFICES ASSUME DecideInv, [Next]_vars PROVE DecideInv'
  OBVIOUS
<1> USE DEF DecideInv, AnswerDecides
<1>1. CASE Start
  BY <1>1 DEF Start, NotYet
<1>2. CASE Poll
  BY <1>2 DEF Poll, StopFor, NotYet
<1>3. CASE SeesExit \/ Stopped \/ FeedFails \/ FeedLasts \/ Reads
  BY <1>3 DEF SeesExit, Stopped, FeedFails, FeedLasts, Reads, NotYet, watch
<1>4. CASE DecideStopped
  BY <1>4 DEF DecideStopped, Return, Retry, Recovers, NotYet, watch
<1>5. CASE DecideExited
  BY <1>5 DEF DecideExited, Return, Retry, Valid, Codes, NotYet, watch
<1>6. CASE Prints
  BY <1>6 DEF Prints
<1>7. ASSUME NEW text \in Texts, Writes(text) PROVE DecideInv'
  BY <1>7 DEF Writes, Alive, NotYet
<1>8. ASSUME NEW text \in Texts, LeftoverWrites(text) PROVE DecideInv'
  BY <1>8 DEF LeftoverWrites
<1>9. ASSUME NEW how \in Exits, Exit(how) PROVE DecideInv'
  BY <1>9 DEF Exit, Alive, NotYet, watch
<1>10. CASE Finished \/ UNCHANGED vars
  BY <1>10 DEF Finished, vars
<1> QED
  BY <1>1, <1>2, <1>3, <1>4, <1>5, <1>6, <1>7, <1>8, <1>9, <1>10 DEF Next, Loop

\* With no process left behind, a batch succeeds only with an answer in its
\* output file and is given up after its runner was stopped only without one
\* (handle_timeout_or_stall, handle_successful_attempt_core).
THEOREM AnswerCorrect == Spec => []AnswerDecides
BY DecideInit, DecideNext, PTL DEF Spec, DecideInv
==============================================================================
