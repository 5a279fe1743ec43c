--------------------------- MODULE StateStoreProofs ---------------------------
(***************************************************************************)
(* The state lock implements an atomic register, and what faults take from *)
(* the file is bounded, for any number of locked writers and of processes  *)
(* that load the file without the lock.                                    *)
(***************************************************************************)
EXTENDS StateStore, FiniteSetTheorems, TLAPS

-----------------------------------------------------------------------------
(* Types and finite sets *)

LEMMA StateIsFile ==
    /\ States \subseteq Files /\ {Missing, Junk, Invalid} \subseteq Files
    /\ Fresh \in States /\ Missing.kind # "state"
    /\ \A f \in Files : f.kind = "state" => f \in States
    /\ \A f \in States : f.kind = "state"
BY DEF Files, States, Sources, Missing, Junk, Invalid, Fresh, State, File

\* What a load puts in memory is the state it read, or one without its updates,
\* and what a writer leaves out is counted as dropped.
LEMMA LoadsFacts ==
    ASSUME TypeOK, NEW p \in Procs, NEW s \in States, NEW b \in BOOLEAN, Loads(p, s, b)
    PROVE  \E m \in States :
              /\ mem' = [mem EXCEPT ![p] = m]
              /\ fallback' = [fallback EXCEPT ![p] = b]
              /\ pc' = [pc EXCEPT ![p] = "loaded"]
              /\ m.has \subseteq s.has
              /\ dropped \subseteq dropped' /\ dropped' \subseteq Procs
              /\ p \in Writers => s.has \ m.has \subseteq dropped'
<1>1. PICK live \in BOOLEAN :
         /\ mem' = [mem EXCEPT ![p] = Reconstructed(s, live)]
         /\ fallback' = [fallback EXCEPT ![p] = b]
         /\ dropped' = IF p \in Writers /\ s.source # "scan"
                       THEN dropped \cup (s.has \ Reconstructed(s, live).has) ELSE dropped
         /\ pc' = [pc EXCEPT ![p] = "loaded"]
  BY DEF Loads, GoTo
<1> DEFINE m == Reconstructed(s, live)
<1>2. s.has \subseteq Procs
  BY DEF States
<1>3. m = s \/ (m \in {State({}, "plan"), Fresh} /\ s.source # "scan")
  BY DEF Reconstructed, Rebuilt
<1>4. m \in States /\ m.has \subseteq s.has
  BY <1>3 DEF States, Sources, State, Fresh, File
<1>5. s.source = "scan" => s.has \ m.has = {}
  BY <1>3
<1>6. dropped \subseteq dropped' /\ dropped' \subseteq Procs
  BY <1>1, <1>2 DEF TypeOK
<1>7. p \in Writers => s.has \ m.has \subseteq dropped'
  BY <1>1, <1>5
<1> QED
  BY <1>1, <1>4, <1>6, <1>7

LEMMA TypeInit == Init => TypeOK
<1> SUFFICES ASSUME Init PROVE TypeOK
  OBVIOUS
<1>1. {Missing, State({}, "scan"), State({}, "plan")} \subseteq Files
  BY DEF Files, States, Sources, State, File
<1>2. primary \in Files /\ backup \in Files /\ corrupted \in Files
  BY <1>1, StateIsFile DEF Init
<1>3. mem \in [Procs -> States] /\ from \in [Procs -> Files]
  BY StateIsFile DEF Init
<1>4. faults \in 0..MaxFaults
  BY StoreAssumption DEF Init
<1> QED
  BY <1>2, <1>3, <1>4 DEF Init, TypeOK

LEMMA TypeLoads ==
    ASSUME TypeOK, NEW p \in Procs, NEW s \in States, NEW b \in BOOLEAN, Loads(p, s, b)
    PROVE  /\ mem' \in [Procs -> States] /\ fallback' \in [Procs -> BOOLEAN]
           /\ pc' = [pc EXCEPT ![p] = "loaded"] /\ dropped' \subseteq Procs
<1>1. PICK m \in States :
         /\ mem' = [mem EXCEPT ![p] = m] /\ fallback' = [fallback EXCEPT ![p] = b]
         /\ pc' = [pc EXCEPT ![p] = "loaded"] /\ dropped' \subseteq Procs
  BY LoadsFacts
<1> QED
  BY <1>1 DEF TypeOK

LEMMA TypeEnds ==
    ASSUME TypeOK, NEW p \in Procs, Ends(p)
    PROVE  /\ mem' \in [Procs -> States] /\ fallback' \in [Procs -> BOOLEAN]
           /\ from' \in [Procs -> Files] /\ lock' \in Writers \cup {NoOne}
           /\ pc' = [pc EXCEPT ![p] = "ended"]
BY StateIsFile DEF TypeOK, Ends, GoTo, Release

LEMMA TypeNext == TypeOK /\ [Next]_vars => TypeOK'
<1> SUFFICES ASSUME TypeOK, [Next]_vars PROVE TypeOK'
  OBVIOUS
<1> USE DEF GoTo, files
<1>1. CASE Damage
  <2>1. primary' \in Files /\ faults' \in 0..MaxFaults
    BY <1>1, StateIsFile, StoreAssumption DEF Damage, TypeOK
  <2> QED
    BY <1>1, <2>1 DEF Damage, TypeOK
<1>2. CASE UNCHANGED vars
  BY <1>2 DEF vars, TypeOK
<1>3. ASSUME NEW p \in Procs, Acquire(p) PROVE TypeOK'
  BY <1>3 DEF Acquire, TypeOK
<1>4. ASSUME NEW p \in Procs, Exists(p) PROVE TypeOK'
  <2>1. CASE Loads(p, Fresh, ~FirstRun)
    BY <1>4, <2>1, StateIsFile, TypeLoads DEF Exists, FirstRun, TypeOK
  <2>2. CASE GoTo(p, "read") /\ UNCHANGED <<mem, fallback, dropped>>
    BY <1>4, <2>2 DEF Exists, TypeOK
  <2> QED
    BY <1>4, <2>1, <2>2 DEF Exists
<1>5. ASSUME NEW p \in Procs, Read(p) PROVE TypeOK'
  <2>1. CASE \E s \in States, b \in BOOLEAN : Loads(p, s, b)
    BY <1>5, <2>1, TypeLoads DEF Read, TypeOK
  <2>2. CASE GoTo(p, "backup") /\ UNCHANGED <<mem, fallback, dropped>>
    BY <1>5, <2>2 DEF Read, TypeOK
  <2>3. primary.kind = "state" => primary \in States
    BY StateIsFile DEF TypeOK
  <2> QED
    BY <1>5, <2>1, <2>2, <2>3, StateIsFile DEF Read
<1>6. ASSUME NEW p \in Procs, ReadBackup(p) PROVE TypeOK'
  <2>1. CASE backup.kind = "state" /\ Loads(p, backup, FALSE)
    <3>1. backup \in States
      BY <2>1, StateIsFile DEF TypeOK
    <3> QED
      BY <1>6, <2>1, <3>1, TypeLoads DEF ReadBackup, TypeOK
  <2>2. CASE GoTo(p, "rename") /\ UNCHANGED <<mem, fallback, dropped>>
    BY <1>6, <2>2 DEF ReadBackup, TypeOK
  <2> QED
    BY <1>6, <2>1, <2>2 DEF ReadBackup
<1>7. ASSUME NEW p \in Procs, MoveAside(p) PROVE TypeOK'
  <2>1. primary' \in Files /\ corrupted' \in Files /\ strayed' \subseteq Procs
    BY <1>7, StateIsFile DEF MoveAside, TypeOK
  <2> QED
    BY <1>7, <2>1, StateIsFile, TypeLoads DEF MoveAside, TypeOK
<1>8. ASSUME NEW p \in Procs, Update(p) PROVE TypeOK'
  <2>1. CASE Ends(p) /\ UNCHANGED meddled
    BY <1>8, <2>1, TypeEnds DEF Update, TypeOK
  <2>2. CASE /\ GoTo(p, "copy") /\ UNCHANGED <<lock, fallback, from>>
             /\ mem' = [mem EXCEPT ![p] =
                   State(@.has \cup {p}, IF p \in Unlocked THEN "scan" ELSE @.source)]
             /\ meddled' = (meddled \/ p \in Unlocked)
    <3>1. State(mem[p].has \cup {p}, IF p \in Unlocked THEN "scan" ELSE mem[p].source)
            \in States
      BY DEF State, File, States, Sources, TypeOK
    <3>2. mem' \in [Procs -> States] /\ meddled' \in BOOLEAN
      BY <2>2, <3>1 DEF TypeOK
    <3> QED
      BY <1>8, <2>2, <3>2 DEF Update, TypeOK
  <2> QED
    BY <1>8, <2>1, <2>2 DEF Update
<1>9. ASSUME NEW p \in Procs, CopyOpen(p) PROVE TypeOK'
  BY <1>9, StateIsFile DEF CopyOpen, TypeOK
<1>10. ASSUME NEW p \in Procs, CopyDone(p) PROVE TypeOK'
  BY <1>10, StateIsFile DEF CopyDone, TypeOK
<1>11. ASSUME NEW p \in Procs, NothingToCopy(p) PROVE TypeOK'
  BY <1>11 DEF NothingToCopy, TypeOK
<1>12. ASSUME NEW p \in Procs, CopyFails(p) PROVE TypeOK'
  <2>1. faults' \in 0..MaxFaults /\ from' \in [Procs -> Files]
    BY <1>12, StateIsFile, StoreAssumption DEF CopyFails, TypeOK
  <2> QED
    BY <1>12, <2>1 DEF CopyFails, TypeOK
<1>13. ASSUME NEW p \in Procs, Replace(p) PROVE TypeOK'
  BY <1>13, StateIsFile, TypeEnds DEF Replace, TypeOK
<1>14. ASSUME NEW p \in Procs, GiveUp(p) \/ Fail(p) PROVE TypeOK'
  BY <1>14, TypeEnds DEF GiveUp, Fail, TypeOK
<1> QED
  BY <1>1, <1>2, <1>3, <1>4, <1>5, <1>6, <1>7, <1>8, <1>9, <1>10, <1>11, <1>12, <1>13, <1>14
     DEF Next, Step

-----------------------------------------------------------------------------
(* The lock *)

\* A writer between its start and its end holds the lock; hence two never are.
LockInv ==
    /\ pc \in [Procs -> {"idle", "exists", "read", "backup", "rename", "loaded",
                         "copy", "copying", "replace", "ended"}]
    /\ \A w \in Writers : pc[w] \notin {"idle", "ended"} => lock = w

LEMMA LockInit == Init => LockInv
BY DEF Init, LockInv, Procs

LEMMA LockNext == LockInv /\ [Next]_vars => LockInv'
<1> SUFFICES ASSUME LockInv, [Next]_vars PROVE LockInv'
  OBVIOUS
<1> USE StoreAssumption DEF LockInv, Procs
<1>1. CASE Damage
  BY <1>1 DEF Damage
<1>2. CASE UNCHANGED vars
  BY <1>2 DEF vars, files
<1>3. ASSUME NEW p \in Procs, Acquire(p) PROVE LockInv'
  <2>1. CASE p \in Writers
    <3>1. lock = NoOne /\ lock' = p /\ pc' = [pc EXCEPT ![p] = "exists"]
      BY <1>3, <2>1 DEF Acquire, GoTo
    <3>2. \A w \in Writers : pc[w] \in {"idle", "ended"}
      BY <3>1
    <3> QED
      BY <3>1, <3>2
  <2>2. CASE p \notin Writers
    BY <1>3, <2>2 DEF Acquire, GoTo
  <2> QED
    BY <2>1, <2>2
<1>4. ASSUME NEW p \in Procs, Ends(p) PROVE LockInv'
  <2>1. pc' = [pc EXCEPT ![p] = "ended"]
    BY <1>4 DEF Ends, GoTo
  <2>2. lock' = IF lock = p THEN NoOne ELSE lock
    BY <1>4 DEF Ends, Release
  <2> QED
    BY <2>1, <2>2
<1>5. ASSUME NEW p \in Procs, pc[p] \notin {"idle", "ended"}, lock' = lock,
             \E l \in {"read", "backup", "rename", "loaded", "copy", "copying", "replace"} :
                GoTo(p, l)
      PROVE  LockInv'
  BY <1>5 DEF GoTo
<1>6. ASSUME NEW p \in Procs, Step(p) PROVE LockInv'
  <2>1. CASE Exists(p)
    BY <1>5, <2>1 DEF Exists, Loads
  <2>2. CASE Read(p)
    BY <1>5, <2>2 DEF Read, Loads
  <2>3. CASE ReadBackup(p)
    BY <1>5, <2>3 DEF ReadBackup, Loads
  <2>4. CASE MoveAside(p)
    BY <1>5, <2>4 DEF MoveAside, Loads
  <2>5. CASE Update(p)
    BY <1>4, <1>5, <2>5 DEF Update
  <2>6. CASE CopyOpen(p) \/ CopyDone(p) \/ NothingToCopy(p)
    BY <1>5, <2>6 DEF CopyOpen, CopyDone, NothingToCopy, files
  <2>7. CASE Replace(p)
    BY <1>4, <2>7 DEF Replace
  <2> QED
    BY <1>3, <1>6, <2>1, <2>2, <2>3, <2>4, <2>5, <2>6, <2>7 DEF Step
<1>7. ASSUME NEW p \in Procs, GiveUp(p) \/ CopyFails(p) \/ Fail(p) PROVE LockInv'
  BY <1>4, <1>5, <1>7 DEF GiveUp, CopyFails, Fail, files
<1> QED
  BY <1>1, <1>2, <1>6, <1>7 DEF Next
-----------------------------------------------------------------------------
(* A sound store *)

Sound == faults = 0 /\ meddled = FALSE /\ dropped = {}

\* While nothing but locked sections has written to the file and no load has
\* dropped an update, the file is there or was never saved, nobody recovers it,
\* and a writer that has loaded it has in memory the updates that are in it
\* still, and its own once it made it.
SoundInv ==
    Sound =>
        /\ corrupted = Missing
        /\ primary = Missing \/ primary.kind = "state"
        /\ \A p \in Procs :
              /\ pc[p] \notin {"backup", "rename"}
              /\ pc[p] = "read" => primary # Missing
        /\ \A p \in Unlocked : pc[p] \notin {"copy", "copying", "replace"}
        /\ \A w \in Writers :
              /\ pc[w] = "loaded" => mem[w].has = Held
              /\ pc[w] \in {"copy", "copying", "replace"} => mem[w].has = Held \cup {w}

LEMMA SoundInit == Init => SoundInv
<1> SUFFICES ASSUME Init PROVE SoundInv
  OBVIOUS
<1>1. primary = Missing \/ primary.kind = "state"
  BY DEF Init, State, File
<1>2. \A p \in Procs : pc[p] = "idle"
  BY DEF Init
<1>3. corrupted = Missing
  BY DEF Init
<1> QED
  BY <1>1, <1>2, <1>3 DEF SoundInv, Procs

\* A step of one process that leaves the file alone keeps what the invariant
\* says of the others.
LEMMA LocalStep ==
    ASSUME TypeOK, SoundInv, NEW p \in Procs, NEW l, NEW m,
           primary' = primary, corrupted' = corrupted, Sound' => Sound,
           pc' = [pc EXCEPT ![p] = l], mem' = [mem EXCEPT ![p] = m],
           Sound' =>
              /\ l \notin {"backup", "rename"}
              /\ l = "read" => primary # Missing
              /\ p \in Unlocked => l \notin {"copy", "copying", "replace"}
              /\ p \in Writers /\ l = "loaded" => m.has = Held
              /\ p \in Writers /\ l \in {"copy", "copying", "replace"} =>
                    m.has = Held \cup {p}
    PROVE  SoundInv'
<1> SUFFICES ASSUME Sound' PROVE SoundInv'
  BY DEF SoundInv
<1>1. \A q \in Procs : pc'[q] = IF q = p THEN l ELSE pc[q]
  BY DEF TypeOK
<1>2. \A q \in Procs : mem'[q] = IF q = p THEN m ELSE mem[q]
  BY DEF TypeOK
<1>3. Held' = Held /\ Missing' = Missing
  BY DEF Held, Missing, File
<1>4. \A q \in Procs :
         /\ pc'[q] \notin {"backup", "rename"}
         /\ pc'[q] = "read" => primary' # Missing
         /\ q \in Unlocked => pc'[q] \notin {"copy", "copying", "replace"}
  BY <1>1 DEF SoundInv
<1>5. \A w \in Writers :
         /\ pc'[w] = "loaded" => mem'[w].has = Held
         /\ pc'[w] \in {"copy", "copying", "replace"} => mem'[w].has = Held \cup {w}
  BY <1>1, <1>2 DEF SoundInv, Procs
<1>6. corrupted' = Missing /\ (primary' = Missing \/ primary'.kind = "state")
  BY DEF SoundInv
<1>7. \A q \in Unlocked : q \in Procs
  BY DEF Procs
<1> QED
  BY <1>3, <1>4, <1>5, <1>6, <1>7 DEF SoundInv

\* The save of a locked section.
LEMMA ReplaceStep ==
    ASSUME TypeOK, SoundInv, LockInv, NEW p \in Procs, Replace(p)
    PROVE  SoundInv'
<1> SUFFICES ASSUME Sound' PROVE SoundInv'
  BY DEF SoundInv
<1>1. /\ pc[p] = "replace" /\ primary' = mem[p]
      /\ UNCHANGED <<corrupted, meddled, dropped, faults>>
      /\ pc' = [pc EXCEPT ![p] = "ended"]
  BY DEF Replace, Ends, GoTo
<1>2. Sound
  BY <1>1 DEF Sound
<1>3. p \in Writers
  BY <1>1, <1>2 DEF SoundInv, Procs
<1>4. \A w \in Writers : pc'[w] \in {"idle", "ended"}
  BY <1>1, <1>3, StoreAssumption DEF LockInv, Procs
<1>5. primary'.kind = "state" /\ Missing' = Missing
  BY <1>1, StateIsFile DEF TypeOK, Missing, File
<1>6. \A q \in Procs : pc'[q] \in {pc[q], "ended"}
  BY <1>1 DEF TypeOK
<1>7. \A q \in Procs : pc'[q] \notin {"backup", "rename"} /\ (pc'[q] = "read" => primary' # Missing)
  BY <1>2, <1>5, <1>6, StateIsFile DEF SoundInv
<1>8. \A q \in Unlocked : pc'[q] \notin {"copy", "copying", "replace"}
  BY <1>2, <1>6 DEF SoundInv, Procs
<1> QED
  BY <1>1, <1>2, <1>4, <1>5, <1>7, <1>8 DEF SoundInv

LEMMA SoundNext == TypeOK /\ SoundInv /\ LockInv /\ [Next]_vars => SoundInv'
<1> SUFFICES ASSUME TypeOK, SoundInv, LockInv, [Next]_vars, Sound' PROVE SoundInv'
  BY DEF SoundInv
<1>1. CASE Damage
  <2>1. faults' # 0
    BY <1>1, StoreAssumption DEF Damage, TypeOK
  <2> QED
    BY <2>1 DEF Sound
<1>2. CASE UNCHANGED vars
  BY <1>2 DEF vars, files, SoundInv, Sound, Held, Missing, File
<1>3. ASSUME NEW p \in Procs, Ends(p), UNCHANGED <<primary, corrupted>>,
             UNCHANGED <<meddled, dropped, faults>>
      PROVE  SoundInv'
  BY <1>3, LocalStep DEF Ends, GoTo, Sound
<1>4. ASSUME NEW p \in Procs, NEW l, GoTo(p, l), UNCHANGED mem,
             l \in {"exists", "read", "backup", "rename"},
             l \notin {"backup", "rename"} \/ ~Sound,
             l = "read" => primary # Missing,
             UNCHANGED <<primary, corrupted>>, UNCHANGED <<meddled, dropped, faults>>
      PROVE  SoundInv'
  <2>1. mem' = [mem EXCEPT ![p] = mem[p]]
    BY <1>4 DEF TypeOK
  <2>2. Sound
    BY <1>4 DEF Sound
  <2> QED
    BY <1>4, <2>1, <2>2, LocalStep DEF GoTo
<1>5. ASSUME NEW p \in Procs, NEW s \in States, NEW b \in BOOLEAN, Loads(p, s, b),
             Sound => s.has = Held,
             UNCHANGED <<primary, corrupted>>, UNCHANGED <<meddled, faults>>
      PROVE  SoundInv'
  <2>1. PICK m \in States :
           /\ mem' = [mem EXCEPT ![p] = m] /\ pc' = [pc EXCEPT ![p] = "loaded"]
           /\ m.has \subseteq s.has /\ dropped \subseteq dropped'
           /\ p \in Writers => s.has \ m.has \subseteq dropped'
    BY <1>5, LoadsFacts
  <2>2. Sound /\ dropped' = {}
    BY <1>5, <2>1 DEF Sound
  <2>3. p \in Writers => m.has = Held
    BY <1>5, <2>1, <2>2
  <2> QED
    BY <1>5, <2>1, <2>2, <2>3, LocalStep
<1>6. ASSUME NEW p \in Procs, pc[p] \in {"copy", "copying"}, NEW l \in {"copying", "replace"},
             GoTo(p, l), UNCHANGED mem,
             UNCHANGED <<primary, corrupted>>, UNCHANGED <<meddled, dropped, faults>>
      PROVE  SoundInv'
  <2>1. mem' = [mem EXCEPT ![p] = mem[p]]
    BY <1>6 DEF TypeOK
  <2>2. Sound
    BY <1>6 DEF Sound
  <2>3. p \notin Unlocked /\ (p \in Writers => mem[p].has = Held \cup {p})
    BY <1>6, <2>2 DEF SoundInv
  <2> QED
    BY <1>6, <2>1, <2>2, <2>3, LocalStep DEF GoTo
<1>7. ASSUME NEW p \in Procs, Step(p) PROVE SoundInv'
  <2>1. CASE Acquire(p)
    BY <1>4, <2>1 DEF Acquire, files
  <2>2. CASE Exists(p)
    <3>1. CASE primary = Missing /\ Loads(p, Fresh, ~FirstRun)
      <4>1. Fresh \in States /\ (~FirstRun) \in BOOLEAN
        BY StateIsFile
      <4>2. Fresh.has = Held
        BY <3>1, StateIsFile DEF Held, Fresh, State, File
      <4>3. UNCHANGED <<primary, corrupted>> /\ UNCHANGED <<meddled, faults>>
        BY <2>2 DEF Exists, files
      <4> QED
        BY <1>5, <3>1, <4>1, <4>2, <4>3
    <3>2. CASE primary # Missing /\ GoTo(p, "read") /\ UNCHANGED <<mem, fallback, dropped>>
      BY <1>4, <2>2, <3>2 DEF Exists, files
    <3> QED
      BY <2>2, <3>1, <3>2 DEF Exists
  <2>3. CASE Read(p)
    <3>1. UNCHANGED <<primary, corrupted>> /\ UNCHANGED <<meddled, faults>> /\ pc[p] = "read"
      BY <2>3 DEF Read, files
    <3>2. Sound => primary.kind = "state"
      BY <3>1 DEF SoundInv
    <3>3. CASE primary.kind = "state" /\ Loads(p, primary, FALSE)
      <4>1. primary \in States /\ primary.has = Held
        BY <3>3, StateIsFile DEF TypeOK, Held
      <4> QED
        BY <1>5, <3>1, <3>3, <4>1
    <3>4. CASE primary.kind = "invalid" /\ Loads(p, Fresh, TRUE)
      BY <1>5, <3>1, <3>2, <3>4, StateIsFile
    <3>5. CASE /\ primary.kind \in {"junk", "missing"}
               /\ GoTo(p, "backup") /\ UNCHANGED <<mem, fallback, dropped>>
      BY <1>4, <3>1, <3>2, <3>5
    <3> QED
      BY <2>3, <3>3, <3>4, <3>5 DEF Read
  <2>4. CASE ReadBackup(p)
    <3>1. ~Sound /\ UNCHANGED <<primary, corrupted>> /\ UNCHANGED <<meddled, faults>>
      BY <2>4 DEF ReadBackup, SoundInv, files
    <3>2. CASE backup.kind = "state" /\ Loads(p, backup, FALSE)
      <4>1. backup \in States
        BY <3>2, StateIsFile DEF TypeOK
      <4> QED
        BY <1>5, <3>1, <3>2, <4>1
    <3>3. CASE backup.kind # "state" /\ GoTo(p, "rename") /\ UNCHANGED <<mem, fallback, dropped>>
      BY <1>4, <3>1, <3>3
    <3> QED
      BY <2>4, <3>2, <3>3 DEF ReadBackup
  <2>5. CASE MoveAside(p)
    <3>1. ~Sound /\ Loads(p, Fresh, TRUE) /\ UNCHANGED <<meddled, faults>>
      BY <2>5 DEF MoveAside, SoundInv
    <3>2. dropped \subseteq dropped'
      BY <3>1, LoadsFacts, StateIsFile
    <3>3. ~Sound'
      BY <3>1, <3>2 DEF Sound
    <3> QED
      BY <3>3
  <2>6. CASE Update(p)
    <3>1. CASE Ends(p) /\ UNCHANGED meddled
      BY <1>3, <2>6, <3>1 DEF Update, files
    <3>2. CASE /\ GoTo(p, "copy")
               /\ mem' = [mem EXCEPT ![p] =
                     State(@.has \cup {p}, IF p \in Unlocked THEN "scan" ELSE @.source)]
               /\ meddled' = (meddled \/ p \in Unlocked)
      <4> DEFINE m == State(mem[p].has \cup {p},
                            IF p \in Unlocked THEN "scan" ELSE mem[p].source)
      <4>1. mem' = [mem EXCEPT ![p] = m] /\ m.has = mem[p].has \cup {p}
        BY <3>2 DEF TypeOK, State, File
      <4>2. UNCHANGED <<primary, corrupted>> /\ UNCHANGED <<dropped, faults>> /\ pc[p] = "loaded"
        BY <2>6 DEF Update, files
      <4>3. p \notin Unlocked /\ Sound
        BY <3>2, <4>2 DEF Sound, TypeOK
      <4>4. p \in Writers => mem[p].has = Held
        BY <4>2, <4>3 DEF SoundInv
      <4> HIDE DEF m
      <4> QED
        BY <3>2, <4>1, <4>2, <4>3, <4>4, LocalStep DEF GoTo
    <3> QED
      BY <2>6, <3>1, <3>2 DEF Update
  <2>7. CASE CopyOpen(p) \/ CopyDone(p) \/ NothingToCopy(p)
    BY <1>6, <2>7 DEF CopyOpen, CopyDone, NothingToCopy, files
  <2>8. CASE Replace(p)
    BY <2>8, ReplaceStep
  <2> QED
    BY <1>7, <2>1, <2>2, <2>3, <2>4, <2>5, <2>6, <2>7, <2>8 DEF Step
<1>8. ASSUME NEW p \in Procs, GiveUp(p) \/ Fail(p) PROVE SoundInv'
  BY <1>3, <1>8 DEF GiveUp, Fail, files
<1>9. ASSUME NEW p \in Procs, CopyFails(p) PROVE SoundInv'
  <2>1. faults' # 0
    BY <1>9, StoreAssumption DEF CopyFails, TypeOK
  <2> QED
    BY <2>1 DEF Sound
<1> QED
  BY <1>1, <1>2, <1>7, <1>8, <1>9 DEF Next

-----------------------------------------------------------------------------
(* The register *)

\* Of a sound store, a step that changes what the file holds adds the update of
\* one writer to it.
LEMMA RegisterStep ==
    TypeOK /\ SoundInv /\ LockInv /\ [Next]_vars => [Register!Next]_Held
<1> SUFFICES ASSUME TypeOK, SoundInv, LockInv, [Next]_vars,
                    faults' = 0 /\ dropped' = {} /\ ~meddled', Held' # Held
             PROVE  \E w \in Writers : Held' = Held \cup {w}
  BY DEF Register!Next, Register!Commit
<1>1. primary' # primary
  BY DEF Held
<1>2. CASE Damage
  BY <1>2, StoreAssumption DEF Damage, TypeOK
<1>3. CASE UNCHANGED vars
  BY <1>1, <1>3 DEF vars, files
<1>4. ASSUME NEW p \in Procs, MoveAside(p) PROVE FALSE
  <2>1. pc[p] = "rename" /\ Loads(p, Fresh, TRUE) /\ UNCHANGED <<meddled, faults>>
    BY <1>4 DEF MoveAside
  <2>2. dropped \subseteq dropped'
    BY <2>1, LoadsFacts, StateIsFile
  <2>3. Sound
    BY <2>1, <2>2 DEF Sound, TypeOK
  <2> QED
    BY <2>1, <2>3 DEF SoundInv
<1>5. ASSUME NEW p \in Procs, Replace(p)
      PROVE  \E w \in Writers : Held' = Held \cup {w}
  <2>1. /\ pc[p] = "replace" /\ primary' = mem[p]
        /\ UNCHANGED <<meddled, dropped, faults>>
    BY <1>5 DEF Replace
  <2>2. Sound
    BY <2>1 DEF Sound, TypeOK
  <2>3. p \in Writers /\ mem[p].has = Held \cup {p}
    BY <2>1, <2>2 DEF SoundInv, Procs
  <2>4. Held' = mem[p].has
    BY <2>1, StateIsFile DEF Held, TypeOK
  <2> QED
    BY <2>3, <2>4
<1>6. ASSUME NEW p \in Procs, Step(p) \/ GiveUp(p) \/ CopyFails(p) \/ Fail(p)
      PROVE  MoveAside(p) \/ Replace(p)
  BY <1>1, <1>6 DEF Step, Acquire, Exists, Read, ReadBackup, Update, CopyOpen, CopyDone,
     NothingToCopy, GiveUp, CopyFails, Fail, files
<1> QED
  BY <1>2, <1>3, <1>4, <1>5, <1>6 DEF Next

LEMMA RegisterInit == Init => Register!Init
BY DEF Init, Register!Init, Held, Missing, State, File

\* However many locked writers interleave with each other, with kills, with
\* plans that come and go and with loads that take no lock: as long as nothing
\* else saves or damages the file and no load drops what a state without a scan
\* held, a section of state_lock adds its update to the latest state in one step
\* or not at all. With a scan behind the file no load ever drops anything.
THEOREM StoreCorrect == Spec => ImplementsAtomicStore
<1>1. Spec => [](TypeOK /\ LockInv /\ SoundInv)
  <2>1. TypeOK /\ LockInv /\ SoundInv /\ [Next]_vars => (TypeOK /\ LockInv /\ SoundInv)'
    BY TypeNext, LockNext, SoundNext
  <2> QED
    BY <2>1, TypeInit, LockInit, SoundInit, PTL DEF Spec
<1> QED
  BY <1>1, RegisterInit, RegisterStep, PTL
     DEF Spec, ImplementsAtomicStore, Register!Spec

-----------------------------------------------------------------------------
(* What is counted *)

\* Only a save and a move of the file count a process, one at a time, and a
\* load that moved the file aside does not load again.
CountInv ==
    /\ IsFiniteSet(saved) /\ IsFiniteSet(strayed)
    /\ \A p \in strayed : pc[p] \in {"loaded", "copy", "copying", "replace", "ended"}

LEMMA CountInit == Init => CountInv
BY FS_EmptySet DEF Init, CountInv

LEMMA CountNext == TypeOK /\ CountInv /\ [Next]_vars => CountInv'
<1> SUFFICES ASSUME TypeOK, CountInv, [Next]_vars PROVE CountInv'
  OBVIOUS
<1>1. saved' = saved \/ \E p \in Procs : saved' = saved \cup {p}
  BY DEF Next, Step, Damage, Acquire, Exists, Read, ReadBackup, MoveAside, Update, CopyOpen,
         CopyDone, NothingToCopy, CopyFails, Replace, GiveUp, Fail, files, vars
<1>2. IsFiniteSet(saved')
  BY <1>1, FS_AddElement DEF CountInv
<1>3. CASE strayed' = strayed
  <2>1. \/ UNCHANGED pc
        \/ \E p \in Procs, l \in {"loaded", "copy", "copying", "replace", "ended"} :
               GoTo(p, l)
        \/ \E p \in Procs :
               /\ pc[p] \in {"idle", "exists", "read", "backup"}
               /\ \E l : GoTo(p, l)
    BY DEF Next, Step, Damage, Acquire, Exists, Read, ReadBackup, MoveAside, Update, CopyOpen,
           CopyDone, NothingToCopy, CopyFails, Replace, GiveUp, Fail, Ends, Loads, files, vars
  <2> QED
    BY <1>2, <1>3, <2>1 DEF CountInv, TypeOK, GoTo
<1>4. CASE strayed' # strayed
  <2>1. PICK p \in Procs : /\ strayed' = strayed \cup {p} /\ GoTo(p, "loaded")
    BY <1>4 DEF Next, Step, Damage, Acquire, Exists, Read, ReadBackup, MoveAside, Update,
                CopyOpen, CopyDone, NothingToCopy, CopyFails, Replace, GiveUp, Fail, Loads,
                files, vars
  <2>2. IsFiniteSet(strayed')
    BY <2>1, FS_AddElement DEF CountInv
  <2> QED
    BY <1>2, <2>1, <2>2 DEF CountInv, TypeOK, GoTo
<1> QED
  BY <1>3, <1>4

-----------------------------------------------------------------------------
(* What is lost *)

\* What may have cost an update: a damage, a failed copy, a file moved aside.
Harm == faults + Cardinality(strayed)

\* The saved updates that no load dropped.
Kept == saved \ dropped

\* Of the updates in S, the state f lacks n at most.
Covers(f, S, n) == f.kind = "state" => Cardinality(S \ f.has) <= n

\* A writer that has a state to save.
HasState(w) ==
    (pc[w] = "loaded" /\ fallback[w] = FALSE) \/ pc[w] \in {"copy", "copying", "replace"}

\* The backup is one save older than the file and may lack one update more. So
\* it lacks no more than the harm allows when a load falls back to it, the file
\* being gone, and when the next save is about to make it older by one more.
BoundInv ==
    /\ \A p \in Unlocked : pc[p] \notin {"copy", "copying", "replace"}
    /\ primary = Missing /\ corrupted = Missing => saved = {}
    /\ Covers(primary, Kept, Harm)
    /\ Covers(backup, Kept, Harm + 1)
    /\ primary.kind # "state" \/ (\E w \in Writers : pc[w] = "replace") =>
          Covers(backup, Kept, Harm)
    /\ \A w \in Writers :
        /\ pc[w] \in {"backup", "rename"} => primary.kind # "state"
        /\ HasState(w) => Covers(mem[w], Kept, Harm)
        /\ pc[w] \in {"copy", "copying", "replace"} => w \in mem[w].has
        /\ pc[w] = "copying" => Covers(from[w], Kept, Harm)

LossInv == meddled = FALSE => BoundInv

LEMMA HarmType ==
    ASSUME TypeOK, CountInv
    PROVE  Harm \in Nat
BY FS_CardinalityType, StoreAssumption DEF Harm, TypeOK, CountInv

LEMMA CoversMore ==
    ASSUME NEW f, NEW S, IsFiniteSet(S), NEW n \in Nat, NEW m \in Nat, n <= m,
           Covers(f, S, n)
    PROVE  Covers(f, S, m)
<1>1. IsFiniteSet(S \ f.has)
  BY FS_Subset
<1>2. Cardinality(S \ f.has) \in Nat
  BY <1>1, FS_CardinalityType
<1>3. Cardinality(S \ f.has) <= n => Cardinality(S \ f.has) <= m
  BY <1>2
<1> QED
  BY <1>3 DEF Covers

\* One more update saved is at most one more that is missing,
LEMMA CoversSave ==
    ASSUME NEW f, NEW S, IsFiniteSet(S), NEW w, NEW n \in Nat,
           Covers(f, S, n)
    PROVE  Covers(f, S \cup {w}, n + 1)
<1> DEFINE lost == S \ f.has
<1>1. IsFiniteSet(lost)
  BY FS_Subset
<1>2. Cardinality(lost \cup {w}) <= Cardinality(lost) + 1 /\ Cardinality(lost) \in Nat
  <2>1. Cardinality(lost) \in Nat
    BY <1>1, FS_CardinalityType
  <2>2. Cardinality(lost \cup {w}) =
            IF w \in lost THEN Cardinality(lost) ELSE Cardinality(lost) + 1
    BY <1>1, FS_AddElement
  <2> HIDE DEF lost
  <2> QED
    BY <2>1, <2>2
<1>3. IsFiniteSet(lost \cup {w}) /\ (S \cup {w}) \ f.has \in SUBSET (lost \cup {w})
  BY <1>1, FS_AddElement
<1>4. /\ Cardinality((S \cup {w}) \ f.has) <= Cardinality(lost \cup {w})
      /\ Cardinality((S \cup {w}) \ f.has) \in Nat /\ Cardinality(lost \cup {w}) \in Nat
  BY <1>3, FS_Subset, FS_CardinalityType
<1>5. Cardinality(lost) <= n => Cardinality((S \cup {w}) \ f.has) <= n + 1
  BY <1>2, <1>4
<1> QED
  BY <1>5 DEF Covers

\* and none of the state that has it.
LEMMA CoversOwn ==
    ASSUME NEW f, NEW S, NEW w, NEW n, w \in f.has,
           Covers(f, S, n)
    PROVE  Covers(f, S \cup {w}, n)
<1>1. (S \cup {w}) \ f.has = S \ f.has
  OBVIOUS
<1> QED
  BY <1>1 DEF Covers

\* nor of fewer updates.
LEMMA CoversLess ==
    ASSUME NEW f, NEW S, IsFiniteSet(S), NEW R \in SUBSET S, NEW n \in Nat, Covers(f, S, n)
    PROVE  Covers(f, R, n)
<1>1. IsFiniteSet(S \ f.has) /\ R \ f.has \in SUBSET (S \ f.has)
  BY FS_Subset
<1>2. /\ Cardinality(R \ f.has) <= Cardinality(S \ f.has)
      /\ Cardinality(R \ f.has) \in Nat /\ Cardinality(S \ f.has) \in Nat
  BY <1>1, FS_Subset, FS_CardinalityType
<1>3. Cardinality(S \ f.has) <= n => Cardinality(R \ f.has) <= n
  BY <1>2
<1> QED
  BY <1>3 DEF Covers

LEMMA KeptFinite ==
    ASSUME CountInv
    PROVE  IsFiniteSet(Kept)
BY FS_Subset DEF CountInv, Kept

LEMMA BoundInit == Init => LossInv
<1> SUFFICES ASSUME Init PROVE BoundInv
  BY DEF LossInv
<1>1. Cardinality({}) = 0 /\ Kept = {} /\ Harm = 0
  BY FS_EmptySet DEF Init, Harm, Kept
<1>2. backup = Missing /\ Missing.kind # "state"
  BY DEF Init, Missing, State, File
<1>3. Covers(primary, Kept, Harm)
  <2>1. Kept \ primary.has = {}
    BY <1>1
  <2> QED
    BY <1>1, <2>1 DEF Covers
<1>4. \A n : Covers(backup, Kept, n)
  BY <1>2 DEF Covers
<1> QED
  BY <1>1, <1>3, <1>4 DEF BoundInv, Init, Procs, HasState

\* A step of the process p that leaves the file alone: what it must give p, and
\* the backup, for the invariant to hold of everything.
LEMMA BoundStep ==
    ASSUME TypeOK, CountInv, BoundInv, NEW p \in Procs, NEW l,
           pc' = [pc EXCEPT ![p] = l],
           \A q \in Procs \ {p} : /\ mem'[q] = mem[q] /\ from'[q] = from[q]
                                  /\ fallback'[q] = fallback[q],
           UNCHANGED <<primary, corrupted, saved>>, Kept' \in SUBSET Kept,
           Harm' \in {Harm, Harm + 1},
           p \in Unlocked => l \notin {"copy", "copying", "replace"},
           Covers(backup', Kept', Harm' + 1),
           primary.kind # "state" \/ (\E w \in Writers : pc'[w] = "replace") =>
              Covers(backup', Kept', Harm'),
           p \in Writers =>
              /\ l \in {"backup", "rename"} => primary.kind # "state"
              /\ HasState(p)' => Covers(mem'[p], Kept', Harm')
              /\ l \in {"copy", "copying", "replace"} => p \in mem'[p].has
              /\ l = "copying" => Covers(from'[p], Kept', Harm')
    PROVE  BoundInv'
<1>1. pc'[p] = l /\ \A q \in Procs \ {p} : pc'[q] = pc[q]
  BY DEF TypeOK
<1>2. Harm \in Nat /\ IsFiniteSet(Kept)
  BY HarmType, KeptFinite
<1>3. ASSUME NEW f, Covers(f, Kept, Harm) PROVE Covers(f, Kept', Harm')
  <2>1. Covers(f, Kept, Harm')
    BY <1>2, <1>3, CoversMore
  <2> QED
    BY <1>2, <2>1, CoversLess
<1>4. ASSUME NEW w \in Writers, w # p
      PROVE  /\ pc'[w] \in {"backup", "rename"} => primary.kind # "state"
             /\ HasState(w)' => Covers(mem'[w], Kept', Harm')
             /\ pc'[w] \in {"copy", "copying", "replace"} => w \in mem'[w].has
             /\ pc'[w] = "copying" => Covers(from'[w], Kept', Harm')
  <2>1. /\ pc'[w] = pc[w] /\ mem'[w] = mem[w] /\ from'[w] = from[w]
        /\ fallback'[w] = fallback[w]
    BY <1>1, <1>4 DEF Procs
  <2>2. HasState(w)' => HasState(w)
    BY <2>1 DEF HasState
  <2> QED
    BY <1>3, <2>1, <2>2 DEF BoundInv
<1>5. \A q \in Unlocked : pc'[q] \notin {"copy", "copying", "replace"}
  BY <1>1 DEF BoundInv, Procs
<1>6. Covers(primary, Kept', Harm')
  BY <1>3 DEF BoundInv
<1>7. \A w \in Writers : w \in Procs
  BY DEF Procs
<1>8. ASSUME NEW w \in Writers
      PROVE  /\ pc'[w] \in {"backup", "rename"} => primary.kind # "state"
             /\ HasState(w)' => Covers(mem'[w], Kept', Harm')
             /\ pc'[w] \in {"copy", "copying", "replace"} => w \in mem'[w].has
             /\ pc'[w] = "copying" => Covers(from'[w], Kept', Harm')
  BY <1>1, <1>4, <1>7
<1>9. primary = Missing /\ corrupted = Missing => saved = {}
  BY DEF BoundInv
<1>10. Missing' = Missing
  BY DEF Missing, File
<1> QED
  BY <1>5, <1>6, <1>8, <1>9, <1>10 DEF BoundInv

\* The same, where the backup is left alone too.
LEMMA BoundQuietStep ==
    ASSUME TypeOK, CountInv, BoundInv, NEW p \in Procs, NEW l,
           pc' = [pc EXCEPT ![p] = l],
           \A q \in Procs \ {p} : /\ mem'[q] = mem[q] /\ from'[q] = from[q]
                                  /\ fallback'[q] = fallback[q],
           UNCHANGED <<primary, backup, corrupted, saved>>, Kept' \in SUBSET Kept,
           \/ Harm' = Harm + 1
           \/ Harm' = Harm /\ (l = "replace" => primary.kind # "state"),
           p \in Unlocked => l \notin {"copy", "copying", "replace"},
           p \in Writers =>
              /\ l \in {"backup", "rename"} => primary.kind # "state"
              /\ HasState(p)' => Covers(mem'[p], Kept', Harm')
              /\ l \in {"copy", "copying", "replace"} => p \in mem'[p].has
              /\ l = "copying" => Covers(from'[p], Kept', Harm')
    PROVE  BoundInv'
<1>1. Harm \in Nat /\ Harm' \in Nat /\ IsFiniteSet(Kept)
  BY HarmType, KeptFinite
<1>2. Covers(backup, Kept', Harm' + 1)
  <2>1. Covers(backup, Kept, Harm' + 1)
    BY <1>1, CoversMore DEF BoundInv
  <2> QED
    BY <1>1, <2>1, CoversLess
<1>3. primary.kind # "state" \/ (\E w \in Writers : pc'[w] = "replace") =>
          Covers(backup, Kept, Harm')
  <2>1. CASE Harm' = Harm + 1
    BY <2>1 DEF BoundInv
  <2>2. CASE Harm' = Harm /\ (l = "replace" => primary.kind # "state")
    <3>1. (\E w \in Writers : pc'[w] = "replace") =>
              primary.kind # "state" \/ (\E w \in Writers : pc[w] = "replace")
      BY <2>2 DEF TypeOK, Procs
    <3> QED
      BY <2>2, <3>1 DEF BoundInv
  <2> QED
    BY <2>1, <2>2
<1>4. Covers(backup, Kept, Harm') => Covers(backup, Kept', Harm')
  BY <1>1, CoversLess
<1> QED
  BY <1>2, <1>3, <1>4, BoundStep

\* A load of what covers the kept updates, or of nothing for a fallback.
LEMMA BoundLoads ==
    ASSUME TypeOK, CountInv, BoundInv, NEW p \in Procs, NEW s \in States, NEW b \in BOOLEAN,
           Loads(p, s, b),
           p \in Writers /\ b = FALSE => Covers(s, Kept, Harm),
           UNCHANGED <<primary, backup, corrupted, saved, from, strayed, faults>>
    PROVE  BoundInv'
<1>1. PICK m \in States :
         /\ mem' = [mem EXCEPT ![p] = m] /\ fallback' = [fallback EXCEPT ![p] = b]
         /\ pc' = [pc EXCEPT ![p] = "loaded"] /\ dropped \subseteq dropped'
         /\ p \in Writers => s.has \ m.has \subseteq dropped'
  BY LoadsFacts
<1>2. mem'[p] = m /\ fallback'[p] = b /\ pc'[p] = "loaded"
  BY <1>1 DEF TypeOK
<1>3. Harm' = Harm /\ Harm \in Nat /\ Kept' \in SUBSET Kept
  BY <1>1, HarmType DEF Harm, Kept
<1>4. \A q \in Procs \ {p} : /\ mem'[q] = mem[q] /\ from'[q] = from[q]
                             /\ fallback'[q] = fallback[q]
  BY <1>1 DEF TypeOK
<1>5. ASSUME p \in Writers, HasState(p)'
      PROVE  Covers(m, Kept', Harm')
  <2>1. Covers(s, Kept, Harm) /\ s.kind = "state" /\ IsFiniteSet(Kept)
    BY <1>2, <1>5, StateIsFile, KeptFinite DEF HasState
  <2>2. Kept' \ m.has \in SUBSET (Kept \ s.has)
    BY <1>1, <1>3, <1>5 DEF Kept
  <2>3. /\ Cardinality(Kept' \ m.has) <= Cardinality(Kept \ s.has)
        /\ Cardinality(Kept' \ m.has) \in Nat /\ Cardinality(Kept \ s.has) \in Nat
    BY <2>1, <2>2, FS_Subset, FS_CardinalityType
  <2> QED
    BY <1>3, <2>1, <2>3 DEF Covers
<1> QED
  BY <1>1, <1>2, <1>3, <1>4, <1>5, BoundQuietStep

LEMMA BoundEnds ==
    ASSUME TypeOK, CountInv, BoundInv, NEW p \in Procs, Ends(p),
           UNCHANGED <<primary, backup, corrupted, saved, dropped, strayed, faults>>
    PROVE  BoundInv'
<1>1. /\ pc' = [pc EXCEPT ![p] = "ended"] /\ pc'[p] = "ended"
      /\ \A q \in Procs \ {p} : /\ mem'[q] = mem[q] /\ from'[q] = from[q]
                                /\ fallback'[q] = fallback[q]
  BY DEF Ends, GoTo, TypeOK
<1>2. Harm' = Harm /\ Kept' = Kept /\ ~HasState(p)'
  BY <1>1 DEF Harm, HasState, Kept
<1> QED
  BY <1>1, <1>2, BoundQuietStep

\* A step of p that changes nothing but where p is, unless it is in a save.
LEMMA BoundGoTo ==
    ASSUME TypeOK, CountInv, BoundInv, NEW p \in Procs,
           NEW l \in {"exists", "read", "backup", "rename"}, GoTo(p, l),
           l \in {"backup", "rename"} => primary.kind # "state" \/ p \notin Writers,
           UNCHANGED <<primary, backup, corrupted, saved, dropped, strayed, faults,
                       mem, fallback, from>>
    PROVE  BoundInv'
<1>1. pc' = [pc EXCEPT ![p] = l] /\ pc'[p] = l
  BY DEF GoTo, TypeOK
<1>2. Harm' = Harm /\ Kept' = Kept /\ ~HasState(p)'
  BY <1>1 DEF Harm, HasState, Kept
<1> QED
  BY <1>1, <1>2, BoundQuietStep

LEMMA BoundLoad ==
    ASSUME TypeOK, CountInv, BoundInv, NEW p \in Procs,
           Acquire(p) \/ Exists(p) \/ Read(p) \/ ReadBackup(p)
    PROVE  BoundInv'
<1> USE DEF files
<1>1. CASE Acquire(p)
  BY <1>1, BoundGoTo DEF Acquire
<1>2. CASE Exists(p)
  <2>1. CASE primary = Missing /\ Loads(p, Fresh, ~FirstRun)
    <3>1. p \in Writers /\ ~FirstRun = FALSE => Covers(Fresh, Kept, Harm)
      <4>1. FirstRun => Kept \ Fresh.has = {}
        BY <2>1 DEF BoundInv, FirstRun, Kept
      <4>2. FirstRun => Cardinality(Kept \ Fresh.has) <= Harm
        BY <4>1, FS_EmptySet, HarmType
      <4> QED
        BY <4>2 DEF Covers, Fresh, State, File
    <3>2. Fresh \in States /\ (~FirstRun) \in BOOLEAN
      BY StateIsFile
    <3>3. UNCHANGED <<primary, backup, corrupted, saved, from, strayed, faults>>
      BY <1>2 DEF Exists
    <3> QED
      BY <2>1, <3>1, <3>2, <3>3, BoundLoads
  <2>2. CASE GoTo(p, "read") /\ UNCHANGED <<mem, fallback, dropped>>
    BY <1>2, <2>2, BoundGoTo DEF Exists
  <2> QED
    BY <1>2, <2>1, <2>2 DEF Exists
<1>3. CASE Read(p)
  <2>1. UNCHANGED <<primary, backup, corrupted, saved, from, strayed, faults>>
    BY <1>3 DEF Read
  <2>2. CASE primary.kind = "state" /\ Loads(p, primary, FALSE)
    <3>1. primary \in States /\ Covers(primary, Kept, Harm)
      BY <2>2, StateIsFile DEF TypeOK, BoundInv
    <3> QED
      BY <2>1, <2>2, <3>1, BoundLoads
  <2>3. CASE Loads(p, Fresh, TRUE)
    BY <2>1, <2>3, StateIsFile, BoundLoads
  <2>4. CASE /\ primary.kind \in {"junk", "missing"}
             /\ GoTo(p, "backup") /\ UNCHANGED <<mem, fallback, dropped>>
    BY <2>1, <2>4, BoundGoTo
  <2> QED
    BY <1>3, <2>2, <2>3, <2>4 DEF Read
<1>4. CASE ReadBackup(p)
  <2>1. /\ UNCHANGED <<primary, backup, corrupted, saved, from, strayed, faults>>
        /\ pc[p] = "backup"
    BY <1>4 DEF ReadBackup
  <2>2. p \in Writers => primary.kind # "state"
    BY <2>1 DEF BoundInv
  <2>3. CASE backup.kind = "state" /\ Loads(p, backup, FALSE)
    <3>1. backup \in States /\ (p \in Writers => Covers(backup, Kept, Harm))
      BY <2>2, <2>3, StateIsFile DEF TypeOK, BoundInv
    <3> QED
      BY <2>1, <2>3, <3>1, BoundLoads
  <2>4. CASE GoTo(p, "rename") /\ UNCHANGED <<mem, fallback, dropped>>
    BY <2>1, <2>2, <2>4, BoundGoTo
  <2> QED
    BY <1>4, <2>3, <2>4 DEF ReadBackup
<1> QED
  BY <1>1, <1>2, <1>3, <1>4

\* The state file goes away, damaged or moved aside: that is counted, unless it
\* was of no use before.
LEMMA BoundGone ==
    ASSUME TypeOK, CountInv, BoundInv,
           primary'.kind # "state", primary' = Missing => corrupted' # Missing,
           UNCHANGED <<backup, saved>>, Kept' \in SUBSET Kept,
           Harm' = Harm + 1 \/ (Harm' = Harm /\ primary.kind # "state"),
           \A q \in Procs : \/ /\ pc'[q] = pc[q] /\ mem'[q] = mem[q] /\ from'[q] = from[q]
                               /\ fallback'[q] = fallback[q]
                            \/ pc'[q] = "loaded" /\ fallback'[q] = TRUE
    PROVE  BoundInv'
<1>1. Harm \in Nat /\ Harm' \in Nat /\ IsFiniteSet(Kept)
  BY HarmType, KeptFinite
<1>2. ASSUME NEW f, Covers(f, Kept, Harm) PROVE Covers(f, Kept', Harm')
  <2>1. Covers(f, Kept, Harm')
    BY <1>1, <1>2, CoversMore
  <2> QED
    BY <1>1, <2>1, CoversLess
<1>3. Covers(primary', Kept', Harm')
  BY DEF Covers
<1>4. Covers(backup, Kept', Harm') /\ Covers(backup, Kept', Harm' + 1)
  <2>1. Covers(backup, Kept, Harm') /\ Covers(backup, Kept, Harm' + 1)
    <3>1. Covers(backup, Kept, Harm')
      BY DEF BoundInv
    <3> QED
      BY <1>1, <3>1, CoversMore
  <2> QED
    BY <1>1, <2>1, CoversLess
<1>5. ASSUME NEW w \in Writers
      PROVE  /\ HasState(w)' => Covers(mem'[w], Kept', Harm')
             /\ pc'[w] \in {"copy", "copying", "replace"} => w \in mem'[w].has
             /\ pc'[w] = "copying" => Covers(from'[w], Kept', Harm')
  <2>1. CASE pc'[w] = "loaded" /\ fallback'[w] = TRUE
    BY <2>1 DEF HasState
  <2>2. CASE /\ pc'[w] = pc[w] /\ mem'[w] = mem[w] /\ from'[w] = from[w]
             /\ fallback'[w] = fallback[w]
    <3>1. HasState(w)' => HasState(w)
      BY <2>2 DEF HasState
    <3> QED
      BY <1>2, <2>2, <3>1 DEF BoundInv
  <2> QED
    BY <2>1, <2>2 DEF Procs
<1>6. \A q \in Unlocked : pc'[q] \notin {"copy", "copying", "replace"}
  BY DEF BoundInv, Procs
<1>7. Missing' = Missing
  BY DEF Missing, File
<1> QED
  BY <1>3, <1>4, <1>5, <1>6, <1>7 DEF BoundInv

LEMMA BoundDamage ==
    ASSUME TypeOK, CountInv, BoundInv, Damage
    PROVE  BoundInv'
<1>1. primary'.kind # "state" /\ primary' # Missing
  BY DEF Damage, Junk, Invalid, Missing, File
<1>2. Harm' = Harm + 1
  <2>1. Cardinality(strayed) \in Nat /\ faults \in Nat /\ faults' = faults + 1
        /\ strayed' = strayed
    BY FS_CardinalityType, StoreAssumption DEF TypeOK, CountInv, Damage
  <2> QED
    BY <2>1 DEF Harm
<1> QED
  BY <1>1, <1>2, BoundGone DEF Damage, Kept

LEMMA BoundMoveAside ==
    ASSUME TypeOK, CountInv, BoundInv, NEW p \in Procs, MoveAside(p)
    PROVE  BoundInv'
<1>1. /\ pc[p] = "rename" /\ Loads(p, Fresh, TRUE)
      /\ UNCHANGED <<backup, from, saved, faults>>
  BY DEF MoveAside
<1>2. CASE UNCHANGED <<primary, corrupted, strayed>>
  BY <1>1, <1>2, StateIsFile, BoundLoads
<1>3. CASE /\ primary # Missing /\ corrupted' = primary /\ primary' = Missing
           /\ strayed' = IF primary.kind = "state" THEN strayed \cup {p} ELSE strayed
  <2>1. primary'.kind # "state" /\ corrupted' # Missing
    BY <1>3 DEF Missing, File
  <2>2. Harm' = Harm + 1 \/ (Harm' = Harm /\ primary.kind # "state")
    <3>1. CASE primary.kind = "state"
      <4>1. p \notin strayed
        BY <1>1 DEF CountInv
      <4>2. Cardinality(strayed') = Cardinality(strayed) + 1
        BY <1>3, <3>1, <4>1, FS_AddElement DEF CountInv
      <4>3. Cardinality(strayed) \in Nat /\ faults \in Nat
        BY FS_CardinalityType, StoreAssumption DEF TypeOK, CountInv
      <4> QED
        BY <1>1, <4>2, <4>3 DEF Harm
    <3>2. CASE primary.kind # "state"
      BY <1>1, <1>3, <3>2 DEF Harm
    <3> QED
      BY <3>1, <3>2
  <2>3. \A q \in Procs : \/ /\ pc'[q] = pc[q] /\ mem'[q] = mem[q] /\ from'[q] = from[q]
                            /\ fallback'[q] = fallback[q]
                         \/ pc'[q] = "loaded" /\ fallback'[q] = TRUE
    BY <1>1 DEF Loads, GoTo, TypeOK
  <2>4. Kept' \in SUBSET Kept
    BY <1>1, StateIsFile, LoadsFacts DEF Kept
  <2> QED
    BY <1>1, <2>1, <2>2, <2>3, <2>4, BoundGone
<1> QED
  BY <1>2, <1>3 DEF MoveAside

LEMMA BoundUpdate ==
    ASSUME TypeOK, CountInv, BoundInv, NEW p \in Procs, Update(p), meddled' = FALSE
    PROVE  BoundInv'
<1>1. /\ pc[p] = "loaded"
      /\ UNCHANGED <<primary, backup, corrupted, saved, dropped, strayed, faults>>
  BY DEF Update, files
<1>2. CASE Ends(p)
  BY <1>1, <1>2, BoundEnds
<1>3. CASE /\ MayUpdate(p)
           /\ GoTo(p, "copy") /\ UNCHANGED <<lock, fallback, from>>
           /\ mem' = [mem EXCEPT ![p] =
                 State(@.has \cup {p}, IF p \in Unlocked THEN "scan" ELSE @.source)]
           /\ meddled' = (meddled \/ p \in Unlocked)
  <2>1. p \in Writers /\ p \notin Unlocked /\ fallback[p] = FALSE
    BY <1>3 DEF MayUpdate, Procs, TypeOK
  <2>2. HasState(p) /\ mem[p] \in States /\ mem[p].kind = "state"
    BY <1>1, <2>1, StateIsFile DEF HasState, TypeOK
  <2>3. mem'[p] = State(mem[p].has \cup {p}, mem[p].source)
    BY <1>3, <2>1 DEF TypeOK
  <2>4. Covers(mem[p], Kept, Harm) /\ Harm \in Nat /\ IsFiniteSet(Kept)
    BY <2>1, <2>2, HarmType, KeptFinite DEF BoundInv
  <2>5. Covers(mem'[p], Kept, Harm)
    <3>1. IsFiniteSet(Kept \ mem[p].has)
      BY <2>4, FS_Subset
    <3>2. Kept \ (mem[p].has \cup {p}) \in SUBSET (Kept \ mem[p].has)
      OBVIOUS
    <3>3. /\ Cardinality(Kept \ (mem[p].has \cup {p})) <= Cardinality(Kept \ mem[p].has)
          /\ Cardinality(Kept \ (mem[p].has \cup {p})) \in Nat
          /\ Cardinality(Kept \ mem[p].has) \in Nat
      BY <3>1, <3>2, FS_Subset, FS_CardinalityType
    <3>4. Cardinality(Kept \ mem[p].has) <= Harm
      BY <2>2, <2>4 DEF Covers
    <3>5. mem'[p].has = mem[p].has \cup {p}
      BY <2>3 DEF State, File
    <3> QED
      BY <2>4, <3>3, <3>4, <3>5 DEF Covers
  <2>6. Harm' = Harm /\ Kept' = Kept /\ p \in mem'[p].has
    BY <1>1, <2>3 DEF Harm, State, File, Kept
  <2>7. /\ pc' = [pc EXCEPT ![p] = "copy"]
        /\ \A q \in Procs \ {p} : /\ mem'[q] = mem[q] /\ from'[q] = from[q]
                                  /\ fallback'[q] = fallback[q]
    BY <1>3 DEF GoTo, TypeOK
  <2> QED
    BY <1>1, <2>1, <2>5, <2>6, <2>7, BoundQuietStep
<1> QED
  BY <1>2, <1>3 DEF Update

\* The copy to the backup, by a writer: no other process saves.
LEMMA BoundCopy ==
    ASSUME TypeOK, CountInv, BoundInv, NEW p \in Procs,
           CopyOpen(p) \/ CopyDone(p) \/ NothingToCopy(p) \/ CopyFails(p)
    PROVE  BoundInv'
<1>1. /\ pc[p] \in {"copy", "copying"} /\ p \in Writers /\ p \notin Unlocked
      /\ UNCHANGED <<primary, corrupted, saved, dropped, mem, fallback, strayed>>
  BY StoreAssumption DEF CopyOpen, CopyDone, NothingToCopy, CopyFails, BoundInv, Procs, files
<1>2. /\ Covers(mem[p], Kept, Harm) /\ p \in mem[p].has
  BY <1>1 DEF BoundInv, HasState
<1>3. Harm \in Nat /\ IsFiniteSet(Kept) /\ Kept' = Kept
  BY <1>1, HarmType, KeptFinite DEF Kept
<1>4. ASSUME NEW f, Covers(f, Kept, Harm)
      PROVE  Covers(f, Kept, Harm + 1)
  BY <1>3, <1>4, CoversMore
<1>5. \A q \in Procs \ {p} : /\ mem'[q] = mem[q] /\ from'[q] = from[q]
                             /\ fallback'[q] = fallback[q]
  BY <1>1 DEF CopyOpen, CopyDone, NothingToCopy, CopyFails, TypeOK
<1>6. CASE CopyOpen(p)
  <2>1. pc' = [pc EXCEPT ![p] = "copying"] /\ from'[p] = primary /\ backup' = Junk /\ Harm' = Harm
    BY <1>6 DEF CopyOpen, GoTo, Harm, TypeOK
  <2>2. \A n : Covers(backup', Kept, n)
    BY <2>1 DEF Covers, Junk, File
  <2>3. Covers(from'[p], Kept, Harm)
    BY <2>1 DEF BoundInv
  <2> QED
    BY <1>1, <1>2, <1>3, <1>5, <2>1, <2>2, <2>3, BoundStep
<1>7. CASE CopyDone(p)
  <2>1. pc' = [pc EXCEPT ![p] = "replace"] /\ backup' = from[p] /\ Harm' = Harm
    BY <1>7 DEF CopyDone, GoTo, Harm
  <2>2. Covers(backup', Kept, Harm)
    BY <1>1, <1>7, <2>1 DEF CopyDone, BoundInv
  <2> QED
    BY <1>1, <1>2, <1>3, <1>4, <1>5, <2>1, <2>2, BoundStep
<1>8. CASE NothingToCopy(p)
  <2>1. /\ pc' = [pc EXCEPT ![p] = "replace"] /\ backup' = backup /\ Harm' = Harm
        /\ primary.kind # "state"
    BY <1>8 DEF NothingToCopy, GoTo, Harm, files, Missing, File
  <2> QED
    BY <1>1, <1>2, <1>3, <1>5, <2>1, BoundQuietStep
<1>9. CASE CopyFails(p)
  <2>1. pc' = [pc EXCEPT ![p] = "replace"] /\ backup' = backup /\ faults' = faults + 1
    BY <1>9 DEF CopyFails, GoTo, files
  <2>2. Cardinality(strayed) \in Nat /\ faults \in Nat
    BY FS_CardinalityType, StoreAssumption DEF TypeOK, CountInv
  <2>3. Harm' = Harm + 1
    BY <1>1, <2>1, <2>2 DEF Harm
  <2>4. Covers(mem'[p], Kept, Harm')
    BY <1>1, <1>2, <1>4, <2>3
  <2> QED
    BY <1>1, <1>2, <1>3, <1>5, <2>1, <2>3, <2>4, BoundQuietStep
<1> QED
  BY <1>6, <1>7, <1>8, <1>9

\* The save of a section: its state has what was saved, and its own update.
LEMMA BoundReplace ==
    ASSUME TypeOK, CountInv, LockInv, BoundInv, NEW p \in Procs, Replace(p)
    PROVE  BoundInv'
<1>1. /\ pc[p] = "replace" /\ primary' = mem[p] /\ saved' = saved \cup {p}
      /\ UNCHANGED <<backup, corrupted, dropped, strayed, faults>>
      /\ pc' = [pc EXCEPT ![p] = "ended"]
  BY DEF Replace, Ends, GoTo
<1>2. p \in Writers
  BY <1>1 DEF BoundInv, Procs
<1>3. \A w \in Writers : pc'[w] \in {"idle", "ended"}
  BY <1>1, <1>2, StoreAssumption DEF LockInv, Procs
<1>4. /\ Harm' = Harm /\ Harm \in Nat /\ IsFiniteSet(Kept)
      /\ Kept' \in SUBSET (Kept \cup {p}) /\ IsFiniteSet(Kept \cup {p})
  BY <1>1, HarmType, KeptFinite, FS_AddElement DEF Harm, Kept
<1>5. Covers(primary', Kept', Harm')
  <2>1. Covers(mem[p], Kept, Harm) /\ p \in mem[p].has
    BY <1>1, <1>2 DEF BoundInv, HasState
  <2>2. Covers(mem[p], Kept \cup {p}, Harm)
    BY <2>1, CoversOwn
  <2> QED
    BY <1>1, <1>4, <2>2, CoversLess
<1>6. Covers(backup', Kept', Harm' + 1)
  <2>1. Covers(backup, Kept, Harm)
    BY <1>1, <1>2 DEF BoundInv
  <2>2. Covers(backup, Kept \cup {p}, Harm + 1)
    BY <1>4, <2>1, CoversSave
  <2>3. Harm + 1 \in Nat
    BY <1>4
  <2> QED
    BY <1>1, <1>4, <2>2, <2>3, CoversLess
<1>7. primary' # Missing /\ primary'.kind = "state"
  BY <1>1, StateIsFile DEF TypeOK
<1>8. \A q \in Unlocked : pc'[q] \notin {"copy", "copying", "replace"}
  BY <1>1 DEF BoundInv, Procs, TypeOK
<1>9. Missing' = Missing
  BY DEF Missing, File
<1> QED
  BY <1>1, <1>3, <1>5, <1>6, <1>7, <1>8, <1>9 DEF BoundInv, HasState

LEMMA BoundNext == TypeOK /\ CountInv /\ LockInv /\ LossInv /\ [Next]_vars => LossInv'
<1> SUFFICES ASSUME TypeOK, CountInv, LockInv, LossInv, [Next]_vars, meddled' = FALSE
             PROVE  BoundInv'
  BY DEF LossInv
<1>1. meddled = FALSE
  BY DEF Next, Step, Damage, Acquire, Exists, Read, ReadBackup, MoveAside, Update, CopyOpen,
         CopyDone, NothingToCopy, CopyFails, Replace, GiveUp, Fail, vars, TypeOK
<1>2. BoundInv
  BY <1>1 DEF LossInv
<1>3. CASE UNCHANGED vars
  <2>1. Missing' = Missing
    BY DEF Missing, File
  <2>2. Harm' = Harm /\ Kept' = Kept /\ \A w \in Writers : HasState(w)' = HasState(w)
    BY <1>3 DEF vars, Harm, HasState, Kept
  <2>3. UNCHANGED <<primary, backup, corrupted, saved, dropped, pc, mem, from>>
    BY <1>3 DEF vars, files
  <2> QED
    BY <1>2, <2>1, <2>2, <2>3 DEF BoundInv
<1>4. ASSUME NEW p \in Procs, GiveUp(p) \/ Fail(p) PROVE BoundInv'
  BY <1>2, <1>4, BoundEnds DEF GiveUp, Fail, files
<1> QED
  BY <1>2, <1>3, <1>4, BoundLoad, BoundDamage, BoundMoveAside, BoundUpdate, BoundCopy,
     BoundReplace DEF Next, Step

\* While only locked sections save: whatever is killed or falls over, wherever,
\* a damage of the file, a failed copy to the backup and a load without the lock
\* that moves a good file aside cost one update each, a load costs those of a
\* state without a scan that it replaces, and nothing else costs any
\* (_load_state_reporting_fallback, save_state, state_lock).
THEOREM LossCorrect == Spec => []LossIsBounded
<1>1. TypeOK /\ LossInv => LossIsBounded
  <2> SUFFICES ASSUME TypeOK, LossInv, primary.kind = "state", ~meddled
               PROVE  Cardinality(saved \ (primary.has \cup dropped))
                          <= faults + Cardinality(strayed)
    BY DEF LossIsBounded
  <2>1. BoundInv
    BY DEF LossInv, TypeOK
  <2>2. saved \ (primary.has \cup dropped) = Kept \ primary.has
    BY DEF Kept
  <2> QED
    BY <2>1, <2>2 DEF BoundInv, Covers, Harm
<1>2. TypeOK /\ CountInv /\ LockInv /\ LossInv /\ [Next]_vars
        => (TypeOK /\ CountInv /\ LockInv /\ LossInv)'
  BY TypeNext, CountNext, LockNext, BoundNext
<1> QED
  BY <1>1, <1>2, TypeInit, CountInit, LockInit, BoundInit, PTL DEF Spec
==============================================================================
