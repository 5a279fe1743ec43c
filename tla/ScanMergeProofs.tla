---------------------------- MODULE ScanMergeProofs ---------------------------
(***************************************************************************)
(* What a scan takes from its cache is current, and what stays in the code *)
(* stays open unless a tool's answer left it out: for any items, any scan  *)
(* paths and any number of commits.                                        *)
(***************************************************************************)
EXTENDS ScanMerge, TLAPS

-----------------------------------------------------------------------------
(* The cache *)

\* A result of the revision the code has is what the tool would find.
Current(r) == r.rev = rev => r.found = Bandit \cap present \cap r.scope

\* A result is of no later revision than the code, and none of this revision
\* is wrong as long as nothing fails or changes while a scan looks. That takes
\* the copies of the scan in too: it saves its own cache, and what was
\* prefetched is used as a result for the files there are when the phase runs.
CacheInv ==
    /\ rev \in Nat /\ mark \in Int /\ mark <= rev
    /\ \A r \in {cache, live, prefetch} : r.rev \in Int /\ r.rev <= rev
    /\ pc = "idle" => live = NoResult /\ prefetch = NoResult
    /\ calm = TRUE =>
        /\ Current(cache) /\ Current(live)
        /\ pc = "bandit" => mark = rev
        /\ prefetch \notin {NoResult, Pending} =>
              prefetch.rev = rev /\ prefetch.scope = scope /\ Current(prefetch)

LEMMA CacheInit == Init => CacheInv
BY DEF Init, CacheInv, Current, NoResult

\* What bandit says when nothing fails is all there is.
LEMMA WholeAnswer ==
    ASSUME calm = TRUE, NEW there
    PROVE  Answers(there) = {there}
BY DEF Answers

\* A commit makes every cached result one of an earlier revision.
LEMMA CacheEdit ==
    ASSUME CacheInv, NEW i \in Items, Edit(i) \/ Delete(i)
    PROVE  CacheInv'
BY DEF CacheInv, Current, Edit, Delete, Editable, scan, NoResult

LEMMA ToolIsCurrent ==
    ASSUME CacheInv, NEW r \in ToolResults
    PROVE  /\ r.rev = rev /\ r.scope = scope
           /\ calm = TRUE => r.found = Bandit \cap present \cap scope
<1>1. calm = TRUE => Answers(Bandit \cap present \cap scope) = {Bandit \cap present \cap scope}
  BY WholeAnswer
<1>2. PICK found \in Answers(Bandit \cap present \cap scope) : r = Result(rev, scope, found)
  BY DEF ToolResults
<1> QED
  BY <1>1, <1>2 DEF Result

LEMMA CachePrefetch ==
    ASSUME CacheInv, Prefetch
    PROVE  CacheInv'
<1>1. /\ prefetch' \in ToolResults /\ pc # "idle"
      /\ UNCHANGED <<code, cache, live, pc, scope, mark>>
  BY DEF Prefetch
<1>2. /\ prefetch'.rev = rev /\ prefetch'.scope = scope
      /\ calm = TRUE => prefetch'.found = Bandit \cap present \cap scope
  BY <1>1, ToolIsCurrent
<1> QED
  BY <1>1, <1>2 DEF CacheInv, Current, code

\* The result phase_security works with is current, wherever it is from.
LEMMA UsedIsCurrent ==
    ASSUME CacheInv, calm = TRUE, pc = "bandit",
           NEW r \in IF prefetch \in {NoResult, Pending} THEN ToolResults ELSE {prefetch}
    PROVE  r.found = Bandit \cap present \cap scope
<1>1. CASE prefetch \notin {NoResult, Pending}
  BY <1>1 DEF CacheInv, Current
<1>2. CASE prefetch \in {NoResult, Pending}
  BY <1>2, ToolIsCurrent
<1> QED
  BY <1>1, <1>2

LEMMA CacheSecurity ==
    ASSUME CacheInv, RunSecurity
    PROVE  CacheInv'
<1>1. /\ pc = "security" /\ UNCHANGED <<code, cache, live, prefetch, scope>>
      /\ \/ pc' = "merge" /\ mark' = mark
         \/ pc' = "bandit" /\ mark' = rev
  BY DEF RunSecurity, DropSecurity
<1> QED
  BY <1>1 DEF CacheInv, Current, code

LEMMA CacheBandit ==
    ASSUME CacheInv, RunBandit
    PROVE  CacheInv'
<1>1. /\ pc = "bandit" /\ pc' = "merge" /\ UNCHANGED <<code, cache, scope>>
      /\ prefetch' = NoResult /\ mark' = 0
  BY DEF RunBandit
<1>2. PICK r \in IF prefetch \in {NoResult, Pending} THEN ToolResults ELSE {prefetch} :
             live' = Result(mark, scope, r.found)
  BY DEF RunBandit
<1>3. live'.rev = mark /\ live'.scope = scope /\ live'.found = r.found
  BY <1>2 DEF Result
<1>4. calm = TRUE => r.found = Bandit \cap present \cap scope
  BY <1>1, UsedIsCurrent
<1> QED
  BY <1>1, <1>3, <1>4 DEF CacheInv, Current, code, NoResult

LEMMA CacheNext == CacheInv /\ [Next]_vars => CacheInv'
<1> SUFFICES ASSUME CacheInv, [Next]_vars PROVE CacheInv'
  OBVIOUS
<1>1. ASSUME NEW g \in BOOLEAN, NEW s \in Scopes, Begin(g, s) PROVE CacheInv'
  BY <1>1 DEF Begin, CacheInv, Current, code, NoResult, Pending
<1>2. CASE RunDupes \/ RunLint
  BY <1>2 DEF RunDupes, RunLint, CacheInv, Current, code
<1>3. CASE Merge
  BY <1>3 DEF Merge, CacheInv, Current, code, scan
<1>4. ASSUME NEW p, Finish(p) PROVE CacheInv'
  BY <1>4 DEF Finish, CacheInv, Current, code, NoResult
<1>5. ASSUME NEW i \in Items, NEW to, Dispose(i, to) PROVE CacheInv'
  BY <1>5 DEF Dispose, CacheInv, Current, code, scan
<1>6. CASE UNCHANGED vars
  BY <1>6 DEF vars, CacheInv, Current, code, scan
<1> QED
  BY <1>1, <1>2, <1>3, <1>4, <1>5, <1>6, CacheEdit, CachePrefetch, CacheSecurity,
     CacheBandit, ScanAssumption DEF Next, Phase, Killed, Done

\* A result that a later scan of the same files takes from the cache is what
\* the tool would find now: a dropped phase undoes what it wrote to the cache
\* (_run_phase), and a commit changes the fingerprint.
THEOREM CacheCorrect == Spec => []CacheIsCurrent
<1>1. CacheInv => CacheIsCurrent
  BY DEF CacheInv, Current, CacheIsCurrent
<1> QED
  BY <1>1, CacheInit, CacheNext, PTL DEF Spec

-----------------------------------------------------------------------------
(* What stays in the code *)

\* What was there all the time is reported by every phase that counts as run,
\* or an answer left it out, which one that is whole does not; and no detector
\* has reported anything without counting as run, once its phase is over.
ReportInv ==
    /\ \A r \in {cache, live, prefetch} : r.found \subseteq Bandit
    /\ steady \subseteq present /\ present \subseteq Items \ Review
    /\ deleted \cap present = {} /\ calm \in BOOLEAN
    /\ reported \subseteq Items \ Review
    /\ ran \subseteq {"dupes", "lint", "security"}
    /\ \A j \in reported : Detector(j) \in ran \/ (pc = "bandit" /\ j \in Sec)
    /\ \A i \in steady \cap scope :
          Detector(i) \in ran \/ (pc = "bandit" /\ i \in Sec) => i \in reported \cup missed
    /\ calm = TRUE => missed = {}
    /\ pc \in {"idle", "dupes"} => ran = {} /\ reported = {}
    /\ pc = "lint" => ran \subseteq {"dupes"}
    /\ pc \in {"security", "bandit"} => ran \subseteq {"dupes", "lint"}

\* The detector of an item tells its kind.
LEMMA DetectorIsKind ==
    ASSUME NEW i \in Items
    PROVE  /\ Detector(i) = "dupes" <=> i \in Dupes
           /\ Detector(i) = "lint" <=> i \in Lint
           /\ Detector(i) = "security" <=> i \in Sec \cup Bandit
           /\ Detector(i) = "review" <=> i \in Review
BY ScanAssumption DEF Detector, Items

LEMMA ReportInit == Init => ReportInv
BY DEF Init, ReportInv, NoResult

LEMMA ReportBegin ==
    ASSUME ReportInv, NEW g \in BOOLEAN, NEW s \in Scopes, Begin(g, s)
    PROVE  ReportInv'
BY DEF Begin, ReportInv, code, NoResult, Pending

LEMMA ReportEdit ==
    ASSUME ReportInv, NEW i \in Items, Edit(i) \/ Delete(i)
    PROVE  ReportInv'
<1>1. /\ steady' \subseteq steady /\ steady' \subseteq present'
      /\ present' \subseteq Items \ Review /\ deleted' \cap present' = {}
      /\ UNCHANGED <<calm, cache, pc, live, prefetch, reported, ran, scope, missed>>
  BY DEF ReportInv, Edit, Delete, scan
<1> QED
  BY <1>1 DEF ReportInv

LEMMA ToolFindsItsOwn ==
    ASSUME NEW r \in ToolResults
    PROVE  r.found \subseteq Bandit \cap present \cap scope
BY DEF ToolResults, Result, Answers

LEMMA ReportPrefetch ==
    ASSUME ReportInv, Prefetch
    PROVE  ReportInv'
<1>1. /\ prefetch' \in ToolResults
      /\ UNCHANGED <<code, cache, pc, scope, live, reported, ran, history>>
  BY DEF Prefetch
<1>2. prefetch'.found \subseteq Bandit
  BY <1>1, ToolFindsItsOwn
<1> QED
  BY <1>1, <1>2 DEF ReportInv, code, history

\* A phase that counts as run as detector d with an answer: it keeps the
\* invariant when the answer reports or leaves out all of d's items that were
\* there all the time, and leaves out nothing when it is whole.
LEMMA ReportPhase ==
    ASSUME ReportInv, pc \in {"dupes", "lint", "security", "bandit"},
           NEW found \in SUBSET (Items \ Review), NEW left,
           NEW d \in {"dupes", "lint", "security"},
           reported' = reported \cup found, ran' = ran \cup {d}, missed' = missed \cup left,
           calm = TRUE => left = {},
           \A j \in found : Detector(j) = d,
           \A i \in steady \cap scope :
              Detector(i) = d => i \in found \cup left \cup reported \cup missed,
           \A r \in {cache, live, prefetch}' : r.found \subseteq Bandit,
           UNCHANGED <<code, scope, steady>>,
           \/ pc = "dupes" /\ pc' = "lint" /\ d = "dupes"
           \/ pc = "lint" /\ pc' = "security" /\ d = "lint"
           \/ pc' = "merge" /\ d = "security"
    PROVE  ReportInv'
<1>1. \A j \in Sec : Detector(j) = "security"
  BY DetectorIsKind DEF Items
<1>2. \A j \in reported' : Detector(j) \in ran'
  <2>1. pc = "bandit" => d = "security"
    OBVIOUS
  <2> QED
    BY <1>1, <2>1 DEF ReportInv
<1>3. \A i \in steady' \cap scope' : Detector(i) \in ran' => i \in reported' \cup missed'
  BY DEF ReportInv
<1>4. pc' # "bandit" /\ ran' \subseteq {"dupes", "lint", "security"}
  BY DEF ReportInv
<1>5. /\ pc' \notin {"idle", "dupes"}
      /\ pc' = "lint" => ran' \subseteq {"dupes"}
      /\ pc' = "security" => ran' \subseteq {"dupes", "lint"}
  BY DEF ReportInv
<1> QED
  BY <1>2, <1>3, <1>4, <1>5 DEF ReportInv, code

LEMMA ReportDupes ==
    ASSUME ReportInv, RunDupes
    PROVE  ReportInv'
<1> DEFINE found == Dupes \cap present \cap scope
<1>1. found \subseteq Items \ Review /\ steady \subseteq present
  BY DEF ReportInv
<1>2. \A i \in Items : Detector(i) = "dupes" <=> i \in Dupes
  BY DetectorIsKind
<1>3. \A i \in steady \cap scope : Detector(i) = "dupes" => i \in found
  BY <1>1, <1>2 DEF ReportInv
<1>4. missed' = missed \cup {}
  BY DEF RunDupes, history
<1>5. \A j \in found : Detector(j) = "dupes"
  BY <1>1, <1>2
<1>6. /\ pc = "dupes" /\ pc' = "lint" /\ reported' = reported \cup found
      /\ ran' = ran \cup {"dupes"} /\ UNCHANGED <<code, cache, scope, live, prefetch, steady>>
  BY DEF RunDupes, history
<1>7. \A r \in {cache, live, prefetch}' : r.found \subseteq Bandit
  BY <1>6 DEF ReportInv
<1> HIDE DEF found
<1> QED
  BY <1>1, <1>3, <1>4, <1>5, <1>6, <1>7, ReportPhase

LEMMA ReportLint ==
    ASSUME ReportInv, RunLint
    PROVE  ReportInv'
<1> DEFINE there == Lint \cap present \cap scope
<1>1. /\ pc = "lint" /\ pc' = "security"
      /\ UNCHANGED <<code, cache, scope, live, prefetch, steady>>
  BY DEF RunLint
<1>2. CASE UNCHANGED <<reported, ran, missed>>
  BY <1>1, <1>2 DEF ReportInv, code
<1>3. ASSUME NEW found \in Answers(there), NEW potential \in BOOLEAN,
             reported' = reported \cup found, ran' = ran \cup LintCounts(TRUE, found, potential),
             missed' = missed \cup (there \ found)
      PROVE  ReportInv'
  <2>1. found \subseteq there /\ (calm = TRUE => there \ found = {})
    BY <1>3, WholeAnswer DEF Answers
  <2>2. found \subseteq Items \ Review /\ steady \subseteq present
    BY <2>1 DEF ReportInv
  <2>3. \A i \in Items : Detector(i) = "lint" <=> i \in Lint
    BY DetectorIsKind
  <2>4. \A i \in steady \cap scope : Detector(i) = "lint" => i \in found \cup (there \ found)
    BY <2>2, <2>3 DEF ReportInv
  <2>5. \A j \in found : Detector(j) = "lint"
    BY <2>1, <2>2, <2>3
  <2>6. CASE LintCounts(TRUE, found, potential) = {"lint"}
    <3>1. found \in SUBSET (Items \ Review) /\ pc \in {"dupes", "lint", "security", "bandit"}
      BY <1>1, <2>2
    <3>2. \A r \in {cache, live, prefetch}' : r.found \subseteq Bandit
      BY <1>1 DEF ReportInv
    <3> HIDE DEF there
    <3> QED
      BY <1>1, <1>3, <2>1, <2>4, <2>5, <2>6, <3>1, <3>2, ReportPhase
  <2>7. CASE LintCounts(TRUE, found, potential) = {}
    <3>1. found = {}
      BY <2>7 DEF LintCounts
    <3>2. reported' = reported /\ ran' = ran /\ missed \subseteq missed'
      BY <1>3, <2>7, <3>1
    <3>3. calm = TRUE => missed' = {}
      BY <1>3, <2>1 DEF ReportInv
    <3> QED
      BY <1>1, <3>2, <3>3 DEF ReportInv, code
  <2> QED
    BY <2>6, <2>7 DEF LintCounts
<1>4. LintCounts(FALSE, {}, FALSE) = {}
  BY DEF LintCounts
<1> QED
  BY <1>2, <1>3, <1>4 DEF RunLint

\* Bandit's answer, from wherever it is, is its items only, and whole if calm.
LEMMA ReportSecurity ==
    ASSUME CacheInv, ReportInv, RunSecurity
    PROVE  ReportInv'
<1> DEFINE own == Sec \cap present \cap scope
           there == Bandit \cap present \cap scope
<1>1. pc = "security" /\ UNCHANGED <<code, cache, scope, prefetch, live, steady>>
  BY DEF RunSecurity, DropSecurity
<1>2. \A i \in Items : Detector(i) = "security" <=> i \in Sec \cup Bandit
  BY DetectorIsKind
<1>3. own \subseteq Items \ Review /\ steady \subseteq present /\ own \subseteq Sec
  BY ScanAssumption DEF ReportInv, Items
<1>4. CASE pc' = "merge" /\ UNCHANGED <<reported, ran, missed>>
  BY <1>1, <1>4 DEF ReportInv, code
<1>5. CASE Hit(live, scope) /\ Uses(live.found) /\ pc' = "merge"
  <2> DEFINE found == live.found \cup own
  <2>1. live.found \subseteq Bandit
    BY DEF ReportInv
  <2>2. calm = TRUE => there \ live.found = {}
    BY <1>5 DEF Hit, CacheInv, Current
  <2>3. found \subseteq Items \ Review
    BY <1>3, <2>1, ScanAssumption DEF Items
  <2>4. \A i \in steady \cap scope :
            Detector(i) = "security" => i \in found \cup (there \ live.found)
    BY <1>2, <1>3, <2>1 DEF ReportInv
  <2>5. \A j \in found : Detector(j) = "security"
    BY <1>2, <1>3, <2>1, <2>3
  <2>6. /\ reported' = reported \cup found /\ ran' = ran \cup {"security"}
        /\ missed' = missed \cup (there \ live.found)
    BY <1>5 DEF Uses
  <2>7. \A r \in {cache, live, prefetch}' : r.found \subseteq Bandit
    BY <1>1 DEF ReportInv
  <2> HIDE DEF found, there
  <2> QED
    BY <1>1, <1>5, <2>2, <2>3, <2>4, <2>5, <2>6, <2>7, ReportPhase
<1>6. CASE pc' = "bandit" /\ reported' = reported \cup own /\ UNCHANGED <<ran, missed>>
  <2>1. \A i \in steady \cap scope : i \in Sec => i \in own
    BY <1>3
  <2>2. \A j \in reported' : Detector(j) \in ran' \/ (pc' = "bandit" /\ j \in Sec)
    BY <1>1, <1>3, <1>6 DEF ReportInv
  <2>3. \A i \in steady' \cap scope' :
            Detector(i) \in ran' \/ (pc' = "bandit" /\ i \in Sec) => i \in reported' \cup missed'
    BY <1>1, <1>6, <2>1 DEF ReportInv
  <2>4. reported' \subseteq Items \ Review /\ ran' \subseteq {"dupes", "lint"}
    BY <1>1, <1>3, <1>6 DEF ReportInv
  <2> HIDE DEF own
  <2> QED
    BY <1>1, <1>6, <2>2, <2>3, <2>4 DEF ReportInv, code
<1> QED
  BY <1>4, <1>5, <1>6 DEF RunSecurity

LEMMA ReportBandit ==
    ASSUME CacheInv, ReportInv, RunBandit
    PROVE  ReportInv'
<1> DEFINE there == Bandit \cap present \cap scope
<1>1. /\ pc = "bandit" /\ pc' = "merge" /\ prefetch' = NoResult
      /\ UNCHANGED <<code, cache, scope, steady>>
  BY DEF RunBandit
<1>2. PICK r \in IF prefetch \in {NoResult, Pending} THEN ToolResults ELSE {prefetch} :
             /\ live' = Result(mark, scope, r.found)
             /\ reported' = reported \cup r.found
             /\ missed' = missed \cup (there \ r.found)
  BY DEF RunBandit
<1>3. r.found \subseteq Bandit
  BY <1>2, ToolFindsItsOwn DEF ReportInv
<1>4. calm = TRUE => there \ r.found = {}
  BY <1>1, UsedIsCurrent
<1>5. \A i \in Items : Detector(i) = "security" <=> i \in Sec \cup Bandit
  BY DetectorIsKind
<1>6. r.found \subseteq Items \ Review /\ steady \subseteq present
  BY <1>3, ScanAssumption DEF ReportInv, Items
<1>7. \A j \in r.found : Detector(j) = "security"
  BY <1>3, <1>5, <1>6
<1>8. \A i \in steady \cap scope :
          Detector(i) = "security" => i \in r.found \cup (there \ r.found) \cup reported \cup missed
  BY <1>1, <1>5, <1>6 DEF ReportInv
<1>9. \A s \in {cache, live, prefetch}' : s.found \subseteq Bandit
  BY <1>1, <1>2, <1>3 DEF ReportInv, Result, NoResult
<1>10. ran' = ran \cup {"security"}
  BY DEF RunBandit
<1> HIDE DEF there
<1> QED
  BY <1>1, <1>2, <1>4, <1>6, <1>7, <1>8, <1>9, <1>10, ReportPhase

LEMMA ReportNext == CacheInv /\ ReportInv /\ [Next]_vars => ReportInv'
<1> SUFFICES ASSUME CacheInv, ReportInv, [Next]_vars PROVE ReportInv'
  OBVIOUS
<1>1. CASE Merge
  BY <1>1 DEF Merge, ReportInv, code, scan, history
<1>2. ASSUME NEW p, Finish(p) PROVE ReportInv'
  BY <1>2 DEF Finish, ReportInv, code, NoResult
<1>3. ASSUME NEW i \in Items, NEW to, Dispose(i, to) PROVE ReportInv'
  BY <1>3 DEF Dispose, ReportInv, code, scan, history
<1>4. CASE UNCHANGED vars
  BY <1>4 DEF vars, ReportInv, code, scan, history
<1> QED
  BY <1>1, <1>2, <1>3, <1>4, ReportBegin, ReportEdit, ReportPrefetch, ReportDupes,
     ReportLint, ReportSecurity, ReportBandit, ScanAssumption DEF Next, Phase, Killed, Done

-----------------------------------------------------------------------------
(* The merge *)

\* A detector that reported something ran.
LEMMA ConfirmedRan == ReportInv /\ pc = "merge" => Confirmed = ran
BY DEF ReportInv, Confirmed

\* What the scan owes an item that is in the code, and that no answer left out,
\* or that a person reported: it is not closed, and it is open once its detector
\* ran over it.
KeptOpen(i) ==
    /\ status[i] = "open" => status'[i] # "auto_resolved"
    /\ pc = "merge" /\ pc' = "saved" /\ i \in scope /\ Detector(i) \in ran
          => status'[i] \in {"open", "wontfix"}

LEMMA SteadyIsReported ==
    ASSUME ReportInv, NEW i \in Judged \cap steady, i \in scope, Detector(i) \in ran
    PROVE  i \in reported
<1>1. i \in reported \cup missed
  BY DEF ReportInv
<1> QED
  BY <1>1 DEF ReportInv, Judged

LEMMA MergeKeepsOpen ==
    ASSUME ReportInv, Merge, NEW i \in (Judged \cap steady) \cup Review
    PROVE  KeptOpen(i)
<1>1. i \in Items /\ status'[i] = IF Closes(i) THEN "auto_resolved" ELSE Upserted[i]
  BY DEF Merge, Judged, Items
<1>2. CASE i \in Review
  <2>1. Detector(i) = "review"
    BY <1>1, <1>2, DetectorIsKind
  <2>2. ~Closes(i) /\ Detector(i) \notin ran
    BY <2>1 DEF Closes, Suspect, ReportInv
  <2>3. i \notin reported
    BY <1>2 DEF ReportInv
  <2> QED
    BY <1>1, <2>2, <2>3 DEF KeptOpen, Upserted
<1>3. CASE i \in Judged \cap steady
  <2>1. ~Closes(i)
    <3>1. i \notin deleted
      BY <1>3 DEF ReportInv
    <3> QED
      BY <1>3, <3>1, ConfirmedRan, SteadyIsReported DEF Closes, Merge
  <2>2. status'[i] = Upserted[i]
    BY <1>1, <2>1
  <2>3. status[i] = "open" => Upserted[i] = "open"
    BY <1>1 DEF Upserted
  <2>4. i \in scope /\ Detector(i) \in ran => Upserted[i] \in {"open", "wontfix"}
    BY <1>1, <1>3, SteadyIsReported DEF Upserted
  <2> QED
    BY <2>2, <2>3, <2>4 DEF KeptOpen
<1> QED
  BY <1>2, <1>3

\* What was in the code all the time a scan ran stays open, and so does what a
\* review imported (verify_disappeared, find_suspect_detectors), and what was
\* there for a detector that ran ends open (upsert_issues), unless the answer of
\* a tool that the scan worked with left it out: for any items and scan paths,
\* with phases dropped, tools missing, commits that fall into the scan and
\* results from the cache. Where no commit falls into a scan and every answer is
\* whole, nothing is excepted: what is prefetched or cached leaves nothing out.
THEOREM SteadyCorrect == Spec => SteadyIsOpen
<1>1. ASSUME ReportInv, [Next]_vars, NEW i \in (Judged \cap steady) \cup Review
      PROVE  KeptOpen(i)
  <2>1. CASE Merge
    BY <1>1, <2>1, MergeKeepsOpen
  <2>2. CASE status' = status /\ ~(pc = "merge" /\ pc' = "saved")
    BY <2>2 DEF KeptOpen
  <2>3. ASSUME NEW j \in Items, NEW to \in {"open", "fixed", "wontfix"}, Dispose(j, to)
        PROVE  KeptOpen(i)
    BY <2>3 DEF Dispose, KeptOpen
  <2>4. \/ Merge
        \/ status' = status /\ ~(pc = "merge" /\ pc' = "saved")
        \/ \E j \in Items, to \in {"open", "fixed", "wontfix"} : Dispose(j, to)
    BY <1>1, ScanAssumption
       DEF Next, Phase, RunDupes, RunLint, RunSecurity, RunBandit, Done, Killed, Finish,
           Prefetch, Begin, Edit, Delete, vars
  <2> QED
    BY <2>1, <2>2, <2>3, <2>4
<1>2. CacheInv /\ ReportInv /\ [Next]_vars
        => [\A i \in (Judged \cap steady) \cup Review :
              /\ status[i] = "open" => status'[i] # "auto_resolved"
              /\ pc = "merge" /\ pc' = "saved" /\ i \in scope /\ Detector(i) \in ran
                    => status'[i] \in {"open", "wontfix"}]_vars
  BY <1>1 DEF KeptOpen
<1> QED
  BY <1>2, CacheInit, CacheNext, ReportInit, ReportNext, PTL DEF Spec, SteadyIsOpen
==============================================================================
