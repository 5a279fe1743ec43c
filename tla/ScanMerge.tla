------------------------------ MODULE ScanMerge ------------------------------
(***************************************************************************)
(* A scan of the target checkout (engine/planning/scan.py, the shared      *)
(* security phase, engine/_state/merge.py and merge_issues.py): phases     *)
(* that read the code one after the other, some with an external tool,     *)
(* and the merge of what they reported into the work items.                *)
(*                                                                         *)
(* An item stands for one defect. Phases differ in how they count as run:  *)
(*   Dupes     in the process, counted by the functions it looked at;      *)
(*   Lint      an external tool (make_tool_phase), counted by its answer;  *)
(*   Sec       the part of phase_security that runs in the process;        *)
(*   Bandit    the part of it that is a tool, prefetched and cached;       *)
(*   Review    imported by a review, and by no scan.                       *)
(***************************************************************************)
EXTENDS Integers, FiniteSets

CONSTANTS
    Dupes, Lint, Sec, Bandit, Review,   \* sets of items
    Scopes,      \* the sets of items a scan path may cover
    Disposable,  \* bounds the items an operator resolves or opens again
    MaxEdits     \* bounds the revisions of the code

Items == Dupes \cup Lint \cup Sec \cup Bandit \cup Review

\* An issue is of one detector, which is part of its id.
ASSUME ScanAssumption ==
    /\ Scopes # {} /\ Scopes \subseteq SUBSET Items /\ MaxEdits \in Nat
    /\ Disposable \subseteq Items
    /\ Dupes \cap Lint = {} /\ (Dupes \cup Lint) \cap (Sec \cup Bandit) = {}
    /\ Review \cap (Dupes \cup Lint \cup Sec \cup Bandit) = {}

Detector(i) == CASE i \in Dupes -> "dupes" [] i \in Lint -> "lint"
                 [] i \in Sec \cup Bandit -> "security" [] OTHER -> "review"

VARIABLES
    rev, present, deleted,  \* the code: its revision, its defects, files gone
    calm,                   \* no edit falls into a scan, and a tool that answers
                            \* reports all there is
    status,                 \* of each work item, in the state file
    cache,                  \* the cached result of the tool, in the state file
    pc,                     \* where the scan is
    guard, scope,           \* --no-external-tools, and the scan path
    live,                   \* the scan's own copy of the cache
    prefetch, mark,         \* the tool's result in the background, and the
                            \* fingerprint phase_security caches one under
    reported, ran,          \* issues, and detectors with potentials
    steady,                 \* history: what was there since the scan began
    missed                  \* history: there, and not in the answer a phase used

code == <<rev, present, deleted, calm>>
scan == <<guard, scope, live, prefetch, mark, reported, ran>>
history == <<steady, missed>>
vars == <<code, status, cache, pc, scan, history>>

\* What the tool found in which files; Pending while the prefetch runs.
NoResult == [rev |-> -1, scope |-> {}, found |-> {}]
Pending == [rev |-> -2, scope |-> {}, found |-> {}]
Result(r, s, f) == [rev |-> r, scope |-> s, found |-> f]

\* "fixed" is also what false_positive is to a merge.
Statuses == {"none", "open", "fixed", "wontfix", "auto_resolved"}

TypeOK ==
    /\ rev \in 0..MaxEdits /\ present \subseteq Items /\ deleted \subseteq Items \ present
    /\ calm \in BOOLEAN /\ status \in [Items -> Statuses]
    /\ \A r \in {cache, live, prefetch} :
          r.rev \in -2..rev /\ r.found \subseteq Bandit \cap r.scope
    /\ pc \in {"idle", "dupes", "lint", "security", "bandit", "merge", "saved"}
    /\ guard \in BOOLEAN /\ scope \in Scopes \cup {{}} /\ mark \in 0..rev
    /\ reported \subseteq scope \ Review
    /\ ran \subseteq {"dupes", "lint", "security"}
    /\ steady \subseteq present /\ missed \subseteq scope \ Review

Init ==
    /\ rev = 0 /\ present \in SUBSET (Items \ Review) /\ deleted = {}
    /\ calm \in BOOLEAN
    /\ status = [i \in Items |-> IF i \in Review THEN "open" ELSE "none"]
    /\ cache = NoResult /\ live = NoResult /\ prefetch = NoResult
    /\ pc = "idle" /\ guard = FALSE /\ scope = {} /\ mark = 0
    /\ reported = {} /\ ran = {} /\ steady = {} /\ missed = {}

-----------------------------------------------------------------------------
(* The phases                                                              *)

\* The cached result has the fingerprint of the files of the scan path.
Hit(r, s) == r.rev = rev /\ r.scope = s

\* The scan loads the state; without the guard the tool is started at once,
\* unless its cached result has the fingerprint of the files.
Begin(g, s) ==
    /\ pc = "idle"
    /\ pc' = "dupes" /\ guard' = g /\ scope' = s
    /\ live' = cache
    /\ prefetch' = IF g \/ Hit(cache, s) THEN NoResult ELSE Pending
    /\ mark' = 0 /\ reported' = {} /\ ran' = {}
    /\ steady' = present /\ missed' = {}
    /\ UNCHANGED <<code, status, cache>>

\* What a tool that answers may say of the items that are there.
Answers(there) == IF calm THEN {there} ELSE SUBSET there

\* What a run of bandit gives now. One that is missing, times out or writes no
\* report gives nothing; with file errors or a bad exit code it gives a part.
ToolResults == {Result(rev, scope, found) : found \in Answers(Bandit \cap present \cap scope)}

\* The prefetch thread reads the code, at any time before the phase.
Prefetch ==
    /\ pc \in {"dupes", "lint", "security"} /\ prefetch = Pending
    /\ prefetch' \in ToolResults
    /\ UNCHANGED <<code, status, cache, pc, guard, scope, live, mark, reported, ran, history>>

\* phase_dupes counts the functions it compared.
RunDupes ==
    /\ pc = "dupes" /\ pc' = "lint"
    /\ reported' = reported \cup (Dupes \cap present \cap scope)
    /\ ran' = ran \cup {"dupes"}
    /\ UNCHANGED <<code, status, cache, guard, scope, live, prefetch, mark, history>>

\* Fault: a tool that failed counts as one that found nothing.
LintCountsAlways(answered, found, potential) == {"lint"}

\* make_tool_phase counts an answer with findings, and one without only if the
\* parser knows how much the tool looked at.
LintCounts(answered, found, potential) ==
    IF answered /\ (found # {} \/ potential) THEN {"lint"} ELSE {}

\* Under the guard the phase is dropped. A tool that is missing, times out or
\* fails with nothing to parse has not answered; one that fails with some of its
\* findings written has.
RunLint ==
    /\ pc = "lint" /\ pc' = "security"
    /\ \/ guard /\ UNCHANGED <<reported, ran, missed>>
       \/ /\ ~guard
          /\ ran' = ran \cup LintCounts(FALSE, {}, FALSE)
          /\ UNCHANGED <<reported, missed>>
       \/ /\ ~guard
          /\ \E found \in Answers(Lint \cap present \cap scope), potential \in BOOLEAN :
                /\ reported' = reported \cup found
                /\ ran' = ran \cup LintCounts(TRUE, found, potential)
                /\ missed' = missed \cup ((Lint \cap present \cap scope) \ found)
    /\ UNCHANGED <<code, status, cache, guard, scope, live, prefetch, mark, steady>>

\* Fault: a dropped phase leaves what it wrote to the cache.
DropKeepsCache == live' = Result(rev, scope, {})

\* _run_phase: the phase is dropped, and its writes to the caches are undone.
DropSecurity == UNCHANGED live

\* The phase works with a result of the tool.
Uses(found) ==
    /\ reported' = reported \cup found \cup (Sec \cap present \cap scope)
    /\ ran' = ran \cup {"security"}
    /\ missed' = missed \cup ((Bandit \cap present \cap scope) \ found)

\* phase_security looks itself, takes the fingerprint of the files, and works
\* with the cached result if it has that fingerprint.
RunSecurity ==
    /\ pc = "security"
    /\ \/ guard /\ ~Hit(live, scope) /\ DropSecurity
          /\ pc' = "merge" /\ UNCHANGED <<mark, reported, ran, missed>>
       \/ Hit(live, scope) /\ Uses(live.found)
          /\ pc' = "merge" /\ UNCHANGED <<live, mark>>
       \/ /\ ~guard /\ ~Hit(live, scope)
          /\ pc' = "bandit" /\ mark' = rev
          /\ reported' = reported \cup (Sec \cap present \cap scope)
          /\ UNCHANGED <<live, ran, missed>>
    /\ UNCHANGED <<code, status, cache, guard, scope, prefetch, steady>>

\* The prefetched result, or that of a run now; it is cached under the
\* fingerprint taken before, and counts whatever became of the tool.
RunBandit ==
    /\ pc = "bandit" /\ pc' = "merge"
    /\ \E r \in IF prefetch \in {NoResult, Pending} THEN ToolResults ELSE {prefetch} :
          /\ live' = Result(mark, scope, r.found)
          /\ reported' = reported \cup r.found
          /\ missed' = missed \cup ((Bandit \cap present \cap scope) \ r.found)
    /\ ran' = ran \cup {"security"}
    /\ prefetch' = NoResult /\ mark' = 0
    /\ UNCHANGED <<code, status, cache, guard, scope, steady>>

-----------------------------------------------------------------------------
(* The merge                                                               *)

\* Fault: what reappears stays resolved.
UpsertedOnce == [i \in Items |-> IF i \in reported /\ status[i] = "none" THEN "open" ELSE status[i]]

\* upsert_issues: a new item is open, a closed one is open again, a wontfix
\* stays what it is.
Upserted == [i \in Items |-> IF i \in reported /\ status[i] # "wontfix" THEN "open" ELSE status[i]]

\* Fault: a detector that found nothing is not known to have run.
ConfirmedByIssues == {Detector(i) : i \in reported}

\* confirmed_detectors of merge_scan.
Confirmed == ran \cup {Detector(i) : i \in reported}

\* find_suspect_detectors, with the potentials of a scan.
Suspect == {"review"} \cup ({Detector(i) : i \in {j \in Items : Upserted[j] = "open"}} \ Confirmed)

\* Fault: an absent item is closed whatever ran, inside the scope or not.
ClosesAnywhere(i) == Upserted[i] = "open" /\ i \notin reported /\ Detector(i) \notin Suspect

\* verify_disappeared: when an item that is open and absent is closed.
Closes(i) ==
    /\ Upserted[i] = "open" /\ i \notin reported
    /\ Detector(i) \notin Suspect /\ i \in scope
    /\ i \in deleted \/ Detector(i) \in Confirmed

\* merge_scan and save_state.
Merge ==
    /\ pc = "merge" /\ pc' = "saved"
    /\ status' = [i \in Items |-> IF Closes(i) THEN "auto_resolved" ELSE Upserted[i]]
    /\ cache' = live
    /\ UNCHANGED <<code, scan, history>>

Finish(p) ==
    /\ pc = p /\ pc' = "idle"
    /\ guard' = FALSE /\ scope' = {} /\ live' = NoResult /\ prefetch' = NoResult
    /\ mark' = 0 /\ reported' = {} /\ ran' = {}
    /\ steady' = {} /\ missed' = {}
    /\ UNCHANGED <<code, status, cache>>

\* The scan is killed before it saved: nothing of it remains.
Killed == \E p \in {"dupes", "lint", "security", "bandit", "merge"} : Finish(p)

Done == Finish("saved")

-----------------------------------------------------------------------------
(* Its surroundings                                                        *)

Editable == rev < MaxEdits /\ (pc = "idle" \/ ~calm)

\* A commit that fixes a defect or adds one.
Edit(i) ==
    /\ Editable /\ i \notin deleted \cup Review
    /\ rev' = rev + 1
    /\ present' = IF i \in present THEN present \ {i} ELSE present \cup {i}
    /\ steady' = steady \ {i}
    /\ UNCHANGED <<deleted, calm, status, cache, pc, scan, missed>>

\* A commit that deletes the file of an item.
Delete(i) ==
    /\ Editable /\ i \notin deleted \cup Review
    /\ rev' = rev + 1 /\ deleted' = deleted \cup {i}
    /\ present' = present \ {i} /\ steady' = steady \ {i}
    /\ UNCHANGED <<calm, status, cache, pc, scan, missed>>

\* The operator resolves an item, or opens it again (resolve_issues).
Dispose(i, to) ==
    /\ pc = "idle" /\ status[i] # "none"
    /\ IF to = "open" THEN status[i] # "open" ELSE status[i] = "open"
    /\ status' = [status EXCEPT ![i] = to]
    /\ UNCHANGED <<code, cache, pc, scan, history>>

Phase == RunDupes \/ RunLint \/ RunSecurity \/ RunBandit \/ Merge \/ Done

Next ==
    \/ Phase \/ Prefetch \/ Killed
    \/ \E g \in BOOLEAN, s \in Scopes : Begin(g, s)
    \/ \E i \in Items : Edit(i) \/ Delete(i)
    \/ \E i \in Disposable, to \in {"open", "fixed", "wontfix"} : Dispose(i, to)

Spec == Init /\ [][Next]_vars

\* A scan goes on; the operator scans everything with the tools again and
\* again, and scans are not killed for ever.
LiveSpec ==
    /\ Spec /\ WF_vars(Phase) /\ SF_vars(Begin(FALSE, Items))
    /\ <>[][~Killed]_vars

-----------------------------------------------------------------------------
\* What a scan has to be right about: everything, unless commits fall into it
\* or a tool's answer is not whole; then not what such an answer left out. That
\* is where the code closes what is still there: a run of bandit that failed or
\* was overtaken, and a linter that broke off, count as answers.
Judged == IF calm THEN Items ELSE Items \ missed

\* What was in the code all the time a scan ran stays open, and so does what a
\* review imported, and an item of a detector that ran ends open unless the
\* operator wants no fix for it, or unless an answer the scan worked with left
\* it out: whatever phase was dropped, tool was missing, path was left out,
\* commit fell in between or result was cached.
SteadyIsOpen ==
    [][\A i \in (Judged \cap steady) \cup Review :
        /\ status[i] = "open" => status'[i] # "auto_resolved"
        /\ pc = "merge" /\ pc' = "saved" /\ i \in scope /\ Detector(i) \in ran
              => status'[i] \in {"open", "wontfix"}]_vars

\* A result that a later scan of the same files takes from the cache is what
\* the tool would find.
CacheIsCurrent ==
    calm /\ cache.rev = rev => cache.found = Bandit \cap present \cap cache.scope

\* Bandit's items only if every answer is whole: a failed one is cached until
\* the files change.
Reliable == Dupes \cup Sec \cup (IF calm THEN Bandit ELSE {})

\* A defect that stays in the code becomes an open item, and the open item of
\* one that stays away is closed, whatever the operator says in between.
Converges ==
    \A i \in Dupes \cup Sec \cup Bandit :
        /\ (i \in Reliable \cap present) ~> (status[i] \in {"open", "wontfix"} \/ i \notin present)
        /\ (i \in Reliable \ present) ~> (status[i] # "open" \/ i \in present)
==============================================================================
