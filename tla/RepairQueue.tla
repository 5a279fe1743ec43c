----------------------------- MODULE RepairQueue -----------------------------
(***************************************************************************)
(* repair-queue revalidate, sync --apply and recover                       *)
(* (app/commands/repair_queue.py, engine/repair_queue.py): concurrent      *)
(* invocations that share one state file and publish work items as GitHub  *)
(* issues, at most one per concern key and lane (ADR 0005, 0013, 0014).    *)
(*                                                                         *)
(* A state-lock transaction is one action; what a sync reads without the   *)
(* lock (the state it starts from, its searches) is kept and used later.   *)
(* GitHub is external: a request may be carried out after the process that *)
(* sent it was told otherwise or is gone, and a search may lag.            *)
(***************************************************************************)
EXTENDS Integers, Sequences, FiniteSets

CONSTANTS
    AllItems,   \* work items a state file may have
    Keys,       \* concern and finding keys
    Syncs,      \* slots for concurrent invocations of sync
    Setups,     \* what a behaviour starts from, and its bounds: see Setup
    MaxIssues   \* bound on the issues GitHub holds

\* keyOf: the items of the file, and the key of each; findings: those of the
\* finding route, dupes pairs; evidence, edits: bounds on the evidence and the
\* source versions of an item; scans, recovers, kills: bounds on the changes
\* scans and resolutions make, on recover commands and on syncs killed;
\* lags: GitHub's search index may be behind; alone: recover runs when nothing
\* is under way, the index included, as its operator attests; unlocked:
\* commands save a copy they loaded without the lock.
Setup == [keyOf: UNION {[I -> Keys] : I \in (SUBSET AllItems) \ {{}}},
          findings: SUBSET AllItems, evidence: Nat \ {0}, edits: Nat,
          scans: Nat, recovers: Nat, kills: Nat,
          lags: BOOLEAN, alone: BOOLEAN, unlocked: BOOLEAN]

ASSUME QueueAssumption == Setups # {} /\ Setups \subseteq Setup /\ MaxIssues \in Nat

Lanes == {"repair", "proposal"}

Kinds == {"small_repair", "proposal"}

\* A published issue, and a create request GitHub has not yet carried out.
Issue == [key: Keys, lane: Lanes]

VARIABLES
    setup,      \* the setup of this behaviour
    items,      \* the work items in the state file
    copies,     \* the copy an unlocked command holds: <<>> or <<items>>
    src,        \* the committed version of each item's files
    issues,     \* GitHub's issues, in order of number
    indexed,    \* the numbers search finds
    req,        \* per sync: the requests GitHub may still carry out
    pc, stage,  \* per sync: where it is; "reconcile" or "select"
    seen,       \* per sync: the state it read without the lock
    todo,       \* per sync: candidates left to reconcile
    selectable, \* per sync: small repairs with nothing to reconcile
    cur,        \* per sync: the candidate being handled
    target,     \* per sync: the issue to link
    expects,    \* per sync: the record that must still be there to link
    left        \* what is left of the bounds

Items == DOMAIN setup.keyOf
KeyOf == setup.keyOf
Findings == setup.findings \cap Items

\* detail.github_repair and github_proposal (0: none), their _pending records,
\* and github_repair_revalidated (revEv 0: none).
Item == [open: BOOLEAN, changed: BOOLEAN, kind: Kinds, ev: 1..setup.evidence,
         revEv: 0..setup.evidence, revSrc: 0..setup.edits,
         link: [Lanes -> 0..MaxIssues],
         pending: [Lanes -> BOOLEAN]]

state == <<setup, items, copies>>
github == <<issues, indexed>>
local == <<pc, stage, seen, todo, selectable, cur, target, expects>>
vars == <<state, src, github, req, local, left>>

-----------------------------------------------------------------------------
(* Candidates and records, of a state st that was read.                    *)

IsCandidate(st, i) ==
    st[i].open /\ ~st[i].changed /\ st[i].revEv = st[i].ev

\* The candidate i of s is the candidate i of t.
SameCandidate(s, t, i) ==
    /\ IsCandidate(s, i) /\ IsCandidate(t, i)
    /\ s[i].ev = t[i].ev /\ s[i].kind = t[i].kind

LaneOf(it) == IF it.kind = "proposal" THEN "proposal" ELSE "repair"

HoldsIn(it, l) == it.link[l] # 0 \/ it.pending[l]

HasRecord(it) == \E l \in Lanes : HoldsIn(it, l)

Peers(i) == {j \in Items \ {i} : KeyOf[j] = KeyOf[i]}

\* The peers' records are not all links of the candidate's lane.
PeersPark(st, i) ==
    \E j \in Peers(i), l \in Lanes :
        st[j].pending[l] \/ (st[j].link[l] # 0 /\ l # LaneOf(st[i]))

PeerLinks(st, i) == {st[j].link[LaneOf(st[i])] : j \in Peers(i)} \ {0}

\* Fault: only other candidates count, not the records resolved items keep.
ClaimedByCandidates(st, i) == \E j \in Peers(i) : IsCandidate(st, j)

KeyClaimedElsewhere(st, i) ==
    \E j \in Peers(i) : IsCandidate(st, j) \/ HasRecord(st[j])

PendingRepairs(st) == {i \in Items : st[i].pending["repair"]}

\* The stored manifest and check hold for the committed source.
SourceCurrent(st, i) == st[i].revSrc = src[i]

WithoutRevalidation(it) == [it EXCEPT !.revEv = 0, !.revSrc = 0]

-----------------------------------------------------------------------------
Init ==
    /\ setup \in Setups
    /\ items \in [Items ->
           {[open |-> TRUE, changed |-> FALSE, kind |-> k, ev |-> 1,
             revEv |-> 0, revSrc |-> 0, link |-> [l \in Lanes |-> 0],
             pending |-> [l \in Lanes |-> FALSE]] : k \in Kinds}]
    /\ \A i \in Findings : items[i].kind = "small_repair"
    /\ copies = <<>>
    /\ src = [i \in Items |-> 0]
    /\ issues = <<>> /\ indexed = {}
    /\ req = [p \in Syncs |-> {}]
    /\ pc = [p \in Syncs |-> "idle"]
    /\ stage = [p \in Syncs |-> "reconcile"]
    /\ seen = [p \in Syncs |-> <<>>]
    /\ todo = [p \in Syncs |-> {}]
    /\ selectable = [p \in Syncs |-> {}]
    /\ cur = [p \in Syncs |-> CHOOSE i \in Items : TRUE]
    /\ target = [p \in Syncs |-> 0]
    /\ expects = [p \in Syncs |-> "none"]
    /\ left = [scans |-> setup.scans, recovers |-> setup.recovers, kills |-> setup.kills]

\* A sync forgets what it held when it ends.
Reset(p) ==
    /\ pc' = [pc EXCEPT ![p] = "idle"]
    /\ stage' = [stage EXCEPT ![p] = "reconcile"]
    /\ seen' = [seen EXCEPT ![p] = <<>>]
    /\ todo' = [todo EXCEPT ![p] = {}]
    /\ selectable' = [selectable EXCEPT ![p] = {}]
    /\ cur' = [cur EXCEPT ![p] = CHOOSE i \in Items : TRUE]
    /\ target' = [target EXCEPT ![p] = 0]
    /\ expects' = [expects EXCEPT ![p] = "none"]

\* The candidate is done with: the next one, or the record of the selection.
Done(p) ==
    /\ pc' = [pc EXCEPT ![p] = IF stage[p] = "select" THEN "record" ELSE "each"]
    /\ target' = [target EXCEPT ![p] = 0]
    /\ expects' = [expects EXCEPT ![p] = "none"]
    /\ cur' = [cur EXCEPT ![p] = CHOOSE i \in Items : TRUE]
    /\ UNCHANGED <<stage, seen, todo, selectable>>

-----------------------------------------------------------------------------
(* sync --apply                                                            *)

\* _sync: one read without the lock; an ambiguous key is left to a human.
\* A slot is free once nothing its last run sent is under way.
Start(p) ==
    /\ pc[p] = "idle" /\ req[p] = {}
    /\ pc' = [pc EXCEPT ![p] = "each"]
    /\ seen' = [seen EXCEPT ![p] = items]
    /\ todo' = [todo EXCEPT ![p] =
           {i \in Items : /\ IsCandidate(items, i)
                          /\ \A j \in Peers(i) : ~IsCandidate(items, j)}]
    /\ UNCHANGED <<state, src, github, req, left, stage, selectable, cur, target,
                   expects>>

\* _source_current proceeds when the source matches what was read, or, under
\* the lock, what is stored now for the same candidate.
SourceProceeds(p, i) ==
    \/ SourceCurrent(seen[p], i)
    \/ SameCandidate(seen[p], items, i) /\ SourceCurrent(items, i)

Take(p, i) == pc[p] = "each" /\ i \in todo[p] /\ todo' = [todo EXCEPT ![p] = @ \ {i}]

\* _recheck_locked on changed source drops the revalidation.
DropStale(p, i) ==
    /\ Take(p, i)
    /\ SameCandidate(seen[p], items, i) /\ ~SourceCurrent(items, i)
    /\ items' = [items EXCEPT ![i] = WithoutRevalidation(@)]
    /\ UNCHANGED <<setup, copies, src, github, req, left, pc, stage, seen,
                   selectable, cur, target, expects>>

\* Source that cannot be read, a changed candidate, a record of the other lane,
\* a peer's unresolved record or peers' links that conflict: left for a later
\* sync or a human.
Skip(p, i) ==
    /\ Take(p, i)
    /\ UNCHANGED <<state, src, github, req, left, pc, stage, seen, selectable,
                   cur, target, expects>>

\* The candidate holds no record of its other lane.
Unhindered(p, i) ==
    LET it == seen[p][i] IN
    \A l \in Lanes \ {LaneOf(it)} : ~HoldsIn(it, l)

Proceed(p, i, next, number, needs) ==
    /\ Take(p, i)
    /\ SourceProceeds(p, i) /\ Unhindered(p, i)
    /\ pc' = [pc EXCEPT ![p] = next]
    /\ cur' = [cur EXCEPT ![p] = i]
    /\ target' = [target EXCEPT ![p] = number]
    /\ expects' = [expects EXCEPT ![p] = needs]
    /\ UNCHANGED <<state, src, github, req, left, stage, seen, selectable>>

\* A link of its own is read back by number.
ReadLink(p, i) ==
    LET it == seen[p][i] IN
    /\ i \in todo[p] /\ it.link[LaneOf(it)] # 0
    /\ Proceed(p, i, "view", it.link[LaneOf(it)], "link")

\* _resolved_by_peer: the one link other items hold for the key.
ReadPeerLink(p, i) ==
    /\ i \in todo[p]
    /\ ~HasRecord(seen[p][i]) /\ ~PeersPark(seen[p], i)
    /\ \E n \in PeerLinks(seen[p], i) :
        /\ PeerLinks(seen[p], i) = {n}
        /\ Proceed(p, i, "view", n, "none")

\* Fault: a pending record parks its item, as a peer's does.
SearchForUnrecorded(p, i) ==
    LET it == seen[p][i] IN
    /\ i \in todo[p] /\ ~HasRecord(it)
    /\ ~PeersPark(seen[p], i) /\ PeerLinks(seen[p], i) = {}
    /\ Proceed(p, i, "search", 0, "none")

SearchFor(p, i) ==
    LET it == seen[p][i] IN
    /\ i \in todo[p] /\ it.link[LaneOf(it)] = 0
    /\ \/ it.pending[LaneOf(it)]
       \/ ~PeersPark(seen[p], i) /\ PeerLinks(seen[p], i) = {}
    /\ Proceed(p, i, "search", 0,
               IF it.pending[LaneOf(it)] THEN "pending" ELSE "none")

\* client.view fails, or the linked issue goes on to _write_link.
View(p) ==
    /\ pc[p] = "view"
    /\ \/ Done(p)
       \/ /\ pc' = [pc EXCEPT ![p] = "write"]
          /\ UNCHANGED <<stage, seen, todo, selectable, cur, target, expects>>
    /\ UNCHANGED <<state, src, github, req, left>>

\* Fault: a body that carries the key in any line is taken as a match.
MatchedInAnyLane(p) ==
    {n \in indexed : issues[n].key = KeyOf[cur[p]]}

\* The indexed issues whose body carries the key line of the lane.
Verified(p) ==
    LET i == cur[p] IN
    {n \in indexed : /\ issues[n].key = KeyOf[i]
                     /\ issues[n].lane = LaneOf(seen[p][i])}

\* Hits without the lane's own line: a repair issue's body also carries the key
\* and the identity a proposal is searched by.
Unverified(p) ==
    LET i == cur[p] IN
    {n \in indexed : /\ issues[n].key = KeyOf[i] /\ issues[n].lane = "repair"
                     /\ LaneOf(seen[p][i]) = "proposal"}

Go(p, next, number, needs) ==
    /\ pc' = [pc EXCEPT ![p] = next]
    /\ target' = [target EXCEPT ![p] = number]
    /\ expects' = [expects EXCEPT ![p] = needs]
    /\ UNCHANGED <<stage, seen, todo, selectable, cur>>

\* The search before a create. Only a unique match is adopted, and a finding's
\* only to resolve a pending record; none means the item may be created.
Search(p) ==
    LET i == cur[p] IN
    /\ pc[p] = "search"
    /\ \/ Done(p)    \* the search failed, or its matches settle nothing
       \/ \E n \in Verified(p) :
            /\ Verified(p) = {n}
            /\ i \in Findings => expects[p] = "pending"
            /\ Go(p, "write", n, expects[p])
       \/ /\ Verified(p) = {} /\ Unverified(p) = {} /\ expects[p] = "none"
          /\ IF LaneOf(seen[p][i]) = "proposal"
             THEN Go(p, "create", 0, "none")
             ELSE /\ selectable' = [selectable EXCEPT ![p] = @ \cup {i}]
                  /\ pc' = [pc EXCEPT ![p] = "each"]
                  /\ cur' = [cur EXCEPT ![p] = CHOOSE j \in Items : TRUE]
                  /\ UNCHANGED <<stage, seen, todo, target, expects>>
    /\ UNCHANGED <<state, src, github, req, left>>

\* _write_link, under the lock: the candidate, its source and the expected
\* record must still be there; the link replaces the lane's pending record.
WriteLink(p) ==
    LET i == cur[p]
        lane == LaneOf(seen[p][i])
        expected == CASE expects[p] = "link" -> items[i].link[lane] # 0
                      [] expects[p] = "pending" -> items[i].pending[lane]
                      [] OTHER -> TRUE
    IN
    /\ pc[p] = "write"
    /\ \/ UNCHANGED items   \* stale, or the source could not be read
       \/ /\ SameCandidate(seen[p], items, i) /\ ~SourceCurrent(items, i)
          /\ items' = [items EXCEPT ![i] = WithoutRevalidation(@)]
       \/ /\ SameCandidate(seen[p], items, i) /\ SourceCurrent(items, i)
          /\ expected
          /\ items' = [items EXCEPT ![i] =
                 [@ EXCEPT !.link[lane] = target[p], !.pending[lane] = FALSE]]
    /\ Done(p)
    /\ UNCHANGED <<setup, copies, src, github, req, left>>

\* _select: nothing while any item holds a pending repair; else one of the
\* candidates that are unchanged, the first by rank of those whose brief does
\* not park. Rank and brief depend on text: any may be first, all may park.
Select(p) ==
    /\ pc[p] = "each" /\ todo[p] = {}
    /\ \/ /\ pc' = [pc EXCEPT ![p] = "record"]
          /\ UNCHANGED <<stage, cur>>
       \/ /\ PendingRepairs(items) = {}
          /\ \E i \in selectable[p] : /\ SameCandidate(seen[p], items, i)
                                      /\ cur' = [cur EXCEPT ![p] = i]
          /\ pc' = [pc EXCEPT ![p] = "create"]
          /\ stage' = [stage EXCEPT ![p] = "select"]
    /\ UNCHANGED <<state, src, github, req, left, seen, todo, selectable, target,
                   expects>>

\* Fault: the item's own records are not read again under the lock.
MayCreateUnread(p, i) ==
    /\ SameCandidate(seen[p], items, i)
    /\ ~KeyClaimedElsewhere(items, i)
    /\ seen[p][i].kind = "small_repair" => PendingRepairs(items) = {}

\* Fault: only the records of the candidate's own lane are read again.
MayCreateInLane(p, i) ==
    /\ SameCandidate(seen[p], items, i)
    /\ ~HoldsIn(items[i], LaneOf(seen[p][i]))
    /\ ~KeyClaimedElsewhere(items, i)
    /\ seen[p][i].kind = "small_repair" => PendingRepairs(items) = {}

\* Fault: the pending repair of another item is not looked for under the lock.
MayCreateBesidePending(p, i) ==
    /\ SameCandidate(seen[p], items, i)
    /\ ~HasRecord(items[i])
    /\ ~KeyClaimedElsewhere(items, i)

\* What _create_once checks again under the lock.
MayCreate(p, i) ==
    /\ SameCandidate(seen[p], items, i)
    /\ ~HasRecord(items[i])
    /\ ~KeyClaimedElsewhere(items, i)
    /\ seen[p][i].kind = "small_repair" => PendingRepairs(items) = {}

RequestOf(p) == [key |-> KeyOf[cur[p]], lane |-> LaneOf(seen[p][cur[p]])]

\* The transaction of _create_once before the create: the pending record, the
\* gh call starts. Refused also when the source cannot be read or a brief parks.
CreateLocked(p) ==
    LET i == cur[p]
        lane == LaneOf(seen[p][i])
    IN
    /\ pc[p] = "create"
    /\ \/ /\ UNCHANGED <<items, req>>
          /\ Done(p)
       \/ /\ MayCreate(p, i) /\ ~SourceCurrent(items, i)
          /\ items' = [items EXCEPT ![i] = WithoutRevalidation(@)]
          /\ Done(p)
          /\ UNCHANGED req
       \/ /\ MayCreate(p, i) /\ SourceCurrent(items, i)
          /\ items' = [items EXCEPT ![i].pending[lane] = TRUE]
          /\ req' = [req EXCEPT ![p] = @ \cup {RequestOf(p)}]
          /\ Go(p, "call", 0, "pending")
    /\ UNCHANGED <<setup, copies, src, github, left>>

\* Fault: a create that failed gives its pending record up.
CreateFailureClears(p) ==
    LET r == RequestOf(p) IN
    /\ pc[p] = "call"
    /\ \/ /\ r \notin req[p]
          /\ Go(p, "confirm", 0, "pending")
          /\ UNCHANGED <<items, req>>
       \/ /\ Done(p)
          /\ items' = [items EXCEPT ![cur[p]].pending[r.lane] = FALSE]
          /\ req' \in {req, [req EXCEPT ![p] = @ \ {r}]}
    /\ UNCHANGED <<setup, copies, src, github, left>>

\* client.create returns once GitHub made the issue, or fails with its request
\* lost or still under way.
CreateReturns(p) ==
    LET r == RequestOf(p) IN
    /\ pc[p] = "call"
    /\ \/ /\ r \notin req[p]
          /\ Go(p, "confirm", 0, "pending")
          /\ UNCHANGED req
       \/ /\ Done(p)
          /\ req' \in {req, [req EXCEPT ![p] = @ \ {r}]}
    /\ UNCHANGED <<state, src, github, left>>

\* The search after a create: a unique match is adopted.
Confirm(p) ==
    /\ pc[p] = "confirm"
    /\ \/ Done(p)
       \/ \E n \in Verified(p) : Verified(p) = {n} /\ Go(p, "write", n, "pending")
    /\ UNCHANGED <<state, src, github, req, left>>

\* _record_selection, and the run ends. Nothing reads the record it writes to
\* the state, which is left out.
RecordSelection(p) ==
    /\ pc[p] = "record"
    /\ Reset(p)
    /\ UNCHANGED <<state, src, github, req, left>>

\* The process is killed, or the alarm of repair-cycle's publication unwinds it;
\* a transaction it was in is not saved. Its gh child may go on.
Kill(p) ==
    /\ pc[p] # "idle" /\ left.kills > 0
    /\ left' = [left EXCEPT !.kills = @ - 1]
    /\ Reset(p)
    /\ UNCHANGED <<state, src, github, req>>

-----------------------------------------------------------------------------
(* The other commands                                                      *)

\* revalidate, in one transaction: binds an open, unchanged item to the
\* committed source, or drops the binding when the check does not pass.
Revalidate(i) ==
    /\ items[i].open /\ ~items[i].changed
    /\ \/ items' = [items EXCEPT ![i] = [@ EXCEPT !.revEv = items[i].ev, !.revSrc = src[i]]]
       \/ items' = [items EXCEPT ![i] = WithoutRevalidation(@)]
    /\ UNCHANGED <<setup, copies, src, github, req, local, left>>

\* No sync runs, no request is under way and the index is complete.
NothingUnderWay ==
    /\ \A p \in Syncs : pc[p] = "idle" /\ req[p] = {}
    /\ indexed = DOMAIN issues

\* recover: the operator clears the pending records of a key.
Recover(k) ==
    /\ left.recovers > 0
    /\ setup.alone => NothingUnderWay
    /\ \E i \in Items, l \in Lanes : KeyOf[i] = k /\ items[i].pending[l]
    /\ items' = [i \in Items |->
           IF KeyOf[i] = k
           THEN [items[i] EXCEPT !.pending = [l \in Lanes |-> FALSE]]
           ELSE items[i]]
    /\ left' = [left EXCEPT !.recovers = @ - 1]
    /\ UNCHANGED <<setup, copies, src, github, req, local>>

\* Fault: a merge keeps the records only with the evidence.
RescanForgets(i) ==
    /\ left.scans > 0
    /\ \E e \in {items[i].ev, items[i].ev + 1} \cap (1..setup.evidence), k \in Kinds :
        /\ i \in Findings => k = "small_repair"
        /\ items' = [items EXCEPT ![i] =
               [(IF e = items[i].ev THEN items[i]
                 ELSE [WithoutRevalidation(items[i]) EXCEPT
                          !.link = [l \in Lanes |-> 0],
                          !.pending = [l \in Lanes |-> FALSE]]) EXCEPT
                    !.open = TRUE, !.ev = e, !.kind = k,
                    !.changed = e # items[i].ev /\ i \notin Findings]]
    /\ left' = [left EXCEPT !.scans = @ - 1]
    /\ UNCHANGED <<setup, copies, src, github, req, local>>

\* upsert_issues of a merge that reports the item again: new evidence or
\* another classification. _preserve_repair_metadata keeps the records, and
\* the revalidation only with the evidence; a finding is never a proposal.
Rescan(i) ==
    /\ left.scans > 0
    /\ \E e \in {items[i].ev, items[i].ev + 1} \cap (1..setup.evidence), k \in Kinds :
        /\ i \in Findings => k = "small_repair"
        /\ items' = [items EXCEPT ![i] =
               [(IF e = items[i].ev THEN items[i]
                 ELSE WithoutRevalidation(items[i])) EXCEPT
                    !.open = TRUE, !.ev = e, !.kind = k,
                    !.changed = e # items[i].ev /\ i \notin Findings]]
    /\ left' = [left EXCEPT !.scans = @ - 1]
    /\ UNCHANGED <<setup, copies, src, github, req, local>>

\* The item is resolved, by hand or because a scan no longer finds it.
Resolve(i) ==
    /\ left.scans > 0 /\ items[i].open
    /\ items' = [items EXCEPT ![i].open = FALSE]
    /\ left' = [left EXCEPT !.scans = @ - 1]
    /\ UNCHANGED <<setup, copies, src, github, req, local>>

\* A commit touches the item's files.
Commit(i) ==
    /\ src[i] < setup.edits
    /\ src' = [src EXCEPT ![i] = @ + 1]
    /\ UNCHANGED <<state, github, req, local, left>>

\* scan, resolve, suppress and others load and save the file without the lock.
LoadCopy ==
    /\ setup.unlocked /\ left.scans > 0 /\ copies = <<>>
    /\ copies' = <<items>>
    /\ left' = [left EXCEPT !.scans = @ - 1]
    /\ UNCHANGED <<setup, items, src, github, req, local>>

SaveCopy ==
    /\ copies # <<>>
    /\ items' = copies[1] /\ copies' = <<>>
    /\ UNCHANGED <<setup, src, github, req, local, left>>

\* GitHub carries a request out, whether or not its sender still waits.
GitHubCreates(p) ==
    /\ Len(issues) < MaxIssues
    /\ \E r \in req[p] : /\ issues' = Append(issues, r)
                         /\ req' = [req EXCEPT ![p] = @ \ {r}]
    /\ indexed' = IF setup.lags THEN indexed ELSE indexed \cup {Len(issues) + 1}
    /\ UNCHANGED <<state, src, local, left>>

\* A request whose sender no longer waits is lost.
RequestIsLost(p) ==
    /\ \E r \in req[p] : /\ ~(pc[p] = "call" /\ r = RequestOf(p))
                         /\ req' = [req EXCEPT ![p] = @ \ {r}]
    /\ UNCHANGED <<state, src, github, local, left>>

Index ==
    /\ \E n \in DOMAIN issues \ indexed : indexed' = indexed \cup {n}
    /\ UNCHANGED <<state, src, issues, req, local, left>>

-----------------------------------------------------------------------------
Sync(p) ==
    \/ Start(p) \/ View(p) \/ Search(p) \/ WriteLink(p) \/ Select(p)
    \/ CreateLocked(p) \/ CreateReturns(p) \/ Confirm(p) \/ RecordSelection(p)
    \/ \E i \in Items : \/ DropStale(p, i) \/ Skip(p, i) \/ ReadLink(p, i)
                        \/ ReadPeerLink(p, i) \/ SearchFor(p, i)

Next ==
    \/ \E p \in Syncs : Sync(p) \/ Kill(p) \/ GitHubCreates(p) \/ RequestIsLost(p)
    \/ \E i \in Items : Revalidate(i) \/ Rescan(i) \/ Resolve(i) \/ Commit(i)
    \/ \E k \in Keys : Recover(k)
    \/ LoadCopy \/ SaveCopy \/ Index

Spec == Init /\ [][Next]_vars

\* The timer starts a sync again and again, GitHub's index catches up, and what
\* every later run tries again - to read the source, to search, to write - does
\* not fail for ever. No fairness of commands, scans or of GitHub's creates.
Fairness ==
    /\ WF_vars(Index)
    /\ \A p \in Syncs :
        /\ WF_vars(Sync(p))
        /\ SF_vars(\E i \in Items : SearchFor(p, i))
        /\ SF_vars(Search(p) /\ pc'[p] = "write")
        /\ SF_vars(WriteLink(p) /\ items' # items)

LiveSpec == Spec /\ Fairness

-----------------------------------------------------------------------------
(* Type correctness of the queue's variables.                              *)
TypeOK ==
    /\ setup \in Setups /\ items \in [Items -> Item]
    /\ copies \in {<<>>} \cup [1..1 -> [Items -> Item]]
    /\ src \in [Items -> 0..setup.edits]
    /\ issues \in Seq(Issue) /\ Len(issues) <= MaxIssues
    /\ indexed \subseteq DOMAIN issues
    /\ req \in [Syncs -> SUBSET Issue]
    /\ pc \in [Syncs -> {"idle", "each", "view", "search", "write", "create",
                         "call", "confirm", "record"}]
    /\ stage \in [Syncs -> {"reconcile", "select"}]
    /\ seen \in [Syncs -> {<<>>} \cup [Items -> Item]]
    /\ todo \in [Syncs -> SUBSET Items]
    /\ selectable \in [Syncs -> SUBSET Items]
    /\ cur \in [Syncs -> Items]
    /\ target \in [Syncs -> 0..MaxIssues]
    /\ expects \in [Syncs -> {"none", "link", "pending"}]
    /\ left \in [scans: Nat, recovers: Nat, kills: Nat]

\* Issues and requests for one key and lane.
Published(k, l) == {n \in DOMAIN issues : issues[n].key = k /\ issues[n].lane = l}
Requested(k, l) == {p \in Syncs : [key |-> k, lane |-> l] \in req[p]}

\* Every command that changes the state takes the lock.
Locked == ~setup.unlocked

\* ADR 0005: one key has at most one issue per lane, requests still under way
\* included, whatever concurrent syncs, kills and late creates do.
OneIssuePerKey ==
    Locked => \A k \in Keys, l \in Lanes :
        Cardinality(Published(k, l)) + Cardinality(Requested(k, l)) <= 1

\* ADR 0014: an unresolved repair publication stops every other one, also when
\* an old copy of the file is put back between two runs.
OnePendingRepair ==
    \A i, j \in PendingRepairs(items) : i = j

\* A link names an issue of the item's own key and lane, also when recovers do
\* not hold what they attest and old copies of the file are put back.
LinksAreOwn ==
    \A i \in Items, l \in Lanes :
        items[i].link[l] # 0 => items[i].link[l] \in Published(KeyOf[i], l)

\* A key that is linked stays linked to that one issue: no scan, recover or late
\* answer takes a link back or puts another in its place.
LinkIsForGood ==
    [][\A i \in Items, l \in Lanes : Locked /\ items[i].link[l] # 0 =>
         /\ items'[i].link[l] = items[i].link[l]
         /\ \A j \in Peers(i) : items'[j].link[l] \in {0, items[i].link[l]}]_items

\* Until an operator recovers, what was sent to GitHub has a record in the
\* state: no crash, late create or rescan loses sight of it.
NothingForgotten ==
    Locked /\ left.recovers = setup.recovers =>
        \A k \in Keys, l \in Lanes :
            Published(k, l) \cup Requested(k, l) # {} =>
                \E i \in Items : KeyOf[i] = k /\ HoldsIn(items[i], l)

\* ADR 0013: a change of classification parks an item that holds a record of
\* its other lane; without recover, racing syncs never give it both.
OneLanePerItem ==
    Locked /\ left.recovers = setup.recovers =>
        \A i \in Items, l, m \in Lanes :
            HoldsIn(items[i], l) /\ HoldsIn(items[i], m) => l = m

\* An issue whose create looked uncertain is found and linked by a later sync,
\* as long as its item stays a candidate of that lane with current source.
Reconcilable(i) ==
    /\ IsCandidate(items, i) /\ SourceCurrent(items, i)
    /\ items[i].kind = "small_repair"
    /\ ~HoldsIn(items[i], "proposal")

PublishedIsLinked ==
    \A i \in AllItems :
        (i \in Items /\ Locked /\ items[i].pending["repair"]
            /\ Published(KeyOf[i], "repair") # {})
            ~> (i \in Items => items[i].link["repair"] # 0 \/ ~Reconcilable(i))

-----------------------------------------------------------------------------
(* Per key and lane, the queue is PublishOnce.                             *)

KeysOf == {KeyOf[i] : i \in Items}
Linked(k, l) == \E i \in Items : KeyOf[i] = k /\ items[i].link[l] # 0
Attempted(k, l) == \E i \in Items : KeyOf[i] = k /\ items[i].pending[l]

Once(k, l) == INSTANCE PublishOnce WITH
    attempted <- Locked /\ Attempted(k, l) /\ ~Linked(k, l),
    sent <- Locked /\ Requested(k, l) # {},
    published <- IF Locked THEN Cardinality(Published(k, l)) ELSE 0,
    linked <- Locked /\ Linked(k, l)

\* Every behaviour of concurrent syncs, kills, late creates and attested
\* recovers publishes a key as PublishOnce does. Steps that touch nothing the
\* mapping reads stutter, and are told apart first to spare TLC the mapping.
ImplementsPublishOnce ==
    /\ \A k \in KeysOf, l \in Lanes : Once(k, l)!Init
    /\ [][\/ UNCHANGED <<setup, items, issues, req>>
          \/ \A k \in KeysOf, l \in Lanes : [Once(k, l)!Next]_(Once(k, l)!vars)]_vars
==============================================================================
