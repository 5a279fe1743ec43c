-------------------------- MODULE RepairQueueProofs --------------------------
(***************************************************************************)
(* The repair queue publishes at most one issue per key and lane, forgets  *)
(* nothing it sent and implements PublishOnce, for any items, concurrent   *)
(* syncs, kills, late creates, lags of the index and bounds.               *)
(***************************************************************************)
EXTENDS RepairQueue, FiniteSetTheorems, TLAPS

-----------------------------------------------------------------------------
(* Types *)

\* A sync that runs holds a state it read, one that does not has nothing to do.
RunInv ==
    \A p \in Syncs :
        /\ pc[p] # "idle" => seen[p] \in [Items -> Item]
        /\ pc[p] = "idle" => todo[p] = {} /\ selectable[p] = {}

TypeInv == TypeOK /\ RunInv

\* What every action needs to know of the setup.
LEMMA SetupFacts ==
  ASSUME setup \in Setups
  PROVE  /\ Items # {} /\ (CHOOSE i \in Items : TRUE) \in Items
         /\ \A i \in Items : KeyOf[i] \in Keys
         /\ setup.evidence \in Nat \ {0} /\ setup.edits \in Nat /\ setup.scans \in Nat
         /\ setup.recovers \in Nat /\ setup.kills \in Nat /\ MaxIssues \in Nat
<1>1. setup \in Setup /\ MaxIssues \in Nat
  BY QueueAssumption
<1>2. PICK I \in (SUBSET AllItems) \ {{}} : setup.keyOf \in [I -> Keys]
  BY <1>1 DEF Setup
<1>3. Items = I
  <2>1. DOMAIN setup.keyOf = I
    BY <1>2
  <2> QED
    BY <2>1 DEF Items
<1>4. I # {}
  BY <1>2
<1>5. \A i \in I : setup.keyOf[i] \in Keys
  BY <1>2
<1>6. setup.evidence \in Nat \ {0} /\ setup.edits \in Nat /\ setup.scans \in Nat
      /\ setup.recovers \in Nat /\ setup.kills \in Nat
  BY <1>1 DEF Setup
<1>7. (CHOOSE i \in Items : TRUE) \in Items
  BY <1>3, <1>4
<1> QED
  BY <1>1, <1>3, <1>4, <1>5, <1>6, <1>7 DEF KeyOf

LEMMA TypeInit == Init => TypeInv
<1> SUFFICES ASSUME Init PROVE TypeInv
  OBVIOUS
<1>4. setup \in Setups
  BY DEF Init
<1>5. items \in [Items -> Item]
  <2> SUFFICES ASSUME NEW k \in Kinds
               PROVE  [open |-> TRUE, changed |-> FALSE, kind |-> k, ev |-> 1,
                       revEv |-> 0, revSrc |-> 0, link |-> [l \in Lanes |-> 0],
                       pending |-> [l \in Lanes |-> FALSE]] \in Item
    BY DEF Init
  <2> QED
    BY <1>4, SetupFacts DEF Item
<1>6. issues \in Seq(Issue) /\ Len(issues) = 0 /\ indexed = {}
  BY DEF Init
<1>7. cur \in [Syncs -> Items]
  BY <1>4, SetupFacts DEF Init
<1>8. src \in [Items -> 0..setup.edits] /\ target \in [Syncs -> 0..MaxIssues]
  BY <1>4, SetupFacts DEF Init
<1>9. req \in [Syncs -> SUBSET Issue] /\ todo \in [Syncs -> SUBSET Items]
      /\ selectable \in [Syncs -> SUBSET Items]
      /\ seen \in [Syncs -> {<<>>} \cup [Items -> Item]]
  BY DEF Init
<1>10. left \in [scans: Nat, recovers: Nat, kills: Nat]
  BY <1>4, SetupFacts DEF Init
<1>11. RunInv
  BY DEF Init, RunInv
<1> QED
  BY <1>4, SetupFacts, <1>5, <1>6, <1>7, <1>8, <1>9, <1>10, <1>11 DEF Init, TypeInv, TypeOK

SharedOK ==
    /\ setup \in Setups /\ items \in [Items -> Item]
    /\ copies \in {<<>>} \cup [1..1 -> [Items -> Item]]
    /\ src \in [Items -> 0..setup.edits]
    /\ issues \in Seq(Issue) /\ Len(issues) <= MaxIssues
    /\ indexed \subseteq DOMAIN issues
    /\ req \in [Syncs -> SUBSET Issue]
    /\ left \in [scans: Nat, recovers: Nat, kills: Nat]

LocalOK ==
    /\ pc \in [Syncs -> {"idle", "each", "view", "search", "write", "create",
                         "call", "confirm", "record"}]
    /\ stage \in [Syncs -> {"reconcile", "select"}]
    /\ seen \in [Syncs -> {<<>>} \cup [Items -> Item]]
    /\ todo \in [Syncs -> SUBSET Items]
    /\ selectable \in [Syncs -> SUBSET Items]
    /\ cur \in [Syncs -> Items]
    /\ target \in [Syncs -> 0..MaxIssues]
    /\ expects \in [Syncs -> {"none", "link", "pending"}]
    /\ RunInv

LEMMA TypeParts == TypeInv <=> SharedOK /\ LocalOK
BY DEF TypeInv, TypeOK, SharedOK, LocalOK

LEMMA TypePartsNext == SharedOK' /\ LocalOK' => TypeInv'
BY DEF TypeInv, TypeOK, SharedOK, LocalOK

\* What a sync does with its own variables keeps their types.
LEMMA ResetTypes ==
  ASSUME TypeInv, setup' = setup, NEW p \in Syncs, Reset(p) PROVE LocalOK'
<1>1. setup \in Setups /\ Items' = Items /\ Item' = Item /\ LocalOK
  BY TypeParts DEF TypeInv, TypeOK, Items, Item
<1>2. MaxIssues \in Nat
  BY QueueAssumption
<1> QED
  BY <1>1, <1>2, SetupFacts DEF Reset, LocalOK, RunInv

LEMMA DoneTypes ==
  ASSUME TypeInv, setup' = setup, NEW p \in Syncs, pc[p] # "idle", Done(p) PROVE LocalOK'
<1>1. setup \in Setups /\ Items' = Items /\ Item' = Item /\ LocalOK
  BY TypeParts DEF TypeInv, TypeOK, Items, Item
<1>2. MaxIssues \in Nat
  BY QueueAssumption
<1> QED
  BY <1>1, <1>2, SetupFacts DEF Done, LocalOK, RunInv

LEMMA GoTypes ==
  ASSUME TypeInv, setup' = setup, NEW p \in Syncs, pc[p] # "idle",
         NEW next \in {"write", "create", "call", "confirm"}, NEW n \in 0..MaxIssues,
         NEW needs \in {"none", "link", "pending"}, Go(p, next, n, needs)
  PROVE  LocalOK'
<1>1. setup \in Setups /\ Items' = Items /\ Item' = Item /\ LocalOK
  BY TypeParts DEF TypeInv, TypeOK, Items, Item
<1> QED
  BY <1>1 DEF Go, LocalOK, RunInv

LEMMA ProceedTypes ==
  ASSUME TypeInv, NEW p \in Syncs, NEW i \in Items,
         NEW next \in {"view", "search"}, NEW n \in 0..MaxIssues,
         NEW needs \in {"none", "link", "pending"}, Proceed(p, i, next, n, needs)
  PROVE  LocalOK'
<1>1. setup \in Setups /\ Items' = Items /\ Item' = Item /\ LocalOK
  BY TypeParts DEF TypeInv, TypeOK, Items, Item, Proceed, state
<1> QED
  BY <1>1 DEF Proceed, Take, LocalOK, RunInv

LEMMA WithoutType ==
  ASSUME NEW it \in Item, setup \in Setups PROVE WithoutRevalidation(it) \in Item
<1>1. 0 \in 0..setup.evidence /\ 0 \in 0..setup.edits
  BY SetupFacts
<1>2. [it EXCEPT !.revEv = 0, !.revSrc = 0] \in Item
  BY <1>1 DEF Item
<1> QED
  BY <1>2 DEF WithoutRevalidation

\* An item stays well typed whatever a transaction does to it.
LEMMA ItemChanges ==
  ASSUME NEW it \in Item, setup \in Setups, NEW l \in Lanes
  PROVE  /\ [it EXCEPT !.pending = [m \in Lanes |-> FALSE]] \in Item
         /\ [it EXCEPT !.open = FALSE] \in Item
         /\ [it EXCEPT !.pending[l] = TRUE] \in Item
         /\ \A n \in 0..MaxIssues :
               [it EXCEPT !.link[l] = n, !.pending[l] = FALSE] \in Item
         /\ \A e \in 1..setup.evidence, k \in Kinds, c \in BOOLEAN :
               [it EXCEPT !.open = TRUE, !.ev = e, !.kind = k, !.changed = c] \in Item
         /\ \A s \in 0..setup.edits :
               [it EXCEPT !.revEv = it.ev, !.revSrc = s] \in Item
<1>1. it.link \in [Lanes -> 0..MaxIssues] /\ it.pending \in [Lanes -> BOOLEAN]
  BY DEF Item
<1>2. [it EXCEPT !.pending = [m \in Lanes |-> FALSE]] \in Item
  BY DEF Item
<1>3. [it EXCEPT !.open = FALSE] \in Item
  BY DEF Item
<1>4. [it EXCEPT !.pending[l] = TRUE] \in Item
  BY <1>1 DEF Item
<1>5. ASSUME NEW n \in 0..MaxIssues
      PROVE  [it EXCEPT !.link[l] = n, !.pending[l] = FALSE] \in Item
  BY <1>1 DEF Item
<1>6. ASSUME NEW e \in 1..setup.evidence, NEW k \in Kinds, NEW c \in BOOLEAN
      PROVE  [it EXCEPT !.open = TRUE, !.ev = e, !.kind = k, !.changed = c] \in Item
  BY DEF Item
<1>7. ASSUME NEW s \in 0..setup.edits
      PROVE  [it EXCEPT !.revEv = it.ev, !.revSrc = s] \in Item
  <2>1. it.ev \in 0..setup.evidence
    BY SetupFacts DEF Item
  <2> QED
    BY <2>1 DEF Item
<1> QED
  BY <1>2, <1>3, <1>4, <1>5, <1>6, <1>7

LEMMA StartTypes ==
  ASSUME TypeInv, NEW p \in Syncs, Start(p) PROVE TypeInv'
<1>1. setup \in Setups /\ Items' = Items /\ Item' = Item /\ LocalOK /\ SharedOK
  BY TypeParts DEF TypeInv, TypeOK, Items, Item, Start, state
<1>2. LocalOK'
  BY <1>1 DEF Start, LocalOK, SharedOK, RunInv
<1>3. SharedOK'
  BY <1>1 DEF Start, SharedOK, state, github
<1> QED
  BY <1>2, <1>3, TypePartsNext

\* One item is changed and nothing else that is shared.
LEMMA ItemTypes ==
  ASSUME TypeInv, NEW i \in Items, NEW it \in Item, items' = [items EXCEPT ![i] = it],
         UNCHANGED <<setup, copies, src, github, req>>,
         left' \in [scans: Nat, recovers: Nat, kills: Nat]
  PROVE  SharedOK'
<1>1. Items' = Items /\ Item' = Item /\ SharedOK
  BY TypeParts DEF Items, Item
<1> QED
  BY <1>1 DEF SharedOK, github

LEMMA SameTypes ==
  ASSUME TypeInv, UNCHANGED <<state, src, github>>, req' \in [Syncs -> SUBSET Issue],
         left' \in [scans: Nat, recovers: Nat, kills: Nat]
  PROVE  SharedOK'
<1>1. Items' = Items /\ Item' = Item /\ SharedOK
  BY TypeParts DEF Items, Item, state
<1> QED
  BY <1>1 DEF SharedOK, github, state

LEMMA LocalSame ==
  ASSUME TypeInv, setup' = setup, UNCHANGED local PROVE LocalOK'
<1>1. Items' = Items /\ Item' = Item /\ LocalOK
  BY TypeParts DEF Items, Item
<1> QED
  BY <1>1 DEF LocalOK, RunInv, local

LEMMA ReadLinks ==
  ASSUME TypeInv, NEW p \in Syncs, pc[p] # "idle", NEW i \in Items
  PROVE  /\ seen[p][i] \in Item /\ LaneOf(seen[p][i]) \in Lanes
         /\ \A l \in Lanes : seen[p][i].link[l] \in 0..MaxIssues
         /\ PeerLinks(seen[p], i) \subseteq 0..MaxIssues
<1>1. seen[p] \in [Items -> Item]
  BY DEF TypeInv, RunInv
<1>2. \A j \in Items : seen[p][j] \in Item
  BY <1>1
<1>3. \A j \in Items, l \in Lanes : seen[p][j].link[l] \in 0..MaxIssues
  BY <1>2 DEF Item
<1>4. LaneOf(seen[p][i]) \in Lanes
  BY DEF LaneOf, Lanes
<1> QED
  BY <1>2, <1>3, <1>4 DEF PeerLinks, Peers

LEMMA EachTypes ==
  ASSUME TypeInv, NEW p \in Syncs, NEW i \in Items,
         DropStale(p, i) \/ Skip(p, i) \/ ReadLink(p, i) \/ ReadPeerLink(p, i)
            \/ SearchFor(p, i)
  PROVE  TypeInv'
<1>1. setup \in Setups /\ LocalOK /\ SharedOK
  BY TypeParts DEF TypeInv, TypeOK
<1>2. CASE DropStale(p, i)
  <2>1. Items' = Items /\ Item' = Item
    BY <1>2 DEF DropStale, Items, Item
  <2>2. WithoutRevalidation(items[i]) \in Item
    BY <1>1, WithoutType DEF SharedOK
  <2>3. SharedOK'
    BY <1>1, <1>2, <2>2, ItemTypes DEF DropStale, SharedOK
  <2>4. LocalOK'
    BY <1>1, <1>2, <2>1 DEF DropStale, Take, LocalOK, RunInv
  <2> QED
    BY <2>3, <2>4, TypePartsNext
<1>3. CASE Skip(p, i)
  <2>1. Items' = Items /\ Item' = Item
    BY <1>3 DEF Skip, Items, Item, state
  <2>2. SharedOK'
    BY <1>1, <1>3, SameTypes DEF Skip, SharedOK
  <2>3. LocalOK'
    BY <1>1, <1>3, <2>1 DEF Skip, Take, LocalOK, RunInv
  <2> QED
    BY <2>2, <2>3, TypePartsNext
<1>4. ASSUME NEW next \in {"view", "search"}, NEW n \in 0..MaxIssues,
             NEW needs \in {"none", "link", "pending"}, Proceed(p, i, next, n, needs)
      PROVE  TypeInv'
  <2>1. SharedOK'
    BY <1>1, <1>4, SameTypes DEF Proceed, SharedOK
  <2> QED
    BY <1>4, <2>1, ProceedTypes, TypePartsNext
<1>5. MaxIssues \in Nat
  BY QueueAssumption
<1>6. i \in todo[p] => pc[p] # "idle"
  BY DEF TypeInv, RunInv
<1>7. CASE ReadLink(p, i)
  BY <1>4, <1>6, <1>7, ReadLinks DEF ReadLink
<1>8. CASE ReadPeerLink(p, i)
  BY <1>4, <1>6, <1>8, ReadLinks DEF ReadPeerLink
<1>9. CASE SearchFor(p, i)
  BY <1>4, <1>5, <1>9 DEF SearchFor
<1> QED
  BY <1>2, <1>3, <1>7, <1>8, <1>9

LEMMA VerifiedTypes ==
  ASSUME TypeInv, NEW p \in Syncs, NEW n \in Verified(p) PROVE n \in 0..MaxIssues
BY QueueAssumption DEF TypeInv, TypeOK, Verified

LEMMA SyncTypes ==
  ASSUME TypeInv, NEW p \in Syncs, Sync(p) PROVE TypeInv'
<1>1. setup \in Setups /\ LocalOK /\ SharedOK
  BY TypeParts DEF TypeInv, TypeOK
<1>2. MaxIssues \in Nat /\ 0 \in 0..MaxIssues
  BY QueueAssumption
<1>3. \A i \in Items : items[i] \in Item
  BY <1>1 DEF SharedOK
<1>4. cur[p] \in Items
  BY <1>1 DEF LocalOK
<1>5. ASSUME UNCHANGED <<state, src, github>>, left' = left, req' \in [Syncs -> SUBSET Issue]
      PROVE  SharedOK'
  BY <1>1, <1>5, SameTypes DEF SharedOK
<1>6. req \in [Syncs -> SUBSET Issue]
  BY <1>1 DEF SharedOK
<1>7. CASE Start(p)
  BY <1>7, StartTypes
<1>8. CASE View(p)
  <2>1. SharedOK' /\ setup' = setup /\ Items' = Items /\ Item' = Item
    BY <1>5, <1>6, <1>8 DEF View, state, Items, Item
  <2>2. CASE Done(p)
    BY <1>8, <2>1, <2>2, DoneTypes, TypePartsNext DEF View
  <2>3. CASE pc' = [pc EXCEPT ![p] = "write"]
             /\ UNCHANGED <<stage, seen, todo, selectable, cur, target, expects>>
    BY <1>1, <1>8, <2>1, <2>3, TypePartsNext DEF View, LocalOK, RunInv
  <2> QED
    BY <1>8, <2>2, <2>3 DEF View
<1>9. CASE Search(p)
  <2> DEFINE i == cur[p]
  <2>1. SharedOK' /\ setup' = setup /\ Items' = Items /\ Item' = Item /\ pc[p] # "idle"
    BY <1>5, <1>6, <1>9 DEF Search, state, Items, Item
  <2>2. CASE Done(p)
    BY <2>1, <2>2, DoneTypes, TypePartsNext
  <2>3. ASSUME NEW n \in Verified(p), Go(p, "write", n, expects[p]) PROVE TypeInv'
    BY <1>1, <2>1, <2>3, VerifiedTypes, GoTypes, TypePartsNext DEF LocalOK
  <2>4. CASE Go(p, "create", 0, "none")
    BY <1>2, <2>1, <2>4, GoTypes, TypePartsNext
  <2>5. CASE /\ selectable' = [selectable EXCEPT ![p] = @ \cup {i}]
             /\ pc' = [pc EXCEPT ![p] = "each"]
             /\ cur' = [cur EXCEPT ![p] = CHOOSE j \in Items : TRUE]
             /\ UNCHANGED <<stage, seen, todo, target, expects>>
    BY <1>1, <1>4, <2>1, <2>5, SetupFacts, TypePartsNext DEF LocalOK, RunInv
  <2> QED
    BY <1>9, <2>2, <2>3, <2>4, <2>5 DEF Search
<1>10. CASE Select(p)
  <2>1. SharedOK' /\ setup' = setup /\ Items' = Items /\ Item' = Item
    BY <1>5, <1>6, <1>10 DEF Select, state, Items, Item
  <2>2. \E q \in {"record", "create"} : pc' = [pc EXCEPT ![p] = q]
    BY <1>10 DEF Select
  <2>3. cur' = cur \/ \E i \in Items : cur' = [cur EXCEPT ![p] = i]
    BY <1>1, <1>10 DEF Select, LocalOK
  <2>4. stage' = stage \/ stage' = [stage EXCEPT ![p] = "select"]
    BY <1>10 DEF Select
  <2>5. UNCHANGED <<seen, todo, selectable, target, expects>> /\ pc[p] = "each"
    BY <1>10 DEF Select
  <2>6. cur' \in [Syncs -> Items]
    BY <1>1, <2>3 DEF LocalOK
  <2>7. /\ pc' \in [Syncs -> {"idle", "each", "view", "search", "write", "create",
                              "call", "confirm", "record"}]
        /\ stage' \in [Syncs -> {"reconcile", "select"}]
    BY <1>1, <2>2, <2>4 DEF LocalOK
  <2>8. \A q \in Syncs : (pc'[q] = "idle") <=> (pc[q] = "idle")
    BY <1>1, <2>2, <2>5 DEF LocalOK
  <2>9. RunInv'
    BY <1>1, <2>1, <2>5, <2>8 DEF LocalOK, RunInv
  <2>10. LocalOK'
    BY <1>1, <2>1, <2>5, <2>6, <2>7, <2>9 DEF LocalOK
  <2> QED
    BY <2>1, <2>10, TypePartsNext
<1>11. CASE CreateReturns(p)
  <2>1. req' \in [Syncs -> SUBSET Issue]
    BY <1>6, <1>11 DEF CreateReturns
  <2>2. SharedOK' /\ setup' = setup /\ pc[p] # "idle"
    BY <1>5, <1>11, <2>1 DEF CreateReturns, state
  <2>3. CASE Done(p)
    BY <2>2, <2>3, DoneTypes, TypePartsNext
  <2>4. CASE Go(p, "confirm", 0, "pending")
    BY <1>2, <2>2, <2>4, GoTypes, TypePartsNext
  <2> QED
    BY <1>11, <2>3, <2>4 DEF CreateReturns
<1>12. CASE Confirm(p)
  <2>1. SharedOK' /\ setup' = setup /\ pc[p] # "idle"
    BY <1>5, <1>6, <1>12 DEF Confirm, state
  <2>2. CASE Done(p)
    BY <2>1, <2>2, DoneTypes, TypePartsNext
  <2>3. ASSUME NEW n \in Verified(p), Go(p, "write", n, "pending") PROVE TypeInv'
    BY <2>1, <2>3, VerifiedTypes, GoTypes, TypePartsNext
  <2> QED
    BY <1>12, <2>2, <2>3 DEF Confirm
<1>13. CASE RecordSelection(p)
  <2>1. SharedOK' /\ setup' = setup
    BY <1>5, <1>6, <1>13 DEF RecordSelection, state
  <2> QED
    BY <1>13, <2>1, ResetTypes, TypePartsNext DEF RecordSelection
<1>14. ASSUME setup' = setup, UNCHANGED <<copies, src, github, req, left>>,
              \/ items' = items
              \/ \E i \in Items, it \in Item : items' = [items EXCEPT ![i] = it]
       PROVE  SharedOK'
  BY <1>1, <1>14, SameTypes, ItemTypes DEF SharedOK, state
<1>15. CASE WriteLink(p)
  <2> DEFINE i == cur[p]
             lane == LaneOf(seen[p][i])
  <2>1. pc[p] # "idle" /\ setup' = setup /\ Done(p)
        /\ UNCHANGED <<copies, src, github, req, left>>
    BY <1>15 DEF WriteLink
  <2>2. lane \in Lanes
    BY DEF LaneOf, Lanes
  <2>3. target[p] \in 0..MaxIssues
    BY <1>1 DEF LocalOK
  <2>4. CASE items' = items
    BY <1>14, <2>1, <2>4, DoneTypes, TypePartsNext
  <2>5. CASE items' = [items EXCEPT ![i] = WithoutRevalidation(@)]
    <3>1. WithoutRevalidation(items[i]) \in Item
      BY <1>1, <1>3, <1>4, WithoutType
    <3> QED
      BY <1>4, <1>14, <2>1, <2>5, <3>1, DoneTypes, TypePartsNext
  <2>6. CASE items' = [items EXCEPT ![i] =
                 [@ EXCEPT !.link[lane] = target[p], !.pending[lane] = FALSE]]
    <3> DEFINE it == [items[i] EXCEPT !.link[lane] = target[p], !.pending[lane] = FALSE]
    <3>1. it \in Item
      BY <1>1, <1>3, <1>4, <2>2, <2>3, ItemChanges
    <3>2. items' = [items EXCEPT ![i] = it]
      BY <2>6
    <3> QED
      BY <1>4, <1>14, <2>1, <3>1, <3>2, DoneTypes, TypePartsNext
  <2> QED
    BY <1>15, <2>4, <2>5, <2>6 DEF WriteLink
<1>16. CASE CreateLocked(p)
  <2> DEFINE i == cur[p]
             lane == LaneOf(seen[p][i])
  <2>1. pc[p] # "idle" /\ setup' = setup /\ UNCHANGED <<copies, src, github, left>>
    BY <1>16 DEF CreateLocked
  <2>2. lane \in Lanes
    BY DEF LaneOf, Lanes
  <2>3. CASE UNCHANGED <<items, req>> /\ Done(p)
    BY <1>14, <2>1, <2>3, DoneTypes, TypePartsNext
  <2>4. CASE items' = [items EXCEPT ![i] = WithoutRevalidation(@)] /\ Done(p) /\ UNCHANGED req
    <3>1. WithoutRevalidation(items[i]) \in Item
      BY <1>1, <1>3, <1>4, WithoutType
    <3> QED
      BY <1>4, <1>14, <2>1, <2>4, <3>1, DoneTypes, TypePartsNext
  <2>5. CASE /\ items' = [items EXCEPT ![i].pending[lane] = TRUE]
             /\ req' = [req EXCEPT ![p] = @ \cup {RequestOf(p)}]
             /\ Go(p, "call", 0, "pending")
    <3> DEFINE it == [items[i] EXCEPT !.pending[lane] = TRUE]
    <3>1. it \in Item
      BY <1>1, <1>3, <1>4, <2>2, ItemChanges
    <3>2. items' = [items EXCEPT ![i] = it]
      BY <1>1, <1>3, <1>4, <2>5 DEF SharedOK
    <3>3. RequestOf(p) \in Issue
      BY <1>1, <1>4, <2>2, SetupFacts DEF RequestOf, Issue
    <3>4. req' \in [Syncs -> SUBSET Issue]
      BY <1>6, <2>5, <3>3
    <3>5. items' \in [Items -> Item] /\ Items' = Items /\ Item' = Item
      BY <1>1, <1>4, <2>1, <3>1, <3>2 DEF SharedOK, Items, Item
    <3>6. SharedOK'
      BY <1>1, <2>1, <3>4, <3>5 DEF SharedOK, github
    <3> QED
      BY <1>2, <2>1, <2>5, <3>6, GoTypes, TypePartsNext
  <2> QED
    BY <1>16, <2>3, <2>4, <2>5 DEF CreateLocked
<1> QED
  BY <1>7, <1>8, <1>9, <1>10, <1>11, <1>12, <1>13, <1>15, <1>16, EachTypes DEF Sync

LEMMA LeftTypes ==
  ASSUME left \in [scans: Nat, recovers: Nat, kills: Nat],
         \/ left' = left
         \/ left.scans > 0 /\ left' = [left EXCEPT !.scans = @ - 1]
         \/ left.recovers > 0 /\ left' = [left EXCEPT !.recovers = @ - 1]
         \/ left.kills > 0 /\ left' = [left EXCEPT !.kills = @ - 1]
  PROVE  left' \in [scans: Nat, recovers: Nat, kills: Nat]
OBVIOUS

LEMMA CommandTypes ==
  ASSUME TypeInv, NEW i \in Items, Revalidate(i) \/ Rescan(i) \/ Resolve(i) \/ Commit(i)
  PROVE  TypeInv'
<1>1. setup \in Setups /\ LocalOK /\ SharedOK /\ items[i] \in Item
  BY TypeParts DEF TypeInv, TypeOK
<1>2. UNCHANGED <<setup, copies, github, req, local>>
  BY DEF Revalidate, Rescan, Resolve, Commit, state
<1>3. LocalOK'
  BY <1>2, LocalSame
<1>4. CASE Revalidate(i)
  <2>1. src[i] \in 0..setup.edits
    BY <1>1 DEF SharedOK
  <2>2. [items[i] EXCEPT !.revEv = items[i].ev, !.revSrc = src[i]] \in Item
    BY <1>1, <2>1, ItemChanges DEF Lanes
  <2>3. WithoutRevalidation(items[i]) \in Item
    BY <1>1, WithoutType
  <2>4. \E it \in Item : items' = [items EXCEPT ![i] = it]
    BY <1>4, <2>2, <2>3 DEF Revalidate
  <2>5. src' = src /\ left' \in [scans: Nat, recovers: Nat, kills: Nat]
    BY <1>1, <1>4, LeftTypes DEF Revalidate, SharedOK
  <2> QED
    BY <1>2, <1>3, <2>4, <2>5, ItemTypes, TypePartsNext
<1>5. CASE Rescan(i)
  <2>1. PICK e \in {items[i].ev, items[i].ev + 1} \cap (1..setup.evidence), k \in Kinds :
           items' = [items EXCEPT ![i] =
               [(IF e = items[i].ev THEN items[i]
                 ELSE WithoutRevalidation(items[i])) EXCEPT
                    !.open = TRUE, !.ev = e, !.kind = k,
                    !.changed = e # items[i].ev /\ i \notin Findings]]
    BY <1>5 DEF Rescan
  <2> DEFINE it == IF e = items[i].ev THEN items[i] ELSE WithoutRevalidation(items[i])
             c == e # items[i].ev /\ i \notin Findings
  <2>2. it \in Item
    BY <1>1, WithoutType
  <2>3. c \in BOOLEAN /\ e \in 1..setup.evidence
    OBVIOUS
  <2>4. [it EXCEPT !.open = TRUE, !.ev = e, !.kind = k, !.changed = c] \in Item
    <3> HIDE DEF it, c
    <3> QED
      BY <1>1, <2>2, <2>3, ItemChanges DEF Lanes
  <2>5. items' = [items EXCEPT ![i] =
                     [it EXCEPT !.open = TRUE, !.ev = e, !.kind = k, !.changed = c]]
    BY <2>1
  <2>6. src' = src /\ left' \in [scans: Nat, recovers: Nat, kills: Nat]
    BY <1>1, <1>5, LeftTypes DEF Rescan, SharedOK
  <2> HIDE DEF it, c
  <2> QED
    BY <1>2, <1>3, <2>4, <2>5, <2>6, ItemTypes, TypePartsNext
<1>6. CASE Resolve(i)
  <2>1. [items[i] EXCEPT !.open = FALSE] \in Item
    BY <1>1, ItemChanges DEF Lanes
  <2>2. items' = [items EXCEPT ![i] = [items[i] EXCEPT !.open = FALSE]]
    BY <1>6 DEF Resolve
  <2>3. src' = src /\ left' \in [scans: Nat, recovers: Nat, kills: Nat]
    BY <1>1, <1>6, LeftTypes DEF Resolve, SharedOK
  <2> QED
    BY <1>2, <1>3, <2>1, <2>2, <2>3, ItemTypes, TypePartsNext
<1>7. CASE Commit(i)
  <2>1. src' \in [Items -> 0..setup.edits]
    BY <1>1, <1>7, SetupFacts DEF Commit, SharedOK
  <2>2. Items' = Items /\ Item' = Item /\ items' = items /\ left' = left
    BY <1>2, <1>7 DEF Commit, state, Items, Item
  <2>3. SharedOK'
    BY <1>1, <1>2, <2>1, <2>2 DEF SharedOK, github
  <2> QED
    BY <1>3, <2>3, TypePartsNext
<1> QED
  BY <1>4, <1>5, <1>6, <1>7

LEMMA TypeNext == TypeInv /\ [Next]_vars => TypeInv'
<1> SUFFICES ASSUME TypeInv, [Next]_vars PROVE TypeInv'
  OBVIOUS
<1>1. setup \in Setups /\ LocalOK /\ SharedOK
  BY TypeParts DEF TypeInv, TypeOK
<1>2. ASSUME setup' = setup, UNCHANGED local, SharedOK' PROVE TypeInv'
  BY <1>2, LocalSame, TypePartsNext
<1>3. CASE UNCHANGED vars
  <2>1. Items' = Items /\ Item' = Item
    BY <1>3 DEF vars, state, Items, Item
  <2> QED
    BY <1>1, <1>2, <1>3, <2>1 DEF vars, state, github, SharedOK
<1>4. ASSUME NEW p \in Syncs, Kill(p) PROVE TypeInv'
  <2>1. left' \in [scans: Nat, recovers: Nat, kills: Nat]
    BY <1>1, <1>4, LeftTypes DEF Kill, SharedOK
  <2>2. setup' = setup /\ req' \in [Syncs -> SUBSET Issue]
    BY <1>1, <1>4 DEF Kill, SharedOK, state
  <2>3. SharedOK'
    BY <1>4, <2>1, <2>2, SameTypes DEF Kill
  <2> QED
    BY <1>4, <2>2, <2>3, ResetTypes, TypePartsNext DEF Kill
<1>5. ASSUME NEW p \in Syncs, GitHubCreates(p) PROVE TypeInv'
  <2>1. PICK r \in req[p] : issues' = Append(issues, r) /\ req' = [req EXCEPT ![p] = @ \ {r}]
    BY <1>5 DEF GitHubCreates
  <2>2. r \in Issue /\ req' \in [Syncs -> SUBSET Issue]
    BY <1>1, <2>1 DEF SharedOK
  <2>3. issues' \in Seq(Issue) /\ Len(issues') = Len(issues) + 1
        /\ DOMAIN issues = 1..Len(issues) /\ DOMAIN issues' = 1..Len(issues')
        /\ Len(issues) \in Nat
    BY <1>1, <2>1, <2>2 DEF SharedOK
  <2>4. Len(issues') <= MaxIssues
    BY <1>1, <1>5, <2>3, QueueAssumption DEF GitHubCreates
  <2>5. indexed' \subseteq indexed \cup {Len(issues) + 1}
    BY <1>5 DEF GitHubCreates
  <2>6. indexed' \subseteq DOMAIN issues'
    BY <1>1, <2>3, <2>5 DEF SharedOK
  <2>7. UNCHANGED <<state, src, local, left>> /\ Items' = Items /\ Item' = Item
    BY <1>5 DEF GitHubCreates, state, Items, Item
  <2>8. SharedOK'
    BY <1>1, <2>2, <2>3, <2>4, <2>6, <2>7 DEF SharedOK, state
  <2> QED
    BY <1>2, <2>7, <2>8 DEF state
<1>6. ASSUME NEW p \in Syncs, RequestIsLost(p) PROVE TypeInv'
  <2>1. req' \in [Syncs -> SUBSET Issue] /\ left' \in [scans: Nat, recovers: Nat, kills: Nat]
    BY <1>1, <1>6, LeftTypes DEF RequestIsLost, SharedOK
  <2> QED
    BY <1>2, <1>6, <2>1, SameTypes DEF RequestIsLost, state
<1>7. ASSUME NEW k \in Keys, Recover(k) PROVE TypeInv'
  <2>1. \A i \in Items : [items[i] EXCEPT !.pending = [l \in Lanes |-> FALSE]] \in Item
    BY <1>1, ItemChanges DEF SharedOK, Lanes
  <2>2. items' \in [Items -> Item]
    BY <1>1, <1>7, <2>1 DEF Recover, SharedOK
  <2>3. left' \in [scans: Nat, recovers: Nat, kills: Nat]
    BY <1>1, <1>7, LeftTypes DEF Recover, SharedOK
  <2>4. UNCHANGED <<setup, copies, src, github, req, local>> /\ Items' = Items /\ Item' = Item
    BY <1>7 DEF Recover, Items, Item
  <2>5. SharedOK'
    BY <1>1, <2>2, <2>3, <2>4 DEF SharedOK, github
  <2> QED
    BY <1>2, <2>4, <2>5
<1>8. CASE LoadCopy
  <2>1. left' \in [scans: Nat, recovers: Nat, kills: Nat]
    BY <1>1, <1>8, LeftTypes DEF LoadCopy, SharedOK
  <2>2. copies' \in [1..1 -> [Items -> Item]]
    BY <1>1, <1>8 DEF LoadCopy, SharedOK
  <2>3. UNCHANGED <<setup, items, src, github, req, local>> /\ Items' = Items /\ Item' = Item
    BY <1>8 DEF LoadCopy, Items, Item
  <2>4. SharedOK'
    BY <1>1, <2>1, <2>2, <2>3 DEF SharedOK, github
  <2> QED
    BY <1>2, <2>3, <2>4
<1>9. CASE SaveCopy
  <2>1. items' \in [Items -> Item] /\ copies' = <<>>
    BY <1>1, <1>9 DEF SaveCopy, SharedOK
  <2>2. UNCHANGED <<setup, src, github, req, local, left>> /\ Items' = Items /\ Item' = Item
    BY <1>9 DEF SaveCopy, Items, Item
  <2>3. SharedOK'
    BY <1>1, <2>1, <2>2 DEF SharedOK, github
  <2> QED
    BY <1>2, <2>2, <2>3
<1>10. CASE Index
  <2>1. indexed' \subseteq DOMAIN issues
    BY <1>1, <1>10 DEF Index, SharedOK
  <2>2. UNCHANGED <<state, src, issues, req, local, left>> /\ Items' = Items /\ Item' = Item
    BY <1>10 DEF Index, Items, Item, state
  <2>3. SharedOK'
    BY <1>1, <2>1, <2>2 DEF SharedOK, state
  <2> QED
    BY <1>2, <2>2, <2>3 DEF state
<1> QED
  BY <1>3, <1>4, <1>5, <1>6, <1>7, <1>8, <1>9, <1>10, SyncTypes, CommandTypes DEF Next

LEMMA TypeCorrect == Spec => []TypeInv
BY TypeInit, TypeNext, PTL DEF Spec

-----------------------------------------------------------------------------
(* What a step does to the records and to GitHub *)

SameRecords ==
    \A i \in Items : items'[i].link = items[i].link /\ items'[i].pending = items[i].pending

\* Links, a create and a recover change records; the rest leaves them, and what
\* it does to requests and to the index only loses and adds.
Quiet ==
    /\ SameRecords /\ issues' = issues /\ indexed \subseteq indexed'
    /\ \A p \in Syncs : req'[p] \subseteq req[p]
    /\ left'.recovers = left.recovers
    /\ copies' = copies \/ (setup.unlocked /\ copies' = <<items>> /\ items' = items)

Links(p) ==
    LET lane == LaneOf(seen[p][cur[p]]) IN
    /\ pc[p] = "write"
    /\ items' = [items EXCEPT ![cur[p]] =
                    [@ EXCEPT !.link[lane] = target[p], !.pending[lane] = FALSE]]
    /\ Done(p)
    /\ UNCHANGED <<setup, copies, src, github, req, left>>

Sends(p) ==
    /\ pc[p] = "create" /\ MayCreate(p, cur[p])
    /\ items' = [items EXCEPT ![cur[p]].pending[LaneOf(seen[p][cur[p]])] = TRUE]
    /\ req' = [req EXCEPT ![p] = @ \cup {RequestOf(p)}]
    /\ Go(p, "call", 0, "pending")
    /\ UNCHANGED <<setup, copies, src, github, left>>

RecordStep ==
    \/ Quiet
    \/ \E p \in Syncs : Links(p) \/ Sends(p) \/ GitHubCreates(p)
    \/ \E k \in Keys : Recover(k)
    \/ SaveCopy

LEMMA SameWithout ==
  ASSUME TypeInv, NEW i \in Items, items' = [items EXCEPT ![i] = WithoutRevalidation(@)]
  PROVE  SameRecords
<1>1. items \in [Items -> Item]
  BY DEF TypeInv, TypeOK
<1>2. items[i] \in Item
  BY <1>1
<1>3. WithoutRevalidation(items[i]).link = items[i].link
      /\ WithoutRevalidation(items[i]).pending = items[i].pending
  BY <1>2 DEF WithoutRevalidation, Item
<1> QED
  BY <1>1, <1>3 DEF SameRecords

LEMMA SyncSteps ==
  ASSUME TypeInv, NEW p \in Syncs, Sync(p) PROVE setup' = setup /\ RecordStep
<1>1. cur[p] \in Items /\ req \in [Syncs -> SUBSET Issue]
  BY DEF TypeInv, TypeOK
<1>2. ASSUME UNCHANGED <<state, github, left>>, \A q \in Syncs : req'[q] \subseteq req[q]
      PROVE  setup' = setup /\ RecordStep
  BY <1>2 DEF RecordStep, Quiet, SameRecords, state, github
<1>3. ASSUME SameRecords, UNCHANGED <<setup, copies, github, req, left>>
      PROVE  setup' = setup /\ RecordStep
  BY <1>3 DEF RecordStep, Quiet, github
<1>4. CASE Start(p) \/ View(p) \/ Search(p) \/ Select(p) \/ Confirm(p) \/ RecordSelection(p)
  BY <1>2, <1>4 DEF Start, View, Search, Select, Confirm, RecordSelection
<1>5. CASE CreateReturns(p)
  <2>1. \A q \in Syncs : req'[q] \subseteq req[q]
    BY <1>1, <1>5 DEF CreateReturns
  <2> QED
    BY <1>2, <1>5, <2>1 DEF CreateReturns
<1>6. ASSUME NEW i \in Items, DropStale(p, i) PROVE setup' = setup /\ RecordStep
  BY <1>3, <1>6, SameWithout DEF DropStale
<1>7. ASSUME NEW i \in Items,
             Skip(p, i) \/ ReadLink(p, i) \/ ReadPeerLink(p, i) \/ SearchFor(p, i)
      PROVE  setup' = setup /\ RecordStep
  BY <1>2, <1>7 DEF Skip, ReadLink, ReadPeerLink, SearchFor, Proceed
<1>8. CASE WriteLink(p)
  <2>1. CASE items' = items
    BY <1>3, <1>8, <2>1 DEF WriteLink, SameRecords
  <2>2. CASE items' = [items EXCEPT ![cur[p]] = WithoutRevalidation(@)]
    BY <1>1, <1>3, <1>8, <2>2, SameWithout DEF WriteLink
  <2>3. CASE Links(p)
    BY <2>3 DEF RecordStep, Links
  <2> QED
    BY <1>8, <2>1, <2>2, <2>3 DEF WriteLink, Links
<1>9. CASE CreateLocked(p)
  <2>1. CASE UNCHANGED <<items, req>>
    BY <1>3, <1>9, <2>1 DEF CreateLocked, SameRecords
  <2>2. CASE items' = [items EXCEPT ![cur[p]] = WithoutRevalidation(@)] /\ req' = req
    BY <1>1, <1>3, <1>9, <2>2, SameWithout DEF CreateLocked
  <2>3. CASE Sends(p)
    BY <2>3 DEF RecordStep, Sends
  <2> QED
    BY <1>9, <2>1, <2>2, <2>3 DEF CreateLocked, Sends
<1> QED
  BY <1>4, <1>5, <1>6, <1>7, <1>8, <1>9 DEF Sync

LEMMA Steps ==
  ASSUME TypeInv, [Next]_vars PROVE setup' = setup /\ RecordStep
<1>1. items \in [Items -> Item] /\ left \in [scans: Nat, recovers: Nat, kills: Nat]
      /\ req \in [Syncs -> SUBSET Issue]
  BY DEF TypeInv, TypeOK
<1>2. \A i \in Items : items[i] \in Item
  BY <1>1
<1>3. ASSUME SameRecords, UNCHANGED <<setup, copies, github, req>>,
             left'.recovers = left.recovers
      PROVE  setup' = setup /\ RecordStep
  BY <1>3 DEF RecordStep, Quiet, github
<1>4. CASE UNCHANGED vars
  BY <1>3, <1>4 DEF vars, state, SameRecords
<1>5. ASSUME NEW p \in Syncs, Kill(p) PROVE setup' = setup /\ RecordStep
  BY <1>1, <1>3, <1>5 DEF Kill, state, SameRecords
<1>6. ASSUME NEW p \in Syncs, GitHubCreates(p) PROVE setup' = setup /\ RecordStep
  BY <1>6 DEF GitHubCreates, state, RecordStep
<1>7. ASSUME NEW p \in Syncs, RequestIsLost(p) PROVE setup' = setup /\ RecordStep
  BY <1>1, <1>7 DEF RequestIsLost, RecordStep, Quiet, SameRecords, state, github
<1>8. ASSUME NEW i \in Items, Revalidate(i) PROVE setup' = setup /\ RecordStep
  <2>1. CASE items' = [items EXCEPT ![i] = WithoutRevalidation(@)]
    BY <1>3, <1>8, <2>1, SameWithout DEF Revalidate
  <2>2. CASE items' = [items EXCEPT ![i] = [@ EXCEPT !.revEv = items[i].ev, !.revSrc = src[i]]]
    <3>1. [items[i] EXCEPT !.revEv = items[i].ev, !.revSrc = src[i]].link = items[i].link
          /\ [items[i] EXCEPT !.revEv = items[i].ev, !.revSrc = src[i]].pending
                = items[i].pending
      BY <1>2 DEF Item
    <3>2. SameRecords
      BY <1>1, <2>2, <3>1 DEF SameRecords
    <3> QED
      BY <1>3, <1>8, <3>2 DEF Revalidate
  <2> QED
    BY <1>8, <2>1, <2>2 DEF Revalidate
<1>9. ASSUME NEW i \in Items, Rescan(i) PROVE setup' = setup /\ RecordStep
  <2>1. PICK e \in {items[i].ev, items[i].ev + 1} \cap (1..setup.evidence), k \in Kinds :
           items' = [items EXCEPT ![i] =
               [(IF e = items[i].ev THEN items[i]
                 ELSE WithoutRevalidation(items[i])) EXCEPT
                    !.open = TRUE, !.ev = e, !.kind = k,
                    !.changed = e # items[i].ev /\ i \notin Findings]]
    BY <1>9 DEF Rescan
  <2> DEFINE it == IF e = items[i].ev THEN items[i] ELSE WithoutRevalidation(items[i])
             c == e # items[i].ev /\ i \notin Findings
  <2>2. it \in Item
    BY <1>2, WithoutType DEF TypeInv, TypeOK
  <2>3. it.link = items[i].link /\ it.pending = items[i].pending
    BY <1>2 DEF WithoutRevalidation, Item
  <2>4. items' = [items EXCEPT ![i] =
                     [it EXCEPT !.open = TRUE, !.ev = e, !.kind = k, !.changed = c]]
    BY <2>1
  <2> HIDE DEF it, c
  <2>5. [it EXCEPT !.open = TRUE, !.ev = e, !.kind = k, !.changed = c].link = it.link
        /\ [it EXCEPT !.open = TRUE, !.ev = e, !.kind = k, !.changed = c].pending = it.pending
    BY <2>2 DEF Item
  <2>6. SameRecords
    BY <1>1, <2>3, <2>4, <2>5 DEF SameRecords
  <2>7. left'.recovers = left.recovers
    BY <1>1, <1>9 DEF Rescan
  <2> QED
    BY <1>3, <1>9, <2>6, <2>7 DEF Rescan
<1>10. ASSUME NEW i \in Items, Resolve(i) PROVE setup' = setup /\ RecordStep
  <2>1. [items[i] EXCEPT !.open = FALSE].link = items[i].link
        /\ [items[i] EXCEPT !.open = FALSE].pending = items[i].pending
    BY <1>2 DEF Item
  <2>2. items' = [items EXCEPT ![i] = [items[i] EXCEPT !.open = FALSE]]
    BY <1>10 DEF Resolve
  <2>3. SameRecords
    BY <1>1, <2>1, <2>2 DEF SameRecords
  <2>4. left'.recovers = left.recovers
    BY <1>1, <1>10 DEF Resolve
  <2> QED
    BY <1>3, <1>10, <2>3, <2>4 DEF Resolve
<1>11. ASSUME NEW i \in Items, Commit(i) PROVE setup' = setup /\ RecordStep
  BY <1>3, <1>11 DEF Commit, state, SameRecords
<1>12. ASSUME NEW k \in Keys, Recover(k) PROVE setup' = setup /\ RecordStep
  BY <1>12 DEF Recover, RecordStep
<1>13. CASE LoadCopy
  BY <1>1, <1>13 DEF LoadCopy, RecordStep, Quiet, SameRecords, github
<1>14. CASE SaveCopy
  BY <1>14 DEF SaveCopy, RecordStep
<1>15. CASE Index
  BY <1>15 DEF Index, RecordStep, Quiet, SameRecords, state
<1> QED
  BY <1>4, <1>5, <1>6, <1>7, <1>8, <1>9, <1>10, <1>11, <1>12, <1>13, <1>14, <1>15, SyncSteps
     DEF Next

LEMMA LinksEffect ==
  ASSUME TypeInv, NEW p \in Syncs, Links(p)
  PROVE  LET i == cur[p]
             lane == LaneOf(seen[p][i]) IN
         /\ i \in Items /\ lane \in Lanes /\ pc[p] = "write"
         /\ \A j \in Items, l \in Lanes :
               /\ items'[j].link[l] = IF j = i /\ l = lane THEN target[p] ELSE items[j].link[l]
               /\ items'[j].pending[l] = (items[j].pending[l] /\ ~(j = i /\ l = lane))
<1> DEFINE i == cur[p]
           lane == LaneOf(seen[p][i])
           it == [items[i] EXCEPT !.link[lane] = target[p], !.pending[lane] = FALSE]
<1>1. i \in Items /\ items \in [Items -> Item]
  BY DEF TypeInv, TypeOK
<1>2. lane \in Lanes
  BY DEF LaneOf, Lanes
<1>3. items[i] \in Item
  BY <1>1
<1>4. items[i].link \in [Lanes -> 0..MaxIssues] /\ items[i].pending \in [Lanes -> BOOLEAN]
  BY <1>3 DEF Item
<1>5. it.link = [items[i].link EXCEPT ![lane] = target[p]]
      /\ it.pending = [items[i].pending EXCEPT ![lane] = FALSE]
  BY <1>3 DEF Item
<1>6. items' = [items EXCEPT ![i] = it] /\ pc[p] = "write"
  BY DEF Links
<1>7. \A j \in Items : items[j].pending \in [Lanes -> BOOLEAN]
  BY <1>1 DEF Item
<1> HIDE DEF it, lane, i
<1>8. ASSUME NEW j \in Items, NEW l \in Lanes
      PROVE  /\ items'[j].link[l] = IF j = i /\ l = lane THEN target[p] ELSE items[j].link[l]
             /\ items'[j].pending[l] = (items[j].pending[l] /\ ~(j = i /\ l = lane))
  <2>1. CASE j = i
    <3>1. items'[j].link = it.link /\ items'[j].pending = it.pending
      BY <1>1, <1>6, <2>1
    <3>2. items[i].pending[l] \in BOOLEAN
      BY <1>4
    <3>3. items'[j].link[l] = IF l = lane THEN target[p] ELSE items[i].link[l]
      BY <1>2, <1>4, <1>5, <3>1
    <3>4. items'[j].pending[l] = IF l = lane THEN FALSE ELSE items[i].pending[l]
      BY <1>2, <1>4, <1>5, <3>1
    <3> QED
      BY <2>1, <3>2, <3>3, <3>4
  <2>2. CASE j # i
    <3>1. items'[j] = items[j] /\ items[j].pending[l] \in BOOLEAN
      BY <1>1, <1>6, <1>7, <2>2
    <3> QED
      BY <2>2, <3>1
  <2> QED
    BY <2>1, <2>2
<1> QED
  BY <1>1, <1>2, <1>6, <1>8 DEF i, lane

LEMMA SendsEffect ==
  ASSUME TypeInv, NEW p \in Syncs, Sends(p)
  PROVE  LET i == cur[p]
             lane == LaneOf(seen[p][i]) IN
         /\ i \in Items /\ lane \in Lanes /\ RequestOf(p) = [key |-> KeyOf[i], lane |-> lane]
         /\ lane = "repair" => PendingRepairs(items) = {}
         /\ ~HasRecord(items[i]) /\ ~KeyClaimedElsewhere(items, i)
         /\ \A j \in Items, l \in Lanes :
               /\ items'[j].link[l] = items[j].link[l]
               /\ items'[j].pending[l] = (items[j].pending[l] \/ (j = i /\ l = lane))
<1> DEFINE i == cur[p]
           lane == LaneOf(seen[p][i])
           it == [items[i] EXCEPT !.pending[lane] = TRUE]
<1>1. i \in Items /\ items \in [Items -> Item]
  BY DEF TypeInv, TypeOK
<1>2. lane \in Lanes
  BY DEF LaneOf, Lanes
<1>3. \A j \in Items : items[j] \in Item
  BY <1>1
<1>4. \A j \in Items : items[j].pending \in [Lanes -> BOOLEAN]
  BY <1>3 DEF Item
<1>5. it.link = items[i].link /\ it.pending = [items[i].pending EXCEPT ![lane] = TRUE]
  BY <1>1, <1>3 DEF Item
<1>6. items' = [items EXCEPT ![i] = it] /\ MayCreate(p, i) /\ pc[p] = "create"
  BY <1>1 DEF Sends
<1>7. lane = "repair" => PendingRepairs(items) = {}
  <2>1. seen[p][i] \in Item
    BY <1>1, <1>6 DEF TypeInv, RunInv
  <2>2. lane = "repair" => seen[p][i].kind = "small_repair"
    BY <2>1 DEF Item, LaneOf, Kinds
  <2> QED
    BY <1>6, <2>2 DEF MayCreate
<1>8. ~HasRecord(items[i]) /\ ~KeyClaimedElsewhere(items, i)
      /\ RequestOf(p) = [key |-> KeyOf[i], lane |-> lane]
  BY <1>6 DEF MayCreate, RequestOf
<1> HIDE DEF it, lane, i
<1>9. ASSUME NEW j \in Items, NEW l \in Lanes
      PROVE  /\ items'[j].link[l] = items[j].link[l]
             /\ items'[j].pending[l] = (items[j].pending[l] \/ (j = i /\ l = lane))
  <2>1. items[j].pending[l] \in BOOLEAN
    BY <1>4
  <2>2. CASE j = i
    <3>1. items'[j].link = items[i].link /\ items'[j].pending = it.pending
      BY <1>1, <1>5, <1>6, <2>2
    <3>2. items'[j].pending[l] = IF l = lane THEN TRUE ELSE items[j].pending[l]
      BY <1>2, <1>4, <1>5, <2>2, <3>1
    <3> QED
      BY <2>1, <2>2, <3>1, <3>2
  <2>3. CASE j # i
    <3>1. items'[j] = items[j]
      BY <1>1, <1>6, <2>3
    <3> QED
      BY <2>1, <2>3, <3>1
  <2> QED
    BY <2>2, <2>3
<1> QED
  BY <1>1, <1>2, <1>7, <1>8, <1>9 DEF i, lane

LEMMA RecoverEffect ==
  ASSUME TypeInv, NEW k \in Keys, Recover(k)
  PROVE  \A j \in Items, l \in Lanes :
            /\ items'[j].link[l] = items[j].link[l]
            /\ items'[j].pending[l] = (items[j].pending[l] /\ KeyOf[j] # k)
<1>1. \A j \in Items : items[j] \in Item
  BY DEF TypeInv, TypeOK
<1>2. \A j \in Items : items[j].pending \in [Lanes -> BOOLEAN]
  BY <1>1 DEF Item
<1> SUFFICES ASSUME NEW j \in Items, NEW l \in Lanes
             PROVE  /\ items'[j].link[l] = items[j].link[l]
                    /\ items'[j].pending[l] = (items[j].pending[l] /\ KeyOf[j] # k)
  OBVIOUS
<1>3. items[j].pending[l] \in BOOLEAN
  BY <1>2
<1>4. CASE KeyOf[j] = k
  <2>1. items'[j] = [items[j] EXCEPT !.pending = [m \in Lanes |-> FALSE]]
    BY <1>4 DEF Recover
  <2>2. items'[j].link = items[j].link /\ items'[j].pending = [m \in Lanes |-> FALSE]
    BY <1>1, <2>1 DEF Item
  <2>3. items'[j].pending[l] = FALSE
    BY <2>2
  <2> QED
    BY <1>3, <1>4, <2>2, <2>3
<1>5. CASE KeyOf[j] # k
  <2>1. items'[j] = items[j]
    BY <1>5 DEF Recover
  <2> QED
    BY <1>3, <1>5, <2>1
<1> QED
  BY <1>4, <1>5

-----------------------------------------------------------------------------
(* One pending repair *)

OnePending(st) == \A i, j \in PendingRepairs(st) : i = j

\* In the file, and in a copy a command may still put back.
PendingInv == OnePending(items) /\ (copies # <<>> => OnePending(copies[1]))

LEMMA PendingInit == Init => PendingInv
BY DEF Init, PendingInv, OnePending, PendingRepairs, Lanes

LEMMA PendingNext == TypeInv /\ PendingInv /\ [Next]_vars => PendingInv'
<1> SUFFICES ASSUME TypeInv, PendingInv, [Next]_vars PROVE PendingInv'
  OBVIOUS
<1>1. setup' = setup /\ RecordStep
  BY Steps
<1>2. Items' = Items /\ "repair" \in Lanes
  BY <1>1 DEF Items, Lanes
<1>3. ASSUME \A i \in Items : items'[i].pending["repair"] => items[i].pending["repair"],
             copies' = copies
      PROVE  PendingInv'
  BY <1>2, <1>3 DEF PendingInv, OnePending, PendingRepairs
<1>4. CASE Quiet
  <2>1. \A i \in Items : items'[i].pending["repair"] = items[i].pending["repair"]
    BY <1>4 DEF Quiet, SameRecords
  <2>2. CASE copies' = copies
    BY <1>3, <2>1, <2>2
  <2>3. CASE copies' = <<items>> /\ items' = items
    <3>1. copies'[1] = items
      BY <2>3
    <3> QED
      BY <1>2, <2>3, <3>1 DEF PendingInv, OnePending, PendingRepairs
  <2> QED
    BY <1>4, <2>2, <2>3 DEF Quiet
<1>5. ASSUME NEW p \in Syncs, Links(p) PROVE PendingInv'
  <2>1. copies' = copies
    BY <1>5 DEF Links
  <2> QED
    BY <1>2, <1>3, <1>5, <2>1, LinksEffect
<1>6. ASSUME NEW p \in Syncs, Sends(p) PROVE PendingInv'
  <2> DEFINE i == cur[p]
             lane == LaneOf(seen[p][i])
  <2>1. copies' = copies
    BY <1>6 DEF Sends
  <2>2. lane = "repair" => PendingRepairs(items) = {}
    BY <1>6, SendsEffect
  <2>3. \A j \in Items : items'[j].pending["repair"]
                           = (items[j].pending["repair"] \/ (j = i /\ "repair" = lane))
    BY <1>2, <1>6, SendsEffect
  <2> HIDE DEF i, lane
  <2>4. CASE lane = "repair"
    <3>1. \A j \in PendingRepairs(items)' : j = i
      BY <1>2, <2>2, <2>3, <2>4 DEF PendingRepairs
    <3>2. PendingRepairs(copies[1])' = PendingRepairs(copies[1])
      BY <1>2, <2>1 DEF PendingRepairs
    <3> QED
      BY <2>1, <3>1, <3>2 DEF PendingInv, OnePending
  <2>5. CASE lane # "repair"
    BY <1>3, <2>1, <2>3, <2>5
  <2> QED
    BY <2>4, <2>5
<1>7. ASSUME NEW p \in Syncs, GitHubCreates(p) PROVE PendingInv'
  BY <1>3, <1>7 DEF GitHubCreates, state
<1>8. ASSUME NEW k \in Keys, Recover(k) PROVE PendingInv'
  <2>1. copies' = copies
    BY <1>8 DEF Recover
  <2> QED
    BY <1>2, <1>3, <1>8, <2>1, RecoverEffect
<1>9. CASE SaveCopy
  BY <1>2, <1>9 DEF SaveCopy, PendingInv, OnePending, PendingRepairs
<1> QED
  BY <1>1, <1>4, <1>5, <1>6, <1>7, <1>8, <1>9 DEF RecordStep

\* An unresolved repair publication stops every other one (ADR 0014): the lock
\* makes the check and the pending record one step, and no command that puts an
\* old copy of the file back can bring a second record with it.
THEOREM OnePendingCorrect == Spec => []OnePendingRepair
<1>1. PendingInv => OnePendingRepair
  BY DEF PendingInv, OnePending, OnePendingRepair
<1> QED
  BY <1>1, PendingInit, PendingNext, TypeCorrect, PTL DEF Spec

-----------------------------------------------------------------------------
(* Records and links *)

\* No command has recovered a key yet.
Unrecovered == left.recovers = setup.recovers

\* Every link, stored, read or about to be stored, names an issue of its key
\* and lane.
LinkInv ==
    /\ Locked => copies = <<>>
    /\ copies # <<>> =>
        \A i \in Items, l \in Lanes :
            copies[1][i].link[l] # 0 => copies[1][i].link[l] \in Published(KeyOf[i], l)
    /\ \A i \in Items, l \in Lanes :
        items[i].link[l] # 0 => items[i].link[l] \in Published(KeyOf[i], l)
    /\ \A p \in Syncs :
        /\ pc[p] # "idle" =>
            \A i \in Items, l \in Lanes :
                seen[p][i].link[l] # 0 => seen[p][i].link[l] \in Published(KeyOf[i], l)
        /\ pc[p] \in {"view", "write"} =>
            target[p] \in Published(KeyOf[cur[p]], LaneOf(seen[p][cur[p]]))

\* An item of the key holds a record in the lane.
Recorded(k, l) == \E i \in Items : KeyOf[i] = k /\ HoldsIn(items[i], l)

\* What was sent has a record until a recover, and the records of one key are
\* all in one lane.
RecordInv ==
    /\ left.recovers <= setup.recovers
    /\ Unrecovered =>
        /\ \A k \in Keys, l \in Lanes :
            Published(k, l) \cup Requested(k, l) # {} => Recorded(k, l)
        /\ \A k \in Keys, l, m \in Lanes : Recorded(k, l) /\ Recorded(k, m) => l = m

LEMMA LinkInit == Init => LinkInv
BY DEF Init, LinkInv

LEMMA PublishedGrows ==
  ASSUME TypeInv, setup' = setup,
         issues' = issues \/ \E p \in Syncs : GitHubCreates(p)
  PROVE  \A k, l : Published(k, l) \subseteq Published(k, l)'
<1>1. CASE issues' = issues
  BY <1>1 DEF Published
<1>2. ASSUME NEW p \in Syncs, GitHubCreates(p)
      PROVE  \A k, l : Published(k, l) \subseteq Published(k, l)'
  <2>1. PICK r \in req[p] : issues' = Append(issues, r)
    BY <1>2 DEF GitHubCreates
  <2>2. issues \in Seq(Issue) /\ r \in Issue
    BY <2>1 DEF TypeInv, TypeOK
  <2>3. \A n \in DOMAIN issues : n \in DOMAIN issues' /\ issues'[n] = issues[n]
    BY <2>1, <2>2
  <2> QED
    BY <2>3 DEF Published
<1> QED
  BY <1>1, <1>2

LEMMA IssuesStep ==
  ASSUME RecordStep PROVE issues' = issues \/ \E p \in Syncs : GitHubCreates(p)
BY DEF RecordStep, Quiet, Links, Sends, Recover, SaveCopy, github

\* What p holds of its own.
Held(p) == <<pc[p], seen[p], cur[p], target[p], selectable[p]>>

LEMMA OthersHold ==
  ASSUME TypeInv, NEW q \in Syncs, Sync(q) \/ Kill(q), NEW p \in Syncs \ {q}
  PROVE  UNCHANGED Held(p)
<1>1. \A x : [pc EXCEPT ![q] = x][p] = pc[p]
      /\ [seen EXCEPT ![q] = x][p] = seen[p]
      /\ [cur EXCEPT ![q] = x][p] = cur[p]
      /\ [target EXCEPT ![q] = x][p] = target[p]
      /\ [selectable EXCEPT ![q] = x][p] = selectable[p]
  BY DEF TypeInv, TypeOK
<1>2. ASSUME Reset(q) PROVE UNCHANGED Held(p)
  BY <1>1, <1>2 DEF Reset, Held
<1>3. ASSUME Done(q) PROVE UNCHANGED Held(p)
  BY <1>1, <1>3 DEF Done, Held
<1>4. ASSUME NEW x, NEW n, NEW y, Go(q, x, n, y) PROVE UNCHANGED Held(p)
  BY <1>1, <1>4 DEF Go, Held
<1>5. ASSUME NEW i, NEW x, NEW n, NEW y, Proceed(q, i, x, n, y) PROVE UNCHANGED Held(p)
  BY <1>1, <1>5 DEF Proceed, Take, Held
<1>6. CASE Start(q)
  BY <1>1, <1>6 DEF Start, Held
<1>7. CASE View(q)
  BY <1>1, <1>3, <1>7 DEF View, Held
<1>8. CASE Search(q)
  <2>1. CASE /\ selectable' = [selectable EXCEPT ![q] = @ \cup {cur[q]}]
             /\ pc' = [pc EXCEPT ![q] = "each"]
             /\ cur' = [cur EXCEPT ![q] = CHOOSE j \in Items : TRUE]
             /\ UNCHANGED <<stage, seen, todo, target, expects>>
    BY <1>1, <2>1 DEF Held
  <2> QED
    BY <1>3, <1>4, <1>8, <2>1 DEF Search
<1>9. CASE WriteLink(q)
  BY <1>3, <1>9 DEF WriteLink
<1>10. CASE Select(q)
  BY <1>1, <1>10 DEF Select, Held
<1>11. CASE CreateLocked(q)
  BY <1>3, <1>4, <1>11 DEF CreateLocked
<1>12. CASE CreateReturns(q)
  BY <1>3, <1>4, <1>12 DEF CreateReturns
<1>13. CASE Confirm(q)
  BY <1>3, <1>4, <1>13 DEF Confirm
<1>14. CASE RecordSelection(q)
  BY <1>2, <1>14 DEF RecordSelection
<1>15. CASE \E i \in Items : DropStale(q, i) \/ Skip(q, i)
  BY <1>15 DEF DropStale, Skip, Held
<1>16. CASE \E i \in Items : ReadLink(q, i) \/ ReadPeerLink(q, i) \/ SearchFor(q, i)
  BY <1>5, <1>16 DEF ReadLink, ReadPeerLink, SearchFor
<1>17. CASE Kill(q)
  BY <1>2, <1>17 DEF Kill
<1> QED
  BY <1>6, <1>7, <1>8, <1>9, <1>10, <1>11, <1>12, <1>13, <1>14, <1>15, <1>16, <1>17 DEF Sync

\* A step is one of p's own, or p holds what it held.
LEMMA HeldOrOwn ==
  ASSUME TypeInv, [Next]_vars, NEW p \in Syncs
  PROVE  Sync(p) \/ Kill(p) \/ UNCHANGED Held(p)
<1>1. ASSUME UNCHANGED local PROVE UNCHANGED Held(p)
  BY <1>1 DEF local, Held
<1>2. ASSUME NEW q \in Syncs, Sync(q) \/ Kill(q)
      PROVE  Sync(p) \/ Kill(p) \/ UNCHANGED Held(p)
  BY <1>2, OthersHold
<1> QED
  BY <1>1, <1>2
     DEF Next, vars, GitHubCreates, RequestIsLost, Revalidate, Rescan, Resolve,
         Commit, Recover, LoadCopy, SaveCopy, Index

LEMMA DoneHolds ==
  ASSUME TypeInv, NEW p \in Syncs, Done(p)
  PROVE  pc'[p] \in {"record", "each"} /\ seen' = seen /\ selectable' = selectable
BY DEF Done, TypeInv, TypeOK

LEMMA ResetHolds ==
  ASSUME TypeInv, NEW p \in Syncs, Reset(p)
  PROVE  pc'[p] = "idle" /\ selectable'[p] = {}
BY DEF Reset, TypeInv, TypeOK

LEMMA GoHolds ==
  ASSUME TypeInv, NEW p \in Syncs, NEW x, NEW n, NEW y, Go(p, x, n, y)
  PROVE  pc'[p] = x /\ target'[p] = n /\ UNCHANGED <<seen, cur, selectable>>
BY DEF Go, TypeInv, TypeOK

LEMMA ProceedHolds ==
  ASSUME TypeInv, NEW p \in Syncs, NEW i \in Items, NEW x, NEW n, NEW y,
         Proceed(p, i, x, n, y)
  PROVE  /\ pc'[p] = x /\ target'[p] = n /\ cur'[p] = i /\ pc[p] = "each"
         /\ UNCHANGED <<seen, selectable>>
BY DEF Proceed, Take, TypeInv, TypeOK

\* What a sync has read: a step leaves it, or it reads the file, or it ends.
LEMMA SeenSteps ==
  ASSUME TypeInv, [Next]_vars, NEW p \in Syncs
  PROVE  \/ pc'[p] = "idle"
         \/ seen'[p] = items
         \/ seen'[p] = seen[p] /\ pc[p] # "idle"
<1>1. CASE UNCHANGED Held(p)
  BY <1>1 DEF Held
<1>2. CASE Kill(p)
  BY <1>2, ResetHolds DEF Kill
<1>3. CASE Sync(p)
  <2>1. CASE Start(p)
    BY <2>1 DEF Start, TypeInv, TypeOK
  <2>2. CASE RecordSelection(p)
    BY <2>2, ResetHolds DEF RecordSelection
  <2>3. CASE View(p) \/ WriteLink(p) \/ Select(p)
    BY <2>3, DoneHolds DEF View, WriteLink, Select
  <2>4. CASE Search(p)
    <3>1. seen' = seen
      BY <2>4, DoneHolds, GoHolds DEF Search
    <3> QED
      BY <2>4, <3>1 DEF Search
  <2>5. CASE CreateLocked(p) \/ CreateReturns(p) \/ Confirm(p)
    BY <2>5, DoneHolds, GoHolds DEF CreateLocked, CreateReturns, Confirm
  <2>6. ASSUME NEW i \in Items,
               DropStale(p, i) \/ Skip(p, i) \/ ReadLink(p, i) \/ ReadPeerLink(p, i)
                  \/ SearchFor(p, i)
        PROVE  seen' = seen /\ pc[p] # "idle"
    BY <2>6, ProceedHolds DEF DropStale, Skip, Take, ReadLink, ReadPeerLink, SearchFor
  <2> QED
    BY <1>3, <2>1, <2>2, <2>3, <2>4, <2>5, <2>6 DEF Sync
<1> QED
  BY <1>1, <1>2, <1>3, HeldOrOwn

\* A sync goes to view or to write only with an issue of its candidate's key and
\* lane: a link it read, or a verified match.
LEMMA TargetSteps ==
  ASSUME TypeInv, LinkInv, [Next]_vars, NEW p \in Syncs, pc'[p] \in {"view", "write"}
  PROVE  target'[p] \in Published(KeyOf[cur'[p]], LaneOf(seen'[p][cur'[p]]))
<1>1. CASE UNCHANGED Held(p)
  <2>1. pc[p] \in {"view", "write"} /\ target'[p] = target[p] /\ cur'[p] = cur[p]
        /\ seen'[p] = seen[p]
    BY <1>1 DEF Held
  <2> QED
    BY <2>1 DEF LinkInv
<1>2. ~Kill(p)
  BY ResetHolds DEF Kill
<1>3. CASE Sync(p)
  <2>1. ~Start(p) /\ ~WriteLink(p) /\ ~RecordSelection(p) /\ ~Select(p)
    BY DoneHolds, ResetHolds DEF Start, WriteLink, RecordSelection, Select, TypeInv, TypeOK
  <2>2. ~CreateLocked(p) /\ ~CreateReturns(p)
    BY DoneHolds, GoHolds DEF CreateLocked, CreateReturns
  <2>3. \A i \in Items : ~DropStale(p, i) /\ ~Skip(p, i)
    BY DEF DropStale, Skip, Take
  <2>4. CASE View(p)
    <3>1. ~Done(p)
      BY DoneHolds
    <3>2. target' = target /\ cur' = cur /\ seen' = seen /\ pc[p] = "view"
      BY <2>4, <3>1 DEF View
    <3> QED
      BY <3>2 DEF LinkInv
  <2>5. \A n \in Verified(p) : n \in Published(KeyOf[cur[p]], LaneOf(seen[p][cur[p]]))
    BY DEF Verified, Published, TypeInv, TypeOK
  <2>6. CASE Search(p) \/ Confirm(p)
    <3>1. ~Done(p)
      BY DoneHolds
    <3>2. ~(pc' = [pc EXCEPT ![p] = "each"])
      BY DEF TypeInv, TypeOK
    <3>3. \E n \in Verified(p) : \E y : Go(p, "write", n, y)
      <4>1. CASE Search(p)
        BY <3>1, <3>2, <4>1, GoHolds DEF Search
      <4>2. CASE Confirm(p)
        BY <3>1, <4>2 DEF Confirm
      <4> QED
        BY <2>6, <4>1, <4>2
    <3> QED
      BY <2>5, <3>3, GoHolds
  <2>7. ASSUME NEW i \in Items, ReadLink(p, i)
        PROVE  target'[p] \in Published(KeyOf[cur'[p]], LaneOf(seen'[p][cur'[p]]))
    <3> DEFINE lane == LaneOf(seen[p][i])
    <3>1. target'[p] = seen[p][i].link[lane] /\ seen[p][i].link[lane] # 0 /\ cur'[p] = i
          /\ seen' = seen /\ pc[p] # "idle"
      BY <2>7, ProceedHolds DEF ReadLink
    <3>2. lane \in Lanes
      BY DEF LaneOf, Lanes
    <3> QED
      BY <3>1, <3>2 DEF LinkInv
  <2>8. ASSUME NEW i \in Items, ReadPeerLink(p, i)
        PROVE  target'[p] \in Published(KeyOf[cur'[p]], LaneOf(seen'[p][cur'[p]]))
    <3> DEFINE lane == LaneOf(seen[p][i])
    <3>1. PICK n \in PeerLinks(seen[p], i) : Proceed(p, i, "view", n, "none")
      BY <2>8 DEF ReadPeerLink
    <3>2. target'[p] = n /\ cur'[p] = i /\ seen' = seen /\ pc[p] # "idle"
      BY <3>1, ProceedHolds
    <3>3. PICK j \in Peers(i) : n = seen[p][j].link[lane] /\ n # 0
      BY DEF PeerLinks
    <3>4. lane \in Lanes /\ j \in Items /\ KeyOf[j] = KeyOf[i]
      BY DEF LaneOf, Lanes, Peers
    <3> QED
      BY <3>2, <3>3, <3>4 DEF LinkInv
  <2>9. \A i \in Items : ~SearchFor(p, i)
    BY ProceedHolds DEF SearchFor
  <2> QED
    BY <1>3, <2>1, <2>2, <2>3, <2>4, <2>6, <2>7, <2>8, <2>9 DEF Sync
<1> QED
  BY <1>1, <1>2, <1>3, HeldOrOwn

LEMMA LinkNext ==
  ASSUME TypeInv, LinkInv, [Next]_vars PROVE LinkInv'
<1>1. setup' = setup /\ RecordStep /\ Items' = Items /\ KeyOf' = KeyOf
  BY Steps DEF Items, KeyOf
<1>2. \A k, l : Published(k, l) \subseteq Published(k, l)'
  BY <1>1, IssuesStep, PublishedGrows
<1>3. \/ copies' = copies \/ copies' = <<>>
      \/ ~Locked /\ copies' = <<items>>
  BY <1>1 DEF RecordStep, Locked, Quiet, Links, Sends, GitHubCreates, Recover, SaveCopy, state
<1>4. \A i \in Items, l \in Lanes :
         items[i].link[l] # 0 => items[i].link[l] \in Published(KeyOf[i], l)
  BY DEF LinkInv
<1>5. ASSUME NEW i \in Items, NEW l \in Lanes, items'[i].link[l] # 0
      PROVE  items'[i].link[l] \in Published(KeyOf[i], l)
  <2>1. CASE items'[i].link[l] = items[i].link[l]
    BY <1>4, <1>5, <2>1
  <2>2. CASE Quiet
    BY <2>1, <2>2 DEF Quiet, SameRecords
  <2>3. ASSUME NEW p \in Syncs, Links(p)
        PROVE  items'[i].link[l] \in Published(KeyOf[i], l)
    <3>1. target[p] \in Published(KeyOf[cur[p]], LaneOf(seen[p][cur[p]]))
      BY <2>3 DEF Links, LinkInv
    <3>2. items'[i].link[l] = IF i = cur[p] /\ l = LaneOf(seen[p][cur[p]])
                              THEN target[p] ELSE items[i].link[l]
      BY <2>3, LinksEffect
    <3> QED
      BY <2>1, <3>1, <3>2
  <2>4. ASSUME NEW p \in Syncs, Sends(p)
        PROVE  items'[i].link[l] \in Published(KeyOf[i], l)
    BY <2>1, <2>4, SendsEffect
  <2>5. ASSUME NEW p \in Syncs, GitHubCreates(p)
        PROVE  items'[i].link[l] \in Published(KeyOf[i], l)
    BY <2>1, <2>5 DEF GitHubCreates, state
  <2>6. ASSUME NEW k \in Keys, Recover(k)
        PROVE  items'[i].link[l] \in Published(KeyOf[i], l)
    BY <2>1, <2>6, RecoverEffect
  <2>7. CASE SaveCopy
    BY <1>5, <2>7 DEF SaveCopy, LinkInv
  <2> QED
    BY <1>1, <2>2, <2>3, <2>4, <2>5, <2>6, <2>7 DEF RecordStep
<1>6. ASSUME NEW p \in Syncs, pc'[p] # "idle", NEW i \in Items, NEW l \in Lanes,
             seen'[p][i].link[l] # 0
      PROVE  seen'[p][i].link[l] \in Published(KeyOf[i], l)
  <2>1. CASE seen'[p] = items
    BY <1>4, <1>6, <2>1
  <2>2. CASE seen'[p] = seen[p] /\ pc[p] # "idle"
    BY <1>6, <2>2 DEF LinkInv
  <2> QED
    BY <1>6, <2>1, <2>2, SeenSteps
<1>7. ASSUME NEW p \in Syncs, pc'[p] \in {"view", "write"}
      PROVE  target'[p] \in Published(KeyOf[cur'[p]], LaneOf(seen'[p][cur'[p]]))
  BY <1>7, TargetSteps
<1>8. \A i \in Items', l \in Lanes :
         items'[i].link[l] # 0 => items'[i].link[l] \in Published(KeyOf[i], l)'
  BY <1>1, <1>2, <1>5
<1>9. \A p \in Syncs : pc'[p] # "idle" =>
         \A i \in Items', l \in Lanes :
            seen'[p][i].link[l] # 0 => seen'[p][i].link[l] \in Published(KeyOf[i], l)'
  BY <1>1, <1>2, <1>6
<1>10. \A p \in Syncs : pc'[p] \in {"view", "write"} =>
          target'[p] \in Published(KeyOf[cur[p]], LaneOf(seen[p][cur[p]]))'
  <2> SUFFICES ASSUME NEW p \in Syncs, pc'[p] \in {"view", "write"}
               PROVE  target'[p] \in Published(KeyOf[cur[p]], LaneOf(seen[p][cur[p]]))'
    OBVIOUS
  <2>1. LaneOf(seen[p][cur[p]])' = LaneOf(seen'[p][cur'[p]]) /\ KeyOf'[cur'[p]] = KeyOf[cur'[p]]
    BY <1>1 DEF LaneOf
  <2> QED
    BY <1>1, <1>2, <1>7, <2>1
<1>11. Locked' => copies' = <<>>
  BY <1>1, <1>3 DEF LinkInv, Locked
<1>12. ASSUME copies' # <<>>, NEW i \in Items, NEW l \in Lanes, copies'[1][i].link[l] # 0
       PROVE  copies'[1][i].link[l] \in Published(KeyOf[i], l)'
  <2>1. copies'[1][i].link[l] \in Published(KeyOf[i], l)
    <3>1. CASE copies' = copies
      BY <1>12, <3>1 DEF LinkInv
    <3>2. CASE copies' = <<items>>
      <4>1. copies'[1] = items
        BY <3>2
      <4> QED
        BY <1>4, <1>12, <4>1
    <3> QED
      BY <1>3, <1>12, <3>1, <3>2
  <2> QED
    BY <1>1, <1>2, <2>1
<1> QED
  BY <1>1, <1>8, <1>9, <1>10, <1>11, <1>12 DEF LinkInv

LEMMA LockedNext == TypeInv /\ [Next]_vars => Locked' = Locked
BY Steps DEF Locked

LEMMA LinkCorrect == Spec => []LinkInv
BY LinkInit, LinkNext, TypeCorrect, PTL DEF Spec

\* A link in the state file always names an issue of its item's key and lane: a
\* sync links only what it read back or verified, whatever was recovered behind
\* its back, and no issue goes away that an old copy of the file may name.
THEOREM LinksOwnCorrect == Spec => []LinksAreOwn
<1>1. LinkInv => LinksAreOwn
  BY DEF LinkInv, LinksAreOwn
<1> QED
  BY <1>1, LinkCorrect, PTL

\* What each kind of step does to the records of a key and lane.
LEMMA QuietRecorded ==
  ASSUME TypeInv, setup' = setup, SameRecords, NEW k, NEW l \in Lanes
  PROVE  Recorded(k, l)' <=> Recorded(k, l)
BY DEF Recorded, HoldsIn, SameRecords, Items, KeyOf

LEMMA LinksRecorded ==
  ASSUME TypeInv, LinkInv, NEW p \in Syncs, Links(p), NEW k, NEW l \in Lanes
  PROVE  LET i == cur[p]
             lane == LaneOf(seen[p][i]) IN
         /\ target[p] \in Published(KeyOf[i], lane)
         /\ Recorded(k, l)' <=> (Recorded(k, l) \/ (k = KeyOf[i] /\ l = lane))
<1> DEFINE i == cur[p]
           lane == LaneOf(seen[p][i])
<1>1. /\ i \in Items /\ lane \in Lanes /\ pc[p] = "write"
      /\ \A j \in Items, m \in Lanes :
            /\ items'[j].link[m] = IF j = i /\ m = lane THEN target[p] ELSE items[j].link[m]
            /\ items'[j].pending[m] = (items[j].pending[m] /\ ~(j = i /\ m = lane))
  BY LinksEffect
<1>2. target[p] \in Published(KeyOf[i], lane)
  BY <1>1 DEF LinkInv
<1>3. target[p] # 0
  BY <1>2 DEF Published, TypeInv, TypeOK
<1>4. Items' = Items /\ KeyOf' = KeyOf
  BY DEF Links, Items, KeyOf
<1> HIDE DEF lane, i
<1>5. \A j \in Items : HoldsIn(items'[j], l) <=> (HoldsIn(items[j], l) \/ (j = i /\ l = lane))
  <2> SUFFICES ASSUME NEW j \in Items
               PROVE  HoldsIn(items'[j], l) <=> (HoldsIn(items[j], l) \/ (j = i /\ l = lane))
    OBVIOUS
  <2>1. CASE j = i /\ l = lane
    BY <1>1, <1>3, <2>1 DEF HoldsIn
  <2>2. CASE ~(j = i /\ l = lane)
    <3>1. items'[j].link[l] = items[j].link[l]
      BY <1>1, <2>2
    <3>2. items'[j].pending[l] <=> items[j].pending[l]
      BY <1>1, <2>2
    <3> QED
      BY <2>2, <3>1, <3>2 DEF HoldsIn
  <2> QED
    BY <2>1, <2>2
<1>6. Recorded(k, l)' <=> \E j \in Items : KeyOf[j] = k /\ HoldsIn(items'[j], l)
  BY <1>4 DEF Recorded
<1>7. Recorded(k, l)' <=> (Recorded(k, l) \/ (k = KeyOf[i] /\ l = lane))
  BY <1>1, <1>5, <1>6 DEF Recorded
<1> QED
  BY <1>2, <1>7 DEF i, lane

LEMMA SendsRecorded ==
  ASSUME TypeInv, NEW p \in Syncs, Sends(p), NEW k, NEW l \in Lanes
  PROVE  LET i == cur[p]
             lane == LaneOf(seen[p][i]) IN
         /\ k = KeyOf[i] => ~Recorded(k, l)
         /\ Recorded(k, l)' <=> (Recorded(k, l) \/ (k = KeyOf[i] /\ l = lane))
<1> DEFINE i == cur[p]
           lane == LaneOf(seen[p][i])
<1>1. /\ i \in Items /\ lane \in Lanes
      /\ ~HasRecord(items[i]) /\ ~KeyClaimedElsewhere(items, i)
      /\ \A j \in Items, m \in Lanes :
            /\ items'[j].link[m] = items[j].link[m]
            /\ items'[j].pending[m] = (items[j].pending[m] \/ (j = i /\ m = lane))
  BY SendsEffect
<1>2. Items' = Items /\ KeyOf' = KeyOf
  BY DEF Sends, Items, KeyOf
<1> HIDE DEF lane, i
<1>3. k = KeyOf[i] => ~Recorded(k, l)
  BY <1>1 DEF Recorded, HasRecord, KeyClaimedElsewhere, Peers
<1>4. \A j \in Items : HoldsIn(items'[j], l) <=> (HoldsIn(items[j], l) \/ (j = i /\ l = lane))
  <2> SUFFICES ASSUME NEW j \in Items
               PROVE  HoldsIn(items'[j], l) <=> (HoldsIn(items[j], l) \/ (j = i /\ l = lane))
    OBVIOUS
  <2>1. items'[j].link[l] = items[j].link[l]
    BY <1>1
  <2>2. items'[j].pending[l] <=> (items[j].pending[l] \/ (j = i /\ l = lane))
    BY <1>1
  <2> QED
    BY <2>1, <2>2 DEF HoldsIn
<1>5. Recorded(k, l)' <=> \E j \in Items : KeyOf[j] = k /\ HoldsIn(items'[j], l)
  BY <1>2 DEF Recorded
<1>6. Recorded(k, l)' <=> (Recorded(k, l) \/ (k = KeyOf[i] /\ l = lane))
  BY <1>1, <1>4, <1>5 DEF Recorded
<1> QED
  BY <1>3, <1>6 DEF i, lane

LEMMA RecoverRecorded ==
  ASSUME TypeInv, NEW c \in Keys, Recover(c), NEW k, NEW l \in Lanes
  PROVE  k # c => (Recorded(k, l)' <=> Recorded(k, l))
<1>1. Items' = Items /\ KeyOf' = KeyOf
  BY DEF Recover, Items, KeyOf
<1>2. \A j \in Items : KeyOf[j] # c => (HoldsIn(items'[j], l) <=> HoldsIn(items[j], l))
  <2> SUFFICES ASSUME NEW j \in Items, KeyOf[j] # c
               PROVE  HoldsIn(items'[j], l) <=> HoldsIn(items[j], l)
    OBVIOUS
  <2>1. /\ items'[j].link[l] = items[j].link[l]
        /\ items'[j].pending[l] = (items[j].pending[l] /\ KeyOf[j] # c)
    BY RecoverEffect
  <2>2. items'[j].pending[l] <=> items[j].pending[l]
    BY <2>1
  <2> QED
    BY <2>1, <2>2 DEF HoldsIn
<1> QED
  BY <1>1, <1>2 DEF Recorded

\* What each kind of step does to the issues and the requests of a key and lane.
LEMMA CreatesEffect ==
  ASSUME TypeInv, NEW p \in Syncs, GitHubCreates(p)
  PROVE  \E r \in req[p] :
            /\ r \in Issue
            /\ \A q \in Syncs : req'[q] = IF q = p THEN req[q] \ {r} ELSE req[q]
            /\ \A k, l : Published(k, l)' =
                  IF r = [key |-> k, lane |-> l] THEN Published(k, l) \cup {Len(issues) + 1}
                  ELSE Published(k, l)
            /\ \A k, l : Len(issues) + 1 \notin Published(k, l)
            /\ Len(issues) \in Nat
<1>1. PICK r \in req[p] : issues' = Append(issues, r) /\ req' = [req EXCEPT ![p] = @ \ {r}]
  BY DEF GitHubCreates
<1>2. r \in Issue /\ issues \in Seq(Issue) /\ req \in [Syncs -> SUBSET Issue]
  BY <1>1 DEF TypeInv, TypeOK
<1>3. \A q \in Syncs : req'[q] = IF q = p THEN req[q] \ {r} ELSE req[q]
  BY <1>1, <1>2
<1>4. /\ DOMAIN issues = 1..Len(issues) /\ DOMAIN issues' = 1..(Len(issues) + 1)
      /\ \A n \in DOMAIN issues : issues'[n] = issues[n]
      /\ issues'[Len(issues) + 1] = r /\ Len(issues) \in Nat
  BY <1>1, <1>2
<1>5. \A k, l : Len(issues) + 1 \notin Published(k, l)
  BY <1>4 DEF Published
<1>6. r = [key |-> r.key, lane |-> r.lane]
  BY <1>2 DEF Issue
<1>7. ASSUME NEW k, NEW l
      PROVE  Published(k, l)' =
                IF r = [key |-> k, lane |-> l] THEN Published(k, l) \cup {Len(issues) + 1}
                ELSE Published(k, l)
  <2>1. (r.key = k /\ r.lane = l) <=> r = [key |-> k, lane |-> l]
    BY <1>6
  <2>2. \A n : n \in DOMAIN issues' <=> (n \in DOMAIN issues \/ n = Len(issues) + 1)
    BY <1>4
  <2>3. \A n : n \in Published(k, l)' <=>
           (n \in Published(k, l) \/ (n = Len(issues) + 1 /\ r.key = k /\ r.lane = l))
    BY <1>4, <2>2 DEF Published
  <2> QED
    BY <2>1, <2>3
<1> QED
  BY <1>1, <1>2, <1>3, <1>4, <1>5, <1>7

LEMMA SendsRequested ==
  ASSUME TypeInv, NEW p \in Syncs, Sends(p), NEW k, NEW l
  PROVE  LET i == cur[p]
             lane == LaneOf(seen[p][i]) IN
         /\ Published(k, l)' = Published(k, l)
         /\ Requested(k, l)' = IF k = KeyOf[i] /\ l = lane THEN Requested(k, l) \cup {p}
                               ELSE Requested(k, l)
<1> DEFINE i == cur[p]
           lane == LaneOf(seen[p][i])
           r == [key |-> KeyOf[i], lane |-> lane]
<1>1. issues' = issues /\ req' = [req EXCEPT ![p] = @ \cup {r}]
      /\ req \in [Syncs -> SUBSET Issue]
  BY SendsEffect DEF Sends, TypeInv, TypeOK, github
<1>2. \A q \in Syncs : req'[q] = IF q = p THEN req[q] \cup {r} ELSE req[q]
  BY <1>1
<1>3. [key |-> k, lane |-> l] = r <=> (k = KeyOf[i] /\ l = lane)
  OBVIOUS
<1> HIDE DEF r, lane, i
<1>4. \A q \in Syncs : q \in Requested(k, l)' <=>
         (q \in Requested(k, l) \/ (q = p /\ k = KeyOf[i] /\ l = lane))
  BY <1>2, <1>3 DEF Requested
<1>5. Requested(k, l)' \subseteq Syncs /\ Requested(k, l) \subseteq Syncs
  BY DEF Requested
<1>6. Requested(k, l)' = IF k = KeyOf[i] /\ l = lane THEN Requested(k, l) \cup {p}
                         ELSE Requested(k, l)
  BY <1>4, <1>5
<1>7. Published(k, l)' = Published(k, l)
  BY <1>1 DEF Published
<1> QED
  BY <1>6, <1>7 DEF i, lane

\* The other steps only lose requests.
LEMMA OthersRequested ==
  ASSUME TypeInv, NEW k, NEW l,
         \/ Quiet
         \/ \E p \in Syncs : Links(p)
         \/ \E c \in Keys : Recover(c)
  PROVE  Published(k, l)' = Published(k, l) /\ Requested(k, l)' \subseteq Requested(k, l)
<1>1. issues' = issues /\ \A q \in Syncs : req'[q] \subseteq req[q]
  BY DEF Quiet, Links, Recover, github
<1> QED
  BY <1>1 DEF Published, Requested

LEMMA RecordInit == Init => RecordInv
<1> SUFFICES ASSUME Init PROVE RecordInv
  OBVIOUS
<1>1. left.recovers = setup.recovers /\ setup.recovers \in Nat
  <2>1. setup \in Setups /\ left.recovers = setup.recovers
    BY DEF Init
  <2> QED
    BY <2>1, SetupFacts
<1>2. \A k, l : Published(k, l) = {} /\ Requested(k, l) = {}
  BY DEF Init, Published, Requested
<1>3. \A k \in Keys, l \in Lanes : ~Recorded(k, l)
  <2> SUFFICES ASSUME NEW i \in Items, NEW l \in Lanes PROVE ~HoldsIn(items[i], l)
    BY DEF Recorded
  <2>1. items[i].link[l] = 0 /\ items[i].pending[l] = FALSE
    BY DEF Init
  <2> QED
    BY <2>1 DEF HoldsIn
<1> QED
  BY <1>1, <1>2, <1>3 DEF RecordInv

LEMMA RecordNext ==
  ASSUME TypeInv, Locked, LinkInv, RecordInv, [Next]_vars PROVE RecordInv'
<1>1. setup' = setup /\ RecordStep /\ (Unrecovered' <=> left'.recovers = setup.recovers)
  BY Steps DEF Unrecovered
<1>2. left.recovers \in Nat /\ left.recovers <= setup.recovers /\ setup.recovers \in Nat
      /\ left \in [scans: Nat, recovers: Nat, kills: Nat]
  BY SetupFacts DEF RecordInv, TypeInv, TypeOK
<1>3. ~SaveCopy
  BY DEF SaveCopy, LinkInv
<1>4. ASSUME NEW c \in Keys, Recover(c) PROVE RecordInv'
  <2>1. left'.recovers = left.recovers - 1
    BY <1>2, <1>4 DEF Recover
  <2>2. ~Unrecovered' /\ left'.recovers <= setup'.recovers
    BY <1>1, <1>2, <2>1
  <2> QED
    BY <2>2 DEF RecordInv
<1>5. ASSUME left'.recovers = left.recovers,
             ASSUME Unrecovered, NEW k \in Keys, NEW l \in Lanes,
                    Published(k, l)' \cup Requested(k, l)' # {}
             PROVE  Recorded(k, l)',
             ASSUME Unrecovered, NEW k \in Keys, NEW l \in Lanes, NEW m \in Lanes,
                    Recorded(k, l)', Recorded(k, m)'
             PROVE  l = m
      PROVE  RecordInv'
  BY <1>1, <1>2, <1>5 DEF RecordInv, Unrecovered
<1>6. Unrecovered =>
        /\ \A k \in Keys, l \in Lanes :
            Published(k, l) \cup Requested(k, l) # {} => Recorded(k, l)
        /\ \A k \in Keys, l, m \in Lanes : Recorded(k, l) /\ Recorded(k, m) => l = m
  BY DEF RecordInv
<1>7. CASE Quiet
  <2>1. \A k, l : Published(k, l)' \cup Requested(k, l)' \subseteq Published(k, l) \cup Requested(k, l)
    BY <1>7, OthersRequested
  <2>2. \A k \in Keys, l \in Lanes : Recorded(k, l)' <=> Recorded(k, l)
    BY <1>1, <1>7, QuietRecorded DEF Quiet
  <2>3. left'.recovers = left.recovers
    BY <1>7 DEF Quiet
  <2> QED
    BY <1>5, <1>6, <2>1, <2>2, <2>3
<1>8. ASSUME NEW p \in Syncs, Links(p) PROVE RecordInv'
  <2> DEFINE c == KeyOf[cur[p]]
             lane == LaneOf(seen[p][cur[p]])
  <2>1. \A k, l : Published(k, l)' \cup Requested(k, l)' \subseteq Published(k, l) \cup Requested(k, l)
    BY <1>8, OthersRequested
  <2>2. Published(c, lane) # {}
    BY <1>8, LinksRecorded DEF Lanes
  <2>3. \A k \in Keys, l \in Lanes : Recorded(k, l)' <=> (Recorded(k, l) \/ (k = c /\ l = lane))
    BY <1>8, LinksRecorded
  <2>4. c \in Keys /\ lane \in Lanes
    BY SetupFacts DEF TypeInv, TypeOK, LaneOf, Lanes
  <2>5. left'.recovers = left.recovers
    BY <1>8 DEF Links
  <2> HIDE DEF c, lane
  <2>6. Unrecovered => Recorded(c, lane)
    BY <1>6, <2>2, <2>4
  <2>7. Unrecovered => \A k \in Keys, l \in Lanes : Recorded(k, l)' <=> Recorded(k, l)
    BY <2>3, <2>6
  <2> QED
    BY <1>5, <1>6, <2>1, <2>5, <2>7
<1>9. ASSUME NEW p \in Syncs, Sends(p) PROVE RecordInv'
  <2> DEFINE c == KeyOf[cur[p]]
             lane == LaneOf(seen[p][cur[p]])
  <2>1. \A k \in Keys, l \in Lanes : /\ k = c => ~Recorded(k, l)
                            /\ Recorded(k, l)' <=> (Recorded(k, l) \/ (k = c /\ l = lane))
    BY <1>9, SendsRecorded
  <2>2. \A k, l : /\ Published(k, l)' = Published(k, l)
                  /\ ~(k = c /\ l = lane) => Requested(k, l)' = Requested(k, l)
    BY <1>9, SendsRequested
  <2>3. left'.recovers = left.recovers
    BY <1>9 DEF Sends
  <2> HIDE DEF c, lane
  <2>4. ASSUME Unrecovered, NEW k \in Keys, NEW l \in Lanes,
               Published(k, l)' \cup Requested(k, l)' # {}
        PROVE  Recorded(k, l)'
    BY <1>6, <2>1, <2>2, <2>4
  <2>5. ASSUME Unrecovered, NEW k \in Keys, NEW l \in Lanes, NEW m \in Lanes,
               Recorded(k, l)', Recorded(k, m)'
        PROVE  l = m
    <3>1. CASE k = c
      BY <2>1, <2>5, <3>1
    <3>2. CASE k # c
      BY <1>6, <2>1, <2>5, <3>2
    <3> QED
      BY <3>1, <3>2
  <2> QED
    BY <1>5, <2>3, <2>4, <2>5
<1>10. ASSUME NEW p \in Syncs, GitHubCreates(p) PROVE RecordInv'
  <2>1. PICK r \in req[p] :
            /\ r \in Issue
            /\ \A q \in Syncs : req'[q] = IF q = p THEN req[q] \ {r} ELSE req[q]
            /\ \A k, l : Published(k, l)' =
                  IF r = [key |-> k, lane |-> l] THEN Published(k, l) \cup {Len(issues) + 1}
                  ELSE Published(k, l)
    BY <1>10, CreatesEffect
  <2>2. \A k, l : Requested(k, l)' \subseteq Requested(k, l)
    BY <2>1 DEF Requested
  <2>3. \A k, l : r = [key |-> k, lane |-> l] => p \in Requested(k, l)
    BY <2>1 DEF Requested
  <2>4. \A k, l : Published(k, l)' \cup Requested(k, l)' # {}
                    => Published(k, l) \cup Requested(k, l) # {}
    <3> SUFFICES ASSUME NEW k, NEW l, Published(k, l)' \cup Requested(k, l)' # {}
                 PROVE  Published(k, l) \cup Requested(k, l) # {}
      OBVIOUS
    <3>1. CASE r = [key |-> k, lane |-> l]
      BY <2>3, <3>1
    <3>2. CASE r # [key |-> k, lane |-> l]
      BY <2>1, <2>2, <3>2
    <3> QED
      BY <3>1, <3>2
  <2>5. SameRecords /\ left'.recovers = left.recovers
    BY <1>10 DEF GitHubCreates, state, SameRecords
  <2>6. \A k \in Keys, l \in Lanes : Recorded(k, l)' <=> Recorded(k, l)
    BY <1>1, <2>5, QuietRecorded
  <2> QED
    BY <1>5, <1>6, <2>4, <2>5, <2>6
<1> QED
  BY <1>1, <1>3, <1>4, <1>7, <1>8, <1>9, <1>10 DEF RecordStep

LEMMA RecordCorrect == Spec => [](Locked => RecordInv)
<1>1. TypeInv /\ (Locked => LinkInv) /\ (Locked => RecordInv) /\ [Next]_vars
        => (Locked => RecordInv)'
  BY LockedNext, RecordNext
<1>2. Init => (Locked => RecordInv)
  BY RecordInit
<1> QED
  BY <1>1, <1>2, TypeCorrect, LinkCorrect, PTL DEF Spec

\* Until an operator recovers a key, no kill, late create or rescan loses sight
\* of what was sent to GitHub: _create_once saves the pending record before the
\* call, and only a link replaces it.
THEOREM NothingForgottenCorrect == Spec => []NothingForgotten
<1>1. (Locked => RecordInv) => NothingForgotten
  BY DEF RecordInv, NothingForgotten, Unrecovered, Recorded
<1> QED
  BY <1>1, RecordCorrect, PTL

\* Without a recover no item holds records of both lanes, however its
\* classification changes: a create asks for a key without any record, and a
\* link is written only in the lane where the key has one.
THEOREM OneLaneCorrect == Spec => []OneLanePerItem
<1>1. TypeInv /\ (Locked => RecordInv) => OneLanePerItem
  <2> SUFFICES ASSUME TypeInv, RecordInv, Unrecovered, NEW i \in Items,
                      NEW l \in Lanes, NEW m \in Lanes,
                      HoldsIn(items[i], l), HoldsIn(items[i], m)
               PROVE  l = m
    BY DEF OneLanePerItem, Unrecovered
  <2>1. KeyOf[i] \in Keys
    BY SetupFacts DEF TypeInv, TypeOK
  <2> QED
    BY <2>1 DEF RecordInv, Recorded
<1> QED
  BY <1>1, TypeCorrect, RecordCorrect, PTL

-----------------------------------------------------------------------------
(* One issue per key and lane *)

\* p has not found an issue for i and goes on towards a create.
Headed(p, i) == i \in selectable[p] \/ (pc[p] = "create" /\ cur[p] = i)

\* What is published is in the index, and no sync overlooked it.
Found(k, l) ==
    /\ Published(k, l) \subseteq indexed
    /\ \A p \in Syncs, i \in Items :
          KeyOf[i] = k /\ Headed(p, i) => LaneOf(seen[p][i]) # l

\* Issues and requests of a key and lane are one at most. What is under way has
\* a record; what is published has one too, until a recover, and is then found.
OnceFor(k, l) ==
    /\ \A p, q \in Requested(k, l) : p = q
    /\ \A m, n \in Published(k, l) : m = n
    /\ Published(k, l) = {} \/ Requested(k, l) = {}
    /\ Requested(k, l) # {} => Recorded(k, l)
    /\ Published(k, l) # {} => Recorded(k, l) \/ Found(k, l)

OnceInv == \A k \in Keys, l \in Lanes : OnceFor(k, l)

LEMMA OnceInit == Init => OnceInv
BY DEF Init, OnceInv, OnceFor, Published, Requested

\* A sync heads for a create only after a search that verified nothing.
LEMMA HeadedSteps ==
  ASSUME TypeInv, [Next]_vars, NEW p \in Syncs, NEW i \in Items, Headed(p, i)'
  PROVE  /\ seen'[p] = seen[p]
         /\ Headed(p, i) \/ (cur[p] = i /\ Verified(p) = {})
<1>1. CASE UNCHANGED Held(p)
  BY <1>1 DEF Held, Headed
<1>2. ~Kill(p) /\ ~RecordSelection(p)
  BY ResetHolds DEF Kill, RecordSelection, Headed
<1>3. CASE Sync(p)
  <2>1. ~Start(p)
    BY DEF Start, Headed, TypeInv, TypeOK, RunInv
  <2>2. ASSUME seen' = seen, selectable' = selectable, pc'[p] # "create"
        PROVE  seen'[p] = seen[p] /\ Headed(p, i)
    BY <2>2 DEF Headed
  <2>3. ASSUME Done(p) PROVE seen'[p] = seen[p] /\ Headed(p, i)
    BY <2>2, <2>3, DoneHolds
  <2>4. ASSUME NEW x, NEW n, NEW y, Go(p, x, n, y), x # "create"
        PROVE  seen'[p] = seen[p] /\ Headed(p, i)
    BY <2>2, <2>4, GoHolds
  <2>5. CASE View(p)
    <3>1. CASE Done(p)
      BY <2>3, <3>1
    <3>2. CASE pc' = [pc EXCEPT ![p] = "write"] /\ UNCHANGED <<seen, selectable>>
      BY <2>2, <3>2 DEF TypeInv, TypeOK
    <3> QED
      BY <2>5, <3>1, <3>2 DEF View
  <2>6. CASE Search(p)
    <3>1. CASE Done(p)
      BY <2>3, <3>1
    <3>2. ASSUME NEW n, NEW y, Go(p, "write", n, y)
          PROVE  seen'[p] = seen[p] /\ Headed(p, i)
      BY <2>4, <3>2
    <3>3. CASE Verified(p) = {} /\ Go(p, "create", 0, "none")
      BY <3>3, GoHolds DEF Headed
    <3>4. CASE /\ Verified(p) = {}
               /\ selectable' = [selectable EXCEPT ![p] = @ \cup {cur[p]}]
               /\ pc' = [pc EXCEPT ![p] = "each"]
               /\ UNCHANGED seen
      BY <3>4 DEF Headed, TypeInv, TypeOK
    <3> QED
      BY <2>6, <3>1, <3>2, <3>3, <3>4 DEF Search
  <2>7. CASE WriteLink(p)
    BY <2>3, <2>7 DEF WriteLink
  <2>8. CASE Select(p)
    <3>1. seen' = seen /\ selectable' = selectable
      BY <2>8 DEF Select
    <3>2. CASE pc' = [pc EXCEPT ![p] = "record"]
      BY <2>2, <3>1, <3>2 DEF TypeInv, TypeOK
    <3>3. CASE \E j \in selectable[p] : cur' = [cur EXCEPT ![p] = j]
      <4>1. cur'[p] \in selectable[p]
        BY <3>3 DEF TypeInv, TypeOK
      <4> QED
        BY <3>1, <4>1 DEF Headed
    <3> QED
      BY <2>8, <3>2, <3>3 DEF Select
  <2>9. CASE CreateLocked(p)
    BY <2>3, <2>4, <2>9 DEF CreateLocked
  <2>10. CASE CreateReturns(p)
    BY <2>3, <2>4, <2>10 DEF CreateReturns
  <2>11. CASE Confirm(p)
    BY <2>3, <2>4, <2>11 DEF Confirm
  <2>12. ASSUME NEW j \in Items, DropStale(p, j) \/ Skip(p, j)
         PROVE  seen'[p] = seen[p] /\ Headed(p, i)
    BY <2>12 DEF DropStale, Skip, Headed
  <2>13. ASSUME NEW j \in Items, ReadLink(p, j) \/ ReadPeerLink(p, j) \/ SearchFor(p, j)
         PROVE  seen'[p] = seen[p] /\ Headed(p, i)
    BY <2>2, <2>13, ProceedHolds DEF ReadLink, ReadPeerLink, SearchFor
  <2> QED
    BY <1>2, <1>3, <2>1, <2>5, <2>6, <2>7, <2>8, <2>9, <2>10, <2>11, <2>12, <2>13 DEF Sync
<1> QED
  BY <1>1, <1>2, <1>3, HeldOrOwn

\* What is found stays so: a search of it verifies it.
LEMMA FoundStays ==
  ASSUME TypeInv, [Next]_vars, NEW k \in Keys, NEW l \in Lanes,
         Published(k, l) # {}, Found(k, l),
         Published(k, l)' = Published(k, l), indexed \subseteq indexed'
  PROVE  Found(k, l)'
<1>1. Items' = Items /\ KeyOf' = KeyOf
  BY Steps DEF Items, KeyOf
<1>2. ASSUME NEW p \in Syncs, NEW i \in Items, KeyOf[i] = k, Headed(p, i)'
      PROVE  LaneOf(seen'[p][i]) # l
  <2>1. seen'[p] = seen[p] /\ (Headed(p, i) \/ (cur[p] = i /\ Verified(p) = {}))
    BY <1>2, HeadedSteps
  <2>2. CASE Headed(p, i)
    BY <1>2, <2>1, <2>2 DEF Found
  <2>3. CASE cur[p] = i /\ Verified(p) = {}
    <3>1. LaneOf(seen[p][i]) = l => Published(k, l) \subseteq Verified(p)
      BY <1>2, <2>3 DEF Found, Published, Verified
    <3> QED
      BY <2>1, <2>3, <3>1
  <2> QED
    BY <2>1, <2>2, <2>3
<1>3. \A p \in Syncs, i \in Items' :
         KeyOf'[i] = k /\ Headed(p, i)' => LaneOf(seen'[p][i]) # l
  BY <1>1, <1>2
<1>4. Published(k, l)' \subseteq indexed'
  BY DEF Found
<1> QED
  BY <1>3, <1>4 DEF Found, LaneOf

LEMMA OnceNext ==
  ASSUME TypeInv, Locked, setup.alone, LinkInv, OnceInv, [Next]_vars PROVE OnceInv'
<1>1. setup' = setup /\ RecordStep
  BY Steps
<1>2. ~SaveCopy
  BY DEF SaveCopy, LinkInv
<1> SUFFICES ASSUME NEW k \in Keys, NEW l \in Lanes PROVE OnceFor(k, l)'
  BY DEF OnceInv
<1>3. OnceFor(k, l)
  BY DEF OnceInv
<1>4. ASSUME Published(k, l)' = Published(k, l), Requested(k, l)' \subseteq Requested(k, l),
             indexed \subseteq indexed', Recorded(k, l) => Recorded(k, l)'
      PROVE  OnceFor(k, l)'
  <2>1. Published(k, l) # {} => Recorded(k, l)' \/ Found(k, l)'
    BY <1>3, <1>4, FoundStays DEF OnceFor
  <2> QED
    BY <1>3, <1>4, <2>1 DEF OnceFor
<1>5. CASE Quiet
  BY <1>1, <1>4, <1>5, OthersRequested, QuietRecorded DEF Quiet
<1>6. ASSUME NEW p \in Syncs, Links(p) PROVE OnceFor(k, l)'
  <2>1. indexed' = indexed
    BY <1>6 DEF Links, github
  <2>2. Recorded(k, l) => Recorded(k, l)'
    BY <1>6, LinksRecorded
  <2> QED
    BY <1>4, <1>6, <2>1, <2>2, OthersRequested
<1>7. ASSUME NEW p \in Syncs, Sends(p) PROVE OnceFor(k, l)'
  <2> DEFINE c == KeyOf[cur[p]]
             lane == LaneOf(seen[p][cur[p]])
  <2>1. /\ k = c => ~Recorded(k, l)
        /\ Recorded(k, l)' <=> (Recorded(k, l) \/ (k = c /\ l = lane))
    BY <1>7, SendsRecorded
  <2>2. /\ Published(k, l)' = Published(k, l)
        /\ Requested(k, l)' = IF k = c /\ l = lane THEN Requested(k, l) \cup {p}
                              ELSE Requested(k, l)
    BY <1>7, SendsRequested
  <2>3. Headed(p, cur[p]) /\ cur[p] \in Items /\ indexed' = indexed
    BY <1>7 DEF Sends, Headed, TypeInv, TypeOK, github
  <2>4. k = c /\ l = lane => ~Found(k, l)
    BY <2>3 DEF Found
  <2> HIDE DEF c, lane
  <2>5. CASE k = c /\ l = lane
    <3>1. Published(k, l) = {} /\ Requested(k, l) = {}
      BY <1>3, <2>1, <2>4, <2>5 DEF OnceFor
    <3>2. Published(k, l)' = {} /\ Requested(k, l)' = {p} /\ Recorded(k, l)'
      BY <2>1, <2>2, <2>5, <3>1
    <3> QED
      BY <3>2 DEF OnceFor
  <2>6. CASE ~(k = c /\ l = lane)
    BY <1>4, <2>1, <2>2, <2>3, <2>6
  <2> QED
    BY <2>5, <2>6
<1>8. ASSUME NEW p \in Syncs, GitHubCreates(p) PROVE OnceFor(k, l)'
  <2>1. PICK r \in req[p] :
            /\ r \in Issue
            /\ \A q \in Syncs : req'[q] = IF q = p THEN req[q] \ {r} ELSE req[q]
            /\ \A c, m : Published(c, m)' =
                  IF r = [key |-> c, lane |-> m] THEN Published(c, m) \cup {Len(issues) + 1}
                  ELSE Published(c, m)
    BY <1>8, CreatesEffect
  <2>2. SameRecords /\ indexed \subseteq indexed'
    BY <1>8 DEF GitHubCreates, state, SameRecords
  <2>3. Recorded(k, l)' <=> Recorded(k, l)
    BY <1>1, <2>2, QuietRecorded
  <2>4. CASE r = [key |-> k, lane |-> l]
    <3>1. p \in Requested(k, l) /\ p \notin Requested(k, l)'
      BY <2>1, <2>4 DEF Requested
    <3>2. Requested(k, l)' \subseteq Requested(k, l)
      BY <2>1 DEF Requested
    <3>3. Published(k, l) = {} /\ Recorded(k, l) /\ Requested(k, l)' = {}
      BY <1>3, <3>1, <3>2 DEF OnceFor
    <3>4. Published(k, l)' = {Len(issues) + 1} /\ Recorded(k, l)'
      BY <2>1, <2>3, <2>4, <3>3
    <3> QED
      BY <3>3, <3>4 DEF OnceFor
  <2>5. CASE r # [key |-> k, lane |-> l]
    <3>1. Requested(k, l)' \subseteq Requested(k, l)
      BY <2>1 DEF Requested
    <3>2. Published(k, l)' = Published(k, l)
      BY <2>1, <2>5
    <3> QED
      BY <1>4, <2>2, <2>3, <3>1, <3>2
  <2> QED
    BY <2>4, <2>5
<1>9. ASSUME NEW c \in Keys, Recover(c) PROVE OnceFor(k, l)'
  <2>1. NothingUnderWay
    BY <1>9 DEF Recover
  <2>2. Published(k, l)' = Published(k, l) /\ Requested(k, l)' \subseteq Requested(k, l)
    BY <1>9, OthersRequested
  <2>3. Requested(k, l) = {}
    BY <2>1 DEF NothingUnderWay, Requested
  <2>4. UNCHANGED <<setup, github, local>>
    BY <1>9 DEF Recover
  <2>5. \A p \in Syncs, i \in Items : ~Headed(p, i)
    BY <2>1 DEF NothingUnderWay, Headed, TypeInv, RunInv
  <2>6. \A p \in Syncs, i \in Items' : ~Headed(p, i)'
    BY <2>4, <2>5 DEF Headed, Items, local
  <2>7. Published(k, l)' \subseteq indexed'
    BY <2>1, <2>2, <2>4 DEF NothingUnderWay, Published, github
  <2>8. Found(k, l)'
    BY <2>6, <2>7 DEF Found
  <2> QED
    BY <1>3, <2>2, <2>3, <2>8 DEF OnceFor
<1> QED
  BY <1>1, <1>2, <1>5, <1>6, <1>7, <1>8, <1>9 DEF RecordStep

\* What the operator attests with recover --confirm-not-created.
Attested == \A s \in Setups : s.alone

LEMMA OnceCorrect == ASSUME Attested PROVE Spec => [](Locked => OnceInv)
<1>1. TypeInv => setup.alone
  BY DEF Attested, TypeInv, TypeOK
<1>2. TypeInv /\ (Locked => LinkInv) /\ (Locked => OnceInv) /\ [Next]_vars
        => (Locked => OnceInv)'
  BY <1>1, LockedNext, OnceNext
<1>3. Init => (Locked => OnceInv)
  BY OnceInit
<1> QED
  BY <1>2, <1>3, TypeCorrect, LinkCorrect, PTL DEF Spec

\* A set of at most one element, counted.
LEMMA AtMostOne ==
  ASSUME NEW S, \A x, y \in S : x = y
  PROVE  /\ S = {} => Cardinality(S) = 0
         /\ S # {} => Cardinality(S) = 1
<1>1. CASE S = {}
  BY <1>1, FS_EmptySet
<1>2. CASE S # {}
  <2>1. PICK x : x \in S
    BY <1>2
  <2>2. S = {x}
    BY <2>1
  <2> QED
    BY <1>2, <2>2, FS_Singleton
<1> QED
  BY <1>1, <1>2

LEMMA OnceCounts ==
  ASSUME NEW k \in Keys, NEW l \in Lanes, OnceFor(k, l)
  PROVE  /\ Cardinality(Published(k, l)) = IF Published(k, l) = {} THEN 0 ELSE 1
         /\ Cardinality(Requested(k, l)) = IF Requested(k, l) = {} THEN 0 ELSE 1
<1>1. \A m, n \in Published(k, l) : m = n
  BY DEF OnceFor
<1>2. \A p, q \in Requested(k, l) : p = q
  BY DEF OnceFor
<1>3. Cardinality(Published(k, l)) = IF Published(k, l) = {} THEN 0 ELSE 1
  BY <1>1, AtMostOne
<1>4. Cardinality(Requested(k, l)) = IF Requested(k, l) = {} THEN 0 ELSE 1
  BY <1>2, AtMostOne
<1> QED
  BY <1>3, <1>4

\* ADR 0005: at most one issue per key and lane, requests under way included,
\* whatever concurrent syncs, kills, late creates, a lagging index, rescans and
\* attested recovers do: _create_once records the attempt under the lock before
\* the call, and nothing but recover removes what it recorded.
THEOREM OneIssueCorrect == ASSUME Attested PROVE Spec => []OneIssuePerKey
<1>1. (Locked => OnceInv) => OneIssuePerKey
  <2> SUFFICES ASSUME OnceInv, NEW k \in Keys, NEW l \in Lanes
               PROVE  Cardinality(Published(k, l)) + Cardinality(Requested(k, l)) <= 1
    BY DEF OneIssuePerKey
  <2>1. OnceFor(k, l)
    BY DEF OnceInv
  <2>2. Published(k, l) = {} \/ Requested(k, l) = {}
    BY <2>1 DEF OnceFor
  <2>3. /\ Cardinality(Published(k, l)) = IF Published(k, l) = {} THEN 0 ELSE 1
        /\ Cardinality(Requested(k, l)) = IF Requested(k, l) = {} THEN 0 ELSE 1
    BY <2>1, OnceCounts
  <2> QED
    BY <2>2, <2>3
<1> QED
  BY <1>1, OnceCorrect, PTL

\* The step of LinkIsForGood.
LinksStay ==
    Locked => \A i \in Items, l \in Lanes : items[i].link[l] # 0 =>
        /\ items'[i].link[l] = items[i].link[l]
        /\ \A j \in Peers(i) : items'[j].link[l] \in {0, items[i].link[l]}

LEMMA LinksStayNext ==
  ASSUME TypeInv, LinkInv, Locked => OnceInv, setup.alone, [Next]_vars PROVE LinksStay
<1> SUFFICES ASSUME Locked, NEW i \in Items, NEW l \in Lanes, items[i].link[l] # 0
             PROVE  /\ items'[i].link[l] = items[i].link[l]
                    /\ \A j \in Peers(i) : items'[j].link[l] \in {0, items[i].link[l]}
  BY DEF LinksStay
<1>1. LinkInv' /\ OnceInv' /\ Items' = Items /\ KeyOf' = KeyOf /\ RecordStep
  BY LinkNext, OnceNext, Steps DEF Items, KeyOf
<1>2. items[i].link[l] \in Published(KeyOf[i], l)'
  <2>1. items[i].link[l] \in Published(KeyOf[i], l)
    BY DEF LinkInv
  <2> QED
    BY <1>1, <2>1, IssuesStep, PublishedGrows, Steps
<1>3. ASSUME NEW k \in Items, items'[k].link[l] # 0
      PROVE  items'[k].link[l] \in Published(KeyOf[k], l)'
  <2>1. LinkInv' /\ k \in Items'
    BY <1>1
  <2> QED
    BY <1>3, <2>1 DEF LinkInv
<1>4. KeyOf[i] \in Keys /\ \A m, n \in Published(KeyOf[i], l)' : m = n
  <2>1. KeyOf[i] \in Keys
    BY SetupFacts DEF TypeInv, TypeOK
  <2> QED
    BY <1>1, <2>1 DEF OnceInv, OnceFor
<1>5. ASSUME NEW j \in Items, KeyOf[j] = KeyOf[i], items'[j].link[l] # 0
      PROVE  items'[j].link[l] = items[i].link[l]
  <2>1. items'[j].link[l] \in Published(KeyOf[i], l)'
    <3>1. KeyOf'[j] = KeyOf'[i]
      BY <1>1, <1>5
    <3> QED
      BY <1>3, <1>5, <3>1 DEF Published
  <2> QED
    BY <1>2, <1>4, <2>1
<1>6. items'[i].link[l] # 0
  \* only a link is stored over a link, and it names an issue
  <2>1. CASE items'[i].link[l] = items[i].link[l]
    BY <2>1
  <2>2. CASE Quiet
    BY <2>1, <2>2 DEF Quiet, SameRecords
  <2>3. ASSUME NEW p \in Syncs, Links(p) PROVE items'[i].link[l] # 0
    <3>1. target[p] \in Published(KeyOf[cur[p]], LaneOf(seen[p][cur[p]]))
      BY <2>3 DEF Links, LinkInv
    <3>2. target[p] # 0
      BY <3>1 DEF Published, TypeInv, TypeOK
    <3>3. items'[i].link[l] = IF i = cur[p] /\ l = LaneOf(seen[p][cur[p]])
                              THEN target[p] ELSE items[i].link[l]
      BY <2>3, LinksEffect
    <3> QED
      BY <2>1, <3>2, <3>3
  <2>4. ASSUME NEW p \in Syncs, Sends(p) PROVE items'[i].link[l] # 0
    BY <2>1, <2>4, SendsEffect
  <2>5. ASSUME NEW p \in Syncs, GitHubCreates(p) PROVE items'[i].link[l] # 0
    BY <2>1, <2>5 DEF GitHubCreates, state
  <2>6. ASSUME NEW k \in Keys, Recover(k) PROVE items'[i].link[l] # 0
    BY <2>1, <2>6, RecoverEffect
  <2>7. ~SaveCopy
    BY DEF SaveCopy, LinkInv
  <2> QED
    BY <1>1, <2>2, <2>3, <2>4, <2>5, <2>6, <2>7 DEF RecordStep
<1> QED
  BY <1>5, <1>6 DEF Peers

\* A link once stored stays, and every item of the key that is linked, now or
\* later, is linked to the same issue: what a sync stores names the only issue
\* there is of the key and lane, and scans and recovers leave links alone.
THEOREM LinkForGoodCorrect == ASSUME Attested PROVE Spec => LinkIsForGood
<1>1. TypeInv => setup.alone
  BY DEF Attested, TypeInv, TypeOK
<1>2. TypeInv /\ LinkInv /\ (Locked => OnceInv) /\ [Next]_vars
        => [\A i \in Items, l \in Lanes : Locked /\ items[i].link[l] # 0 =>
              /\ items'[i].link[l] = items[i].link[l]
              /\ \A j \in Peers(i) : items'[j].link[l] \in {0, items[i].link[l]}]_items
  BY <1>1, LinksStayNext DEF LinksStay
<1> QED
  BY <1>2, TypeCorrect, LinkCorrect, OnceCorrect, PTL DEF Spec, LinkIsForGood

-----------------------------------------------------------------------------
(* Refinement *)

\* What the queue shows of a key and lane.
Att(k, l) == Locked /\ Attempted(k, l) /\ ~Linked(k, l)
Sent(k, l) == Locked /\ Requested(k, l) # {}
Count(k, l) == IF Locked THEN Cardinality(Published(k, l)) ELSE 0
Link(k, l) == Locked /\ Linked(k, l)

\* The steps of PublishOnce, on what the queue shows.
OnceStep(k, l) ==
    \/ UNCHANGED <<Att(k, l), Sent(k, l), Count(k, l), Link(k, l)>>
    \/ /\ ~Att(k, l) /\ ~Sent(k, l) /\ Count(k, l) = 0 /\ ~Link(k, l)
       /\ Att(k, l)' /\ Sent(k, l)' /\ UNCHANGED <<Count(k, l), Link(k, l)>>
    \/ /\ Sent(k, l) /\ ~Sent(k, l)' /\ Count(k, l)' = Count(k, l) + 1
       /\ UNCHANGED <<Att(k, l), Link(k, l)>>
    \/ Sent(k, l) /\ ~Sent(k, l)' /\ UNCHANGED <<Att(k, l), Count(k, l), Link(k, l)>>
    \/ /\ Count(k, l) = 1 /\ ~Sent(k, l) /\ Link(k, l)' /\ ~Att(k, l)'
       /\ UNCHANGED <<Sent(k, l), Count(k, l)>>
    \/ /\ Att(k, l) /\ ~Sent(k, l) /\ ~Att(k, l)'
       /\ UNCHANGED <<Sent(k, l), Count(k, l), Link(k, l)>>

LEMMA OnceMapped ==
  ASSUME NEW k, NEW l, OnceStep(k, l) PROVE [Once(k, l)!Next]_(Once(k, l)!vars)
BY DEF OnceStep, Att, Sent, Count, Link, Once!Next, Once!vars, Once!Attempt, Once!Publish,
       Once!Lose, Once!Link, Once!GiveUp

\* What each kind of step does to the marks of a key and lane.
LEMMA QuietMarks ==
  ASSUME TypeInv, setup' = setup, SameRecords, NEW k, NEW l \in Lanes
  PROVE  (Attempted(k, l)' <=> Attempted(k, l)) /\ (Linked(k, l)' <=> Linked(k, l))
BY DEF Attempted, Linked, SameRecords, Items, KeyOf

LEMMA LinksMarks ==
  ASSUME TypeInv, LinkInv, NEW p \in Syncs, Links(p), NEW k, NEW l \in Lanes
  PROVE  LET here == k = KeyOf[cur[p]] /\ l = LaneOf(seen[p][cur[p]]) IN
         /\ here => Linked(k, l)'
         /\ ~here => /\ Attempted(k, l)' <=> Attempted(k, l)
                     /\ Linked(k, l)' <=> Linked(k, l)
<1> DEFINE i == cur[p]
           lane == LaneOf(seen[p][i])
<1>1. /\ i \in Items /\ lane \in Lanes
      /\ \A j \in Items, m \in Lanes :
            /\ items'[j].link[m] = IF j = i /\ m = lane THEN target[p] ELSE items[j].link[m]
            /\ items'[j].pending[m] = (items[j].pending[m] /\ ~(j = i /\ m = lane))
  BY LinksEffect
<1>2. target[p] # 0
  <2>1. target[p] \in Published(KeyOf[i], lane)
    BY LinksRecorded
  <2> QED
    BY <2>1 DEF Published, TypeInv, TypeOK
<1>3. Items' = Items /\ KeyOf' = KeyOf
  BY DEF Links, Items, KeyOf
<1> HIDE DEF lane, i
<1>4. ASSUME k = KeyOf[i], l = lane PROVE Linked(k, l)'
  <2>1. items'[i].link[l] = target[p]
    BY <1>1, <1>4
  <2> QED
    BY <1>1, <1>2, <1>3, <1>4, <2>1 DEF Linked
<1>5. ASSUME ~(k = KeyOf[i] /\ l = lane)
      PROVE  (Attempted(k, l)' <=> Attempted(k, l)) /\ (Linked(k, l)' <=> Linked(k, l))
  <2>1. \A j \in Items : KeyOf[j] = k =>
           items'[j].link[l] = items[j].link[l] /\ (items'[j].pending[l] <=> items[j].pending[l])
    <3> SUFFICES ASSUME NEW j \in Items, KeyOf[j] = k
                 PROVE  /\ items'[j].link[l] = items[j].link[l]
                        /\ items'[j].pending[l] <=> items[j].pending[l]
      OBVIOUS
    <3>1. ~(j = i /\ l = lane)
      BY <1>5
    <3> QED
      BY <1>1, <3>1
  <2> QED
    BY <1>3, <2>1 DEF Attempted, Linked
<1> QED
  BY <1>4, <1>5 DEF i, lane

LEMMA SendsMarks ==
  ASSUME TypeInv, NEW p \in Syncs, Sends(p), NEW k, NEW l \in Lanes
  PROVE  LET here == k = KeyOf[cur[p]] /\ l = LaneOf(seen[p][cur[p]]) IN
         /\ here => Attempted(k, l)'
         /\ ~here => (Attempted(k, l)' <=> Attempted(k, l))
         /\ Linked(k, l)' <=> Linked(k, l)
<1> DEFINE i == cur[p]
           lane == LaneOf(seen[p][i])
<1>1. /\ i \in Items /\ lane \in Lanes
      /\ \A j \in Items, m \in Lanes :
            /\ items'[j].link[m] = items[j].link[m]
            /\ items'[j].pending[m] = (items[j].pending[m] \/ (j = i /\ m = lane))
  BY SendsEffect
<1>2. Items' = Items /\ KeyOf' = KeyOf
  BY DEF Sends, Items, KeyOf
<1> HIDE DEF lane, i
<1>3. Linked(k, l)' <=> Linked(k, l)
  BY <1>1, <1>2 DEF Linked
<1>4. ASSUME k = KeyOf[i], l = lane PROVE Attempted(k, l)'
  <2>1. items'[i].pending[l]
    BY <1>1, <1>4
  <2> QED
    BY <1>1, <1>2, <1>4, <2>1 DEF Attempted
<1>5. ASSUME ~(k = KeyOf[i] /\ l = lane) PROVE Attempted(k, l)' <=> Attempted(k, l)
  <2>1. \A j \in Items : KeyOf[j] = k => (items'[j].pending[l] <=> items[j].pending[l])
    BY <1>1, <1>5
  <2> QED
    BY <1>2, <2>1 DEF Attempted
<1> QED
  BY <1>3, <1>4, <1>5 DEF i, lane

LEMMA RecoverMarks ==
  ASSUME TypeInv, NEW c \in Keys, Recover(c), NEW k, NEW l \in Lanes
  PROVE  /\ Linked(k, l)' <=> Linked(k, l)
         /\ k = c => ~Attempted(k, l)'
         /\ k # c => (Attempted(k, l)' <=> Attempted(k, l))
<1>1. Items' = Items /\ KeyOf' = KeyOf
  BY DEF Recover, Items, KeyOf
<1>2. \A j \in Items : /\ items'[j].link[l] = items[j].link[l]
                       /\ items'[j].pending[l] = (items[j].pending[l] /\ KeyOf[j] # c)
  BY RecoverEffect
<1>3. Linked(k, l)' <=> Linked(k, l)
  BY <1>1, <1>2 DEF Linked
<1>4. k = c => ~Attempted(k, l)'
  BY <1>1, <1>2 DEF Attempted
<1>5. k # c => (Attempted(k, l)' <=> Attempted(k, l))
  <2>1. \A j \in Items : KeyOf[j] = k /\ k # c => (items'[j].pending[l] <=> items[j].pending[l])
    BY <1>2
  <2> QED
    BY <1>1, <2>1 DEF Attempted
<1> QED
  BY <1>3, <1>4, <1>5

\* A record that is not there is neither an attempt nor a link.
LEMMA MarksRecorded ==
  ASSUME NEW k, NEW l
  PROVE  Recorded(k, l) <=> (Attempted(k, l) \/ Linked(k, l))
BY DEF Recorded, HoldsIn, Attempted, Linked

LEMMA RefineInit ==
  ASSUME Init, NEW k, NEW l \in Lanes PROVE Once(k, l)!Init
<1>1. Published(k, l) = {} /\ Requested(k, l) = {}
  BY DEF Init, Published, Requested
<1>2. \A i \in Items : items[i].link[l] = 0 /\ items[i].pending[l] = FALSE
  BY DEF Init
<1>3. ~Attempted(k, l) /\ ~Linked(k, l)
  BY <1>2 DEF Attempted, Linked
<1>4. Cardinality(Published(k, l)) = 0
  BY <1>1, FS_EmptySet
<1> QED
  BY <1>1, <1>3, <1>4 DEF Once!Init

LEMMA RefineStep ==
  ASSUME TypeInv, setup.alone, Locked, LinkInv, OnceInv, OnceInv', [Next]_vars,
         NEW k \in Keys, NEW l \in Lanes
  PROVE  OnceStep(k, l)
<1>1. setup' = setup /\ RecordStep /\ (Locked' <=> Locked)
  BY Steps DEF Locked
<1>2. ~SaveCopy
  BY DEF SaveCopy, LinkInv
<1>3. OnceFor(k, l) /\ OnceFor(k, l)'
  BY DEF OnceInv
<1> DEFINE P == Published(k, l)
           R == Requested(k, l)
<1>4. /\ Att(k, l) <=> Attempted(k, l) /\ ~Linked(k, l)
      /\ Sent(k, l) <=> R # {}
      /\ Link(k, l) <=> Linked(k, l)
      /\ Count(k, l) = IF P = {} THEN 0 ELSE 1
  BY <1>3, OnceCounts DEF Att, Sent, Link, Count
<1>5. Count(k, l)' = IF P' = {} THEN 0 ELSE 1
  <2>1. /\ \A x, y \in P' : x = y
    BY <1>3 DEF OnceFor
  <2>2. Cardinality(P') = IF P' = {} THEN 0 ELSE 1
    BY <2>1, AtMostOne
  <2> QED
    BY <1>1, <2>2 DEF Count
<1>6. /\ Att(k, l)' <=> Attempted(k, l)' /\ ~Linked(k, l)'
      /\ Sent(k, l)' <=> R' # {}
      /\ Link(k, l)' <=> Linked(k, l)'
  BY <1>1 DEF Att, Sent, Link
<1>7. /\ Att(k, l) \in BOOLEAN /\ Sent(k, l) \in BOOLEAN /\ Link(k, l) \in BOOLEAN
      /\ Att(k, l)' \in BOOLEAN /\ Sent(k, l)' \in BOOLEAN /\ Link(k, l)' \in BOOLEAN
  BY DEF Att, Sent, Link
<1>8. /\ P = {} \/ R = {}
      /\ R # {} => Attempted(k, l) \/ Linked(k, l)
  BY <1>3, MarksRecorded DEF OnceFor
<1> HIDE DEF P, R
<1>9. ASSUME Attempted(k, l)' <=> Attempted(k, l), Linked(k, l)' <=> Linked(k, l),
             P' = P, R' \subseteq R
      PROVE  OnceStep(k, l)
  <2>1. UNCHANGED <<Att(k, l), Count(k, l), Link(k, l)>>
    BY <1>4, <1>5, <1>6, <1>7, <1>9
  <2>2. CASE R = {} <=> R' = {}
    <3>1. Sent(k, l)' = Sent(k, l)
      BY <1>4, <1>6, <1>7, <2>2
    <3> QED
      BY <2>1, <3>1 DEF OnceStep
  <2>3. CASE R # {} /\ R' = {}
    BY <1>4, <1>6, <2>1, <2>3 DEF OnceStep
  <2> QED
    BY <1>9, <2>2, <2>3
<1>10. CASE Quiet
  <2>1. P' = P /\ R' \subseteq R
    BY <1>10, OthersRequested DEF P, R
  <2>2. (Attempted(k, l)' <=> Attempted(k, l)) /\ (Linked(k, l)' <=> Linked(k, l))
    BY <1>1, <1>10, QuietMarks DEF Quiet
  <2> QED
    BY <1>9, <2>1, <2>2
<1>11. ASSUME NEW p \in Syncs, Links(p) PROVE OnceStep(k, l)
  <2> DEFINE here == k = KeyOf[cur[p]] /\ l = LaneOf(seen[p][cur[p]])
  <2>1. P' = P /\ R' \subseteq R
    BY <1>11, OthersRequested DEF P, R
  <2>2. /\ here => Linked(k, l)'
        /\ ~here => /\ Attempted(k, l)' <=> Attempted(k, l)
                    /\ Linked(k, l)' <=> Linked(k, l)
    BY <1>11, LinksMarks
  <2>3. here => P # {}
    BY <1>11, LinksRecorded DEF P
  <2> HIDE DEF here
  <2>4. CASE here
    <3>1. Count(k, l) = 1 /\ ~Sent(k, l) /\ Link(k, l)' /\ ~Att(k, l)'
      BY <1>4, <1>6, <1>8, <2>2, <2>3, <2>4
    <3>2. UNCHANGED <<Sent(k, l), Count(k, l)>>
      BY <1>4, <1>5, <1>6, <1>7, <1>8, <2>1, <2>3, <2>4
    <3> QED
      BY <3>1, <3>2 DEF OnceStep
  <2>5. CASE ~here
    BY <1>9, <2>1, <2>2, <2>5
  <2> QED
    BY <2>4, <2>5
<1>12. ASSUME NEW p \in Syncs, Sends(p) PROVE OnceStep(k, l)
  <2> DEFINE here == k = KeyOf[cur[p]] /\ l = LaneOf(seen[p][cur[p]])
  <2>1. P' = P /\ R' = IF here THEN R \cup {p} ELSE R
    BY <1>12, SendsRequested DEF P, R
  <2>2. /\ here => Attempted(k, l)'
        /\ ~here => (Attempted(k, l)' <=> Attempted(k, l))
        /\ Linked(k, l)' <=> Linked(k, l)
    BY <1>12, SendsMarks
  <2>3. here => ~Attempted(k, l) /\ ~Linked(k, l)
    <3>1. here => ~Recorded(k, l)
      BY <1>12, SendsRecorded
    <3> QED
      BY <3>1, MarksRecorded
  <2> HIDE DEF here
  <2>4. CASE here
    <3>1. R # {} => FALSE
      BY <1>8, <2>3, <2>4
    <3>2. R' # {}
      BY <2>1, <2>4
    <3>3. P = {}
      <4>1. P' = {} \/ R' = {}
        BY <1>3 DEF OnceFor, P, R
      <4> QED
        BY <2>1, <3>2, <4>1
    <3>4. ~Att(k, l) /\ ~Sent(k, l) /\ Count(k, l) = 0 /\ ~Link(k, l) /\ Att(k, l)' /\ Sent(k, l)'
      BY <1>4, <1>6, <2>2, <2>3, <2>4, <3>1, <3>2, <3>3
    <3>5. UNCHANGED <<Count(k, l), Link(k, l)>>
      BY <1>4, <1>5, <1>6, <1>7, <2>1, <2>2
    <3> QED
      BY <3>4, <3>5 DEF OnceStep
  <2>5. CASE ~here
    BY <1>9, <2>1, <2>2, <2>5
  <2> QED
    BY <2>4, <2>5
<1>13. ASSUME NEW p \in Syncs, GitHubCreates(p) PROVE OnceStep(k, l)
  <2>1. PICK r \in req[p] :
            /\ r \in Issue
            /\ \A q \in Syncs : req'[q] = IF q = p THEN req[q] \ {r} ELSE req[q]
            /\ \A c, m : Published(c, m)' =
                  IF r = [key |-> c, lane |-> m] THEN Published(c, m) \cup {Len(issues) + 1}
                  ELSE Published(c, m)
    BY <1>13, CreatesEffect
  <2>2. SameRecords
    BY <1>13 DEF GitHubCreates, state, SameRecords
  <2>3. (Attempted(k, l)' <=> Attempted(k, l)) /\ (Linked(k, l)' <=> Linked(k, l))
    BY <1>1, <2>2, QuietMarks
  <2>4. R' \subseteq R
    BY <2>1 DEF R, Requested
  <2>5. CASE r = [key |-> k, lane |-> l]
    <3>1. p \in R
      BY <2>1, <2>5 DEF R, Requested
    <3>2. P = {} /\ P' = {Len(issues) + 1}
      BY <1>8, <2>1, <2>5, <3>1 DEF P
    <3>3. R' = {}
      <4>1. P' = {} \/ R' = {}
        BY <1>3 DEF OnceFor, P, R
      <4> QED
        BY <3>2, <4>1
    <3>4. Sent(k, l) /\ ~Sent(k, l)' /\ Count(k, l)' = Count(k, l) + 1
      BY <1>4, <1>5, <1>6, <3>1, <3>2, <3>3
    <3>5. UNCHANGED <<Att(k, l), Link(k, l)>>
      BY <1>4, <1>6, <1>7, <2>3
    <3> QED
      BY <3>4, <3>5 DEF OnceStep
  <2>6. CASE r # [key |-> k, lane |-> l]
    BY <1>9, <2>1, <2>3, <2>4, <2>6 DEF P
  <2> QED
    BY <2>5, <2>6
<1>14. ASSUME NEW c \in Keys, Recover(c) PROVE OnceStep(k, l)
  <2>1. P' = P /\ R' \subseteq R
    BY <1>14, OthersRequested DEF P, R
  <2>2. /\ Linked(k, l)' <=> Linked(k, l)
        /\ k = c => ~Attempted(k, l)'
        /\ k # c => (Attempted(k, l)' <=> Attempted(k, l))
    BY <1>14, RecoverMarks
  <2>3. R = {}
    BY <1>14 DEF Recover, NothingUnderWay, R, Requested
  <2>4. CASE k = c /\ Att(k, l)
    <3>1. ~Sent(k, l) /\ ~Att(k, l)'
      BY <1>4, <1>6, <2>2, <2>3, <2>4
    <3>2. UNCHANGED <<Sent(k, l), Count(k, l), Link(k, l)>>
      BY <1>4, <1>5, <1>6, <1>7, <2>1, <2>2, <2>3
    <3> QED
      BY <2>4, <3>1, <3>2 DEF OnceStep
  <2>5. CASE k = c /\ ~Att(k, l)
    <3>1. UNCHANGED <<Att(k, l), Sent(k, l), Count(k, l), Link(k, l)>>
      BY <1>4, <1>5, <1>6, <1>7, <2>1, <2>2, <2>3, <2>5
    <3> QED
      BY <3>1 DEF OnceStep
  <2>6. CASE k # c
    BY <1>9, <2>1, <2>2, <2>6
  <2> QED
    BY <2>4, <2>5, <2>6
<1> QED
  BY <1>1, <1>2, <1>10, <1>11, <1>12, <1>13, <1>14 DEF RecordStep

\* Per key and lane the queue is PublishOnce: for any items, syncs, kills, late
\* creates and lags each step attempts, publishes, loses, links or gives up as
\* that promise allows, or does none of these, where recovers are attested and
\* every writer takes the lock.
THEOREM PublishOnceCorrect == ASSUME Attested PROVE Spec => ImplementsPublishOnce
<1>1. Init => \A k \in KeysOf, l \in Lanes : Once(k, l)!Init
  BY RefineInit
<1>2. TypeInv => setup.alone /\ KeysOf \subseteq Keys
  BY SetupFacts DEF Attested, TypeInv, TypeOK, KeysOf
<1>3. TypeInv /\ (Locked => LinkInv) /\ (Locked => OnceInv) /\ [Next]_vars
        => [\/ UNCHANGED <<setup, items, issues, req>>
            \/ \A k \in KeysOf, l \in Lanes : [Once(k, l)!Next]_(Once(k, l)!vars)]_vars
  <2> SUFFICES ASSUME TypeInv, Locked => LinkInv, Locked => OnceInv, [Next]_vars,
                      NEW k \in KeysOf, NEW l \in Lanes
               PROVE  [Once(k, l)!Next]_(Once(k, l)!vars)
    OBVIOUS
  <2>1. Locked' <=> Locked
    BY LockedNext
  <2>2. CASE Locked
    <3>1. OnceInv'
      BY <1>2, <2>2, OnceNext
    <3> QED
      BY <1>2, <2>2, <3>1, RefineStep, OnceMapped
  <2>3. CASE ~Locked
    <3>1. UNCHANGED <<Att(k, l), Sent(k, l), Count(k, l), Link(k, l)>>
      BY <2>1, <2>3 DEF Att, Sent, Count, Link
    <3>2. OnceStep(k, l)
      BY <3>1 DEF OnceStep
    <3> QED
      BY <3>2, OnceMapped
  <2> QED
    BY <2>2, <2>3
<1> QED
  BY <1>1, <1>3, TypeCorrect, LinkCorrect, OnceCorrect, PTL DEF Spec, ImplementsPublishOnce

==============================================================================
