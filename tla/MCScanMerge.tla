----------------------------- MODULE MCScanMerge -----------------------------
(***************************************************************************)
(* ScanMerge for TLC: one item of a kind, a scan path that leaves one of   *)
(* them out, and a review's item that nobody resolves.                     *)
(***************************************************************************)
EXTENDS ScanMerge

CONSTANTS l1, s1, b1, r1

NoItems == {}
OneLint == {l1}
OneSec == {s1}
OneBandit == {b1}
OneReview == {r1}
NotReview == {l1, s1, b1}
AllOrPart == {Items, Items \ {b1}}
==============================================================================
