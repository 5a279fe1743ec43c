----------------------------- MODULE PublishOnce -----------------------------
(***************************************************************************)
(* What the repair queue promises of one issue key (ADR 0005): an attempt  *)
(* is recorded before a request is sent; a request is sent only when       *)
(* nothing was published, nothing is recorded and nothing is under way;    *)
(* the attempt is given up only while nothing is under way, and a link to  *)
(* the issue is for good.                                                  *)
(***************************************************************************)
EXTENDS Naturals

VARIABLES
    attempted,  \* an attempt is recorded, and no link resolves it
    sent,       \* a request may still be carried out
    published,  \* how many issues there are
    linked      \* the issue is recorded

vars == <<attempted, sent, published, linked>>

Init == attempted = FALSE /\ sent = FALSE /\ published = 0 /\ linked = FALSE

Attempt ==
    /\ ~attempted /\ ~sent /\ published = 0 /\ ~linked
    /\ attempted' = TRUE /\ sent' = TRUE
    /\ UNCHANGED <<published, linked>>

Publish ==
    /\ sent /\ sent' = FALSE
    /\ published' = published + 1
    /\ UNCHANGED <<attempted, linked>>

Lose ==
    /\ sent /\ sent' = FALSE
    /\ UNCHANGED <<attempted, published, linked>>

Link ==
    /\ published = 1 /\ ~sent
    /\ linked' = TRUE /\ attempted' = FALSE
    /\ UNCHANGED <<sent, published>>

GiveUp ==
    /\ attempted /\ ~sent /\ attempted' = FALSE
    /\ UNCHANGED <<sent, published, linked>>

Next == Attempt \/ Publish \/ Lose \/ Link \/ GiveUp

Spec == Init /\ [][Next]_vars
==============================================================================
