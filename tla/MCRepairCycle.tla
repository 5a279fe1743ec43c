---------------------------- MODULE MCRepairCycle ---------------------------
(***************************************************************************)
(* RepairCycle for TLC: sets of model values, and symmetry of the          *)
(* processes, which differ in nothing.                                     *)
(***************************************************************************)
EXTENDS RepairCycle, TLC

CONSTANTS c1, c2, inScope, outOfScope

OneProcess == {c1}
TwoProcesses == {c1, c2}
ProcessSymmetry == Permutations(TwoProcesses)

OnePullRequest == {inScope}
BothPullRequests == {inScope, outOfScope}
OutOfScopeOnly == {outOfScope}
NoPullRequests == {}

AlwaysHeld == {"held"}
\* A mismatched approval acts as a revoked one, and an unusable one as an absent
\* one that a selection parks at instead of ending as a no-op.
DistinctApprovals == ApprovalStates \ {"mismatched", "unusable"}
=============================================================================
