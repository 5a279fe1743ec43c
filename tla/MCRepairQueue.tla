---------------------------- MODULE MCRepairQueue ----------------------------
(***************************************************************************)
(* RepairQueue for TLC: sets of model values, the setups of each run, and  *)
(* symmetry of the sync slots, which differ in nothing.                    *)
(***************************************************************************)
EXTENDS RepairQueue, TLC

CONSTANTS i1, i2, k1, k2, s1, s2

TwoItems == {i1, i2}
TwoKeys == {k1, k2}
OneSync == {s1}
TwoSyncs == {s1, s2}
SyncSymmetry == Permutations(TwoSyncs)

\* Two items, as they are reported first, and nothing around the syncs.
Quiet == [keyOf |-> [i \in TwoItems |-> k1], findings |-> {}, evidence |-> 1,
          edits |-> 0, scans |-> 0, recovers |-> 0, kills |-> 0,
          lags |-> FALSE, alone |-> TRUE, unlocked |-> FALSE]

\* One item, whose evidence and classification change, with kills and recover.
OneItem == [Quiet EXCEPT !.keyOf = [i \in {i1} |-> k1], !.evidence = 2,
            !.scans = 2, !.recovers = 1, !.kills = 1, !.lags = TRUE]

\* Two items of one key, one of which may be resolved.
SharedKey == [Quiet EXCEPT !.scans = 1]

\* Two findings, each with its own key.
OwnKeys == [Quiet EXCEPT !.keyOf = [i \in TwoItems |-> IF i = i1 THEN k1 ELSE k2],
            !.findings = TwoItems]

\* A concern and a finding, and a command that puts back what it loaded.
PutBack == [OwnKeys EXCEPT !.findings = {i2}, !.scans = 1, !.unlocked = TRUE]

\* One item, a kill, a source that changes and an index that lags.
Recovering == [OneItem EXCEPT !.evidence = 1, !.edits = 1, !.scans = 1]

Concurrent == {OneItem, SharedKey, OwnKeys}
Alone == {Recovering, PutBack}
==============================================================================
