----------------------------- MODULE MCPublish -----------------------------
(* Two jobs, and a history of two records that claim the same ID in one     *)
(* year, or one of a record and a newer one that claims its ID in the next  *)
(* year and was measured under another contract.                            *)
EXTENDS Publish, TLC

R(id, at, body, contract) ==
    [id |-> id, recorded_at |-> at, body |-> body, contract |-> contract]

A == R(2, 3, "a", "k1")
B == R(2, 3, "b", "k1")
C == R(2, 5, "c", "k2")

MCRecords == {A, B, C}
MCBatches == {{A, B}, {A, C}}
MCSuites == <<"core", "echo">>

JobSymmetry == Permutations(Job)

\* Bounds: at a time, one checkout holds cut-off files, and one is of a job
\* whose fetch has failed although there is a branch.
HoldsTorn(j) ==
    \E t \in Suite :
        \/ Torn \in {tree[j][t].index, tree[j][t].latest}
        \/ \E p \in Paths : tree[j][t].records[p] = Torn
        \/ \E k \in Contract : tree[j][t].contracts[k] = Torn

IsOrphan(j) == job[j].step # "idle" /\ base[j] = EmptyHistory /\ branch # EmptyHistory

OneFailureOfAKind ==
    /\ Cardinality({j \in Job : HoldsTorn(j)}) <= 1
    /\ Cardinality({j \in Job : IsOrphan(j)}) <= 1
=============================================================================
