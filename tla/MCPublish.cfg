CONSTANTS
    Job = {j1, j2}
    Suites <- MCSuites
    Record <- MCRecords
    Batches <- MCBatches
    TicksPerYear = 4
    Contract = {"k1", "k2"}
    Torn = Torn
    Absent = Absent
SYMMETRY JobSymmetry
CONSTRAINT OneFailureOfAKind
SPECIFICATION Spec
INVARIANTS
    PublishConverges BranchIsWhole
PROPERTIES
    RecordsStay
