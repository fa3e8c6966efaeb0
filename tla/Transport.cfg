\* A cap of fifteen bytes, chunks that fit, fill or exceed it, alone or together.
SPECIFICATION FairPrequeueSpec
CONSTANTS
    MaxBytes = 15
    ChunkSize = {0, 4, 7, 16}
    Workload <- MCWorkload
    Legacy <- MCLegacy
    WellFormed <- MCWellFormed
    Alternative <- MCAlternative
    Id = {"id1", "id2"}
    Unset = Unset
    Malformed = Malformed
INVARIANTS
    TypeOK
    SuccessIsWhole
    SettledIsClean
    PrequeueFailsClosed
PROPERTIES
    OutcomeIsFinal
    StepEnds
\* A step that has ended does nothing more.
CHECK_DEADLOCK FALSE
