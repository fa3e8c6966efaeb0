\* One to five bytes in two or three ranges: even and uneven division, a range
\* of one byte, and fewer bytes than ranges.
SPECIFICATION FairSpec
CONSTANTS
    Sizes = {1, 4, 5}
    Counts = {2, 3}
INVARIANTS
    TypeOK
    RangesTile
    ExtractsTheArtifact
    ArchiveOutlivesParts
    NothingLeft
PROPERTY
    FaultlessRunExtracts
\* A run ends for good.
CHECK_DEADLOCK FALSE
