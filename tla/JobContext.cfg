\* Two runners share a name; a re-run finds the directory of the first attempt.
CONSTANTS
    r1 = r1
    r2 = r2
    j1 = j1
    j2 = j2
    j3 = j3
    first = first
    rerun = rerun
    runnerA = runnerA
    runnerB = runnerB
    Job = {j1, j2, j3}
    Runner = {r1, r2}
    Persistent = {r1}
    Name <- SharedNames
    Eligible <- Separated
    Attempt <- Attempts
    Page <- Pages
    MaxPages = 2
    NoJob = NoJob
    NoCache = NoCache
    MaxCalls = 2
SPECIFICATION Spec
INVARIANTS
    TypeOK
    ExactIsOwn
PROPERTY
    ExactStays
\* Jobs end for good.
CHECK_DEADLOCK FALSE
