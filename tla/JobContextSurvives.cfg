\* A persistent runner executes two jobs of one attempt.
CONSTANTS
    r1 = r1
    r2 = r2
    j1 = j1
    j2 = j2
    j3 = j3
    first = first
    rerun = rerun
    runnerA = runnerA
    runnerB = runnerB
    Job = {j1, j2, j3}
    Runner = {r1, r2}
    Persistent = {r1}
    Name <- OwnNames
    Eligible <- Together
    Attempt <- SameAttempt
    Page <- Pages
    MaxPages = 2
    NoJob = NoJob
    NoCache = NoCache
    MaxCalls = 2
SPECIFICATION Spec
INVARIANT
    ExactIsOwn
\* Jobs end for good.
CHECK_DEADLOCK FALSE
