\* Two jobs that exceed the limit together, one of them deferrable.
CONSTANTS
    j1 = j1
    j2 = j2
    j3 = j3
    run = run
    build = build
    test = test
    lint = lint
    branch = branch
    Job = {j1, j2, j3}
    Lease = {l1, l2, l3}
    NoLease = NoLease
    SubjectValue = {branch}
    NoSubject = NoSubject
    RunValue = {run}
    JobKey = {build, test, lint}
    Config <- ContendingJobs
    Limit = 3
SPECIFICATION Spec
SYMMETRY LeaseSymmetry
INVARIANTS
    TypeOK
    AcquireOnce
    NoReleaseUnderWork
    WorkWithinLimit
    QuietPostReleases
    DeferralHoldsNoLease
\* Jobs end for good: the system stops.
CHECK_DEADLOCK FALSE
