\* A control job hands its lease to a heavy job; a bot pull request beside them.
CONSTANTS
    j1 = j1
    j2 = j2
    j3 = j3
    run = run
    build = build
    test = test
    lint = lint
    branch = branch
    Job = {j1, j2, j3}
    Lease = {l1, l2}
    NoLease = NoLease
    SubjectValue = {branch}
    NoSubject = NoSubject
    RunValue = {run}
    JobKey = {build, test, lint}
    Config <- HandoffJobs
    Limit = 3
SPECIFICATION FairSpec
INVARIANTS
    NoReleaseUnderWork
    KeptLeaseOutlivesPost
PROPERTY
    EveryJobEnds
\* Jobs end for good: the system stops.
CHECK_DEADLOCK FALSE
