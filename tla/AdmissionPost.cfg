\* A process cancelled before its first statement.
CONSTANTS
    j1 = j1
    j2 = j2
    j3 = j3
    run = run
    build = build
    test = test
    lint = lint
    branch = branch
    Job = {j1, j2}
    Lease = {l1, l2}
    NoLease = NoLease
    SubjectValue = {branch}
    NoSubject = NoSubject
    RunValue = {run}
    JobKey = {build, test, lint}
    Config <- MatrixLegs
    Limit = 3
SPECIFICATION Spec
INVARIANT
    PostNeverAcquires
\* Jobs end for good: the system stops.
CHECK_DEADLOCK FALSE
