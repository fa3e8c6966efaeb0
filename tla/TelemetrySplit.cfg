\* Two emitters, two directories, and the promise that files never split.
CONSTANTS
    e1 = e1
    e2 = e2
    d1 = d1
    d2 = d2
    payload = payload
    envelope = envelope
    Emitter = {e1, e2}
    Dir = {d1, d2}
    Base = {payload, envelope}
    Fallback = {f1, f2, f3, f4}
    NoDir = NoDir
    Plan <- Plans
SPECIFICATION Spec
INVARIANT
    NeverSplit
\* Emitters end.
CHECK_DEADLOCK FALSE
