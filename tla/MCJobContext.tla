---------------------------- MODULE MCJobContext ----------------------------
(* Small worlds for JobContext. *)
EXTENDS JobContext, TLC

CONSTANTS r1, r2, j1, j2, j3, first, rerun, runnerA, runnerB

\* A persistent runner that may execute a job and its re-run, and an ephemeral
\* one of the same name that may execute two jobs of one attempt.
SharedNames == (r1 :> runnerA) @@ (r2 :> runnerA)
Separated == (r1 :> {j1, j3}) @@ (r2 :> {j2, j3})

\* One persistent runner that may execute two jobs of one attempt.
OwnNames == (r1 :> runnerA) @@ (r2 :> runnerB)
Together == (r1 :> {j1, j2}) @@ (r2 :> {j3})

Attempts == (j1 :> first) @@ (j2 :> rerun) @@ (j3 :> rerun)
SameAttempt == (j1 :> first) @@ (j2 :> first) @@ (j3 :> rerun)

Pages == (j1 :> 1) @@ (j2 :> 1) @@ (j3 :> 2)
=============================================================================
