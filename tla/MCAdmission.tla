---------------------------- MODULE MCAdmission ----------------------------
(* Small worlds for Admission: which jobs exist and with which inputs. *)
EXTENDS Admission, TLC

CONSTANTS j1, j2, j3, run, build, test, lint, branch

Heavy(key) ==
    [operation |-> "acquire", kind |-> "heavy_validation", subject |-> NoSubject,
     run |-> run, githubJob |-> key, releaseInput |-> "auto", onDenied |-> "fail",
     weight |-> 1, control |-> CHOOSE j \in Job : TRUE]

\* Two jobs that do not fit the limit together, the second advisory, and a
\* bot_pr caller that forgot its subject.
ContendingJobs ==
    (j1 :> [Heavy(build) EXCEPT !.weight = 2])
    @@ (j2 :> [Heavy(test) EXCEPT !.onDenied = "defer", !.weight = 2])
    @@ (j3 :> [Heavy(lint) EXCEPT !.kind = "bot_pr"])

\* A control job that keeps its lease, the heavy job it hands it to, and a bot
\* pull request.
HandoffJobs ==
    (j1 :> [Heavy(build) EXCEPT !.releaseInput = "false", !.weight = 2])
    @@ (j2 :> [Heavy(test) EXCEPT !.operation = "release", !.control = j1])
    @@ (j3 :> [Heavy(lint) EXCEPT !.kind = "bot_pr", !.subject = branch])

\* Two legs of one matrix job: GITHUB_JOB is the same for both.
MatrixLegs == (j1 :> Heavy(build)) @@ (j2 :> Heavy(build))

LeaseSymmetry == Permutations(Lease)
=============================================================================
