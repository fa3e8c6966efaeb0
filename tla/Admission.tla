------------------------------ MODULE Admission ------------------------------
(***************************************************************************)
(* Job-level admission leases: ci-admission/index.mjs run by GitHub jobs   *)
(* against the organization's admission Worker.                            *)
(*                                                                         *)
(* A job is one invocation of the action and the work it admits.  The      *)
(* runner launches index.mjs twice, once in stage "main" and once in stage *)
(* "post"; pc[j] is where the process (or the job between them) stands.    *)
(* A job of operation "release" is the heavy job of a control/heavy pair:  *)
(* it works under the lease its control job acquired and then releases it  *)
(* in an explicit step.  The Worker and the network are external: requests *)
(* are handled at any later moment, even when the client has given up, or  *)
(* never: a message that stays in the network for good is a lost one.      *)
(*                                                                         *)
(* The definitions marked "Defect" are no part of the system: the checks   *)
(* put each in the place of a definition after it, to see a property fail. *)
(***************************************************************************)
EXTENDS Naturals, FiniteSets, FiniteSetsExt

CONSTANTS
    Job,            \* invocations of the action
    Lease,          \* lease identifiers the Worker can hand out
    NoLease,        \* the empty lease id
    SubjectValue,   \* explicit subjects, such as the head ref of a bot pull request
    NoSubject,      \* the empty subject input
    RunValue,       \* workflow run and attempt
    JobKey,         \* values of GITHUB_JOB
    Config,         \* Config[j]: the inputs and context of job j
    Limit           \* the Worker's policy limit, in slot weight

JobConfig ==
    [operation: {"acquire", "release"},
     kind: {"bot_pr", "heavy_validation"},
     subject: SubjectValue \cup {NoSubject},     \* the "subject" input
     run: RunValue,
     githubJob: JobKey,                          \* the job's key, not the job
     releaseInput: {"auto", "true", "false"},    \* the "release-on-post" input
     onDenied: {"fail", "defer"},
     weight: 1..4,
     control: Job]                               \* the job whose lease-id a release uses

ASSUME ConfigAssumption ==
    /\ Job # {}
    /\ Config \in [Job -> JobConfig]
    /\ NoLease \notin Lease
    /\ NoSubject \notin SubjectValue
    /\ Limit \in Nat

VARIABLES
    pc,       \* where job j stands
    stage,    \* which launch of index.mjs is next or running: "main" or "post"
    saved,    \* what main appended to GITHUB_STATE
    outputs,  \* what the action appended to GITHUB_OUTPUT
    exit,     \* how the process of each stage ended
    net,      \* requests and replies in flight
    status,   \* the Worker's lease table: the status of each lease
    owner,    \* the Worker's lease table: the job whose request created it
    sent      \* history: acquire requests each job has sent

vars == <<pc, stage, saved, outputs, exit, net, status, owner, sent>>

Stage == {"main", "post"}
ProcessPC == {"start", "marked", "acquiring", "granted", "leaseSaved", "releasing"}
PC == ProcessPC \cup {"needs", "working", "done", "lost"}
ExitCode == {"none", "ok", "failed", "killed"}
MaybeLease == Lease \cup {NoLease}
SavedState == [isPost: BOOLEAN, lease: MaybeLease, releaseOnPost: {"unset", "true", "false"}]
Outputs == [granted: BOOLEAN, lease: MaybeLease, deferred: BOOLEAN]
Message ==
    [type: {"acquire", "release", "granted", "denied", "refused",
            "released", "notReleased"},
     job: Job, lease: MaybeLease]

-----------------------------------------------------------------------------
(* Inputs, as acquireInput and its helpers resolve them. *)

Acquires(j) == Config[j].operation = "acquire"

\* Defect: the default subject leaves the job out.
SubjectFromRun(j) ==
    IF Config[j].subject = NoSubject /\ Config[j].kind = "heavy_validation"
    THEN <<Config[j].run>>
    ELSE Config[j].subject

\* Only heavy_validation falls back to run : attempt : GITHUB_JOB.
Subject(j) ==
    IF Config[j].subject = NoSubject /\ Config[j].kind = "heavy_validation"
    THEN <<Config[j].run, Config[j].githubJob>>
    ELSE Config[j].subject

ReleaseOnPost(j) ==
    \/ Config[j].releaseInput = "true"
    \/ Config[j].releaseInput = "auto" /\ Config[j].kind = "heavy_validation"

Defers(j) == Config[j].onDenied = "defer"

\* The lease a job works under, as its own outputs or its control job's say.
Held(j) == outputs[IF Acquires(j) THEN j ELSE Config[j].control].lease

ValidInput(j) ==
    IF Acquires(j)
    THEN /\ Subject(j) # NoSubject
         /\ Config[j].kind = "bot_pr" => Config[j].weight = 1
    ELSE Held(j) # NoLease

-----------------------------------------------------------------------------
Request(type, j, l) == [type |-> type, job |-> j, lease |-> l]

Send(m) == net' = net \cup {m}

\* The Worker consumes request m and answers it.
Answer(m, type, l) == net' = (net \ {m}) \cup {Request(type, m.job, l)}

Init ==
    /\ pc = [j \in Job |-> IF Acquires(j) THEN "start" ELSE "needs"]
    /\ stage = [j \in Job |-> "main"]
    /\ saved = [j \in Job |-> [isPost |-> FALSE, lease |-> NoLease, releaseOnPost |-> "unset"]]
    /\ outputs = [j \in Job |-> [granted |-> FALSE, lease |-> NoLease, deferred |-> FALSE]]
    /\ exit = [j \in Job |-> [s \in Stage |-> "none"]]
    /\ net = {}
    /\ status = [l \in Lease |-> "unused"]
    /\ owner = [l \in Lease |-> CHOOSE j \in Job : TRUE]
    /\ sent = [j \in Job |-> 0]

-----------------------------------------------------------------------------
(* The runner: what follows the end of a process, and the job's own work. *)

\* main ends: a job that acquired (or was deferred) goes on to its work, every
\* other one to its post launch.  post ends: the job is over.
EndProcess(j, code) ==
    /\ exit' = [exit EXCEPT ![j][stage[j]] = code]
    /\ \/ /\ stage[j] = "post"
          /\ pc' = [pc EXCEPT ![j] = "done"]
          /\ UNCHANGED stage
       \/ /\ stage[j] = "main"
          /\ code = "ok" /\ Acquires(j)
          /\ pc' = [pc EXCEPT ![j] = "working"]
          /\ UNCHANGED stage
       \/ /\ stage[j] = "main"
          /\ ~(code = "ok" /\ Acquires(j))
          /\ pc' = [pc EXCEPT ![j] = "start"]
          /\ stage' = [stage EXCEPT ![j] = "post"]

\* The job's steps end: normally, by a failure, by cancellation or by the job's
\* time limit.  A control job's post launch follows; a heavy job of a pair runs
\* its always() release step first.
FinishWork(j) ==
    /\ pc[j] = "working"
    /\ pc' = [pc EXCEPT ![j] = "start"]
    /\ stage' = [stage EXCEPT ![j] = IF Acquires(j) THEN "post" ELSE "main"]
    /\ UNCHANGED <<saved, outputs, exit, net, status, owner, sent>>

\* A heavy job waits for its control job.  It works when that one was granted,
\* runs only the release step when there is a lease id without a success, and
\* has nothing to do otherwise.
StartHeavyJob(j) ==
    LET c == Config[j].control
    IN  /\ pc[j] = "needs"
        /\ pc[c] \in {"done", "lost"}
        /\ pc' = [pc EXCEPT ![j] =
                     IF pc[c] = "lost" \/ outputs[c].lease = NoLease THEN "done"
                     ELSE IF exit[c]["main"] = "ok" THEN "working" ELSE "start"]
        /\ UNCHANGED <<stage, saved, outputs, exit, net, status, owner, sent>>

\* Cancellation ends the running process; what it has appended stays.
CancelProcess(j) ==
    /\ pc[j] \in ProcessPC
    /\ EndProcess(j, "killed")
    /\ UNCHANGED <<saved, outputs, net, status, owner, sent>>

\* The machine disappears: no further launch, not even post.
RunnerLost(j) ==
    /\ pc[j] \in ProcessPC \cup {"working"}
    /\ pc' = [pc EXCEPT ![j] = "lost"]
    /\ UNCHANGED <<stage, saved, outputs, exit, net, status, owner, sent>>

-----------------------------------------------------------------------------
(* runAction: the process. *)

\* Saved state reaches only the post process.
IsPost(j) == stage[j] = "post" /\ saved[j].isPost

\* Defect: no marker is left for the post launch.
MarkNothing(j) ==
    /\ pc[j] = "start"
    /\ ~IsPost(j)
    /\ pc' = [pc EXCEPT ![j] = "marked"]
    /\ UNCHANGED <<stage, saved, outputs, exit, net, status, owner, sent>>

\* A main launch (or a post launch whose main died before this line) leaves the
\* marker before it does anything else.
MarkPost(j) ==
    /\ pc[j] = "start"
    /\ ~IsPost(j)
    /\ saved' = [saved EXCEPT ![j].isPost = TRUE]
    /\ pc' = [pc EXCEPT ![j] = "marked"]
    /\ UNCHANGED <<stage, outputs, exit, net, status, owner, sent>>

RejectInput(j) ==
    /\ pc[j] = "marked"
    /\ ~ValidInput(j)
    /\ EndProcess(j, "failed")
    /\ UNCHANGED <<saved, outputs, net, status, owner, sent>>

SendAcquire(j) ==
    /\ pc[j] = "marked"
    /\ Acquires(j) /\ ValidInput(j)
    /\ Send(Request("acquire", j, NoLease))
    /\ sent' = [sent EXCEPT ![j] = @ + 1]
    /\ pc' = [pc EXCEPT ![j] = "acquiring"]
    /\ UNCHANGED <<stage, saved, outputs, exit, status, owner>>

\* A grant: the outputs are emitted first, then the state is saved key by key.
ReceiveGranted(j) ==
    /\ pc[j] = "acquiring"
    /\ \E m \in net :
          /\ m.type = "granted" /\ m.job = j
          /\ net' = net \ {m}
          /\ outputs' = [outputs EXCEPT ![j] =
                [granted |-> TRUE, lease |-> m.lease, deferred |-> FALSE]]
    /\ pc' = [pc EXCEPT ![j] = "granted"]
    /\ UNCHANGED <<stage, saved, exit, status, owner, sent>>

SaveLease(j) ==
    /\ pc[j] = "granted"
    /\ saved' = [saved EXCEPT ![j].lease = outputs[j].lease]
    /\ pc' = [pc EXCEPT ![j] = "leaseSaved"]
    /\ UNCHANGED <<stage, outputs, exit, net, status, owner, sent>>

\* Defect: the release-on-post input is ignored.
SaveAlwaysRelease(j) ==
    /\ pc[j] = "leaseSaved"
    /\ saved' = [saved EXCEPT ![j].releaseOnPost = "true"]
    /\ EndProcess(j, "ok")
    /\ UNCHANGED <<outputs, net, status, owner, sent>>

\* Defect: the input is saved unresolved.
SaveInputVerbatim(j) ==
    /\ pc[j] = "leaseSaved"
    /\ saved' = [saved EXCEPT ![j].releaseOnPost = Config[j].releaseInput]
    /\ EndProcess(j, "ok")
    /\ UNCHANGED <<outputs, net, status, owner, sent>>

SaveReleaseOnPost(j) ==
    /\ pc[j] = "leaseSaved"
    /\ saved' = [saved EXCEPT ![j].releaseOnPost = IF ReleaseOnPost(j) THEN "true" ELSE "false"]
    /\ EndProcess(j, "ok")
    /\ UNCHANGED <<outputs, net, status, owner, sent>>

\* A capacity denial fails the job, or with on-denied: defer succeeds without a lease.
ReceiveDenied(j) ==
    /\ pc[j] = "acquiring"
    /\ \E m \in net : m.type = "denied" /\ m.job = j /\ net' = net \ {m}
    /\ outputs' = [outputs EXCEPT ![j] =
          [granted |-> FALSE, lease |-> NoLease, deferred |-> Defers(j)]]
    /\ EndProcess(j, IF Defers(j) THEN "ok" ELSE "failed")
    /\ UNCHANGED <<saved, status, owner, sent>>

\* Any other answer: an HTTP error, or a success without a usable grant.
ReceiveRefused(j) ==
    /\ pc[j] = "acquiring"
    /\ \E m \in net : m.type = "refused" /\ m.job = j /\ net' = net \ {m}
    /\ outputs' = [outputs EXCEPT ![j] =
          [granted |-> FALSE, lease |-> NoLease, deferred |-> FALSE]]
    /\ EndProcess(j, "failed")
    /\ UNCHANGED <<saved, status, owner, sent>>

\* release(): the post process returns the lease main saved for it.
PostRelease(j) ==
    /\ pc[j] = "start" /\ IsPost(j)
    /\ saved[j].lease # NoLease /\ saved[j].releaseOnPost = "true"
    /\ Send(Request("release", j, saved[j].lease))
    /\ pc' = [pc EXCEPT ![j] = "releasing"]
    /\ UNCHANGED <<stage, saved, outputs, exit, status, owner, sent>>

PostSkip(j) ==
    /\ pc[j] = "start" /\ IsPost(j)
    /\ saved[j].lease = NoLease \/ saved[j].releaseOnPost # "true"
    /\ EndProcess(j, "ok")
    /\ UNCHANGED <<saved, outputs, net, status, owner, sent>>

\* explicitRelease(): the lease-id input comes from the control job's outputs.
ExplicitRelease(j) ==
    /\ pc[j] = "marked"
    /\ ~Acquires(j) /\ ValidInput(j)
    /\ Send(Request("release", j, Held(j)))
    /\ pc' = [pc EXCEPT ![j] = "releasing"]
    /\ UNCHANGED <<stage, saved, outputs, exit, status, owner, sent>>

\* Defect: any answer counts as released.
AcceptAnyReply(j) ==
    /\ pc[j] = "releasing"
    /\ \E m \in net : /\ m.type \in {"released", "notReleased"} /\ m.job = j
                      /\ net' = net \ {m}
    /\ EndProcess(j, "ok")
    /\ UNCHANGED <<saved, outputs, status, owner, sent>>

\* releaseLease(): only released === true is a success.
ReceiveReleased(j) ==
    /\ pc[j] = "releasing"
    /\ \E m \in net : /\ m.type \in {"released", "notReleased"} /\ m.job = j
                      /\ net' = net \ {m}
                      /\ EndProcess(j, IF m.type = "released" THEN "ok" ELSE "failed")
    /\ UNCHANGED <<saved, outputs, status, owner, sent>>

\* Defect: a release has no deadline.
TimeoutAcquireOnly(j) ==
    /\ pc[j] = "acquiring"
    /\ EndProcess(j, "failed")
    /\ UNCHANGED <<saved, outputs, net, status, owner, sent>>

\* Defect: an unanswered acquire counts as a denial.
TimeoutDefers(j) ==
    /\ pc[j] \in {"acquiring", "releasing"}
    /\ outputs' = [outputs EXCEPT ![j].deferred = Defers(j) /\ pc[j] = "acquiring"]
    /\ EndProcess(j, IF Defers(j) THEN "ok" ELSE "failed")
    /\ UNCHANGED <<saved, net, status, owner, sent>>

\* requestJson's deadline passes, or the transport fails.
Timeout(j) ==
    /\ pc[j] \in {"acquiring", "releasing"}
    /\ EndProcess(j, "failed")
    /\ UNCHANGED <<saved, outputs, net, status, owner, sent>>

-----------------------------------------------------------------------------
(* The Worker and the network. *)

WorkerVars == <<status, owner>>
ClientVars == <<pc, stage, saved, outputs, exit, sent>>

ActiveLeases == {l \in Lease : status[l] = "active"}

ActiveWeight == MapThenSumSet(LAMBDA l : Config[owner[l]].weight, ActiveLeases)

HasRoom(j) == ActiveWeight + Config[j].weight =< Limit

LeasesOf(subject) == {l \in ActiveLeases : Subject(owner[l]) = subject}

\* The subject already has an active lease: the answer repeats it.
ReuseLease(m) ==
    /\ m.type = "acquire"
    /\ \E l \in LeasesOf(Subject(m.job)) : Answer(m, "granted", l)
    /\ UNCHANGED <<ClientVars, WorkerVars>>

GrantLease(m) ==
    /\ m.type = "acquire"
    /\ LeasesOf(Subject(m.job)) = {}
    /\ HasRoom(m.job)
    /\ \E l \in Lease :
          /\ status[l] = "unused"
          /\ status' = [status EXCEPT ![l] = "active"]
          /\ owner' = [owner EXCEPT ![l] = m.job]
          /\ Answer(m, "granted", l)
    /\ UNCHANGED ClientVars

DenyLease(m) ==
    /\ m.type = "acquire"
    /\ LeasesOf(Subject(m.job)) = {}
    /\ ~HasRoom(m.job)
    /\ Answer(m, "denied", NoLease)
    /\ UNCHANGED <<ClientVars, WorkerVars>>

\* A failure inside the Worker, before any effect.
RefuseRequest(m) ==
    /\ \/ m.type = "acquire" /\ Answer(m, "refused", NoLease)
       \/ m.type = "release" /\ Answer(m, "notReleased", NoLease)
    /\ UNCHANGED <<ClientVars, WorkerVars>>

\* A lease that is over already may be reported either way (RefuseRequest).
ReleaseLease(m) ==
    /\ m.type = "release"
    /\ status' = [status EXCEPT ![m.lease] = IF @ = "active" THEN "released" ELSE @]
    /\ Answer(m, "released", NoLease)
    /\ UNCHANGED <<ClientVars, owner>>

\* The Worker ends a lease itself: its lifetime is over, or its pull request closed.
Expire(l) ==
    /\ status[l] = "active"
    /\ status' = [status EXCEPT ![l] = "expired"]
    /\ UNCHANGED <<ClientVars, net, owner>>

-----------------------------------------------------------------------------
Process(j) ==
    \/ MarkPost(j) \/ RejectInput(j)
    \/ SendAcquire(j) \/ ReceiveGranted(j) \/ SaveLease(j) \/ SaveReleaseOnPost(j)
    \/ ReceiveDenied(j) \/ ReceiveRefused(j)
    \/ PostRelease(j) \/ PostSkip(j) \/ ExplicitRelease(j) \/ ReceiveReleased(j)
    \/ Timeout(j)

Runner(j) == FinishWork(j) \/ StartHeavyJob(j)

Faults(j) == CancelProcess(j) \/ RunnerLost(j)

Worker(m) ==
    \/ ReuseLease(m) \/ GrantLease(m) \/ DenyLease(m)
    \/ RefuseRequest(m) \/ ReleaseLease(m)

Next ==
    \/ \E j \in Job : Process(j) \/ Runner(j) \/ Faults(j)
    \/ \E m \in net : Worker(m)
    \/ \E l \in Lease : Expire(l)

Spec == Init /\ [][Next]_vars

\* The process takes its next step and the runner ends a job's work (both have
\* time limits of their own).  Nothing is assumed of the Worker or the network.
FairSpec == Spec /\ \A j \in Job : WF_vars(Process(j) \/ Runner(j))

-----------------------------------------------------------------------------
(* Hypotheses some properties need. *)

\* No two acquiring jobs present the same subject.
DistinctSubjects ==
    \A i, j \in Job : Acquires(i) /\ Acquires(j) /\ Subject(i) = Subject(j) => i = j

\* A heavy job's control job acquires with release-on-post: false, and no other
\* heavy job uses its lease.
ExclusiveHandoff ==
    \A j \in Job : ~Acquires(j) =>
        /\ Acquires(Config[j].control)
        /\ ~ReleaseOnPost(Config[j].control)
        /\ \A i \in Job : ~Acquires(i) /\ Config[i].control = Config[j].control => i = j

-----------------------------------------------------------------------------
(* Properties. *)

TypeOK ==
    /\ pc \in [Job -> PC]
    /\ stage \in [Job -> Stage]
    /\ saved \in [Job -> SavedState]
    /\ outputs \in [Job -> Outputs]
    /\ exit \in [Job -> [Stage -> ExitCode]]
    /\ net \subseteq Message
    /\ status \in [Lease -> {"unused", "active", "released", "expired"}]
    /\ owner \in [Lease -> Job]
    /\ sent \in [Job -> Nat]

\* However main ends (denied, timed out, cancelled), the post launch never asks
\* for a second lease: a job sends at most one acquire request.
AcquireOnce == \A j \in Job : sent[j] =< 1

\* While an admitted job works, nobody releases the lease it works under; only
\* the Worker's own expiry can end it.  (The lease id saved by main, read by
\* post, handed to another job and sent in late requests is always this job's.)
NoReleaseUnderWork ==
    \A j \in Job : pc[j] = "working" /\ Held(j) # NoLease
                     => status[Held(j)] # "released"

\* The jobs at work under leases that have not expired fit the policy limit:
\* no two of them hide behind one lease.
WorkWithinLimit ==
    MapThenSumSet(
        LAMBDA j : Config[IF Acquires(j) THEN j ELSE Config[j].control].weight,
        {j \in Job : /\ pc[j] = "working"
                     /\ Held(j) # NoLease
                     /\ status[Held(j)] = "active"}) =< Limit

\* When main was granted a lease it must release on post and post ended without
\* a warning, the lease is over: a silent post never leaks one.
QuietPostReleases ==
    \A j \in Job :
        /\ Acquires(j) /\ ReleaseOnPost(j)
        /\ exit[j]["main"] = "ok" /\ outputs[j].granted
        /\ exit[j]["post"] = "ok"
        => status[outputs[j].lease] # "active"

\* A lease whose job does not release on post (a bot_pr lease, or a control
\* job's) is released by no process of that job: only the heavy job it was
\* handed to may do it, and only when that job's work is over.
KeptLeaseOutlivesPost ==
    \A l \in Lease : status[l] = "released" /\ ~ReleaseOnPost(owner[l])
        => \E j \in Job : /\ ~Acquires(j) /\ Config[j].control = owner[l]
                          /\ pc[j] \notin {"needs", "working"}

\* A deferred job holds no lease, not even one granted to it behind its back.
DeferralHoldsNoLease ==
    \A j \in Job : outputs[j].deferred => \A l \in ActiveLeases : owner[l] # j

\* The post launch only ever releases: it never creates a lease.
PostNeverAcquires ==
    \A j \in Job : pc[j] = "acquiring" => stage[j] = "main"

\* Every launched process ends, and so does every job, whatever the Worker does
\* with its requests.
EveryJobEnds == \A j \in Job : <>(pc[j] \in {"done", "lost"})
=============================================================================
