--------------------------- MODULE AdmissionProofs ---------------------------
(* Theorems about Admission, for every set of jobs, leases and configurations. *)
EXTENDS Admission, TLAPS

-----------------------------------------------------------------------------
(* The inductive invariant. *)

\* The job whose lease j works under.
Source(j) == IF Acquires(j) THEN j ELSE Config[j].control

\* What a single job's control state says about what it saved and sent.
JobInv(j) ==
    /\ pc[j] = "needs" => ~Acquires(j)
    /\ stage[j] = "post" => pc[j] \notin {"needs", "working"}
    /\ pc[j] = "releasing" /\ Acquires(j) => stage[j] = "post"
    /\ pc[j] \in {"acquiring", "granted", "leaseSaved"} => Acquires(j)
    /\ \/ pc[j] \in {"marked", "acquiring", "granted", "leaseSaved", "releasing"}
       \/ pc[j] = "working" /\ Acquires(j)
       => saved[j].isPost
    /\ \/ pc[j] \in {"marked", "acquiring", "granted"}
       \/ pc[j] = "start" /\ ~IsPost(j)
       \/ ~Acquires(j)
       => saved[j].lease = NoLease
    /\ pc[j] = "marked" \/ (pc[j] = "start" /\ ~IsPost(j)) \/ ~Acquires(j)
       => sent[j] = 0
    /\ sent[j] =< 1

\* A job leaves "needs" only after its control job is over.
ControlOver(j) ==
    ~Acquires(j) /\ pc[j] # "needs" => pc[Config[j].control] \in {"done", "lost"}

\* The lease ids a job holds are those the Worker created for it.
HoldInv(j) ==
    /\ outputs[j].lease # NoLease =>
          /\ Acquires(j)
          /\ owner[outputs[j].lease] = j
          /\ status[outputs[j].lease] # "unused"
    /\ saved[j].lease # NoLease => saved[j].lease = outputs[j].lease
    /\ saved[j].releaseOnPost = "true" => ReleaseOnPost(j)

\* Job j has got as far as releasing the lease of Source(j), and will not work again.
MayRelease(j) ==
    IF Acquires(j)
    THEN stage[j] = "post" /\ ReleaseOnPost(j)
    ELSE pc[j] \notin {"needs", "working"}

MessageInv(m) ==
    /\ m.type = "acquire" => Acquires(m.job)
    /\ m.type = "granted" =>
          /\ m.lease \in Lease
          /\ Acquires(m.job)
          /\ owner[m.lease] = m.job
          /\ status[m.lease] # "unused"
    /\ m.type = "release" =>
          /\ m.lease \in Lease
          /\ owner[m.lease] = Source(m.job)
          /\ status[m.lease] # "unused"
          /\ MayRelease(m.job)

LeaseInv(l) ==
    /\ status[l] # "unused" => Acquires(owner[l])
    /\ status[l] = "released" => \E j \in Job : Source(j) = owner[l] /\ MayRelease(j)

IInv ==
    /\ TypeOK
    /\ \A j \in Job : JobInv(j) /\ ControlOver(j) /\ HoldInv(j)
    /\ \A m \in net : MessageInv(m)
    /\ \A l \in Lease : LeaseInv(l)

-----------------------------------------------------------------------------
(* Type correctness. *)

\* The end of a process keeps the types of the three variables it changes.
LEMMA EndProcessType ==
    ASSUME TypeOK, NEW j \in Job, NEW code \in ExitCode, EndProcess(j, code)
    PROVE  /\ pc' \in [Job -> PC]
           /\ stage' \in [Job -> Stage]
           /\ exit' \in [Job -> [Stage -> ExitCode]]
<1>1. pc' \in [Job -> PC] /\ stage' \in [Job -> Stage]
  BY DEF TypeOK, EndProcess, PC, ProcessPC, Stage
<1>2. exit[j] \in [Stage -> ExitCode] /\ stage[j] \in Stage
  BY DEF TypeOK
<1>3. [exit[j] EXCEPT ![stage[j]] = code] \in [Stage -> ExitCode]
  BY <1>2
<1>4. exit' = [exit EXCEPT ![j] = [exit[j] EXCEPT ![stage[j]] = code]]
  BY DEF EndProcess
<1> QED
  BY <1>1, <1>3, <1>4 DEF TypeOK

\* Saving one key of the state keeps the type of saved.
LEMMA SavedFieldType ==
    ASSUME TypeOK, NEW j \in Job
    PROVE  /\ [saved EXCEPT ![j].isPost = TRUE] \in [Job -> SavedState]
           /\ [saved EXCEPT ![j].lease = outputs[j].lease] \in [Job -> SavedState]
           /\ \A v \in {"unset", "true", "false"} :
                 [saved EXCEPT ![j].releaseOnPost = v] \in [Job -> SavedState]
<1>1. saved[j] \in SavedState /\ outputs[j].lease \in MaybeLease
  BY DEF TypeOK, Outputs
<1>2. [saved[j] EXCEPT !.isPost = TRUE] \in SavedState
  BY <1>1 DEF SavedState
<1>3. [saved[j] EXCEPT !.lease = outputs[j].lease] \in SavedState
  BY <1>1 DEF SavedState
<1>4. ASSUME NEW v \in {"unset", "true", "false"}
      PROVE  [saved[j] EXCEPT !.releaseOnPost = v] \in SavedState
  BY <1>1 DEF SavedState
<1> QED
  BY <1>2, <1>3, <1>4 DEF TypeOK

\* A step of a job's process keeps every type.
LEMMA ProcessType ==
    ASSUME TypeOK, NEW j \in Job, Process(j)
    PROVE  TypeOK'
<1> USE ConfigAssumption DEF MaybeLease, Outputs
<1>1. {"ok", "failed", "killed"} \subseteq ExitCode
  BY DEF ExitCode
<1>2. Held(j) \in MaybeLease
  BY DEF TypeOK, Held, JobConfig
<1>3. CASE MarkPost(j)
  BY <1>3, SavedFieldType DEF MarkPost, TypeOK, PC, ProcessPC
<1>4. CASE RejectInput(j)
  BY <1>1, <1>4, EndProcessType DEF RejectInput, TypeOK
<1>5. CASE SendAcquire(j)
  BY <1>5 DEF SendAcquire, Send, Request, TypeOK, Message, PC, ProcessPC
<1>6. CASE ReceiveGranted(j)
  BY <1>6 DEF ReceiveGranted, TypeOK, Message, PC, ProcessPC
<1>7. CASE SaveLease(j)
  BY <1>7, SavedFieldType DEF SaveLease, TypeOK, PC, ProcessPC
<1>8. CASE SaveReleaseOnPost(j)
  BY <1>1, <1>8, EndProcessType, SavedFieldType DEF SaveReleaseOnPost, TypeOK
<1>9. CASE ReceiveDenied(j)
  BY <1>1, <1>9, EndProcessType DEF ReceiveDenied, Defers, TypeOK
<1>10. CASE ReceiveRefused(j)
  BY <1>1, <1>10, EndProcessType DEF ReceiveRefused, TypeOK
<1>11. CASE PostRelease(j)
  BY <1>11 DEF PostRelease, Send, Request, TypeOK, SavedState, Message, PC, ProcessPC
<1>12. CASE PostSkip(j)
  BY <1>1, <1>12, EndProcessType DEF PostSkip, TypeOK
<1>13. CASE ExplicitRelease(j)
  BY <1>2, <1>13 DEF ExplicitRelease, Send, Request, TypeOK, Message, PC, ProcessPC
<1>14. CASE ReceiveReleased(j)
  BY <1>1, <1>14, EndProcessType DEF ReceiveReleased, TypeOK
<1>15. CASE Timeout(j)
  BY <1>1, <1>15, EndProcessType DEF Timeout, TypeOK
<1> QED
  BY <1>3, <1>4, <1>5, <1>6, <1>7, <1>8, <1>9, <1>10, <1>11, <1>12, <1>13, <1>14, <1>15
     DEF Process

\* A step of the Worker keeps every type.
LEMMA WorkerType ==
    ASSUME TypeOK, NEW m \in net, Worker(m)
    PROVE  TypeOK'
<1> USE DEF MaybeLease, Answer, Request, Message, ClientVars, WorkerVars
<1>1. CASE ReuseLease(m)
  BY <1>1 DEF ReuseLease, LeasesOf, ActiveLeases, TypeOK
<1>2. CASE GrantLease(m)
  BY <1>2 DEF GrantLease, TypeOK
<1>3. CASE DenyLease(m)
  BY <1>3 DEF DenyLease, TypeOK
<1>4. CASE RefuseRequest(m)
  BY <1>4 DEF RefuseRequest, TypeOK
<1>5. CASE ReleaseLease(m)
  <2>1. status' \in [Lease -> {"unused", "active", "released", "expired"}]
    BY <1>5 DEF ReleaseLease, TypeOK
  <2>2. net' \subseteq Message
    BY <1>5 DEF ReleaseLease, TypeOK
  <2> QED
    BY <1>5, <2>1, <2>2 DEF ReleaseLease, TypeOK
<1> QED
  BY <1>1, <1>2, <1>3, <1>4, <1>5 DEF Worker

\* Every variable keeps its type along every behaviour.
THEOREM TypeCorrect == Spec => []TypeOK
<1>1. Init => TypeOK
  BY ConfigAssumption
     DEF Init, TypeOK, PC, ProcessPC, Stage, ExitCode, MaybeLease, SavedState, Outputs
<1>2. TypeOK /\ [Next]_vars => TypeOK'
  <2> SUFFICES ASSUME TypeOK, [Next]_vars PROVE TypeOK'
    OBVIOUS
  <2>1. ASSUME NEW j \in Job, Process(j) PROVE TypeOK'
    BY <2>1, ProcessType
  <2>2. ASSUME NEW j \in Job, Runner(j) PROVE TypeOK'
    BY <2>2 DEF Runner, FinishWork, StartHeavyJob, TypeOK, PC, ProcessPC, Stage
  <2>3. ASSUME NEW j \in Job, Faults(j) PROVE TypeOK'
    <3>1. CASE CancelProcess(j)
      BY <3>1, EndProcessType DEF CancelProcess, ExitCode, TypeOK
    <3>2. CASE RunnerLost(j)
      BY <3>2 DEF RunnerLost, TypeOK, PC
    <3> QED
      BY <2>3, <3>1, <3>2 DEF Faults
  <2>4. ASSUME NEW m \in net, Worker(m) PROVE TypeOK'
    BY <2>4, WorkerType
  <2>5. ASSUME NEW l \in Lease, Expire(l) PROVE TypeOK'
    BY <2>5 DEF Expire, ClientVars, TypeOK
  <2>6. CASE UNCHANGED vars
    BY <2>6 DEF vars, TypeOK
  <2> QED
    BY <2>1, <2>2, <2>3, <2>4, <2>5, <2>6 DEF Next
<1> QED
  BY <1>1, <1>2, PTL DEF Spec

-----------------------------------------------------------------------------
(* What one job's control state implies.  No assumption on the configuration. *)

JobVars(j) == <<pc[j], stage[j], saved[j], sent[j], outputs[j]>>

\* A step of job j's process, runner or faults keeps its own JobInv.
LEMMA OwnStep ==
    ASSUME TypeOK, NEW j \in Job, JobInv(j), Process(j) \/ Runner(j) \/ Faults(j)
    PROVE  JobInv(j)'
<1> USE DEF TypeOK, JobInv, IsPost, Stage
<1>1. pc[j] \in PC /\ stage[j] \in Stage /\ sent[j] \in Nat
  OBVIOUS
<1>2. CASE MarkPost(j)
  BY <1>2 DEF MarkPost, SavedState
<1>3. CASE RejectInput(j)
  BY <1>3 DEF RejectInput, EndProcess
<1>4. CASE SendAcquire(j)
  BY <1>4 DEF SendAcquire
<1>5. CASE ReceiveGranted(j)
  BY <1>5 DEF ReceiveGranted
<1>6. CASE SaveLease(j)
  BY <1>6 DEF SaveLease, SavedState
<1>7. CASE SaveReleaseOnPost(j)
  BY <1>7 DEF SaveReleaseOnPost, EndProcess, SavedState
<1>8. CASE ReceiveDenied(j)
  BY <1>8 DEF ReceiveDenied, EndProcess
<1>9. CASE ReceiveRefused(j)
  BY <1>9 DEF ReceiveRefused, EndProcess
<1>10. CASE PostRelease(j)
  BY <1>10 DEF PostRelease
<1>11. CASE PostSkip(j)
  BY <1>11 DEF PostSkip, EndProcess
<1>12. CASE ExplicitRelease(j)
  BY <1>12 DEF ExplicitRelease
<1>13. CASE ReceiveReleased(j)
  BY <1>13 DEF ReceiveReleased, EndProcess
<1>14. CASE Timeout(j)
  BY <1>14 DEF Timeout, EndProcess
<1>15. CASE FinishWork(j)
  BY <1>15 DEF FinishWork
<1>16. CASE StartHeavyJob(j)
  BY <1>16 DEF StartHeavyJob
<1>17. CASE CancelProcess(j)
  BY <1>17 DEF CancelProcess, EndProcess, ProcessPC
<1>18. CASE RunnerLost(j)
  BY <1>18 DEF RunnerLost, ProcessPC
<1> QED
  BY <1>2, <1>3, <1>4, <1>5, <1>6, <1>7, <1>8, <1>9, <1>10, <1>11, <1>12, <1>13,
     <1>14, <1>15, <1>16, <1>17, <1>18 DEF Process, Runner, Faults

\* A step of one job's process, runner or faults touches no other job and no lease.
LEMMA OtherStep ==
    ASSUME TypeOK, NEW j \in Job, NEW i \in Job, i # j,
           Process(j) \/ Runner(j) \/ Faults(j)
    PROVE  JobVars(i)' = JobVars(i)
BY DEF TypeOK, JobVars, Process, Runner, Faults, MarkPost, RejectInput, SendAcquire,
       ReceiveGranted, SaveLease, SaveReleaseOnPost, ReceiveDenied, ReceiveRefused,
       PostRelease, PostSkip, ExplicitRelease, ReceiveReleased, Timeout, FinishWork,
       StartHeavyJob, CancelProcess, RunnerLost, EndProcess

\* The Worker and lease expiry touch no job.
LEMMA WorkerStep ==
    ASSUME NEW i \in Job,
           \/ \E m \in net : Worker(m)
           \/ \E l \in Lease : Expire(l)
           \/ UNCHANGED vars
    PROVE  JobVars(i)' = JobVars(i)
BY DEF JobVars, Worker, ReuseLease, GrantLease, DenyLease, RefuseRequest, ReleaseLease,
       Expire, ClientVars, vars

\* JobInv is inductive for all jobs together.
LEMMA JobsStep ==
    ASSUME TypeOK, \A j \in Job : JobInv(j), [Next]_vars
    PROVE  \A j \in Job : JobInv(j)'
<1> TAKE i \in Job
<1>1. JobVars(i)' = JobVars(i) => JobInv(i)'
  BY DEF JobVars, JobInv, IsPost
<1>2. ASSUME NEW j \in Job, Process(j) \/ Runner(j) \/ Faults(j)
      PROVE  JobInv(i)'
  BY <1>1, <1>2, OwnStep, OtherStep
<1>3. CASE (\E m \in net : Worker(m)) \/ (\E l \in Lease : Expire(l)) \/ UNCHANGED vars
  BY <1>1, <1>3, WorkerStep
<1> QED
  BY <1>2, <1>3 DEF Next

\* Along every behaviour each job's control state accounts for what it saved and sent.
LEMMA JobsCorrect == Spec => [](\A j \in Job : JobInv(j))
<1>1. Init => \A j \in Job : JobInv(j)
  BY DEF Init, JobInv, IsPost
<1>2. TypeOK /\ (\A j \in Job : JobInv(j)) /\ [Next]_vars => (\A j \in Job : JobInv(j))'
  BY JobsStep
<1> QED
  BY <1>1, <1>2, TypeCorrect, PTL DEF Spec

\* A job sends at most one acquire request, whatever fails, is lost or is cancelled.
THEOREM AcquiresOnce == Spec => []AcquireOnce
<1>1. (\A j \in Job : JobInv(j)) => AcquireOnce
  BY DEF JobInv, AcquireOnce
<1> QED
  BY <1>1, JobsCorrect, PTL

-----------------------------------------------------------------------------
(* The marker of the post launch. *)

\* The process of j has not been answered yet, and nothing it left says post.
Unmarked(j) == pc[j] = "start" /\ ~IsPost(j)

\* A post launch that does the work of main follows a main launch that was killed before
\* its marker: an answer was never read, and no acquire sent before this one.
LateInv(j) ==
    /\ stage[j] = "post" /\ (Unmarked(j) \/ pc[j] \in {"marked", "acquiring"})
       => exit[j]["main"] = "killed"
    /\ Unmarked(j) \/ pc[j] \in {"marked", "acquiring"} \/ ~Acquires(j)
       => outputs[j].lease = NoLease
    /\ pc[j] = "acquiring" => sent[j] = 1

\* A step of a job's process, runner or faults keeps its LateInv.
LEMMA OwnLateStep ==
    ASSUME TypeOK, NEW j \in Job, JobInv(j), LateInv(j),
           Process(j) \/ Runner(j) \/ Faults(j)
    PROVE  LateInv(j)'
<1> USE DEF TypeOK, JobInv, LateInv, Unmarked, IsPost, Stage
<1>1. pc[j] \in PC /\ stage[j] \in Stage /\ exit[j] \in [Stage -> ExitCode]
  OBVIOUS
<1>2. CASE MarkPost(j)
  BY <1>2 DEF MarkPost, SavedState
<1>3. CASE RejectInput(j)
  BY <1>3 DEF RejectInput, EndProcess
<1>4. CASE SendAcquire(j)
  BY <1>4 DEF SendAcquire
<1>5. CASE ReceiveGranted(j)
  BY <1>5 DEF ReceiveGranted
<1>6. CASE SaveLease(j)
  BY <1>6 DEF SaveLease, SavedState
<1>7. CASE SaveReleaseOnPost(j)
  BY <1>7 DEF SaveReleaseOnPost, EndProcess, SavedState
<1>8. CASE ReceiveDenied(j)
  BY <1>8 DEF ReceiveDenied, EndProcess
<1>9. CASE ReceiveRefused(j)
  BY <1>9 DEF ReceiveRefused, EndProcess
<1>10. CASE PostRelease(j)
  BY <1>10 DEF PostRelease
<1>11. CASE PostSkip(j)
  BY <1>11 DEF PostSkip, EndProcess
<1>12. CASE ExplicitRelease(j)
  BY <1>12 DEF ExplicitRelease
<1>13. CASE ReceiveReleased(j)
  BY <1>13 DEF ReceiveReleased, EndProcess
<1>14. CASE Timeout(j)
  BY <1>14 DEF Timeout, EndProcess
<1>15. CASE FinishWork(j)
  BY <1>15 DEF FinishWork
<1>16. CASE StartHeavyJob(j)
  BY <1>16 DEF StartHeavyJob
<1>17. CASE CancelProcess(j)
  BY <1>17 DEF CancelProcess, EndProcess, ProcessPC
<1>18. CASE RunnerLost(j)
  BY <1>18 DEF RunnerLost, ProcessPC
<1> QED
  BY <1>2, <1>3, <1>4, <1>5, <1>6, <1>7, <1>8, <1>9, <1>10, <1>11, <1>12, <1>13,
     <1>14, <1>15, <1>16, <1>17, <1>18 DEF Process, Runner, Faults

\* Nobody else ends the processes of a job.
LEMMA ExitIsOwn ==
    ASSUME TypeOK, NEW i \in Job, [Next]_vars,
           ~(Process(i) \/ Runner(i) \/ Faults(i))
    PROVE  JobVars(i)' = JobVars(i) /\ exit'[i] = exit[i]
<1>1. ASSUME NEW j \in Job, i # j, Process(j) \/ Runner(j) \/ Faults(j)
      PROVE  exit'[i] = exit[i]
  BY <1>1 DEF TypeOK, Process, Runner, Faults, MarkPost, RejectInput, SendAcquire,
       ReceiveGranted, SaveLease, SaveReleaseOnPost, ReceiveDenied, ReceiveRefused,
       PostRelease, PostSkip, ExplicitRelease, ReceiveReleased, Timeout, FinishWork,
       StartHeavyJob, CancelProcess, RunnerLost, EndProcess
<1>2. CASE (\E m \in net : Worker(m)) \/ (\E l \in Lease : Expire(l)) \/ UNCHANGED vars
  <2>1. exit' = exit
    BY <1>2 DEF Worker, ReuseLease, GrantLease, DenyLease, RefuseRequest, ReleaseLease,
         Expire, ClientVars, vars
  <2> QED
    BY <1>2, <2>1, WorkerStep
<1> QED
  BY <1>1, <1>2, OtherStep DEF Next

\* The jobs together: no launch of any job is late for another reason.
LEMMA LateCorrect == Spec => [](\A j \in Job : LateInv(j))
<1> DEFINE Jobs == \A j \in Job : JobInv(j)
           Late == \A j \in Job : LateInv(j)
<1>1. Init => Late
  BY DEF Init, LateInv, Unmarked
<1>2. TypeOK /\ Jobs /\ Late /\ [Next]_vars => Late'
  <2> SUFFICES ASSUME TypeOK, Jobs, Late, [Next]_vars, NEW j \in Job
               PROVE  LateInv(j)'
      OBVIOUS
  <2>1. CASE Process(j) \/ Runner(j) \/ Faults(j)
    BY <2>1, OwnLateStep
  <2>2. CASE ~(Process(j) \/ Runner(j) \/ Faults(j))
    <3>1. JobVars(j)' = JobVars(j) /\ exit'[j] = exit[j]
      BY <2>2, ExitIsOwn
    <3> QED
      BY <3>1 DEF JobVars, LateInv, Unmarked, IsPost
  <2> QED
    BY <2>1, <2>2
<1> HIDE DEF Jobs
<1>3. Spec => []Jobs
  BY JobsCorrect DEF Jobs
<1> QED
  BY <1>1, <1>2, <1>3, TypeCorrect, PTL DEF Spec

\* PostNeverAcquires fails of a job only whose main was killed before its first line took
\* effect: whenever a post launch acquires, main was killed, this is the only request
\* the job ever sent, and it holds nothing a release could be owed for (index.mjs, the
\* marker runAction saves before anything else).
PostAcquiresOnlyForKilledMain ==
    \A j \in Job : pc[j] = "acquiring" /\ stage[j] = "post" =>
        exit[j]["main"] = "killed" /\ sent[j] = 1 /\ outputs[j].lease = NoLease

\* A job whose main was not killed has a post launch that only releases; a post launch
\* that acquires all the same is the first one of its job to ask for anything.
THEOREM PostAcquiresLate == Spec => []PostAcquiresOnlyForKilledMain
<1>1. (\A j \in Job : LateInv(j)) => PostAcquiresOnlyForKilledMain
  BY DEF LateInv, PostAcquiresOnlyForKilledMain
<1> QED
  BY <1>1, LateCorrect, PTL

-----------------------------------------------------------------------------
(* The leases.  Facts that, once true, stay true. *)

\* A lease the Worker has created keeps its owner and stays created.
LEMMA CreatedForGood ==
    ASSUME TypeOK, [Next]_vars, NEW l \in Lease, status[l] # "unused"
    PROVE  status'[l] # "unused" /\ owner'[l] = owner[l]
<1>1. ASSUME NEW j \in Job, Process(j) \/ Runner(j) \/ Faults(j)
      PROVE  status' = status /\ owner' = owner
  BY <1>1 DEF Process, Runner, Faults, MarkPost, RejectInput, SendAcquire,
       ReceiveGranted, SaveLease, SaveReleaseOnPost, ReceiveDenied, ReceiveRefused,
       PostRelease, PostSkip, ExplicitRelease, ReceiveReleased, Timeout, FinishWork,
       StartHeavyJob, CancelProcess, RunnerLost
<1>2. ASSUME NEW m \in net, Worker(m)
      PROVE  status'[l] # "unused" /\ owner'[l] = owner[l]
  BY <1>2 DEF TypeOK, Worker, ReuseLease, GrantLease, DenyLease, RefuseRequest,
       ReleaseLease, WorkerVars
<1>3. ASSUME NEW k \in Lease, Expire(k)
      PROVE  status'[l] # "unused" /\ owner'[l] = owner[l]
  BY <1>3 DEF TypeOK, Expire
<1>4. CASE UNCHANGED vars
  BY <1>4 DEF vars
<1> QED
  BY <1>1, <1>2, <1>3, <1>4 DEF Next

\* A job that is over takes no further step.
LEMMA OverForGood ==
    ASSUME TypeOK, [Next]_vars, NEW j \in Job, pc[j] \in {"done", "lost"}
    PROVE  JobVars(j)' = JobVars(j)
<1>1. ASSUME Process(j) \/ Runner(j) \/ Faults(j)
      PROVE  FALSE
  BY <1>1 DEF Process, Runner, Faults, MarkPost, RejectInput, SendAcquire,
       ReceiveGranted, SaveLease, SaveReleaseOnPost, ReceiveDenied, ReceiveRefused,
       PostRelease, PostSkip, ExplicitRelease, ReceiveReleased, Timeout, FinishWork,
       StartHeavyJob, CancelProcess, RunnerLost, ProcessPC
<1> QED
  BY <1>1, OtherStep, WorkerStep DEF Next

\* A job that has got as far as releasing never works again.
LEMMA MayReleaseForGood ==
    ASSUME TypeOK, [Next]_vars, NEW j \in Job, JobInv(j), MayRelease(j)
    PROVE  MayRelease(j)'
<1>1. JobVars(j)' = JobVars(j) => MayRelease(j)'
  BY DEF JobVars, MayRelease
<1>2. ASSUME Process(j) \/ Runner(j) \/ Faults(j)
      PROVE  MayRelease(j)'
  BY <1>2 DEF TypeOK, MayRelease, JobInv, Process, Runner, Faults, MarkPost, RejectInput,
       SendAcquire, ReceiveGranted, SaveLease, SaveReleaseOnPost, ReceiveDenied,
       ReceiveRefused, PostRelease, PostSkip, ExplicitRelease, ReceiveReleased, Timeout,
       FinishWork, StartHeavyJob, CancelProcess, RunnerLost, EndProcess
<1> QED
  BY <1>1, <1>2, OtherStep, WorkerStep DEF Next

\* A heavy job runs only when its control job is over.
LEMMA ControlStep ==
    ASSUME TypeOK, [Next]_vars, NEW j \in Job, ControlOver(j)
    PROVE  ControlOver(j)'
<1> DEFINE c == Config[j].control
<1>1. c \in Job
  BY ConfigAssumption DEF JobConfig
<1>2. CASE pc[j] # "needs"
  BY <1>1, <1>2, OverForGood DEF ControlOver, JobVars
<1>3. ASSUME pc[j] = "needs", Process(j) \/ Runner(j) \/ Faults(j)
      PROVE  pc[c] \in {"done", "lost"} /\ pc'[c] = pc[c]
  <2>1. StartHeavyJob(j)
    BY <1>3 DEF Process, Runner, Faults, MarkPost, RejectInput, SendAcquire,
       ReceiveGranted, SaveLease, SaveReleaseOnPost, ReceiveDenied, ReceiveRefused,
       PostRelease, PostSkip, ExplicitRelease, ReceiveReleased, Timeout, FinishWork,
       CancelProcess, RunnerLost, ProcessPC
  <2> QED
    BY <1>1, <1>3, <2>1 DEF StartHeavyJob, TypeOK
<1>4. JobVars(j)' = JobVars(j) /\ pc[j] = "needs" => ControlOver(j)'
  BY DEF JobVars, ControlOver
<1> QED
  BY <1>2, <1>3, <1>4, OtherStep, WorkerStep DEF Next, ControlOver

-----------------------------------------------------------------------------
(* The lease part of the invariant is preserved, component by component. *)

\* What a job holds is what the Worker created for it.
LEMMA HoldStep ==
    ASSUME IInv, [Next]_vars, NEW j \in Job
    PROVE  HoldInv(j)'
<1> USE DEF TypeOK
<1>1. TypeOK /\ JobInv(j) /\ HoldInv(j) /\ (\A m \in net : MessageInv(m))
  BY DEF IInv
<1>2. outputs[j].lease \in MaybeLease /\ saved[j] \in SavedState /\ outputs[j] \in Outputs
  BY <1>1 DEF Outputs
<1>3. (\A l \in Lease : status[l] # "unused" => status'[l] # "unused" /\ owner'[l] = owner[l])
  BY <1>1, CreatedForGood
<1>4. outputs'[j].lease = outputs[j].lease /\ saved'[j].lease = saved[j].lease
         /\ saved'[j].releaseOnPost = saved[j].releaseOnPost
      => HoldInv(j)'
  BY <1>1, <1>2, <1>3 DEF HoldInv, MaybeLease, ReleaseOnPost, Acquires
<1>5. ASSUME Process(j)
      PROVE  HoldInv(j)'
  <2>1. CASE ReceiveGranted(j)
    <3>1. PICK m \in net : /\ m.type = "granted" /\ m.job = j
                           /\ outputs' = [outputs EXCEPT ![j] =
                                [granted |-> TRUE, lease |-> m.lease, deferred |-> FALSE]]
      BY <2>1 DEF ReceiveGranted
    <3>2. m.lease \in Lease /\ Acquires(j) /\ owner[m.lease] = j /\ status[m.lease] # "unused"
      BY <1>1, <3>1 DEF MessageInv
    <3>3. outputs'[j].lease = m.lease /\ saved' = saved /\ saved[j].lease = NoLease
      BY <1>1, <2>1, <3>1 DEF ReceiveGranted, JobInv
    <3> QED
      BY <1>1, <1>3, <3>2, <3>3 DEF HoldInv, ReleaseOnPost, Acquires
  <2>2. CASE ReceiveDenied(j) \/ ReceiveRefused(j)
    <3>1. outputs'[j].lease = NoLease /\ saved' = saved /\ saved[j].lease = NoLease
      BY <1>1, <2>2 DEF ReceiveDenied, ReceiveRefused, JobInv
    <3> QED
      BY <1>1, <3>1 DEF HoldInv, ReleaseOnPost
  <2>3. CASE SaveLease(j)
    <3>1. /\ outputs' = outputs
          /\ saved'[j].lease = outputs[j].lease
          /\ saved'[j].releaseOnPost = saved[j].releaseOnPost
      BY <1>1, <1>2, <2>3 DEF SaveLease, SavedState
    <3> QED
      BY <1>1, <1>2, <1>3, <3>1 DEF HoldInv, MaybeLease, ReleaseOnPost, Acquires
  <2>4. CASE SaveReleaseOnPost(j)
    <3>1. /\ outputs' = outputs
          /\ saved'[j].lease = saved[j].lease
          /\ saved'[j].releaseOnPost = IF ReleaseOnPost(j) THEN "true" ELSE "false"
      BY <1>1, <1>2, <2>4 DEF SaveReleaseOnPost, SavedState
    <3> QED
      BY <1>1, <1>2, <1>3, <3>1 DEF HoldInv, MaybeLease, ReleaseOnPost, Acquires
  <2>5. CASE MarkPost(j)
    BY <1>1, <1>2, <1>4, <2>5 DEF MarkPost, SavedState
  <2>6. CASE \/ RejectInput(j) \/ SendAcquire(j) \/ PostRelease(j) \/ PostSkip(j)
             \/ ExplicitRelease(j) \/ ReceiveReleased(j) \/ Timeout(j)
    BY <1>4, <2>6 DEF RejectInput, SendAcquire, PostRelease, PostSkip, ExplicitRelease,
       ReceiveReleased, Timeout
  <2> QED
    BY <1>5, <2>1, <2>2, <2>3, <2>4, <2>5, <2>6 DEF Process
<1>6. ASSUME Runner(j) \/ Faults(j)
      PROVE  HoldInv(j)'
  BY <1>4, <1>6 DEF Runner, Faults, FinishWork, StartHeavyJob, CancelProcess, RunnerLost
<1>7. JobVars(j)' = JobVars(j) => HoldInv(j)'
  BY <1>4 DEF JobVars
<1> QED
  BY <1>1, <1>5, <1>6, <1>7, OtherStep, WorkerStep DEF Next

\* A message already in the network keeps its promise.
LEMMA OldMessage ==
    ASSUME IInv, [Next]_vars, NEW m \in net
    PROVE  MessageInv(m)'
<1>1. TypeOK /\ (\A j \in Job : JobInv(j)) /\ MessageInv(m) /\ m.job \in Job
  BY DEF IInv, TypeOK, Message
<1>2. (\A l \in Lease : status[l] # "unused" => status'[l] # "unused" /\ owner'[l] = owner[l])
  BY <1>1, CreatedForGood
<1>3. MayRelease(m.job) => MayRelease(m.job)'
  BY <1>1, MayReleaseForGood
<1> QED
  BY <1>1, <1>2, <1>3 DEF MessageInv, Source, Acquires

\* Every message a job sends is about its own lease, or its control job's.
LEMMA ClientMessage ==
    ASSUME IInv, [Next]_vars, NEW j \in Job, Process(j) \/ Runner(j) \/ Faults(j),
           NEW m \in net'
    PROVE  MessageInv(m)'
<1>1. TypeOK /\ HoldInv(j) /\ JobInv(j) /\ HoldInv(Config[j].control)
  BY ConfigAssumption DEF IInv, JobConfig
<1>2. outputs[j].lease \in MaybeLease /\ outputs[Config[j].control].lease \in MaybeLease
  BY <1>1, ConfigAssumption DEF TypeOK, JobConfig, Outputs
<1>3. m \in net => MessageInv(m)'
  BY OldMessage
<1>4. CASE SendAcquire(j)
  BY <1>3, <1>4 DEF SendAcquire, Send, Request, MessageInv, Acquires
<1>5. CASE PostRelease(j)
  <2>1. m \in net \/ m = Request("release", j, saved[j].lease)
    BY <1>5 DEF PostRelease, Send
  <2>2. /\ saved[j].lease \in Lease /\ Acquires(j) /\ owner[saved[j].lease] = j
        /\ status[saved[j].lease] # "unused"
        /\ ReleaseOnPost(j) /\ stage[j] = "post"
    BY <1>1, <1>2, <1>5 DEF PostRelease, HoldInv, MaybeLease, IsPost
  <2>3. status' = status /\ owner' = owner /\ stage' = stage
    BY <1>5 DEF PostRelease
  <2> QED
    BY <1>3, <2>1, <2>2, <2>3
       DEF MessageInv, Request, Source, MayRelease, Acquires, ReleaseOnPost
<1>6. CASE ExplicitRelease(j)
  <2>1. m \in net \/ m = Request("release", j, Held(j))
    BY <1>6 DEF ExplicitRelease, Send
  <2>2. /\ ~Acquires(j) /\ Held(j) \in Lease /\ owner[Held(j)] = Config[j].control
        /\ status[Held(j)] # "unused"
    BY <1>1, <1>2, <1>6 DEF ExplicitRelease, ValidInput, Held, HoldInv, MaybeLease
  <2>3. status' = status /\ owner' = owner /\ pc'[j] = "releasing"
    BY <1>1, <1>6 DEF ExplicitRelease, TypeOK
  <2> QED
    BY <1>3, <2>1, <2>2, <2>3 DEF MessageInv, Request, Source, MayRelease, Acquires
<1>7. net' \subseteq net \/ SendAcquire(j) \/ PostRelease(j) \/ ExplicitRelease(j)
  BY DEF Process, Runner, Faults, MarkPost, RejectInput, ReceiveGranted, SaveLease,
       SaveReleaseOnPost, ReceiveDenied, ReceiveRefused, PostSkip, ReceiveReleased,
       Timeout, FinishWork, StartHeavyJob, CancelProcess, RunnerLost
<1> QED
  BY <1>3, <1>4, <1>5, <1>6, <1>7

\* Every answer of the Worker names a lease of the job that asked.
LEMMA WorkerMessage ==
    ASSUME IInv, DistinctSubjects, [Next]_vars, NEW r \in net, Worker(r), NEW m \in net'
    PROVE  MessageInv(m)'
<1>1. /\ TypeOK /\ MessageInv(r) /\ r.job \in Job
      /\ \A l \in Lease : LeaseInv(l) /\ owner[l] \in Job
  BY DEF IInv, TypeOK, Message
<1>2. m \in net => MessageInv(m)'
  BY OldMessage
<1>3. CASE ReuseLease(r)
  <2>1. PICK l \in LeasesOf(Subject(r.job)) : Answer(r, "granted", l)
    BY <1>3 DEF ReuseLease
  <2>2. l \in Lease /\ status[l] = "active" /\ Subject(owner[l]) = Subject(r.job)
    BY <2>1 DEF LeasesOf, ActiveLeases
  <2>3. Acquires(r.job) /\ Acquires(owner[l])
    BY <1>1, <1>3, <2>2 DEF MessageInv, LeaseInv, ReuseLease
  <2>4. owner[l] = r.job
    BY <1>1, <2>2, <2>3 DEF DistinctSubjects
  <2>5. status' = status /\ owner' = owner
    BY <1>3 DEF ReuseLease, WorkerVars
  <2> QED
    BY <1>2, <2>1, <2>2, <2>3, <2>4, <2>5 DEF Answer, Request, MessageInv, Acquires
<1>4. CASE GrantLease(r)
  <2>1. PICK l \in Lease : /\ status' = [status EXCEPT ![l] = "active"]
                           /\ owner' = [owner EXCEPT ![l] = r.job]
                           /\ Answer(r, "granted", l)
    BY <1>4 DEF GrantLease
  <2>2. Acquires(r.job) /\ status'[l] = "active" /\ owner'[l] = r.job
    BY <1>1, <1>4, <2>1 DEF MessageInv, GrantLease, TypeOK
  <2> QED
    BY <1>2, <2>1, <2>2 DEF Answer, Request, MessageInv, Acquires
<1>5. CASE DenyLease(r) \/ RefuseRequest(r) \/ ReleaseLease(r)
  <2>1. m \in net \/ m.type \in {"denied", "refused", "notReleased", "released"}
    BY <1>5 DEF DenyLease, RefuseRequest, ReleaseLease, Answer, Request
  <2> QED
    BY <1>2, <2>1 DEF MessageInv
<1> QED
  BY <1>3, <1>4, <1>5 DEF Worker

\* A released lease was released on behalf of a job entitled to release it.
LEMMA LeaseStep ==
    ASSUME IInv, [Next]_vars, NEW l \in Lease
    PROVE  LeaseInv(l)'
<1>1. /\ TypeOK /\ LeaseInv(l) /\ (\A j \in Job : JobInv(j))
      /\ \A m \in net : MessageInv(m) /\ m.job \in Job
  BY DEF IInv, TypeOK, Message
<1>2. \A j \in Job : MayRelease(j) => MayRelease(j)'
  BY <1>1, MayReleaseForGood
<1>3. status'[l] = status[l] /\ owner'[l] = owner[l] => LeaseInv(l)'
  BY <1>1, <1>2 DEF LeaseInv, Source, Acquires
<1>4. ASSUME NEW j \in Job, Process(j) \/ Runner(j) \/ Faults(j)
      PROVE  LeaseInv(l)'
  BY <1>3, <1>4 DEF Process, Runner, Faults, MarkPost, RejectInput, SendAcquire,
       ReceiveGranted, SaveLease, SaveReleaseOnPost, ReceiveDenied, ReceiveRefused,
       PostRelease, PostSkip, ExplicitRelease, ReceiveReleased, Timeout, FinishWork,
       StartHeavyJob, CancelProcess, RunnerLost
<1>5. ASSUME NEW r \in net, Worker(r)
      PROVE  LeaseInv(l)'
  <2>1. CASE ReuseLease(r) \/ DenyLease(r) \/ RefuseRequest(r)
    BY <1>3, <2>1 DEF ReuseLease, DenyLease, RefuseRequest, WorkerVars
  <2>2. CASE GrantLease(r)
    <3>1. PICK k \in Lease : /\ status' = [status EXCEPT ![k] = "active"]
                             /\ owner' = [owner EXCEPT ![k] = r.job]
      BY <2>2 DEF GrantLease
    <3>2. Acquires(r.job)
      BY <1>1, <2>2 DEF MessageInv, GrantLease
    <3>3. CASE k = l
      BY <1>1, <3>1, <3>2, <3>3 DEF TypeOK, LeaseInv, Acquires
    <3>4. CASE k # l
      BY <1>1, <1>3, <3>1, <3>4 DEF TypeOK
    <3> QED
      BY <3>3, <3>4
  <2>3. CASE ReleaseLease(r)
    <3>1. r.lease \in Lease /\ owner[r.lease] = Source(r.job) /\ MayRelease(r.job)'
          /\ status[r.lease] # "unused"
      BY <1>1, <1>2, <2>3 DEF MessageInv, ReleaseLease
    <3>2. owner' = owner
      BY <2>3 DEF ReleaseLease
    <3>3. CASE r.lease = l
      <4>1. Acquires(owner[l])
        BY <1>1, <3>1, <3>3 DEF LeaseInv
      <4> QED
        BY <1>1, <3>1, <3>2, <3>3, <4>1 DEF LeaseInv, Source, Acquires
    <3>4. CASE r.lease # l
      BY <1>1, <1>3, <2>3, <3>4 DEF TypeOK, ReleaseLease
    <3> QED
      BY <3>3, <3>4
  <2> QED
    BY <1>5, <2>1, <2>2, <2>3 DEF Worker
<1>6. ASSUME NEW k \in Lease, Expire(k)
      PROVE  LeaseInv(l)'
  <2>1. CASE k = l
    BY <1>1, <1>6, <2>1 DEF Expire, TypeOK, LeaseInv, Acquires
  <2>2. CASE k # l
    BY <1>1, <1>3, <1>6, <2>2 DEF Expire, TypeOK
  <2> QED
    BY <2>1, <2>2
<1>7. CASE UNCHANGED vars
  BY <1>3, <1>7 DEF vars
<1> QED
  BY <1>4, <1>5, <1>6, <1>7 DEF Next

-----------------------------------------------------------------------------
(* The theorems about leases. *)

\* The strengthened invariant holds along every behaviour, when no two acquiring
\* jobs present the same subject.
THEOREM Invariance == ASSUME DistinctSubjects PROVE Spec => []IInv
<1>1. Init => IInv
  <2> SUFFICES ASSUME Init PROVE IInv
    OBVIOUS
  <2>1. TypeOK
    BY ConfigAssumption
       DEF Init, TypeOK, PC, ProcessPC, Stage, ExitCode, MaybeLease, SavedState, Outputs
  <2>2. \A j \in Job : JobInv(j) /\ ControlOver(j) /\ HoldInv(j)
    BY DEF Init, JobInv, IsPost, ControlOver, HoldInv
  <2>3. (\A m \in net : MessageInv(m)) /\ (\A l \in Lease : LeaseInv(l))
    BY DEF Init, LeaseInv
  <2> QED
    BY <2>1, <2>2, <2>3 DEF IInv
<1>2. TypeOK' /\ IInv /\ [Next]_vars => IInv'
  <2> SUFFICES ASSUME TypeOK', IInv, [Next]_vars PROVE IInv'
    OBVIOUS
  <2>1. \A j \in Job : JobInv(j)' /\ ControlOver(j)' /\ HoldInv(j)'
    BY JobsStep, ControlStep, HoldStep DEF IInv
  <2>2. ASSUME NEW m \in net' PROVE MessageInv(m)'
    <3>1. CASE (\E l \in Lease : Expire(l)) \/ UNCHANGED vars
      BY <3>1, OldMessage DEF Expire, vars
    <3> QED
      BY <3>1, ClientMessage, WorkerMessage DEF Next
  <2>3. \A l \in Lease : LeaseInv(l)'
    BY LeaseStep
  <2> QED
    BY <2>1, <2>2, <2>3 DEF IInv
<1> QED
  BY <1>1, <1>2, TypeCorrect, PTL DEF Spec

\* No job loses the lease it works under to a release, be it its own post launch,
\* a heavy job's explicit release, or a request delayed in the network.
THEOREM WorkIsProtected ==
    ASSUME DistinctSubjects, ExclusiveHandoff
    PROVE  Spec => []NoReleaseUnderWork
<1>1. IInv => NoReleaseUnderWork
  <2> SUFFICES ASSUME IInv, NEW j \in Job, pc[j] = "working", Held(j) # NoLease,
                      status[Held(j)] = "released"
               PROVE  FALSE
    BY DEF NoReleaseUnderWork
  <2> DEFINE c == Config[j].control
  <2>1. /\ TypeOK /\ (\A i \in Job : JobInv(i) /\ ControlOver(i) /\ HoldInv(i))
        /\ (\A l \in Lease : LeaseInv(l))
    BY DEF IInv
  <2>2. c \in Job /\ outputs[j].lease \in MaybeLease /\ outputs[c].lease \in MaybeLease
    BY <2>1, ConfigAssumption DEF JobConfig, TypeOK, Outputs
  <2>3. Held(j) \in Lease /\ owner[Held(j)] = Source(j)
    BY <2>1, <2>2 DEF Held, HoldInv, Source, MaybeLease
  <2>4. PICK i \in Job : Source(i) = Source(j) /\ MayRelease(i)
    BY <2>1, <2>3 DEF LeaseInv
  <2>5. CASE Acquires(i) /\ Acquires(j)
    BY <2>1, <2>4, <2>5 DEF Source, MayRelease, JobInv
  <2>6. CASE Acquires(i) /\ ~Acquires(j)
    BY <2>4, <2>6 DEF Source, MayRelease, ExclusiveHandoff
  <2>7. CASE ~Acquires(i) /\ Acquires(j)
    BY <2>1, <2>4, <2>7 DEF Source, MayRelease, ControlOver
  <2>8. CASE ~Acquires(i) /\ ~Acquires(j)
    BY <2>4, <2>8 DEF Source, MayRelease, ExclusiveHandoff
  <2> QED
    BY <2>5, <2>6, <2>7, <2>8
<1> QED
  BY <1>1, Invariance, PTL

\* A lease that is not to be released on post (bot_pr, or a control job's) is
\* released only by a heavy job it was handed to.
THEOREM KeptLeases == ASSUME DistinctSubjects PROVE Spec => []KeptLeaseOutlivesPost
<1>1. IInv => KeptLeaseOutlivesPost
  BY DEF IInv, LeaseInv, KeptLeaseOutlivesPost, Source, MayRelease
<1> QED
  BY <1>1, Invariance, PTL
-----------------------------------------------------------------------------
(* Acquire requests and their answers, whatever the subjects of the jobs are. *)

\* The request of job j is in flight, it is answered, a lease was created for it.
Asking(j) == \E m \in net : m.type = "acquire" /\ m.job = j
Answered(j) == \E m \in net : m.type \in {"granted", "denied", "refused"} /\ m.job = j
Denied(j) == \E m \in net : m.type = "denied" /\ m.job = j
Leased(j) == \E l \in Lease : status[l] # "unused" /\ owner[l] = j

\* The one request of a job has one answer, and a lease only if that is a grant.
RequestInv(j) ==
    /\ Asking(j) => ~Answered(j) /\ ~Leased(j)
    /\ Asking(j) \/ Answered(j) \/ Leased(j) \/ outputs[j].deferred => sent[j] # 0
    /\ Denied(j) => ~Leased(j)
    /\ outputs[j].deferred => ~Asking(j) /\ ~Leased(j)

\* Acquire requests name no lease.
AskingInv(m) == m.type = "acquire" => m.lease = NoLease


\* A step of job j's process, runner or faults keeps what its request may lead to.
LEMMA RequestOwnStep ==
    ASSUME TypeOK, NEW j \in Job, JobInv(j), RequestInv(j),
           Process(j) \/ Runner(j) \/ Faults(j)
    PROVE  RequestInv(j)'
<1> USE DEF TypeOK, RequestInv, Asking, Answered, Denied, Leased
<1>1. CASE SendAcquire(j)
  <2>1. sent[j] = 0 /\ sent'[j] # 0
    BY <1>1 DEF SendAcquire, JobInv
  <2>2. ~Answered(j) /\ ~Leased(j) /\ ~outputs[j].deferred
    BY <2>1
  <2> QED
    BY <1>1, <2>1, <2>2 DEF SendAcquire, Send, Request
<1>2. CASE ReceiveGranted(j) \/ ReceiveRefused(j)
  BY <1>2 DEF ReceiveGranted, ReceiveRefused
<1>3. CASE ReceiveDenied(j)
  BY <1>3 DEF ReceiveDenied
<1>4. CASE PostRelease(j) \/ ExplicitRelease(j)
  BY <1>4 DEF PostRelease, ExplicitRelease, Send, Request
<1>5. CASE ReceiveReleased(j)
  BY <1>5 DEF ReceiveReleased
<1>6. CASE \/ MarkPost(j) \/ RejectInput(j) \/ SaveLease(j) \/ SaveReleaseOnPost(j)
           \/ PostSkip(j) \/ Timeout(j) \/ Runner(j) \/ Faults(j)
  BY <1>6 DEF MarkPost, RejectInput, SaveLease, SaveReleaseOnPost, PostSkip, Timeout,
     Runner, Faults, FinishWork, StartHeavyJob, CancelProcess, RunnerLost
<1> QED
  BY <1>1, <1>2, <1>3, <1>4, <1>5, <1>6 DEF Process

\* A step of one job's process puts no message of another job into the network.
LEMMA OtherMessages ==
    ASSUME TypeOK, NEW j \in Job, Process(j) \/ Runner(j) \/ Faults(j)
    PROVE  /\ \A m \in net' : m \in net \/ m.job = j
           /\ \A m \in net' : \/ m \in net \/ m.type = "release"
                             \/ (m.type = "acquire" /\ m.lease = NoLease)
           /\ status' = status /\ owner' = owner
<1>1. CASE SendAcquire(j)
  BY <1>1 DEF SendAcquire, Send, Request
<1>2. CASE PostRelease(j)
  BY <1>2 DEF PostRelease, Send, Request
<1>3. CASE ExplicitRelease(j)
  BY <1>3 DEF ExplicitRelease, Send, Request
<1>4. CASE ReceiveGranted(j) \/ ReceiveRefused(j) \/ ReceiveDenied(j) \/ ReceiveReleased(j)
  <2>1. net' \subseteq net
    BY <1>4 DEF ReceiveGranted, ReceiveRefused, ReceiveDenied, ReceiveReleased
  <2>2. status' = status /\ owner' = owner
    BY <1>4 DEF ReceiveGranted, ReceiveRefused, ReceiveDenied, ReceiveReleased
  <2> QED
    BY <2>1, <2>2
<1>5. CASE \/ MarkPost(j) \/ RejectInput(j) \/ SaveLease(j) \/ SaveReleaseOnPost(j)
           \/ PostSkip(j) \/ Timeout(j) \/ Runner(j) \/ Faults(j)
  <2>1. net' = net /\ status' = status /\ owner' = owner
    BY <1>5 DEF MarkPost, RejectInput, SaveLease, SaveReleaseOnPost, PostSkip, Timeout,
       Runner, Faults, FinishWork, StartHeavyJob, CancelProcess, RunnerLost
  <2> QED
    BY <2>1
<1> QED
  BY <1>1, <1>2, <1>3, <1>4, <1>5 DEF Process

\* Two acquire requests of one job are one message.
LEMMA OneRequest ==
    ASSUME TypeOK, NEW m \in net, NEW n \in net, AskingInv(m), AskingInv(n),
           m.type = "acquire", n.type = "acquire", m.job = n.job
    PROVE  m = n
BY DEF TypeOK, Message, AskingInv

\* An answer takes the request's place in the network.
LEMMA AnswerShape ==
    ASSUME NEW m, NEW type, NEW l, Answer(m, type, l)
    PROVE  \E a : /\ net' = (net \ {m}) \cup {a}
                  /\ a.type = type /\ a.job = m.job /\ a.lease = l
<1> DEFINE a == Request(type, m.job, l)
<1>1. net' = (net \ {m}) \cup {a}
  BY DEF Answer
<1>2. a.type = type /\ a.job = m.job /\ a.lease = l
  BY DEF Request
<1> HIDE DEF a
<1> QED
  BY <1>1, <1>2

\* The Worker answers a request once, and creates a lease for the job that asked only.
LEMMA RequestWorkerStep ==
    ASSUME TypeOK, NEW j \in Job, RequestInv(j), \A m \in net : AskingInv(m),
           NEW r \in net, Worker(r)
    PROVE  RequestInv(j)'
<1> USE DEF TypeOK, RequestInv, Asking, Answered, Denied, Leased
<1>1. sent' = sent /\ outputs' = outputs /\ r.job \in Job
  BY DEF Worker, ReuseLease, GrantLease, DenyLease, RefuseRequest, ReleaseLease, ClientVars,
     Message
<1>2. CASE r.type = "acquire"
  <2>1. PICK a : /\ net' = (net \ {r}) \cup {a} /\ a.job = r.job
                 /\ a.type \in {"granted", "denied", "refused"}
    <3>1. PICK type \in {"granted", "denied", "refused"}, l \in MaybeLease : Answer(r, type, l)
      BY <1>2 DEF Worker, ReuseLease, GrantLease, DenyLease, RefuseRequest, ReleaseLease,
         LeasesOf, ActiveLeases, MaybeLease
    <3> QED
      BY <3>1, AnswerShape
  <2>2. r.job = j => ~Asking(j)'
    BY <1>2, <2>1, OneRequest
  <2>3. r.job # j => /\ Asking(j)' = Asking(j) /\ Answered(j)' = Answered(j)
                     /\ Denied(j)' = Denied(j)
    BY <2>1
  <2>4. CASE GrantLease(r)
    <3>1. PICK l \in Lease : /\ status' = [status EXCEPT ![l] = "active"]
                             /\ owner' = [owner EXCEPT ![l] = r.job]
                             /\ Answer(r, "granted", l) /\ status[l] = "unused"
      BY <2>4 DEF GrantLease
    <3>2. CASE r.job = j
      <4>1. Asking(j) /\ ~Answered(j) /\ ~Denied(j)'
        BY <1>2, <3>1, <3>2 DEF Answer, Request
      <4> QED
        BY <1>1, <2>2, <3>2, <4>1
    <3>3. CASE r.job # j
      <4>1. Leased(j)' => Leased(j)
        BY <3>1, <3>3
      <4> QED
        BY <1>1, <2>3, <3>3, <4>1
    <3> QED
      BY <3>2, <3>3
  <2>5. CASE ReuseLease(r) \/ DenyLease(r) \/ RefuseRequest(r)
    <3>1. Leased(j)' = Leased(j)
      BY <2>5 DEF ReuseLease, DenyLease, RefuseRequest, WorkerVars
    <3> QED
      BY <1>1, <1>2, <2>2, <2>3, <3>1
  <2> QED
    BY <1>2, <2>4, <2>5 DEF Worker, ReleaseLease
<1>3. CASE r.type = "release"
  <2>1. /\ \A m \in net' : m \in net \/ m.type \in {"released", "notReleased"}
        /\ \A m \in net : m \in net' \/ m.type = "release"
    BY <1>3 DEF Worker, ReuseLease, GrantLease, DenyLease, RefuseRequest, ReleaseLease,
       Answer, Request
  <2>2. /\ Asking(j)' = Asking(j) /\ Answered(j)' = Answered(j) /\ Denied(j)' = Denied(j)
    BY <2>1
  <2>3. \A l \in Lease : owner'[l] = owner[l] /\ (status'[l] = "unused" <=> status[l] = "unused")
    BY <1>3 DEF Worker, ReuseLease, GrantLease, DenyLease, RefuseRequest, ReleaseLease,
       WorkerVars
  <2>4. Leased(j)' = Leased(j)
    BY <2>3
  <2> QED
    BY <1>1, <2>2, <2>4
<1> QED
  BY <1>2, <1>3 DEF Worker, ReuseLease, GrantLease, DenyLease, RefuseRequest, ReleaseLease

\* One request, one answer, and no lease besides a grant: along every behaviour.
LEMMA RequestsCorrect ==
    Spec => []((\A j \in Job : RequestInv(j)) /\ (\A m \in net : AskingInv(m)))
<1> DEFINE I == (\A j \in Job : RequestInv(j)) /\ (\A m \in net : AskingInv(m))
<1>1. Init => I
  BY DEF Init, RequestInv, AskingInv, Asking, Answered, Denied, Leased
<1>2. TypeOK /\ (\A j \in Job : JobInv(j)) /\ I /\ [Next]_vars => I'
  <2> SUFFICES ASSUME TypeOK, \A j \in Job : JobInv(j), I, [Next]_vars PROVE I'
    OBVIOUS
  <2>1. ASSUME NEW j \in Job, Process(j) \/ Runner(j) \/ Faults(j) PROVE I'
    <3>1. \A m \in net' : AskingInv(m)'
      BY <2>1, OtherMessages DEF AskingInv
    <3>2. ASSUME NEW i \in Job, i # j PROVE RequestInv(i)'
      <4>1. JobVars(i)' = JobVars(i)
        BY <2>1, <3>2, OtherStep
      <4>2. \A m \in net' : m.job = i => m \in net
        BY <2>1, <3>2, OtherMessages
      <4>3. /\ Asking(i)' => Asking(i)
            /\ Answered(i)' => Answered(i)
            /\ Denied(i)' => Denied(i)
            /\ Leased(i)' => Leased(i)
        BY <2>1, <4>2, OtherMessages DEF Asking, Answered, Denied, Leased
      <4> QED
        BY <4>1, <4>3 DEF RequestInv, JobVars
    <3> QED
      BY <2>1, <3>1, <3>2, RequestOwnStep
  <2>2. ASSUME NEW r \in net, Worker(r) PROVE I'
    <3>1. \A m \in net' : m \in net \/ m.type # "acquire"
      BY <2>2 DEF Worker, ReuseLease, GrantLease, DenyLease, RefuseRequest, ReleaseLease,
         Answer, Request
    <3> QED
      BY <2>2, <3>1, RequestWorkerStep DEF AskingInv
  <2>3. ASSUME NEW l \in Lease, Expire(l) PROVE I'
    <3>1. net' = net /\ owner' = owner /\ sent' = sent /\ outputs' = outputs
      BY <2>3 DEF Expire, ClientVars
    <3>2. \A k \in Lease : status'[k] = "unused" <=> status[k] = "unused"
      BY <2>3 DEF Expire, TypeOK
    <3> QED
      BY <3>1, <3>2 DEF RequestInv, AskingInv, Asking, Answered, Denied, Leased
  <2>4. CASE UNCHANGED vars
    BY <2>4 DEF vars, RequestInv, AskingInv, Asking, Answered, Denied, Leased
  <2> QED
    BY <2>1, <2>2, <2>3, <2>4 DEF Next
<1> QED
  BY <1>1, <1>2, TypeCorrect, JobsCorrect, PTL DEF Spec

\* A job that was deferred holds no lease, whatever the Worker made of its request
\* and however late: a deferral never hides a grant.
THEOREM DeferralsAreClean == Spec => []DeferralHoldsNoLease
<1>1. (\A j \in Job : RequestInv(j)) => DeferralHoldsNoLease
  BY DEF RequestInv, Leased, DeferralHoldsNoLease, ActiveLeases
<1> QED
  BY <1>1, RequestsCorrect, PTL

-----------------------------------------------------------------------------
(* The post launch of a job that acquired, whatever the subjects of the jobs are. *)

\* A lease the Worker has created; one that is over.
Created(l) == l \in Lease /\ status[l] # "unused"
Over(l) == l \in Lease /\ status[l] \in {"released", "expired"}

\* What main has put down of a grant.
GrantInv(j) ==
    /\ outputs[j].lease # NoLease => outputs[j].granted
    /\ outputs[j].granted => Created(outputs[j].lease)
    /\ saved[j].lease # NoLease => saved[j].lease = outputs[j].lease
    /\ pc[j] \in {"granted", "leaseSaved"} => outputs[j].granted
    /\ pc[j] = "leaseSaved" => saved[j].lease = outputs[j].lease

\* A main launch that ended well leaves the post launch what it needs, and
\* nothing that main could do happens after it.
MainInv(j) ==
    /\ stage[j] = "main" => exit[j]["post"] = "none"
    /\ Acquires(j) /\ exit[j]["main"] = "ok" =>
          /\ saved[j].isPost
          /\ \/ pc[j] \in {"working", "done", "lost"}
             \/ pc[j] \in {"start", "releasing"} /\ stage[j] = "post"
          /\ outputs[j].granted =>
                /\ saved[j].lease = outputs[j].lease
                /\ ReleaseOnPost(j) => saved[j].releaseOnPost = "true"

\* A post launch that had a lease to release and ended well has seen it released.
QuietInv(j) ==
    /\ Acquires(j) /\ ReleaseOnPost(j)
    /\ exit[j]["main"] = "ok" /\ outputs[j].granted
    /\ exit[j]["post"] = "ok"
    => Over(outputs[j].lease)

\* The release request of a post launch, and the answer that it was done.
PostMessageInv(m) ==
    /\ m.type = "granted" => Created(m.lease)
    /\ m.type \in {"release", "released"} /\ Acquires(m.job) =>
          stage[m.job] = "post" /\ pc[m.job] \in {"releasing", "done", "lost"}
    /\ m.type = "release" /\ Acquires(m.job) =>
          m.lease = saved[m.job].lease /\ Created(m.lease)
    /\ m.type = "released" /\ Acquires(m.job) => Over(saved[m.job].lease)

PostInv ==
    /\ \A j \in Job : GrantInv(j) /\ MainInv(j) /\ QuietInv(j)
    /\ \A m \in net : PostMessageInv(m)

\* A lease that is over is never active again.
LEMMA OverLeaseForGood ==
    ASSUME TypeOK, [Next]_vars, NEW l
    PROVE  /\ Created(l) => Created(l)'
           /\ Over(l) => Over(l)'
<1>1. ASSUME NEW j \in Job, Process(j) \/ Runner(j) \/ Faults(j)
      PROVE  status' = status
  BY <1>1, OtherMessages
<1>2. ASSUME NEW m \in net, Worker(m), Over(l)
      PROVE  Over(l)'
  BY <1>2 DEF TypeOK, Over, Worker, ReuseLease, GrantLease, DenyLease, RefuseRequest,
     ReleaseLease, WorkerVars
<1>3. ASSUME NEW k \in Lease, Expire(k), Over(l)
      PROVE  Over(l)'
  BY <1>3 DEF TypeOK, Over, Expire
<1>4. UNCHANGED vars => status' = status
  BY DEF vars
<1>5. Created(l) => Created(l)'
  BY CreatedForGood DEF Created
<1> QED
  BY <1>1, <1>2, <1>3, <1>4, <1>5 DEF Next, Over

\* What the end of a process changes.
LEMMA EndProcessEffect ==
    ASSUME TypeOK, NEW j \in Job, NEW code, EndProcess(j, code)
    PROVE  /\ \A s \in Stage : exit'[j][s] = IF s = stage[j] THEN code ELSE exit[j][s]
           /\ stage[j] = "post" => pc'[j] = "done" /\ stage'[j] = "post"
           /\ stage[j] = "main" /\ code = "ok" /\ Acquires(j)
                 => pc'[j] = "working" /\ stage'[j] = "main"
           /\ stage[j] = "main" /\ ~(code = "ok" /\ Acquires(j))
                 => pc'[j] = "start" /\ stage'[j] = "post"
<1>1. exit[j] \in [Stage -> ExitCode]
  BY DEF TypeOK
<1>2. exit'[j] = [exit[j] EXCEPT ![stage[j]] = code]
  BY DEF TypeOK, EndProcess
<1> QED
  BY <1>1, <1>2 DEF TypeOK, EndProcess

\* The actions by which a process ends, and their exit codes.
LEMMA WhoEnds ==
    ASSUME TypeOK, NEW j \in Job, Process(j) \/ Runner(j) \/ Faults(j)
    PROVE  \/ exit' = exit
           \/ /\ SaveReleaseOnPost(j) \/ PostSkip(j)
              /\ EndProcess(j, "ok")
           \/ /\ ReceiveDenied(j)
              /\ EndProcess(j, IF Defers(j) THEN "ok" ELSE "failed")
           \/ /\ ReceiveReleased(j)
              /\ \E m \in net : /\ m.type \in {"released", "notReleased"} /\ m.job = j
                                /\ EndProcess(j, IF m.type = "released" THEN "ok" ELSE "failed")
           \/ \E code \in {"failed", "killed"} : EndProcess(j, code)
<1>1. CASE \/ MarkPost(j) \/ SendAcquire(j) \/ ReceiveGranted(j) \/ SaveLease(j)
           \/ PostRelease(j) \/ ExplicitRelease(j) \/ Runner(j) \/ RunnerLost(j)
  <2>1. exit' = exit
    BY <1>1 DEF MarkPost, SendAcquire, ReceiveGranted, SaveLease, PostRelease,
       ExplicitRelease, Runner, FinishWork, StartHeavyJob, RunnerLost
  <2> QED
    BY <2>1
<1>2. CASE SaveReleaseOnPost(j) \/ PostSkip(j)
  <2>1. EndProcess(j, "ok")
    BY <1>2 DEF SaveReleaseOnPost, PostSkip
  <2> QED
    BY <1>2, <2>1
<1>3. CASE ReceiveDenied(j)
  BY <1>3 DEF ReceiveDenied
<1>4. CASE ReceiveReleased(j)
  <2>1. \E m \in net : /\ m.type \in {"released", "notReleased"} /\ m.job = j
                       /\ EndProcess(j, IF m.type = "released" THEN "ok" ELSE "failed")
    BY <1>4 DEF ReceiveReleased
  <2> QED
    BY <1>4, <2>1
<1>5. CASE RejectInput(j) \/ ReceiveRefused(j) \/ Timeout(j) \/ CancelProcess(j)
  <2>1. EndProcess(j, "failed") \/ EndProcess(j, "killed")
    BY <1>5 DEF RejectInput, ReceiveRefused, Timeout, CancelProcess
  <2> QED
    BY <2>1
<1> QED
  BY <1>1, <1>2, <1>3, <1>4, <1>5 DEF Process, Faults

\* A step of job j's process, runner or faults keeps its GrantInv.
LEMMA GrantOwnStep ==
    ASSUME TypeOK, NEW j \in Job, JobInv(j), GrantInv(j), \A m \in net : PostMessageInv(m),
           Process(j) \/ Runner(j) \/ Faults(j)
    PROVE  GrantInv(j)'
<1>1. status' = status
  BY OtherMessages
<1>2. saved[j] \in SavedState /\ outputs[j].lease \in MaybeLease
  BY DEF TypeOK, Outputs
<1>3. CASE ReceiveGranted(j)
  <2>1. PICK m \in net : /\ m.type = "granted"
                         /\ outputs' = [outputs EXCEPT ![j] =
                              [granted |-> TRUE, lease |-> m.lease, deferred |-> FALSE]]
    BY <1>3 DEF ReceiveGranted
  <2>2. Created(m.lease)
    BY <2>1 DEF PostMessageInv
  <2>3. outputs'[j].granted /\ outputs'[j].lease = m.lease
    BY <2>1 DEF TypeOK
  <2>4. saved'[j].lease = NoLease /\ pc'[j] = "granted"
    BY <1>3 DEF ReceiveGranted, JobInv, TypeOK
  <2> QED
    BY <1>1, <2>2, <2>3, <2>4 DEF GrantInv, Created
<1>4. CASE ReceiveDenied(j) \/ ReceiveRefused(j)
  <2>1. outputs'[j].lease = NoLease /\ ~outputs'[j].granted
    BY <1>4 DEF ReceiveDenied, ReceiveRefused, TypeOK
  <2>2. saved'[j].lease = NoLease
    BY <1>4 DEF ReceiveDenied, ReceiveRefused, JobInv
  <2>3. pc'[j] \notin {"granted", "leaseSaved"}
    BY <1>4 DEF ReceiveDenied, ReceiveRefused, EndProcess, TypeOK
  <2> QED
    BY <2>1, <2>2, <2>3 DEF GrantInv
<1>5. CASE SaveLease(j)
  <2>1. saved'[j].lease = outputs[j].lease /\ outputs' = outputs
    BY <1>2, <1>5 DEF SaveLease, TypeOK, SavedState
  <2>2. outputs[j].granted
    BY <1>5 DEF SaveLease, GrantInv
  <2> QED
    BY <1>1, <2>1, <2>2 DEF GrantInv, Created
<1>6. CASE \/ MarkPost(j) \/ SaveReleaseOnPost(j) \/ RejectInput(j) \/ SendAcquire(j)
           \/ PostRelease(j) \/ PostSkip(j) \/ ExplicitRelease(j) \/ ReceiveReleased(j)
           \/ Timeout(j) \/ Runner(j) \/ Faults(j)
  <2>1. outputs' = outputs
    BY <1>6 DEF MarkPost, SaveReleaseOnPost, RejectInput, SendAcquire, PostRelease, PostSkip,
       ExplicitRelease, ReceiveReleased, Timeout, Runner, Faults, FinishWork, StartHeavyJob,
       CancelProcess, RunnerLost
  <2>2. pc'[j] \notin {"granted", "leaseSaved"}
    BY <1>6 DEF MarkPost, SaveReleaseOnPost, RejectInput, SendAcquire, PostRelease, PostSkip,
       ExplicitRelease, ReceiveReleased, Timeout, Runner, Faults, FinishWork, StartHeavyJob,
       CancelProcess, RunnerLost, EndProcess, TypeOK
  <2>3. saved'[j].lease = saved[j].lease
    BY <1>2, <1>6 DEF MarkPost, SaveReleaseOnPost, RejectInput, SendAcquire, PostRelease,
       PostSkip, ExplicitRelease, ReceiveReleased, Timeout, Runner, Faults, FinishWork,
       StartHeavyJob, CancelProcess, RunnerLost, TypeOK, SavedState
  <2> QED
    BY <1>1, <2>1, <2>2, <2>3 DEF GrantInv, Created
<1> QED
  BY <1>3, <1>4, <1>5, <1>6 DEF Process

\* Once main has ended well, a step of job j changes neither what main saved nor
\* what it put out, and does only what a post launch does.
LEMMA AfterMain ==
    ASSUME TypeOK, NEW j \in Job, JobInv(j), MainInv(j),
           Acquires(j), exit[j]["main"] = "ok", Process(j) \/ Runner(j) \/ Faults(j)
    PROVE  /\ saved' = saved /\ outputs' = outputs
           /\ \/ pc[j] = "working" /\ FinishWork(j)
              \/ stage[j] = "post" /\ (PostRelease(j) \/ PostSkip(j) \/ ReceiveReleased(j))
              \/ stage[j] = "post" /\ (Timeout(j) \/ CancelProcess(j))
              \/ RunnerLost(j)
<1>1. /\ saved[j].isPost
      /\ \/ pc[j] \in {"working", "done", "lost"}
         \/ pc[j] \in {"start", "releasing"} /\ stage[j] = "post"
  BY DEF MainInv
<1>2. \/ FinishWork(j) \/ PostRelease(j) \/ PostSkip(j) \/ ReceiveReleased(j)
      \/ Timeout(j) \/ CancelProcess(j) \/ RunnerLost(j)
  BY <1>1 DEF Process, Runner, Faults, MarkPost, RejectInput, SendAcquire, ReceiveGranted,
     SaveLease, SaveReleaseOnPost, ReceiveDenied, ReceiveRefused, ExplicitRelease,
     StartHeavyJob, IsPost
<1>3. saved' = saved /\ outputs' = outputs
  BY <1>2 DEF FinishWork, PostRelease, PostSkip, ReceiveReleased, Timeout, CancelProcess,
     RunnerLost
<1>4. CASE FinishWork(j)
  BY <1>3, <1>4 DEF FinishWork
<1>5. CASE PostRelease(j) \/ PostSkip(j) \/ ReceiveReleased(j) \/ Timeout(j) \/ CancelProcess(j)
  <2>1. stage[j] = "post"
    BY <1>1, <1>5 DEF PostRelease, PostSkip, ReceiveReleased, Timeout, CancelProcess, ProcessPC
  <2> QED
    BY <1>3, <1>5, <2>1
<1> QED
  BY <1>2, <1>3, <1>4, <1>5

\* A step of job j's process, runner or faults keeps its MainInv.
LEMMA MainOwnStep ==
    ASSUME TypeOK, NEW j \in Job, JobInv(j), GrantInv(j), MainInv(j),
           Process(j) \/ Runner(j) \/ Faults(j)
    PROVE  MainInv(j)'
<1>1. stage[j] \in Stage /\ stage'[j] \in Stage /\ Stage = {"main", "post"}
  BY DEF TypeOK, Stage, Process, Runner, Faults, MarkPost, RejectInput, SendAcquire,
     ReceiveGranted, SaveLease, SaveReleaseOnPost, ReceiveDenied, ReceiveRefused,
     PostRelease, PostSkip, ExplicitRelease, ReceiveReleased, Timeout, FinishWork,
     StartHeavyJob, CancelProcess, RunnerLost, EndProcess
<1>2. stage'[j] = "main" => exit'[j]["post"] = "none"
  <2>1. stage'[j] = "main" => stage[j] = "main"
    BY <1>1 DEF TypeOK, JobInv, Process, Runner, Faults, MarkPost, RejectInput, SendAcquire,
       ReceiveGranted, SaveLease, SaveReleaseOnPost, ReceiveDenied, ReceiveRefused,
       PostRelease, PostSkip, ExplicitRelease, ReceiveReleased, Timeout, FinishWork,
       StartHeavyJob, CancelProcess, RunnerLost, EndProcess
  <2>2. stage[j] = "main" => exit'[j]["post"] = exit[j]["post"]
    BY <1>1, WhoEnds, EndProcessEffect
  <2> QED
    BY <2>1, <2>2 DEF MainInv
<1>3. ASSUME Acquires(j), exit[j]["main"] = "ok"
      PROVE  MainInv(j)'
  <2>1. exit'[j]["main"] = "ok" => saved' = saved /\ outputs' = outputs
    BY <1>3, AfterMain
  <2>2. \/ pc'[j] \in {"working", "done", "lost"}
        \/ pc'[j] \in {"start", "releasing"} /\ stage'[j] = "post"
    BY <1>3, AfterMain, EndProcessEffect
       DEF TypeOK, FinishWork, PostRelease, PostSkip, ReceiveReleased, Timeout,
           CancelProcess, RunnerLost
  <2> QED
    BY <1>2, <1>3, <2>1, <2>2 DEF MainInv, ReleaseOnPost, Acquires
<1>4. ASSUME Acquires(j), exit[j]["main"] # "ok", exit'[j]["main"] = "ok"
      PROVE  MainInv(j)'
  <2>1. stage[j] = "main"
    BY <1>1, <1>4, WhoEnds, EndProcessEffect
  <2>2. pc'[j] = "working" /\ (SaveReleaseOnPost(j) \/ ReceiveDenied(j))
    BY <1>1, <1>4, <2>1, WhoEnds, EndProcessEffect DEF PostSkip, IsPost, ReceiveReleased, JobInv
  <2>3. CASE SaveReleaseOnPost(j)
    <3>1. saved[j] \in SavedState
      BY DEF TypeOK
    <3>2. /\ saved'[j].isPost = saved[j].isPost
          /\ saved'[j].lease = saved[j].lease
          /\ saved'[j].releaseOnPost = IF ReleaseOnPost(j) THEN "true" ELSE "false"
          /\ outputs' = outputs
      BY <2>3, <3>1 DEF SaveReleaseOnPost, TypeOK, SavedState
    <3>3. saved[j].isPost /\ saved[j].lease = outputs[j].lease
      BY <2>3 DEF SaveReleaseOnPost, JobInv, GrantInv
    <3> QED
      BY <1>2, <2>2, <3>2, <3>3 DEF MainInv, ReleaseOnPost, Acquires
  <2>4. CASE ReceiveDenied(j)
    <3>1. ~outputs'[j].granted /\ saved'[j].isPost
      BY <2>4 DEF ReceiveDenied, JobInv, TypeOK
    <3> QED
      BY <1>2, <2>2, <3>1 DEF MainInv, ReleaseOnPost, Acquires
  <2> QED
    BY <2>2, <2>3, <2>4
<1> QED
  BY <1>2, <1>3, <1>4 DEF MainInv, Acquires

\* A step of job j's process, runner or faults keeps its QuietInv.
LEMMA QuietOwnStep ==
    ASSUME TypeOK, NEW j \in Job, JobInv(j), GrantInv(j), MainInv(j), QuietInv(j),
           \A m \in net : PostMessageInv(m), Process(j) \/ Runner(j) \/ Faults(j)
    PROVE  QuietInv(j)'
<1> SUFFICES ASSUME Acquires(j), ReleaseOnPost(j), exit'[j]["main"] = "ok",
                    outputs'[j].granted, exit'[j]["post"] = "ok"
             PROVE  Over(outputs[j].lease) /\ outputs' = outputs
  BY OtherMessages DEF QuietInv, Over, Acquires, ReleaseOnPost
<1>1. stage[j] \in Stage /\ Stage = {"main", "post"}
  BY DEF TypeOK, Stage
<1>2. stage[j] # "main"
  <2>1. stage[j] = "main" => exit'[j]["post"] = exit[j]["post"]
    BY <1>1, WhoEnds, EndProcessEffect
  <2> QED
    BY <2>1 DEF MainInv
<1>3. exit[j]["main"] = "ok"
  BY <1>1, <1>2, WhoEnds, EndProcessEffect
<1>4. outputs' = outputs
  BY <1>3, AfterMain
<1>5. CASE exit[j]["post"] = "ok"
  BY <1>3, <1>4, <1>5 DEF QuietInv
<1>6. CASE exit[j]["post"] # "ok"
  <2>1. PostSkip(j) \/ ReceiveReleased(j)
    <3>1. exit' # exit
      BY <1>6
    <3>2. ~SaveReleaseOnPost(j) /\ ~ReceiveDenied(j)
      BY <1>2, <1>3 DEF MainInv, SaveReleaseOnPost, ReceiveDenied
    <3>3. ASSUME NEW code \in {"failed", "killed"}, EndProcess(j, code) PROVE FALSE
      BY <1>1, <1>2, <3>3, EndProcessEffect
    <3> QED
      BY <3>1, <3>2, <3>3, WhoEnds
  <2>2. saved[j].lease = outputs[j].lease /\ saved[j].releaseOnPost = "true"
        /\ outputs[j].lease \in Lease
    BY <1>3, <1>4 DEF MainInv, GrantInv, Created
  <2>3. ReceiveReleased(j)
    BY <2>1, <2>2, ConfigAssumption DEF PostSkip
  <2>4. PICK m \in net : /\ m.type \in {"released", "notReleased"} /\ m.job = j
                         /\ EndProcess(j, IF m.type = "released" THEN "ok" ELSE "failed")
    BY <2>3 DEF ReceiveReleased
  <2>5. m.type = "released"
    BY <1>1, <1>2, <2>4, EndProcessEffect
  <2> QED
    BY <1>4, <2>2, <2>4, <2>5 DEF PostMessageInv
<1> QED
  BY <1>5, <1>6

\* A step of job j's process, runner or faults keeps what the messages promise.
LEMMA PostMessageOwnStep ==
    ASSUME TypeOK, NEW j \in Job, JobInv(j), GrantInv(j), \A m \in net : PostMessageInv(m),
           Process(j) \/ Runner(j) \/ Faults(j), NEW m \in net'
    PROVE  PostMessageInv(m)'
<1>1. status' = status
  BY OtherMessages
<1>2. CASE m \in net /\ m.job # j
  <2>1. m.job \in Job
    BY <1>2 DEF TypeOK, Message
  <2>2. JobVars(m.job)' = JobVars(m.job)
    BY <1>2, <2>1, OtherStep
  <2> QED
    BY <1>1, <1>2, <2>2 DEF PostMessageInv, JobVars, Created, Over, Acquires
<1>3. CASE m \in net /\ m.job = j
  <2>1. stage[j] = "post" /\ pc[j] \in {"releasing", "done", "lost"} =>
           /\ stage'[j] = "post" /\ pc'[j] \in {"releasing", "done", "lost"}
           /\ saved'[j] = saved[j]
    BY DEF TypeOK, Process, Runner, Faults, MarkPost, RejectInput, SendAcquire,
       ReceiveGranted, SaveLease, SaveReleaseOnPost, ReceiveDenied, ReceiveRefused,
       PostRelease, PostSkip, ExplicitRelease, ReceiveReleased, Timeout, FinishWork,
       StartHeavyJob, CancelProcess, RunnerLost, EndProcess
  <2> QED
    BY <1>1, <1>3, <2>1 DEF PostMessageInv, Created, Over, Acquires
<1>4. CASE m \notin net
  <2>1. SendAcquire(j) \/ PostRelease(j) \/ ExplicitRelease(j)
    BY <1>4 DEF Process, Runner, Faults, MarkPost, RejectInput, ReceiveGranted, SaveLease,
       SaveReleaseOnPost, ReceiveDenied, ReceiveRefused, PostSkip, ReceiveReleased, Timeout,
       FinishWork, StartHeavyJob, CancelProcess, RunnerLost
  <2>2. CASE PostRelease(j)
    <3>1. m = Request("release", j, saved[j].lease)
      BY <1>4, <2>2 DEF PostRelease, Send
    <3>2. Created(saved[j].lease)
      BY <2>2 DEF PostRelease, GrantInv
    <3>3. stage'[j] = "post" /\ pc'[j] = "releasing" /\ saved' = saved
      BY <2>2 DEF PostRelease, IsPost, TypeOK
    <3> QED
      BY <1>1, <3>1, <3>2, <3>3 DEF PostMessageInv, Request, Created
  <2>3. CASE SendAcquire(j)
    BY <1>4, <2>3 DEF SendAcquire, Send, Request, PostMessageInv
  <2>4. CASE ExplicitRelease(j)
    BY <1>4, <2>4 DEF ExplicitRelease, Send, Request, PostMessageInv, Acquires
  <2> QED
    BY <2>1, <2>2, <2>3, <2>4
<1> QED
  BY <1>2, <1>3, <1>4

\* The Worker says a lease is released only when it is over.
LEMMA PostMessageWorkerStep ==
    ASSUME TypeOK, [Next]_vars, \A m \in net : PostMessageInv(m),
           NEW r \in net, Worker(r), NEW m \in net'
    PROVE  PostMessageInv(m)'
<1>1. UNCHANGED ClientVars
  BY DEF Worker, ReuseLease, GrantLease, DenyLease, RefuseRequest, ReleaseLease
<1>2. CASE m \in net
  BY <1>1, <1>2, OverLeaseForGood DEF PostMessageInv, ClientVars, Acquires
<1>3. CASE m \notin net
  <2>1. CASE ReuseLease(r)
    <3>1. PICK l \in LeasesOf(Subject(r.job)) : Answer(r, "granted", l)
      BY <2>1 DEF ReuseLease
    <3>2. m = Request("granted", r.job, l)
      BY <1>3, <3>1 DEF Answer
    <3>3. Created(l)'
      BY <2>1 DEF ReuseLease, WorkerVars, LeasesOf, ActiveLeases, Created
    <3> QED
      BY <3>2, <3>3 DEF Request, PostMessageInv
  <2>2. CASE GrantLease(r)
    <3>1. PICK l \in Lease : status' = [status EXCEPT ![l] = "active"] /\ Answer(r, "granted", l)
      BY <2>2 DEF GrantLease
    <3>2. m = Request("granted", r.job, l)
      BY <1>3, <3>1 DEF Answer
    <3>3. Created(l)'
      BY <3>1 DEF TypeOK, Created
    <3> QED
      BY <3>2, <3>3 DEF Request, PostMessageInv
  <2>3. CASE DenyLease(r) \/ RefuseRequest(r)
    <3>1. m.type \in {"denied", "refused", "notReleased"}
      BY <1>3, <2>3 DEF DenyLease, RefuseRequest, Answer, Request
    <3> QED
      BY <3>1 DEF PostMessageInv
  <2>4. CASE ReleaseLease(r)
    <3>1. m = Request("released", r.job, NoLease) /\ r.type = "release"
      BY <1>3, <2>4 DEF ReleaseLease, Answer
    <3>2. m.type = "released" /\ m.job = r.job
      BY <3>1 DEF Request
    <3>3. ASSUME Acquires(r.job)
          PROVE  /\ stage[r.job] = "post" /\ pc[r.job] \in {"releasing", "done", "lost"}
                 /\ saved[r.job].lease = r.lease
                 /\ Created(r.lease)
      BY <3>1, <3>3 DEF PostMessageInv
    <3>4. Created(r.lease) => Over(r.lease)'
      BY <2>4 DEF ReleaseLease, TypeOK, Created, Over
    <3> QED
      BY <1>1, <3>2, <3>3, <3>4 DEF PostMessageInv, ClientVars, Acquires
  <2> QED
    BY <2>1, <2>2, <2>3, <2>4 DEF Worker
<1> QED
  BY <1>2, <1>3

\* What the post launch relies on holds along every behaviour.
LEMMA PostCorrect == Spec => []PostInv
<1>1. Init => PostInv
  BY DEF Init, PostInv, GrantInv, MainInv, QuietInv, Stage
<1>2. TypeOK /\ (\A j \in Job : JobInv(j)) /\ PostInv /\ [Next]_vars => PostInv'
  <2> SUFFICES ASSUME TypeOK, \A j \in Job : JobInv(j), PostInv, [Next]_vars PROVE PostInv'
    OBVIOUS
  <2>1. /\ \A j \in Job : GrantInv(j) /\ MainInv(j) /\ QuietInv(j)
        /\ \A m \in net : PostMessageInv(m)
    BY DEF PostInv
  <2>2. ASSUME NEW i \in Job, JobVars(i)' = JobVars(i), exit'[i] = exit[i]
        PROVE  GrantInv(i)' /\ MainInv(i)' /\ QuietInv(i)'
    BY <2>1, <2>2, OverLeaseForGood
       DEF JobVars, GrantInv, MainInv, QuietInv, Acquires, ReleaseOnPost
  <2>3. ASSUME NEW j \in Job, Process(j) \/ Runner(j) \/ Faults(j) PROVE PostInv'
    <3>1. ASSUME NEW i \in Job, i # j PROVE exit'[i] = exit[i]
      BY <2>3, <3>1, WhoEnds DEF EndProcess, TypeOK
    <3>2. ASSUME NEW i \in Job, i # j PROVE GrantInv(i)' /\ MainInv(i)' /\ QuietInv(i)'
      BY <2>2, <2>3, <3>1, <3>2, OtherStep
    <3>3. GrantInv(j)' /\ MainInv(j)' /\ QuietInv(j)'
      BY <2>1, <2>3, GrantOwnStep, MainOwnStep, QuietOwnStep
    <3>4. \A m \in net' : PostMessageInv(m)'
      BY <2>1, <2>3, PostMessageOwnStep
    <3> QED
      BY <3>2, <3>3, <3>4 DEF PostInv
  <2>4. ASSUME NEW r \in net, Worker(r) PROVE PostInv'
    <3>1. exit' = exit
      BY <2>4 DEF Worker, ReuseLease, GrantLease, DenyLease, RefuseRequest, ReleaseLease,
         ClientVars
    <3>2. \A i \in Job : GrantInv(i)' /\ MainInv(i)' /\ QuietInv(i)'
      BY <2>2, <2>4, <3>1, WorkerStep
    <3>3. \A m \in net' : PostMessageInv(m)'
      BY <2>1, <2>4, PostMessageWorkerStep
    <3> QED
      BY <3>2, <3>3 DEF PostInv
  <2>5. CASE (\E l \in Lease : Expire(l)) \/ UNCHANGED vars
    <3>1. UNCHANGED <<ClientVars, net>>
      BY <2>5 DEF Expire, vars, ClientVars
    <3>2. \A i \in Job : GrantInv(i)' /\ MainInv(i)' /\ QuietInv(i)'
      BY <2>2, <2>5, <3>1, WorkerStep DEF ClientVars
    <3>3. \A m \in net' : PostMessageInv(m)'
      BY <2>1, <3>1, OverLeaseForGood DEF PostMessageInv, ClientVars, Acquires
    <3> QED
      BY <3>2, <3>3 DEF PostInv
  <2> QED
    BY <2>3, <2>4, <2>5 DEF Next
<1> QED
  BY <1>1, <1>2, TypeCorrect, JobsCorrect, PTL DEF Spec

\* A post launch that ends without a warning has returned the lease main was
\* granted, however the requests of this and of other jobs are delayed or lost.
THEOREM QuietPosts == Spec => []QuietPostReleases
<1>1. PostInv => QuietPostReleases
  BY DEF PostInv, QuietInv, QuietPostReleases, Over
<1> QED
  BY <1>1, PostCorrect, PTL

-----------------------------------------------------------------------------
(* No lease leaks silently, whatever the subjects of the jobs are. *)

\* The lease the Worker created for job j is the one the job is told, and a main launch
\* that ended well has been told one or was deferred.
LeakInv(j) ==
    /\ Asking(j) => ~outputs[j].granted
    /\ \A l \in Lease : status[l] # "unused" /\ owner[l] = j =>
          /\ \A m \in net : m.type = "granted" /\ m.job = j => m.lease = l
          /\ outputs[j].granted => outputs[j].lease = l
    /\ Acquires(j) /\ exit[j]["main"] = "ok" => outputs[j].granted \/ outputs[j].deferred

\* A step of job j's process, runner or faults keeps its LeakInv.
LEMMA LeakOwnStep ==
    ASSUME TypeOK, NEW j \in Job, JobInv(j), LateInv(j), RequestInv(j), GrantInv(j),
           MainInv(j), LeakInv(j), Process(j) \/ Runner(j) \/ Faults(j)
    PROVE  LeakInv(j)'
<1>1. /\ \A m \in net' : m \in net \/ m.type # "granted"
      /\ status' = status /\ owner' = owner
  BY OtherMessages
<1>2. outputs[j] \in Outputs /\ exit[j] \in [Stage -> ExitCode]
  BY DEF TypeOK
\* What the job asks and is told.
<1>3. /\ Asking(j)' => ~outputs'[j].granted
      /\ outputs'[j].granted =>
            \/ outputs[j].granted /\ outputs'[j] = outputs[j]
            \/ \E m \in net : m.type = "granted" /\ m.job = j /\ outputs'[j].lease = m.lease
  <2>1. CASE SendAcquire(j)
    <3>1. outputs' = outputs /\ outputs[j].lease = NoLease
      BY <2>1 DEF SendAcquire, LateInv
    <3>2. ~outputs[j].granted
      BY <3>1, ConfigAssumption DEF GrantInv, Created
    <3> QED
      BY <3>1, <3>2
  <2>2. CASE ReceiveGranted(j)
    <3>1. PICK m \in net : /\ m.type = "granted" /\ m.job = j /\ net' = net \ {m}
                           /\ outputs' = [outputs EXCEPT ![j] =
                                [granted |-> TRUE, lease |-> m.lease, deferred |-> FALSE]]
      BY <2>2 DEF ReceiveGranted
    <3>2. ~Asking(j)
      BY <3>1 DEF RequestInv, Answered
    <3>3. ~Asking(j)'
      BY <3>1, <3>2 DEF Asking
    <3>4. outputs'[j].lease = m.lease
      BY <3>1 DEF TypeOK
    <3> QED
      BY <3>1, <3>3, <3>4
  <2>3. CASE ReceiveDenied(j) \/ ReceiveRefused(j)
    <3>1. ~outputs'[j].granted
      BY <2>3 DEF ReceiveDenied, ReceiveRefused, TypeOK
    <3> QED
      BY <3>1
  <2>4. CASE \/ MarkPost(j) \/ RejectInput(j) \/ SaveLease(j) \/ SaveReleaseOnPost(j)
             \/ PostRelease(j) \/ PostSkip(j) \/ ExplicitRelease(j) \/ ReceiveReleased(j)
             \/ Timeout(j) \/ Runner(j) \/ Faults(j)
    <3>1. outputs' = outputs
      BY <2>4 DEF MarkPost, RejectInput, SaveLease, SaveReleaseOnPost, PostRelease, PostSkip,
         ExplicitRelease, ReceiveReleased, Timeout, Runner, Faults, FinishWork, StartHeavyJob,
         CancelProcess, RunnerLost
    <3>2. \A m \in net' : m \in net \/ m.type # "acquire"
      BY <2>4 DEF MarkPost, RejectInput, SaveLease, SaveReleaseOnPost, PostRelease, PostSkip,
         ExplicitRelease, ReceiveReleased, Timeout, Runner, Faults, FinishWork, StartHeavyJob,
         CancelProcess, RunnerLost, Send, Request
    <3> QED
      BY <3>1, <3>2 DEF LeakInv, Asking
  <2> QED
    BY <2>1, <2>2, <2>3, <2>4 DEF Process
<1>4. ASSUME NEW l \in Lease, status'[l] # "unused", owner'[l] = j
      PROVE  /\ \A m \in net' : m.type = "granted" /\ m.job = j => m.lease = l
             /\ outputs'[j].granted => outputs'[j].lease = l
  BY <1>1, <1>3, <1>4 DEF LeakInv
\* How main ended.
<1>5. ASSUME Acquires(j), exit'[j]["main"] = "ok"
      PROVE  outputs'[j].granted \/ outputs'[j].deferred
  <2>1. CASE exit[j]["main"] = "ok"
    BY <1>5, <2>1, AfterMain DEF LeakInv
  <2>2. CASE exit[j]["main"] # "ok"
    <3>1. /\ exit' # exit
          /\ \A code : EndProcess(j, code) => stage[j] = "main" /\ code = "ok"
      <4>1. \A code : EndProcess(j, code) =>
               exit'[j] = [exit[j] EXCEPT ![stage[j]] = code]
        BY DEF EndProcess, TypeOK
      <4>2. stage[j] \in Stage
        BY DEF TypeOK
      <4> QED
        BY <1>2, <1>5, <2>2, <4>1, <4>2 DEF Stage
    <3>2. CASE SaveReleaseOnPost(j)
      BY <3>2 DEF SaveReleaseOnPost, GrantInv
    <3>3. CASE PostSkip(j)
      BY <3>1, <3>3 DEF PostSkip, IsPost
    <3>4. CASE ReceiveDenied(j)
      BY <3>1, <3>4 DEF ReceiveDenied, TypeOK
    <3>5. CASE ReceiveReleased(j)
      <4>1. stage[j] = "post" /\ \E code : EndProcess(j, code)
        BY <1>5, <3>5 DEF ReceiveReleased, JobInv
      <4> QED
        BY <3>1, <4>1
    <3>6. ASSUME NEW code \in {"failed", "killed"}, EndProcess(j, code)
          PROVE  FALSE
      BY <3>1, <3>6
    <3> QED
      BY <3>1, <3>2, <3>3, <3>4, <3>5, <3>6, WhoEnds
  <2> QED
    BY <2>1, <2>2
<1> QED
  BY <1>3, <1>4, <1>5 DEF LeakInv

\* The Worker answers with the lease it creates.
LEMMA LeakWorkerStep ==
    ASSUME TypeOK, NEW j \in Job, RequestInv(j), LeakInv(j), \A m \in net : AskingInv(m),
           NEW r \in net, Worker(r)
    PROVE  LeakInv(j)'
<1>1. outputs' = outputs /\ exit' = exit
  BY DEF Worker, ReuseLease, GrantLease, DenyLease, RefuseRequest, ReleaseLease, ClientVars
<1>2. \A m \in net' : m \in net \/ m.type # "acquire"
  BY DEF Worker, ReuseLease, GrantLease, DenyLease, RefuseRequest, ReleaseLease,
     Answer, Request
<1>3. Asking(j)' => ~outputs'[j].granted
  BY <1>1, <1>2 DEF LeakInv, Asking
<1>4. ASSUME NEW l \in Lease, status'[l] # "unused", owner'[l] = j
      PROVE  /\ \A m \in net' : m.type = "granted" /\ m.job = j => m.lease = l
             /\ outputs[j].granted => outputs[j].lease = l
  <2>1. CASE GrantLease(r)
    <3>1. PICK k \in Lease : /\ status' = [status EXCEPT ![k] = "active"]
                             /\ owner' = [owner EXCEPT ![k] = r.job]
                             /\ Answer(r, "granted", k)
      BY <2>1 DEF GrantLease
    <3>2. PICK a : /\ net' = (net \ {r}) \cup {a}
                   /\ a.type = "granted" /\ a.job = r.job /\ a.lease = k
      BY <3>1, AnswerShape
    <3>3. r.type = "acquire"
      BY <2>1 DEF GrantLease
    <3>4. CASE r.job = j
      <4>1. Asking(j)
        BY <3>3, <3>4 DEF Asking
      <4>2. ~Answered(j) /\ ~Leased(j) /\ ~outputs[j].granted
        BY <4>1 DEF RequestInv, LeakInv
      <4>3. l = k
        BY <1>4, <3>1, <4>2 DEF Leased, TypeOK
      <4> QED
        BY <3>2, <4>2, <4>3 DEF Answered
    <3>5. CASE r.job # j
      <4>1. l # k
        BY <1>4, <3>1, <3>5 DEF TypeOK
      <4>2. status[l] # "unused" /\ owner[l] = j
        BY <1>4, <3>1, <4>1 DEF TypeOK
      <4> QED
        BY <3>2, <3>5, <4>2 DEF LeakInv
    <3> QED
      BY <3>4, <3>5
  <2>2. CASE ~GrantLease(r)
    <3>1. status[l] # "unused" /\ owner[l] = j
      BY <1>4, <2>2 DEF Worker, ReuseLease, DenyLease, RefuseRequest, ReleaseLease,
         WorkerVars, TypeOK
    <3>2. r.job = j => r.type # "acquire"
      BY <3>1 DEF RequestInv, Asking, Leased
    <3>3. \A m \in net' : m.type = "granted" /\ m.job = j => m \in net
      BY <2>2, <3>2 DEF Worker, ReuseLease, DenyLease, RefuseRequest, ReleaseLease,
         Answer, Request
    <3> QED
      BY <3>1, <3>3 DEF LeakInv
  <2> QED
    BY <2>1, <2>2
<1> QED
  BY <1>1, <1>3, <1>4 DEF LeakInv, Acquires

\* A lease the Worker created for a job that releases on post is active only as long as
\* the job has not ended well: a launch still has to run, failed or was killed, and the
\* job shows it.  This holds of leases no process has heard of, too, such as the one
\* granted to a request that had timed out (acquire and release of index.mjs).
NoSilentLeak ==
    \A l \in ActiveLeases :
        Acquires(owner[l]) /\ ReleaseOnPost(owner[l]) =>
            exit[owner[l]]["main"] # "ok" \/ exit[owner[l]]["post"] # "ok"

\* Whatever is cancelled, lost, late or answered with another job's lease: a job whose two
\* launches end well leaves no active lease behind that it was to release.
THEOREM LeasesLeakAloud == Spec => []NoSilentLeak
<1> DEFINE Jobs == \A j \in Job : JobInv(j)
           Late == \A j \in Job : LateInv(j)
           Requests == (\A j \in Job : RequestInv(j)) /\ (\A m \in net : AskingInv(m))
           Leaks == \A j \in Job : LeakInv(j)
<1>1. Init => Leaks
  BY DEF Init, LeakInv, Asking, Stage
<1>2. TypeOK /\ Jobs /\ Late /\ Requests /\ PostInv /\ Leaks /\ [Next]_vars => Leaks'
  <2> SUFFICES ASSUME TypeOK, Jobs, Late, Requests, PostInv, Leaks, [Next]_vars,
                      NEW j \in Job
               PROVE  LeakInv(j)'
      OBVIOUS
  <2>1. CASE Process(j) \/ Runner(j) \/ Faults(j)
    BY <2>1, LeakOwnStep DEF PostInv
  <2>2. ASSUME NEW i \in Job, i # j, Process(i) \/ Runner(i) \/ Faults(i)
        PROVE  LeakInv(j)'
    <3>1. JobVars(j)' = JobVars(j)
      BY <2>2, OtherStep
    <3>2. exit'[j] = exit[j]
      BY <2>2, WhoEnds DEF EndProcess, TypeOK
    <3>3. /\ \A m \in net' : m.job = j => m \in net
          /\ status' = status /\ owner' = owner
      BY <2>2, OtherMessages
    <3> QED
      BY <3>1, <3>2, <3>3 DEF LeakInv, Asking, JobVars, Acquires
  <2>3. ASSUME NEW r \in net, Worker(r) PROVE LeakInv(j)'
    BY <2>3, LeakWorkerStep
  <2>4. CASE (\E l \in Lease : Expire(l)) \/ UNCHANGED vars
    <3>1. UNCHANGED <<ClientVars, net, owner>>
      BY <2>4 DEF Expire, vars, ClientVars
    <3>2. \A l \in Lease : status'[l] = "unused" <=> status[l] = "unused"
      BY <2>4 DEF Expire, vars, TypeOK
    <3> QED
      BY <3>1, <3>2 DEF LeakInv, Asking, ClientVars, Acquires
  <2> QED
    BY <2>1, <2>2, <2>3, <2>4 DEF Next
<1>3. TypeOK /\ Requests /\ PostInv /\ Leaks => NoSilentLeak
  <2> SUFFICES ASSUME TypeOK, Requests, PostInv, Leaks, NEW l \in ActiveLeases,
                      Acquires(owner[l]), ReleaseOnPost(owner[l]),
                      exit[owner[l]]["main"] = "ok", exit[owner[l]]["post"] = "ok"
               PROVE  FALSE
      BY DEF NoSilentLeak
  <2>1. l \in Lease /\ status[l] = "active" /\ owner[l] \in Job
    BY DEF ActiveLeases, TypeOK
  <2>2. ~outputs[owner[l]].deferred
    BY <2>1 DEF RequestInv, Leased
  <2>3. outputs[owner[l]].granted /\ outputs[owner[l]].lease = l
    BY <2>1, <2>2 DEF LeakInv
  <2>4. Over(l)
    BY <2>1, <2>3 DEF PostInv, QuietInv
  <2> QED
    BY <2>1, <2>4 DEF Over
<1>4. Spec => []Jobs /\ []Late /\ []Requests
  <2> HIDE DEF Jobs, Late, Requests
  <2>1. (Spec => []Jobs) /\ (Spec => []Late) /\ (Spec => []Requests)
    BY JobsCorrect, LateCorrect, RequestsCorrect DEF Jobs, Late, Requests
  <2> QED
    BY <2>1, PTL
<1> HIDE DEF Jobs, Late, Requests, Leaks
<1> QED
  BY <1>1, <1>2, <1>3, <1>4, TypeCorrect, PostCorrect, PTL DEF Spec
=============================================================================
