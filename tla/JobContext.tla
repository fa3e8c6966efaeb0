----------------------------- MODULE JobContext -----------------------------
(***************************************************************************)
(* resolve-job-context: which workflow job is this process part of?        *)
(*                                                                         *)
(* Runners execute jobs one after another.  A step of a job may resolve    *)
(* its job id: from the cache file in the runner's temporary directory, or *)
(* from the pages of the jobs API, read one await at a time while other    *)
(* jobs start and end.  The runner wipes the directory before a job, but   *)
(* a persistent runner may fail to.  GitHub and the runners are external.  *)
(*                                                                         *)
(* The definitions marked "Defect" are no part of the system: the checks   *)
(* put each in the place of a definition after it, to see a property fail. *)
(***************************************************************************)
EXTENDS Naturals

CONSTANTS
    Job,          \* jobs, by their numeric id
    Runner,
    Persistent,   \* runners whose temporary directory may survive a job
    Name,         \* Name[r]: RUNNER_NAME, which runners may share
    Eligible,     \* Eligible[r]: jobs runner r may execute
    Attempt,      \* Attempt[j]: repository, run and run attempt of job j
    Page,         \* Page[j]: the page of the jobs API that lists job j
    MaxPages,     \* pages fetchJobs reads
    NoJob, NoCache,
    MaxCalls      \* bound: resolutions per job

ASSUME JobAssumption ==
    /\ Persistent \subseteq Runner
    /\ Eligible \in [Runner -> SUBSET Job]
    /\ DOMAIN Name = Runner /\ DOMAIN Attempt = Job
    /\ MaxPages \in Nat /\ MaxCalls \in Nat
    /\ Page \in [Job -> 1..MaxPages]
    /\ NoJob \notin Job

VARIABLES
    status,    \* status of each job
    runner,    \* jobs each runner executes: runner[r] is NoJob when idle
    cache,     \* the cache file in each runner's temporary directory
    pc,        \* the resolution running on each runner
    page,      \* the page it reads next
    seen,      \* jobs the pages it has read listed
    answer,    \* what each job was told: quality and id
    calls      \* resolutions each job has made

vars == <<status, runner, cache, pc, page, seen, answer, calls>>

Status == {"queued", "in_progress", "completed"}
PC == {"idle", "start", "fetching", "writing"}
Answer == [quality: {"none", "exact", "unavailable", "error"}, job: Job \cup {NoJob}]
Unresolved(q) == [quality |-> q, job |-> NoJob]
Exact(j) == [quality |-> "exact", job |-> j]

\* Defect: the runner's name alone is the identity.
IdentityOfRunner(j, r) == Name[r]

\* cacheIdentity: repository, run, attempt and runner name; not the job.
CacheIdentity(j, r) == <<Attempt[j], Name[r]>>

CacheEntry == [identity: {CacheIdentity(j, r) : j \in Job, r \in Runner}, job: Job]
ASSUME CacheAssumption == NoCache \notin CacheEntry

Init ==
    /\ status = [j \in Job |-> "queued"]
    /\ runner = [r \in Runner |-> NoJob]
    /\ cache = [r \in Runner |-> NoCache]
    /\ pc = [r \in Runner |-> "idle"]
    /\ page = [r \in Runner |-> 1]
    /\ seen = [r \in Runner |-> {}]
    /\ answer = [j \in Job |-> Unresolved("none")]
    /\ calls = [j \in Job |-> 0]

-----------------------------------------------------------------------------
(* GitHub and the runners. *)

StartJob(r, j) ==
    /\ runner[r] = NoJob
    /\ status[j] = "queued" /\ j \in Eligible[r]
    /\ runner' = [runner EXCEPT ![r] = j]
    /\ status' = [status EXCEPT ![j] = "in_progress"]
    /\ \/ cache' = [cache EXCEPT ![r] = NoCache]
       \/ r \in Persistent /\ UNCHANGED cache
    /\ UNCHANGED <<pc, page, seen, answer, calls>>

\* A job ends, also in the middle of a resolution: cancelled or timed out.
EndJob(r) ==
    /\ runner[r] # NoJob
    /\ status' = [status EXCEPT ![runner[r]] = "completed"]
    /\ runner' = [runner EXCEPT ![r] = NoJob]
    /\ pc' = [pc EXCEPT ![r] = "idle"]
    /\ page' = [page EXCEPT ![r] = 1]
    /\ seen' = [seen EXCEPT ![r] = {}]
    /\ UNCHANGED <<cache, answer, calls>>

-----------------------------------------------------------------------------
(* resolveCurrentJobContext *)

Call(r) ==
    /\ runner[r] # NoJob /\ pc[r] = "idle"
    /\ calls[runner[r]] < MaxCalls
    /\ calls' = [calls EXCEPT ![runner[r]] = @ + 1]
    /\ pc' = [pc EXCEPT ![r] = "start"]
    /\ UNCHANGED <<status, runner, cache, page, seen, answer>>

\* The invocation tells its job a.
Return(r, a) ==
    /\ answer' = [answer EXCEPT ![runner[r]] = a]
    /\ pc' = [pc EXCEPT ![r] = "idle"]
    /\ page' = [page EXCEPT ![r] = 1]
    /\ seen' = [seen EXCEPT ![r] = {}]

CacheHit(r) ==
    /\ cache[r] # NoCache
    /\ cache[r].identity = CacheIdentity(runner[r], r)

\* readCache
ReadCache(r) ==
    /\ pc[r] = "start" /\ CacheHit(r)
    /\ Return(r, Exact(cache[r].job))
    /\ UNCHANGED <<status, runner, cache, calls>>

\* The cache does not help: without a token that is the end, with one the pages
\* of the jobs API follow.
MissCache(r) ==
    /\ pc[r] = "start" /\ ~CacheHit(r)
    /\ \/ Return(r, Unresolved("unavailable"))
       \/ pc' = [pc EXCEPT ![r] = "fetching"] /\ UNCHANGED <<page, seen, answer>>
    /\ UNCHANGED <<status, runner, cache, calls>>

\* The page lists j, in progress on a runner of this name.
Lists(r, j) ==
    /\ Page[j] = page[r]
    /\ Attempt[j] = Attempt[runner[r]]
    /\ \E q \in Runner : Name[q] = Name[r] /\ runner[q] = j

\* Defect: the cap on pages is not applied.
FetchOnePageMore(r) ==
    /\ pc[r] = "fetching" /\ page[r] =< MaxPages + 1
    /\ seen' = [seen EXCEPT ![r] = @ \cup {j \in Job : Lists(r, j)}]
    /\ page' = [page EXCEPT ![r] = @ + 1]
    /\ UNCHANGED <<status, runner, cache, pc, answer, calls>>

FetchPage(r) ==
    /\ pc[r] = "fetching" /\ page[r] =< MaxPages
    /\ seen' = [seen EXCEPT ![r] = @ \cup {j \in Job : Lists(r, j)}]
    /\ page' = [page EXCEPT ![r] = @ + 1]
    /\ UNCHANGED <<status, runner, cache, pc, answer, calls>>

FetchFails(r) ==
    /\ pc[r] = "fetching" /\ page[r] =< MaxPages
    /\ Return(r, Unresolved("unavailable"))
    /\ UNCHANGED <<status, runner, cache, calls>>

\* Defect: one candidate of several is as good as another.
AnyCandidate(r) == seen[r] # {}

\* The candidate is unique.
Unique(r) == \E j \in seen[r] : seen[r] = {j}

NoUniqueCandidate(r) ==
    /\ pc[r] = "fetching" /\ page[r] > MaxPages
    /\ ~Unique(r)
    /\ Return(r, Unresolved("unavailable"))
    /\ UNCHANGED <<status, runner, cache, calls>>

Candidate(r) ==
    /\ pc[r] = "fetching" /\ page[r] > MaxPages
    /\ Unique(r)
    /\ pc' = [pc EXCEPT ![r] = "writing"]
    /\ UNCHANGED <<status, runner, cache, page, seen, answer, calls>>

\* Defect: the answer is given without the cache.
ReturnUncached(r) ==
    /\ pc[r] = "writing"
    /\ \E j \in seen[r] : Return(r, Exact(j))
    /\ UNCHANGED <<status, runner, cache, calls>>

\* atomicWrite comes before the answer; its rename replaces the file as a whole.
WriteCache(r) ==
    /\ pc[r] = "writing"
    /\ \E j \in seen[r] :
          /\ cache' = [cache EXCEPT ![r] =
                [identity |-> CacheIdentity(runner[r], r), job |-> j]]
          /\ Return(r, Exact(j))
    /\ UNCHANGED <<status, runner, calls>>

\* The directory refuses the write: the step fails without an answer.
WriteFails(r) ==
    /\ pc[r] = "writing"
    /\ Return(r, Unresolved("error"))
    /\ UNCHANGED <<status, runner, cache, calls>>

-----------------------------------------------------------------------------
Resolve(r) ==
    \/ ReadCache(r) \/ MissCache(r)
    \/ FetchPage(r) \/ FetchFails(r) \/ NoUniqueCandidate(r) \/ Candidate(r)
    \/ WriteCache(r) \/ WriteFails(r)

Next ==
    \E r \in Runner :
        \/ \E j \in Job : StartJob(r, j)
        \/ EndJob(r) \/ Call(r) \/ Resolve(r)

Spec == Init /\ [][Next]_vars

-----------------------------------------------------------------------------
(* Properties. *)

\* No persistent runner may execute two jobs of one attempt.
OneJobPerAttempt ==
    \A r \in Persistent : \A i, j \in Eligible[r] : Attempt[i] = Attempt[j] => i = j

TypeOK ==
    /\ status \in [Job -> Status]
    /\ runner \in [Runner -> Job \cup {NoJob}]
    /\ cache \in [Runner -> CacheEntry \cup {NoCache}]
    /\ pc \in [Runner -> PC]
    /\ page \in [Runner -> 1..(MaxPages + 1)]
    /\ seen \in [Runner -> SUBSET Job]
    /\ answer \in [Job -> Answer]
    /\ calls \in [Job -> 0..MaxCalls]

\* An exact answer is the asking job's own id: not another job's that ran on this
\* runner before, and not that of a job on a runner of the same name.
ExactIsOwn == \A j \in Job : answer[j].quality = "exact" => answer[j].job = j

\* A job that was told its id is never told anything else, even when the API
\* fails or becomes ambiguous later.
ExactStays ==
    [][\A j \in Job : answer[j].quality = "exact" => answer'[j] = answer[j]]_vars
=============================================================================
