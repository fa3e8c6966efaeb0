-------------------------- MODULE JobContextProofs --------------------------
(* Theorems about JobContext, for every set of jobs, runners and pages. *)
EXTENDS JobContext, TLAPS

-----------------------------------------------------------------------------
(* The inductive invariant. *)

\* A job in progress is on the one runner that took it.
Placed ==
    /\ \A r \in Runner : runner[r] # NoJob =>
          runner[r] \in Eligible[r] /\ status[runner[r]] = "in_progress"
    /\ \A r \in Runner : pc[r] # "idle" => runner[r] # NoJob

\* A resolution that has read the page of its own job has seen it.
Reading ==
    /\ \A r \in Runner : pc[r] \in {"idle", "start"} => page[r] = 1 /\ seen[r] = {}
    /\ \A r \in Runner : pc[r] \in {"fetching", "writing"} =>
          (page[r] > Page[runner[r]] => runner[r] \in seen[r])
    /\ \A r \in Runner : pc[r] = "writing" => seen[r] = {runner[r]}

\* A cache file names a job of this runner, and the wipe of an ephemeral runner
\* leaves none but the current job's.
Cached ==
    /\ \A r \in Runner : cache[r] # NoCache =>
          /\ cache[r].job \in Eligible[r]
          /\ cache[r].identity = CacheIdentity(cache[r].job, r)
    /\ \A r \in Runner : cache[r] # NoCache /\ r \notin Persistent /\ runner[r] # NoJob =>
          cache[r].job = runner[r]

\* No two runners execute one job.
OneRunner ==
    \A q, r \in Runner : q # r /\ runner[q] # NoJob => runner[q] # runner[r]

IInv == TypeOK /\ Placed /\ OneRunner /\ Reading /\ Cached /\ ExactIsOwn

-----------------------------------------------------------------------------
(* Lemmas. *)

\* What the constants give a runner.
LEMMA EligibleJobs == ASSUME NEW r \in Runner PROVE Eligible[r] \subseteq Job
  BY JobAssumption

LEMMA PageOfJob ==
    ASSUME NEW j \in Job PROVE Page[j] \in 1..MaxPages /\ MaxPages \in Nat
  BY JobAssumption

LEMMA NoJobIsNone == NoJob \notin Job
  BY JobAssumption

LEMMA AnswerTypes ==
    /\ \A j \in Job : Exact(j) \in Answer
    /\ \A q \in {"none", "unavailable", "error"} : Unresolved(q) \in Answer
  BY DEF Exact, Unresolved, Answer

\* Two cache entries of one runner with one identity name jobs of one attempt.
LEMMA IdentityIsAttempt ==
    ASSUME NEW i, NEW j, NEW r, CacheIdentity(i, r) = CacheIdentity(j, r)
    PROVE  Attempt[i] = Attempt[j]
  BY DEF CacheIdentity

\* Under OneJobPerAttempt a cache hit names the job that asks.
LEMMA HitIsOwn ==
    ASSUME IInv, OneJobPerAttempt, NEW r \in Runner, runner[r] # NoJob, CacheHit(r)
    PROVE  cache[r].job = runner[r]
<1>1. cache[r] # NoCache /\ cache[r].identity = CacheIdentity(runner[r], r)
  BY DEF CacheHit
<1>2. cache[r].job \in Eligible[r] /\ cache[r].identity = CacheIdentity(cache[r].job, r)
  BY <1>1 DEF IInv, Cached
<1>3. Attempt[cache[r].job] = Attempt[runner[r]]
  BY <1>1, <1>2, IdentityIsAttempt
<1>4. runner[r] \in Eligible[r]
  BY DEF IInv, Placed
<1>5. CASE r \in Persistent
  BY <1>2, <1>3, <1>4, <1>5 DEF OneJobPerAttempt
<1>6. CASE r \notin Persistent
  BY <1>1, <1>6 DEF IInv, Cached
<1>7. QED  BY <1>5, <1>6

\* A resolution whose candidate is unique has its own job.
LEMMA CandidateIsOwn ==
    ASSUME IInv, NEW r \in Runner, pc[r] = "fetching", page[r] > MaxPages, Unique(r)
    PROVE  seen[r] = {runner[r]}
<1>1. runner[r] # NoJob /\ runner[r] \in Job
  BY DEF IInv, Placed, TypeOK
<1>2. page[r] > Page[runner[r]]
  <2>1. page[r] \in Nat
    BY PageOfJob, <1>1 DEF IInv, TypeOK
  <2>2. QED  BY <2>1, <1>1, PageOfJob
<1>3. runner[r] \in seen[r]
  BY <1>2 DEF IInv, Reading
<1>4. QED  BY <1>3 DEF Unique

\* A page that lists the resolving job shows it.
LEMMA OwnJobListed ==
    ASSUME NEW r \in Runner, page[r] = Page[runner[r]]
    PROVE  Lists(r, runner[r])
  BY DEF Lists

-----------------------------------------------------------------------------
(* Each action preserves the invariant. *)

\* Return gives an answer of the right type and clears the resolution.
LEMMA ReturnKeeps ==
    ASSUME IInv, NEW r \in Runner, runner[r] # NoJob, UNCHANGED <<status, runner, calls>>,
           NEW a \in Answer, Return(r, a), a.quality = "exact" => a.job = runner[r],
           cache' \in [Runner -> CacheEntry \cup {NoCache}], Cached'
    PROVE  IInv'
<1>1. runner[r] \in Job
  BY DEF IInv, TypeOK
<1>2. TypeOK'
  <2>1. page' \in [Runner -> 1..(MaxPages + 1)]
    <3>1. 1 \in 1..(MaxPages + 1)
      BY JobAssumption
    <3>2. QED  BY <3>1 DEF IInv, TypeOK, Return
  <2>2. answer' \in [Job -> Answer]
    BY <1>1 DEF IInv, TypeOK, Return
  <2>3. pc' \in [Runner -> PC] /\ seen' \in [Runner -> SUBSET Job]
    BY DEF IInv, TypeOK, Return, PC
  <2>4. QED  BY <2>1, <2>2, <2>3 DEF IInv, TypeOK
<1>3. Placed' /\ OneRunner'
  BY DEF IInv, TypeOK, Placed, OneRunner, Return
<1>4. Reading'
  BY DEF IInv, TypeOK, Reading, Return
<1>5. ExactIsOwn'
  BY <1>1 DEF IInv, TypeOK, ExactIsOwn, Return
<1>6. QED  BY <1>2, <1>3, <1>4, <1>5 DEF IInv

LEMMA InitInv == Init => IInv
<1> SUFFICES ASSUME Init PROVE IInv
  OBVIOUS
<1>1. TypeOK
  <2>1. 1 \in 1..(MaxPages + 1)
    BY JobAssumption
  <2>2. answer \in [Job -> Answer]
    BY AnswerTypes DEF Init
  <2>3. calls \in [Job -> 0..MaxCalls]
    BY JobAssumption DEF Init
  <2>4. QED  BY <2>1, <2>2, <2>3 DEF Init, TypeOK, Status, PC
<1>2. Placed /\ OneRunner /\ Cached
  BY DEF Init, Placed, OneRunner, Cached
<1>3. Reading
  BY DEF Init, Reading
<1>4. ExactIsOwn
  BY DEF Init, ExactIsOwn, Unresolved
<1>5. QED  BY <1>1, <1>2, <1>3, <1>4 DEF IInv

\* Steps that read the cache give its job; the others that end without an exact
\* answer give none.
LEMMA UnresolvedKeeps ==
    ASSUME IInv, NEW r \in Runner, runner[r] # NoJob, NEW q \in {"unavailable", "error"},
           Return(r, Unresolved(q)), UNCHANGED <<status, runner, cache, calls>>
    PROVE  IInv'
<1>1. Unresolved(q) \in Answer
  BY AnswerTypes
<1>2. Unresolved(q).quality # "exact"
  BY DEF Unresolved
<1>3. Cached' /\ cache' \in [Runner -> CacheEntry \cup {NoCache}]
  BY DEF IInv, TypeOK, Cached, CacheIdentity
<1>4. QED  BY <1>1, <1>2, <1>3, ReturnKeeps

LEMMA StartJobKeeps ==
    ASSUME IInv, NEW r \in Runner, NEW j \in Job, StartJob(r, j) PROVE IInv'
<1>1. TypeOK'
  BY DEF IInv, TypeOK, StartJob, Status
<1>2. j # NoJob /\ pc[r] = "idle"
  BY NoJobIsNone DEF IInv, Placed, StartJob
<1>3. Placed' /\ OneRunner'
  BY <1>2 DEF IInv, TypeOK, Placed, OneRunner, StartJob
<1>4. Reading'
  BY <1>2 DEF IInv, TypeOK, Reading, StartJob
<1>5. Cached'
  BY <1>2 DEF IInv, TypeOK, Cached, StartJob, CacheIdentity
<1>6. ExactIsOwn'
  BY DEF IInv, ExactIsOwn, StartJob
<1>7. QED  BY <1>1, <1>3, <1>4, <1>5, <1>6 DEF IInv

LEMMA EndJobKeeps ==
    ASSUME IInv, NEW r \in Runner, EndJob(r) PROVE IInv'
<1>1. TypeOK'
  <2>1. 1 \in 1..(MaxPages + 1)
    BY JobAssumption
  <2>2. runner[r] \in Job
    BY DEF IInv, TypeOK, EndJob
  <2>3. QED  BY <2>1, <2>2 DEF IInv, TypeOK, EndJob, Status, PC
<1>2. ASSUME NEW q \in Runner, q # r, runner[q] # NoJob PROVE runner[q] # runner[r]
  BY <1>2 DEF IInv, OneRunner, EndJob
<1>3. Placed' /\ OneRunner'
  BY <1>2 DEF IInv, TypeOK, Placed, OneRunner, EndJob
<1>4. Reading'
  BY DEF IInv, TypeOK, Reading, EndJob
<1>5. Cached'
  BY DEF IInv, TypeOK, Cached, EndJob, CacheIdentity
<1>6. ExactIsOwn'
  BY DEF IInv, ExactIsOwn, EndJob
<1>7. QED  BY <1>1, <1>3, <1>4, <1>5, <1>6 DEF IInv

LEMMA CallKeeps ==
    ASSUME IInv, NEW r \in Runner, Call(r) PROVE IInv'
<1>1. TypeOK'
  <2>1. runner[r] \in Job /\ calls[runner[r]] \in 0..MaxCalls /\ MaxCalls \in Nat
    BY JobAssumption DEF IInv, TypeOK, Call
  <2>2. calls[runner[r]] + 1 \in 0..MaxCalls
    BY <2>1 DEF Call
  <2>3. QED  BY <2>1, <2>2 DEF IInv, TypeOK, Call, PC
<1>2. Placed' /\ OneRunner'
  BY DEF IInv, TypeOK, Placed, OneRunner, Call
<1>3. Reading'
  BY DEF IInv, TypeOK, Reading, Call
<1>4. Cached' /\ ExactIsOwn'
  BY DEF IInv, TypeOK, Cached, ExactIsOwn, Call, CacheIdentity
<1>5. QED  BY <1>1, <1>2, <1>3, <1>4 DEF IInv

LEMMA FetchPageKeeps ==
    ASSUME IInv, NEW r \in Runner, FetchPage(r) PROVE IInv'
<1>1. runner[r] # NoJob /\ runner[r] \in Job
  BY DEF IInv, TypeOK, Placed, FetchPage
<1>2. page[r] \in 1..(MaxPages + 1) /\ page[r] =< MaxPages /\ MaxPages \in Nat
  BY JobAssumption DEF IInv, TypeOK, FetchPage
<1>3. TypeOK'
  <2>1. page[r] + 1 \in 1..(MaxPages + 1)
    BY <1>2
  <2>2. QED  BY <2>1 DEF IInv, TypeOK, FetchPage
<1>4. Placed' /\ OneRunner'
  BY DEF IInv, TypeOK, Placed, OneRunner, FetchPage
<1>5. page'[r] > Page[runner[r]] => runner[r] \in seen'[r]
  <2>1. SUFFICES ASSUME page[r] + 1 > Page[runner[r]]
                 PROVE  runner[r] \in seen'[r]
    BY DEF IInv, TypeOK, FetchPage
  <2>2. Page[runner[r]] \in Nat
    BY <1>1, PageOfJob
  <2>3. CASE page[r] = Page[runner[r]]
    BY <1>1, <2>3, OwnJobListed DEF IInv, TypeOK, FetchPage
  <2>4. CASE page[r] > Page[runner[r]]
    BY <2>4 DEF IInv, TypeOK, Reading, FetchPage
  <2>5. QED  BY <1>2, <2>1, <2>2, <2>3, <2>4
<1>6. Reading'
  BY <1>5 DEF IInv, TypeOK, Reading, FetchPage
<1>7. Cached' /\ ExactIsOwn'
  BY DEF IInv, TypeOK, Cached, ExactIsOwn, FetchPage, CacheIdentity
<1>8. QED  BY <1>3, <1>4, <1>6, <1>7 DEF IInv

LEMMA CandidateKeeps ==
    ASSUME IInv, NEW r \in Runner, Candidate(r) PROVE IInv'
<1>1. seen[r] = {runner[r]} /\ runner[r] # NoJob
  BY CandidateIsOwn DEF IInv, Placed, Candidate
<1>2. TypeOK' /\ Placed' /\ OneRunner'
  BY <1>1 DEF IInv, TypeOK, Placed, OneRunner, Candidate, PC
<1>3. Reading'
  BY <1>1 DEF IInv, TypeOK, Reading, Candidate
<1>4. Cached' /\ ExactIsOwn'
  BY DEF IInv, TypeOK, Cached, ExactIsOwn, Candidate, CacheIdentity
<1>5. QED  BY <1>2, <1>3, <1>4 DEF IInv

LEMMA ReadCacheKeeps ==
    ASSUME IInv, OneJobPerAttempt, NEW r \in Runner, ReadCache(r) PROVE IInv'
<1>1. runner[r] # NoJob /\ runner[r] \in Job
  BY DEF IInv, TypeOK, Placed, ReadCache
<1>2. cache[r].job = runner[r]
  BY <1>1, HitIsOwn DEF ReadCache
<1>3. Exact(cache[r].job) \in Answer /\ Exact(cache[r].job).job = runner[r]
  BY <1>1, <1>2, AnswerTypes DEF Exact
<1>4. Cached' /\ cache' \in [Runner -> CacheEntry \cup {NoCache}]
  BY DEF IInv, TypeOK, Cached, CacheIdentity, ReadCache
<1>5. UNCHANGED <<status, runner, calls>> /\ Return(r, Exact(cache[r].job))
  BY DEF ReadCache
<1>6. QED  BY <1>1, <1>3, <1>4, <1>5, ReturnKeeps

LEMMA WriteCacheKeeps ==
    ASSUME IInv, NEW r \in Runner, WriteCache(r) PROVE IInv'
<1>1. runner[r] # NoJob /\ runner[r] \in Job /\ runner[r] \in Eligible[r]
  BY DEF IInv, TypeOK, Placed, WriteCache
<1>2. PICK j \in seen[r] :
         /\ cache' = [cache EXCEPT ![r] =
               [identity |-> CacheIdentity(runner[r], r), job |-> j]]
         /\ Return(r, Exact(j))
  BY DEF WriteCache
<1>3. j = runner[r]
  BY <1>2 DEF IInv, Reading, WriteCache
<1>4. Exact(j) \in Answer /\ Exact(j).job = runner[r]
  BY <1>1, <1>3, AnswerTypes DEF Exact
<1>5. [identity |-> CacheIdentity(runner[r], r), job |-> j] \in CacheEntry
  BY <1>1, <1>3 DEF CacheEntry
<1>6. cache' \in [Runner -> CacheEntry \cup {NoCache}]
  BY <1>2, <1>5 DEF IInv, TypeOK
<1>7. Cached'
  <2> DEFINE entry == [identity |-> CacheIdentity(runner[r], r), job |-> j]
  <2>1. entry.identity = CacheIdentity(entry.job, r) /\ entry.job = runner[r]
    BY <1>3
  <2>2. \A q \in Runner : cache'[q] = IF q = r THEN entry ELSE cache[q]
    BY <1>2 DEF IInv, TypeOK
  <2>3. UNCHANGED runner
    BY DEF WriteCache
  <2> HIDE DEF entry
  <2>4. QED  BY <1>1, <2>1, <2>2, <2>3 DEF IInv, Cached, CacheIdentity
<1>8. UNCHANGED <<status, runner, calls>>
  BY DEF WriteCache
<1>9. QED  BY <1>1, <1>2, <1>4, <1>6, <1>7, <1>8, ReturnKeeps

-----------------------------------------------------------------------------
(* The theorems. *)

\* Every step of every process preserves the invariant, if no persistent runner
\* may execute two jobs of one attempt.
THEOREM NextKeeps ==
    ASSUME OneJobPerAttempt, IInv, [Next]_vars PROVE IInv'
<1>1. CASE UNCHANGED vars
  BY <1>1 DEF IInv, TypeOK, Placed, OneRunner, Reading, Cached, ExactIsOwn, CacheIdentity, vars
<1>2. ASSUME NEW r \in Runner, NEW j \in Job, StartJob(r, j) PROVE IInv'
  BY <1>2, StartJobKeeps
<1>3. ASSUME NEW r \in Runner, EndJob(r) \/ Call(r) PROVE IInv'
  BY <1>3, EndJobKeeps, CallKeeps
<1>4. ASSUME NEW r \in Runner, Resolve(r) PROVE IInv'
  <2>1. pc[r] # "idle"
    BY <1>4 DEF Resolve, ReadCache, MissCache, FetchPage, FetchFails,
                NoUniqueCandidate, Candidate, WriteCache, WriteFails
  <2>2. runner[r] # NoJob
    BY <2>1 DEF IInv, Placed
  <2>3. CASE ReadCache(r)
    BY <2>3, ReadCacheKeeps
  <2>4. CASE MissCache(r)
    <3>1. CASE Return(r, Unresolved("unavailable"))
      BY <2>2, <2>4, <3>1, UnresolvedKeeps DEF MissCache
    <3>2. CASE pc' = [pc EXCEPT ![r] = "fetching"] /\ UNCHANGED <<page, seen, answer>>
      <4>1. runner[r] \in Job
        BY <2>2 DEF IInv, TypeOK
      <4>2. page[r] = 1 /\ ~(1 > Page[runner[r]])
        BY <2>4, <4>1, PageOfJob DEF IInv, Reading, MissCache
      <4>3. TypeOK' /\ Placed' /\ OneRunner'
        BY <2>2, <2>4, <3>2 DEF IInv, TypeOK, Placed, OneRunner, MissCache, PC
      <4>4. Reading'
        BY <2>4, <3>2, <4>2 DEF IInv, TypeOK, Reading, MissCache
      <4>5. Cached' /\ ExactIsOwn'
        BY <2>4, <3>2 DEF IInv, TypeOK, Cached, ExactIsOwn, MissCache, CacheIdentity
      <4>6. QED  BY <4>3, <4>4, <4>5 DEF IInv
    <3>3. QED  BY <2>4, <3>1, <3>2 DEF MissCache
  <2>5. CASE FetchPage(r)
    BY <2>5, FetchPageKeeps
  <2>6. CASE FetchFails(r)
    BY <2>2, <2>6, UnresolvedKeeps DEF FetchFails
  <2>7. CASE NoUniqueCandidate(r)
    BY <2>2, <2>7, UnresolvedKeeps DEF NoUniqueCandidate
  <2>8. CASE Candidate(r)
    BY <2>8, CandidateKeeps
  <2>9. CASE WriteCache(r)
    BY <2>9, WriteCacheKeeps
  <2>10. CASE WriteFails(r)
    BY <2>2, <2>10, UnresolvedKeeps DEF WriteFails
  <2>11. QED  BY <1>4, <2>3, <2>4, <2>5, <2>6, <2>7, <2>8, <2>9, <2>10 DEF Resolve
<1>5. QED  BY <1>1, <1>2, <1>3, <1>4 DEF Next

\* An exact answer is the asking job's own id, whatever the runners, the API and
\* the disk do, if no persistent runner may execute two jobs of one attempt.
THEOREM OwnIds ==
    ASSUME OneJobPerAttempt PROVE Spec => []ExactIsOwn
<1>1. IInv => ExactIsOwn
  BY DEF IInv
<1>2. IInv /\ [Next]_vars => IInv'
  BY NextKeeps
<1>3. QED  BY <1>1, <1>2, InitInv, PTL DEF Spec

\* Type correctness, under the same assumption.
THEOREM TypeCorrect ==
    ASSUME OneJobPerAttempt PROVE Spec => []TypeOK
<1>1. IInv => TypeOK
  BY DEF IInv
<1>2. IInv /\ [Next]_vars => IInv'
  BY NextKeeps
<1>3. QED  BY <1>1, <1>2, InitInv, PTL DEF Spec

-----------------------------------------------------------------------------
(* An exact answer is final: the cache holds it as long as the job runs. *)

Remembered ==
    /\ \A j \in Job : status[j] = "queued" => answer[j].quality # "exact"
    /\ \A r \in Runner : runner[r] # NoJob /\ answer[runner[r]].quality = "exact" =>
          CacheHit(r) /\ pc[r] \in {"idle", "start"}

\* Return on a runner leaves the answers of the other jobs alone.
LEMMA ReturnRemembers ==
    ASSUME IInv, Remembered, NEW r \in Runner, runner[r] # NoJob, NEW a, Return(r, a),
           UNCHANGED <<status, runner>>,
           \A q \in Runner : q # r => cache'[q] = cache[q],
           a.quality = "exact" => CacheHit(r)'
    PROVE  Remembered'
<1>1. runner[r] \in Job /\ status[runner[r]] = "in_progress"
  BY DEF IInv, TypeOK, Placed
<1>2. \A j \in Job : answer'[j] = IF j = runner[r] THEN a ELSE answer[j]
  BY DEF IInv, TypeOK, Return
<1>3. \A j \in Job : status'[j] = "queued" => answer'[j].quality # "exact"
  BY <1>1, <1>2 DEF Remembered
<1>4. ASSUME NEW q \in Runner, runner'[q] # NoJob, answer'[runner'[q]].quality = "exact"
      PROVE  CacheHit(q)' /\ pc'[q] \in {"idle", "start"}
  <2>1. CASE q = r
    BY <1>1, <1>2, <1>4, <2>1 DEF IInv, TypeOK, Return
  <2>2. CASE q # r
    <3>1. runner[q] \in Job /\ runner[q] # runner[r]
      BY <1>4, <2>2 DEF IInv, TypeOK, OneRunner
    <3>2. answer[runner[q]].quality = "exact"
      BY <1>2, <1>4, <3>1
    <3>3. CacheHit(q) /\ pc[q] \in {"idle", "start"}
      BY <1>4, <3>2 DEF Remembered
    <3>4. QED  BY <2>2, <3>3 DEF IInv, TypeOK, Return, CacheHit, CacheIdentity
  <2>3. QED  BY <2>1, <2>2
<1>5. QED  BY <1>3, <1>4 DEF Remembered

LEMMA InitRemembers == Init => Remembered
  BY DEF Init, Remembered, Unresolved

LEMMA NextRemembers ==
    ASSUME IInv, Remembered, OneJobPerAttempt, [Next]_vars
    PROVE  /\ Remembered'
           /\ \A j \in Job : answer[j].quality = "exact" => answer'[j] = answer[j]
<1> DEFINE Stays == \A j \in Job : answer[j].quality = "exact" => answer'[j] = answer[j]
<1>1. CASE UNCHANGED vars
  BY <1>1 DEF Remembered, CacheHit, CacheIdentity, vars
<1>2. ASSUME NEW r \in Runner, NEW j \in Job, StartJob(r, j) PROVE Remembered' /\ Stays
  <2>1. answer[j].quality # "exact" /\ UNCHANGED answer
    BY <1>2 DEF Remembered, StartJob
  <2>2. \A q \in Runner : q # r => cache'[q] = cache[q] /\ runner'[q] = runner[q] /\ pc'[q] = pc[q]
    BY <1>2 DEF IInv, TypeOK, StartJob
  <2>3. runner'[r] = j
    BY <1>2 DEF IInv, TypeOK, StartJob
  <2>4. \A i \in Job : status'[i] = "queued" => status[i] = "queued"
    BY <1>2 DEF IInv, TypeOK, StartJob
  <2>5. QED  BY <2>1, <2>2, <2>3, <2>4 DEF Remembered, CacheHit, CacheIdentity
<1>3. ASSUME NEW r \in Runner, EndJob(r) PROVE Remembered' /\ Stays
  <2>1. UNCHANGED <<cache, answer>> /\ runner'[r] = NoJob
    BY <1>3 DEF IInv, TypeOK, EndJob
  <2>2. \A q \in Runner : q # r => runner'[q] = runner[q] /\ pc'[q] = pc[q]
    BY <1>3 DEF IInv, TypeOK, EndJob
  <2>3. \A i \in Job : status'[i] = "queued" => status[i] = "queued"
    BY <1>3 DEF IInv, TypeOK, EndJob
  <2>4. QED  BY <2>1, <2>2, <2>3 DEF Remembered, CacheHit, CacheIdentity
<1>4. ASSUME NEW r \in Runner, Call(r) PROVE Remembered' /\ Stays
  BY <1>4 DEF IInv, TypeOK, Remembered, CacheHit, CacheIdentity, Call
<1>5. ASSUME NEW r \in Runner, Resolve(r) PROVE Remembered' /\ Stays
  <2>1. runner[r] # NoJob /\ runner[r] \in Job
    <3>1. pc[r] # "idle"
      BY <1>5 DEF Resolve, ReadCache, MissCache, FetchPage, FetchFails,
                  NoUniqueCandidate, Candidate, WriteCache, WriteFails
    <3>2. QED  BY <3>1 DEF IInv, Placed, TypeOK
  <2>2. \A q \in {"unavailable", "error"} : Unresolved(q).quality # "exact"
    BY DEF Unresolved
  <2>3. CASE ReadCache(r)
    <3>1. Return(r, Exact(cache[r].job)) /\ CacheHit(r) /\ UNCHANGED <<status, runner, cache>>
      BY <2>3 DEF ReadCache
    <3>2. cache[r].job = runner[r]
      BY <2>1, <3>1, HitIsOwn
    <3>3. answer[runner[r]].quality = "exact" => answer[runner[r]] = Exact(runner[r])
      <4>1. SUFFICES ASSUME answer[runner[r]].quality = "exact"
                     PROVE  answer[runner[r]] = Exact(runner[r])
        OBVIOUS
      <4>2. answer[runner[r]] \in Answer /\ answer[runner[r]].job = runner[r]
        BY <2>1, <4>1 DEF IInv, TypeOK, ExactIsOwn
      <4>3. QED  BY <4>1, <4>2 DEF Answer, Exact
    <3>4. Stays
      BY <2>1, <3>1, <3>2, <3>3 DEF IInv, TypeOK, Return
    <3>5. CacheHit(r)'
      BY <3>1 DEF CacheHit, CacheIdentity
    <3>6. QED  BY <2>1, <3>1, <3>4, <3>5, ReturnRemembers
  <2>4. CASE WriteCache(r)
    <3>1. PICK j \in seen[r] :
             /\ cache' = [cache EXCEPT ![r] =
                   [identity |-> CacheIdentity(runner[r], r), job |-> j]]
             /\ Return(r, Exact(j))
      BY <2>4 DEF WriteCache
    <3>2. UNCHANGED <<status, runner>> /\ answer[runner[r]].quality # "exact"
      BY <2>1, <2>4 DEF Remembered, WriteCache
    <3>3. Stays
      BY <2>1, <3>1, <3>2 DEF IInv, TypeOK, Return
    <3>4. CacheHit(r)'
      <4>1. [identity |-> CacheIdentity(runner[r], r), job |-> j] \in CacheEntry
        BY <2>1 DEF IInv, TypeOK, CacheEntry
      <4>2. cache'[r] = [identity |-> CacheIdentity(runner[r], r), job |-> j]
        BY <3>1 DEF IInv, TypeOK
      <4>3. QED  BY <3>2, <4>1, <4>2, CacheAssumption DEF CacheHit, CacheIdentity
    <3>5. \A q \in Runner : q # r => cache'[q] = cache[q]
      BY <3>1 DEF IInv, TypeOK
    <3>6. QED  BY <2>1, <3>1, <3>2, <3>3, <3>4, <3>5, ReturnRemembers
  <2>5. ASSUME NEW q \in {"unavailable", "error"}, Return(r, Unresolved(q)),
               answer[runner[r]].quality # "exact", UNCHANGED <<status, runner, cache>>
        PROVE  Remembered' /\ Stays
    <3>1. Stays
      BY <2>1, <2>5 DEF IInv, TypeOK, Return
    <3>2. QED  BY <2>1, <2>2, <2>5, <3>1, ReturnRemembers
  <2>6. CASE MissCache(r)
    <3>1. answer[runner[r]].quality # "exact" /\ UNCHANGED <<status, runner, cache>>
      BY <2>1, <2>6 DEF Remembered, MissCache
    <3>2. CASE Return(r, Unresolved("unavailable"))
      BY <2>5, <3>1, <3>2
    <3>3. CASE pc' = [pc EXCEPT ![r] = "fetching"] /\ UNCHANGED <<page, seen, answer>>
      BY <3>1, <3>3, <2>1 DEF IInv, TypeOK, OneRunner, Remembered, CacheHit, CacheIdentity
    <3>4. QED  BY <2>6, <3>2, <3>3 DEF MissCache
  <2>7. CASE FetchFails(r) \/ NoUniqueCandidate(r) \/ WriteFails(r)
    <3>1. answer[runner[r]].quality # "exact" /\ UNCHANGED <<status, runner, cache>>
      BY <2>1, <2>7 DEF Remembered, FetchFails, NoUniqueCandidate, WriteFails
    <3>2. QED  BY <2>5, <2>7, <3>1 DEF FetchFails, NoUniqueCandidate, WriteFails
  <2>8. CASE FetchPage(r) \/ Candidate(r)
    <3>1. UNCHANGED <<status, runner, cache, answer>>
      BY <2>8 DEF FetchPage, Candidate
    <3>2. \A q \in Runner : pc'[q] = pc[q] \/ (q = r /\ pc[r] = "fetching")
      BY <2>8 DEF IInv, TypeOK, FetchPage, Candidate
    <3>3. QED  BY <3>1, <3>2 DEF Remembered, CacheHit, CacheIdentity
  <2>9. QED  BY <1>5, <2>3, <2>4, <2>6, <2>7, <2>8 DEF Resolve
<1>6. QED  BY <1>1, <1>2, <1>3, <1>4, <1>5 DEF Next

\* A job that was told its id is never told anything else, if no persistent runner
\* may execute two jobs of one attempt.
THEOREM FinalIds ==
    ASSUME OneJobPerAttempt PROVE Spec => ExactStays
<1>1. IInv /\ Remembered /\ [Next]_vars => IInv' /\ Remembered'
  BY NextKeeps, NextRemembers
<1>2. IInv /\ Remembered /\ [Next]_vars =>
        [\A j \in Job : answer[j].quality = "exact" => answer'[j] = answer[j]]_vars
  BY NextRemembers
<1>3. QED  BY <1>1, <1>2, InitInv, InitRemembers, PTL DEF Spec, ExactStays
=============================================================================
