# Verification of ci-actions

This directory models the composite and Node actions of `ci-actions` in TLA+: the
ones that talk to other processes over time, the tools a job runs as steps, and the
hook that gates a push. TLC checks small instances; TLAPS proves the
safety properties for every value of the constants. `PROJECT.json` lists the components,
the runs, the mutants each property is tested with, the source lines every
definition stands for, the hazards of the code and the theorems.

    tlc -config AdmissionContention.cfg MCAdmission.tla   # model-check one run
    tlapm AdmissionProofs.tla                             # check one module's proofs

## What was found

Five runs are expected to end in a counterexample. Each one checks a sentence of
the repository against what the code does.

| run | property | in short |
|---|---|---|
| `admission_matrix` | `NoReleaseUnderWork` | The default subject contains `GITHUB_JOB`, which all legs of a matrix share. A second leg reuses the lease of the first one (the Worker answers `reused`), and the first leg's post launch releases it while the second leg works. `action.yml:17` calls the subject the current job identity. |
| `admission_post` | `PostNeverAcquires` | A main launch that is cancelled before line 662 leaves no `is_post` marker, so the post launch runs the main path and acquires a lease that nobody works under and nobody releases before it expires. |
| `job_context_survives` | `ExactIsOwn` | The cache identity has no job in it. A persistent runner whose `RUNNER_TEMP` survives tells the second job of one attempt the numeric id of the first, as `exact`. |
| `telemetry_split` | `NeverSplit` | When the refusal concerns only the envelope, or starts after the payload was written, payload and envelope end up in different directories. |
| `scope_rename` | `FullWhenTriggered` | `git diff --name-only` prints a rename as its destination only. A full-trigger file moved elsewhere leaves `full` false, and `docs-only` true when it was moved below `docs/`; `action.yml:38` calls `full` true when a full-trigger path changed. |

Smaller disagreements met while modelling, which no run is spent on:

* `README.md:447` passes an absolute `release-evidence-path`; `resolveInside` refuses
  absolute paths (`package-source-v2/index.mjs:227`).
* `compareVersions` takes a part that is no number for neither smaller nor larger,
  so a git `2.50.1-rc1` passes every minimum it equals up to that part; and
  `firstVersion` needs three parts, so a Firefox that prints `128.0` is missing.
* The span of a phase ignores its sequence number, and all cache observations of a
  job share one span: two events may have one span id. A phase and an observation
  never do, also when the phase is named `cache_observation`, unless a caller hands
  one the other's identifier.
* `package-source-v2` publishes any number of packages; the prequeue refuses more
  than 64 (`ci-admission/index.mjs:340`).
* The number of NuGet lock files is checked when a directory is entered only: the
  files of the last one are not counted.
* `resolveInside` refuses a child whose name begins with `..` and accepts `./`,
  the root itself, which its message rules out.
* A text that is cut at its bound may end in half a character, which is replaced
  by U+FFFD.
* `rm -f` counts a lock that vanished before it as removed; and without `lsof`
  and `fuser` the Unix script removes locks that are held open.
* `pre-push` compares HEAD before and after the tests: a HEAD that leaves and comes
  back in between goes unnoticed, and the tests may have run on another commit.
* `emitPrequeueOutputs` writes the dispatch id before it refuses a status of two
  lines: the step fails with an output.

## The system

`ci-actions` is a collection of GitHub actions. Every invocation is a short-lived
process on a runner; what lives longer is on the runner's disk, in the job's saved
state and outputs, and in the organization's admission Worker (`gh-hooks`), which
is not part of the repository.

| component | state | operations | what is hard | what makes it correct |
|---|---|---|---|---|
| ci-admission, leases | `GITHUB_STATE` and `GITHUB_OUTPUT` of the job, the Worker's lease table | `acquire`, `release` (post), `explicitRelease` | two launches of one process, cancellation between any two appends, late and lost answers, leases handed to another job, expiry | nobody's lease is released under its work; no lease leaks silently; the policy limit holds; one acquire per job |
| ci-admission, transport | abort timer, body reader, listeners, bytes kept | `requestJson`, `readBoundedJson` | the deadline races the read; cleanup must not wait for the peer | success is the whole body within the cap; settles once, cleanly, always |
| ci-admission, cloud starter | the intent awaited, the receipt returned | `cloudOperation` reserve, claim, status | replays, skewed clocks, an intent mutated during the await, uncertain outcomes | one permission per claim, in its window, for the identity sent |
| ci-admission, prequeue | the inputs, the answer, outputs written so far | `prequeueDefer`, `prequeueStatus` | many inputs that bind each other; outputs written one by one; the deadline | an id stands for a bound payload or the dispatch asked for; the step ends |
| download-ranged-artifact | part files, archive, temporary directory | lookup, probe, ranges, append, verify, extract, clean | ranges go on after the first failure while the directory is removed; the API lists what the storage no longer holds | only the listed artifact is extracted; no byte missing or doubled; nothing left after success |
| resolve-job-context | cache file in `RUNNER_TEMP` | cache read, paged API read, unique candidate, cache write | jobs start and end between pages; the cache outlives its job | an exact answer is the asking job's own id, and final |
| telemetry writer (`lib/telemetry-fallback`) | files, redirects of one writer | atomic write, append, retry in a fallback directory | refusals of some files and not others, kills, concurrent emitters | files are whole, reported paths true, files neither merged nor scattered |
| telemetry events (emit-ci-phase, emit-cache-observation) | none | build an event, write it | the emitters of a run never meet | events join where they belong together, and only there |
| clean-stale-git-locks | `.git/**/*.lock` | age check, in-use check, removal | the lock changes between any two of them | what is removed was old and unused, unless written since |
| release-manifest | manifest, hash, temporary files | walk, rename, write hash | kills and rebuilds over leftovers | a published manifest is the tree's, its hash its own |
| setup-node-pnpm | install prefix with the store | resolve, install with retries, choose a store, classify it | partial installs, a second use in one job | success means the whole executable; a cold store is empty |
| setup-dotnet-nuget | SDKs, persistent stores, summary | resolve, verify, classify, restore, report | the stores and the summary of an earlier job | what is reported is of this job, and true |
| wrangler-pinned | staged files, pnpm, modules | delete, stage, pack, unpack, install, publish | anything left by an earlier attempt, links, a caller's configuration | nothing runs that was not checked; nothing else is deleted |
| detect-ci-scope | none | evaluate a change | what git prints is not what changed | callers validate more, never silently less |
| runner-baseline | drift manifest | merge, compare, report, decide | version edges; the report must precede the failure | a pass means every requirement is met |
| package-source-v2 | published records | select, check, hash, publish | order, repetition, what the id covers | an id stands for one publication |
| shared library | what is still to visit, keys visited | redact and bound metadata, resolve paths | redaction against truncation, nesting, one bound for all keys | metadata is free of secrets and bounded, paths stay inside |
| setup-ci-phase-emitter | a wrapper script | write once | none | the path exported is the script's |
| pre-push hook and contract tests | HEAD, the advertised updates, the ranges to scan | read, scan, test, compare | HEAD and the remote move meanwhile; a new branch publishes all its ancestors | what a push publishes was scanned and tested |
| workflows | none | configuration | none | - |

Interactions. A job's steps call actions one after another in one runner; they
share the job's environment, its outputs and `RUNNER_TEMP`. ci-admission talks to
the Worker over one HTTP request per operation (its transport), a control job
hands its lease id to a heavy job through outputs, resolve-job-context feeds the
numeric job id to the emitters through the environment, and the emitters of a job
share telemetry files.

## Modules

| module | models | state |
|---|---|---|
| `Admission` | leases: two launches per job, the job's own work, the Worker | `pc`, `stage`, `saved` (`GITHUB_STATE`), `outputs` (`GITHUB_OUTPUT`), `exit`, `net`, lease `status` and `owner` |
| `Transport` | one request | `phase`, `timer`, `aborted`, reader and listener, byte counts, `result` |
| `StartPermission` | abstract: what the starter client promises | Worker time, claims, permits, starts |
| `CloudStarter` | `cloudOperation`, starters, Worker, clocks; implements `StartPermission` | messages, calls awaited, permissions held |
| `RangedDownload` | the download from the lookup on | the listing, ranges, part files, archive, directory |
| `JobContext` | resolution on several runners | runners' jobs, cache files, pages read, answers |
| `Prequeue` | the prequeue operations over `Transport` | inputs, step, what was sent, accepted and written |
| `TelemetryWriter` | emitters and the directories they write to | files, redirects, reported paths |
| `TelemetryEvents` | what the emitters say | the events |
| `GitLocks` | both scripts beside git | locks and their versions, the listing, the lock visited |
| `ReleaseManifest` | attempts on one tree | tree, manifest, hash, temporary files |
| `PnpmSetup`, `DotnetRestore` | the two setups, over uses of one job and over jobs | prefix, store, SDKs, persistent stores, summary |
| `WranglerPinned` | the pinned install, again and again | what is on disk, what ran |
| `PushGate` | the pre-push hook beside the developer and other pushers | HEAD, the remote's branches, updates, ranges |
| `ScopeDetection`, `RunnerBaseline`, `PackageSource` | evaluations | input, output, what was written |
| `Contract` | the walk of `redactBounded` over metadata, `resolveInside` | the value given, positions to visit, keys visited, what is returned |
| `RunnerSteps` | the ten tools, the push gate and the shared library side by side, with their properties | `tool`, and the state of all |
| `MC*` | the small worlds of the runs; `MCRunnerSteps` holds those of the tools | |
| `*Proofs` | the theorems, see "Proofs" | |

### Admission

A job is one invocation of the action together with the work it admits. `pc` is
the program counter of the process while one runs (`start`, `marked`,
`acquiring`, `granted`, `leaseSaved`, `releasing`), and otherwise where the job
is (`needs` its control job, `working`, `done`, `lost`). `MarkPost` is line 662,
`SendAcquire` to `SaveReleaseOnPost` are `acquire`, `PostRelease` and `PostSkip`
are `release`, `ExplicitRelease` is `explicitRelease`, `EndProcess` is the end of
`main` and the runner's reaction to the exit code. `CancelProcess` ends a process
between any two steps, and what it has appended stays; `RunnerLost` ends the job
for good. `Subject` and `ReleaseOnPost` are the resolution of the inputs. `QuietPostReleases`
is about a main launch that ended well: what a killed one was granted may stay until it
expires.

The Worker is external and modelled from what the client relies on: an acquire of
a subject with an active lease is answered with that lease (`reused`), otherwise
it is granted if the slot weights fit the limit, else denied; leases expire at any
time. It handles a request at any later time, also after its client gave up, or
never: a message that stays in `net` is a lost one. Requests are not duplicated,
since the client sends each once over one connection.

Left out: the saved `endpoint` (there is only one trusted origin), the `released`
output, log commands. All outputs of an acquire are appended in one step. They
precede the validation of the answer in the code; a malformed grant is a
`refused` answer here, and the outputs of a failed step are not modelled further.

### Transport

One step is one event of the event loop with everything that runs to completion
after it: the fetch settles, the pending read settles, the timer fires. A read
that settles after the abort (`LateRead`) reaches a promise that is already
settled. `MaxBytes` stands for 32 KiB.

### CloudStarter

`Send` fixes the request and the expected intent hash before the first await;
`Return` and `Reject` are the checks on the answer, `Uncertain` is the catch that
turns every transport error into "uncertain". A hash is the value it is taken of.
The response bodies that matter are told apart by name: a receipt, a denial, a
readonly body, one with a permission hidden in it, and a malformed one. The
starter is external; `Start` is its sole attempt with the recheck the comment
above `cloudOperation` asks of it, `Mutate` the change of its intent object. The
starters' clocks differ from the Worker's by `Skew`, in either direction.

`StartPermission` is what a reader should take away: an intent is claimed once,
permission is given at most once and before the window closes on the Worker's
clock, and the job starts at most once and no later than `Grace` (one deadline)
after it. A clock that is behind by more than one deadline gives no permission at
all, because an answer cannot be older than its request: the check
`claimedAt > now` refuses it.

### RangedDownload

A byte is its offset, and a digest is the content itself. `Lookup` and `Probe` come
before anything is on disk: the API's list names none, one or two artifacts, tells
a size or not, and may contradict the storage (`listed` and `total`). `EndPart` lets the
server send any stretch of the artifact for a range. `RemoveFiles` and
`RemoveRoot` are the two moments of `rm -r`, between which a range that is still
running can create its file. The disk may fail: `FailAssembly` is an error of the
archive or the outputs, after which the catch removes the directory, and `FailRemoval` an
`rm` that is refused after some of the files are gone. `parseInputs` allows 2 to 8 ranges; `RangesPartition`
is proved for every positive count.

### JobContext

Runners take queued jobs, one at a time. A resolution reads the cache, then the
pages of the jobs API one await at a time; a page shows the jobs in progress when
it is read. Every job is assumed to be listed on one of the pages `fetchJobs`
reads, at a page that does not change (ten pages of 100 in the code). Several
runners may share a name, as `RUNNER_NAME` is not unique across hosts. The runner
wipes its temporary directory before a job, except that a persistent one may fail
to: `lib/telemetry-fallback.mjs` exists because it was observed.

### Prequeue

`Ask` is everything up to the request: `prequeueInput` with its registry
(`deferred-workloads.v1.json`), defaults, ranges and bindings. `Exchange` is any
event of the request, for `Prequeue` extends `Transport`; `Receive` is the check
of the answer, and `Write` one append of `emitPrequeueOutputs`. An input is a
record of what the checks tell apart: a path is its producer, its names and its
commit, a digest or an id is well formed or not. `Bound` says what the payload of
an accepted input must look like, in terms of what the Worker relies on and not of
the code's checks.

### The tools of a job, the push gate and the shared library

`RunnerSteps` puts the following side by side, each from its own initial states; they
share no state, so one behaviour is about one of them (`tool`), and its properties
carry the names of theirs. It says what it assumes of its constants; `MCRunnerSteps`
gives them small worlds.

* **TelemetryWriter.** An emitter writes the files of its `Plan` in order. Any
  write can be refused (EACCES, EPERM), fail otherwise, or be cut off by a kill.
  `WriteTemporary` and `Rename` are the two moments of `atomicWriteFile`; temporary
  files carry the process id, are read by nobody and are not part of the state. A
  line is appended in one write.
* **TelemetryEvents.** A digest is the tuple it is taken of, the constant words in it
  included: `ci_phase` keeps a phase apart from an observation. Two events built
  anywhere are compared. A caller may hand `trace-id`, `span-id` and `parent-span-id`
  to `EmitPhase`, made up or reported by an earlier event, in capitals or not
  (`Optional`, `KnownTraces`, `KnownSpans`; `optionalHex` lowers the case), and `null` for
  a parent; `EmitCache` takes none. `given` records what was handed over: two phases may
  be told one span, and a phase may be told that any other one is its parent. `EventsJoin`
  says of what was derived that a shared trace is one run attempt, a shared parent one
  job, a shared span one phase, and that nothing is its own parent; and of what was
  handed over that the event joins the one it came from. Fields that only have to be
  well formed are left out.
* **GitLocks.** git may write, close, drop and make a lock between any two steps of
  the cleaner. `version` counts writes, so that the property can except what was
  written since the look it speaks of: the age is judged as it was at the visit
  (`seen`), the use as it was at the question who holds the lock (`probed`), also of a
  lock that git made anew in between. Against a lock taken after the question the code
  has no protection, and claims none. A removal that is refused ends either script. The listing runs while names are visited, the Unix
  clock is read once, the Windows age is the listing's. A Unix runner may have
  neither `lsof` nor `fuser` (`blind`).
* **ReleaseManifest.** An attempt may be killed between any two steps, the hash is
  written in place, and the tree is changed before the next attempt. Every attempt
  has its own process id; a reused one would find its own leftover in the tree.
* **PnpmSetup.** The action may run again in a job that has used its store; npm may
  exit 0 with the stub alone. The store of the job lies in the prefix, which every
  attempt empties: this is why it may be called cold.
* **DotnetRestore.** The stores and the summary survive jobs; between jobs the
  stores may be pruned.
* **WranglerPinned.** The directory starts in any state and is used again after
  any step. The registry may send anything, and npm and pnpm obey a configuration
  where they see one: `Fetched` depends on the variables of the caller that are left in
  a child's environment (`ChildEnv`), those that `isolatedEnv` passes on and those that
  libuv adds on Windows where nothing else was set. `Configuring` are the variables that
  npm, pnpm and node take a configuration from; that the proxies and the system's names
  which are passed on are not among them is an assumption.
* **ScopeDetection.** A change is what the commit did; `Listing` is what git prints
  of it. In `runner_steps` no move leaves its component or a trigger, so that
  `NeverSilentlyLess` says nothing of a rename that is missed; `scope_rename`
  has the others.
* **RunnerBaseline.** A version is its parts, of which one may be no number;
  `VerdictIsSound` excepts those, see the smaller disagreements above. The
  manifest is written before the verdict fails the step.
* **PackageSource.** A hash is the value it is taken of. Records of different
  inputs are compared.
* **Contract.** Metadata is a tree: a function from positions to nodes. One call of
  `visit` is one step, and the next one is for the first position that is left, as the
  recursion goes; a throw leaves nothing. A text is a sequence of token bytes and
  others, so that a byte that is left can be traced to where it was, and `[REDACTED]`
  counts as one. A path is its names. Left out: that cutting a character of several
  bytes puts a replacement character in its place, which may exceed the bound by a
  byte or two; `allowedScalarOnly`, which no caller sets; the count of redacted fields.
* **PushGate.** A commit is known by all it is built on. The hook reads HEAD
  (`Begin`) and the updates (`ReadUpdate`), scans what they add, and compares HEAD
  before and after the tests; the developer moves HEAD meanwhile, another pusher the
  branches. `moved` records a HEAD that left and came back between the comparisons,
  which the property excepts. The checked out tree is taken for HEAD's.

## Runs and bounds

| run | world | states | shows |
|---|---|---|---|
| `admission_contention` | 3 jobs, 3 leases, limit 3: two heavy jobs of weight 2, one with `on-denied: defer`, one `bot_pr` without subject | 320 620 | one acquire per job, work protected, limit kept, quiet post releases, a deferral holds nothing |
| `admission_handoff` | a control job (`release-on-post: false`), its heavy job, a `bot_pr` job, 2 leases | 205 006 | a kept lease ends only by its heavy job after the work; every job ends |
| `admission_matrix`, `admission_post` | two legs of one matrix job | - | see "What was found" |
| `transport` | six well formed prequeue inputs with any two fields changed; cap 15, chunks of 0, 4, 7, 16 | 471 651 | bounded, whole and clean requests; fail-closed prequeue; every step ends |
| `cloud_starter` | 2 starters (skew -1 with two calls, skew -2 with one), 2 intents, window 2, deadline 1, time to 4 | 776 628 | sole and timely permission; refinement of `StartPermission` |
| `ranged_download` | 1, 4 or 5 bytes in 2 or 3 ranges, a listing of 0 to 2 artifacts of any of these sizes | 507 176 | tiling, verified extraction, directory life cycle, progress without faults |
| `job_context` | 3 jobs of 2 attempts, 2 runners of one name, one persistent, 2 pages, 2 calls per job | 27 743 | exact answers are own and final |
| `job_context_survives` | the persistent runner executes 2 jobs of one attempt | - | see "What was found" |
| `runner_steps` | the worlds of the tools, below | 766 496 | one property per tool |
| `telemetry_split` | 2 emitters sharing 2 files, 2 directories with a file of the same name, 4 fallback directories | - | see "What was found" |
| `scope_rename` | any change of five paths, and any move of one of them | - | see "What was found" |

Why the bounds are enough. In Admission, two jobs contend, a third one is the
bystander whose lease could be confused with theirs; there are as many leases as
acquiring jobs, because a job acquires at most once (`AcquireOnce`). In
CloudStarter one starter that tries again and a second one cover retry and
competition, two intents cover confusion, the skews lie on both sides of the
deadline, and four ticks outlast the window and the grace after a claim at the
first tick. The chunk sizes of Transport reach the cap exactly, exceed it by
accumulation and exceed it at once, and contain the empty chunk. RangedDownload
has even and uneven divisions, a last range of one byte and fewer bytes than
ranges. JobContext needs two jobs for a stale cache, two runners for a shared name
and two pages for a change between them. For the prequeue, two changed fields are
enough to contradict each other; every one of its bounds is met and exceeded by one.

The worlds of `runner_steps`: two emitters with four fallback directories, one for
each write that can be redirected first; two events at a time of three jobs in two
attempts, because joining is a relation of two, the second with any identifier of the
first or a made-up one handed over; two locks with two writes each and
ages around the minimum; three attempts on four names, two of them equal in lower
case and one a link, with room for one leftover beside one file; three install
attempts; three jobs with two SDKs; a caller's proxy, npm registry, `USERPROFILE` and
`SYSTEMROOT`, on Unix and Windows; target directories that are below `RUNNER_TEMP`,
`RUNNER_TEMP` itself, in the workspace, around it and outside; changes of seven
paths in two components, triggers, ignored and documents; git versions of two to
four parts; catalogs with each rule of adoption kept or broken; metadata one level
deeper and one key wider than allowed, texts twice the bound, and paths of three
names; seven commits, of which one adds a secret that a later one takes out, one
breaks the tests, one adds a test and one is somebody else's, with two branches and
four outgoing commits at most. Symmetry is used only where no liveness
property is checked, on leases and intents.

`CHECK_DEADLOCK FALSE` is set where the modelled system stops: jobs, requests,
downloads, emitters and steps end.

Each property of each passing run has a definition marked
"Defect" in its module, a plausible error of the code (a dropped marker, a
listener that stays, a missing comparison) that violates it (`PROJECT.json`, "mutants").

## Fairness

* `Admission!FairSpec`: a process takes its next step (which includes its own
  deadline) and the runner ends a job's work (both have time limits). Nothing is
  assumed of the Worker or the network, so `EveryJobEnds` rests on the deadline.
* `Prequeue!FairPrequeueSpec`: a timer that is not cleared fires, `fetch` settles
  once its signal is aborted, and the step's own code runs on. Nothing is assumed of
  the peer, so `StepEnds` rests on the deadline.
* `RangedDownload!FairSpec`: the process continues, and ranges that are served
  proceed. The code has no deadline for a range, so without the last assumption a
  silent server would stall it forever; GitHub's job timeout is the only limit.

## Proofs

Every theorem is about a module's own specification and holds for every value of the
constants, under the hypotheses it names. Each module states an inductive invariant,
proves that `Init` implies it and that every action preserves it, and derives the
properties.

| proofs | about | hypotheses |
|---|---|---|
| `AdmissionProofs` | `TypeOK`, `AcquireOnce`, `DeferralHoldsNoLease`, `QuietPostReleases`; `PostAcquiresOnlyForKilledMain`, `NoSilentLeak` | none |
| | `NoReleaseUnderWork`, `KeptLeaseOutlivesPost` | `DistinctSubjects`, the first `ExclusiveHandoff` too |
| `AdmissionLimitProofs` | `WorkWithinLimit` | `DistinctSubjects`, `ExclusiveHandoff` |
| `TransportProofs` | `TypeOK`, `SuccessIsWhole`, `SettledIsClean`, `OutcomeIsFinal`; the prequeue implements `Transport`, `PrequeueFailsClosed` | none |
| `CloudStarterProofs` | `TypeOK`, `SolePermission`, `PermissionForSentIntent`, refinement of `StartPermission`; `ClocksAreUsable`, `StartsOnceInTime` | none |
| `RangedDownloadProofs` | `TypeOK`, `RangesTile`, `ExtractsTheArtifact`, `ArchiveOutlivesParts`, `NothingLeft`; `FailsForAReason` | none |
| `JobContextProofs` | `TypeOK`, `ExactIsOwn`, `ExactStays` | `OneJobPerAttempt` |
| `RunnerStepsProofs` | `TypeOK`, `PublishedDescribesTree`, `PinnedAndConfined`, `EvidenceIsTrue`, `VerdictIsSound`, `RecordIdIdentifies`, `EventsJoin`, `FilesAreWhereReported`, `RemovesWhatItSaw`, `PublishesWhatItJudged`, `BoundedInputs` | none |
| | `NeverSilentlyLess` | `MovesAreCovered` |
| | `StaysRedirected` | none |

What stands after a semicolon is stated beside its proof and is no property of a run.

Besides the hypotheses, theorems use the named ASSUMEs of the modules, which TLC
evaluates on every run: a theorem is about the constants that satisfy them, the
worlds of the runs among them.

* **AdmissionProofs.** The difficulty of `NoReleaseUnderWork` is in the
  messages: a release request may be handled long after its sender is gone. The
  invariant ties every lease id that is held, saved or in flight to the job the
  Worker created it for (`HoldInv`, `MessageInv`), and says that a release in
  flight or done implies that the job may release and will not work again
  (`MayRelease`, `LeaseInv`). Hypotheses: `DistinctSubjects` (the matrix run shows
  what happens without it) and, for work that is handed over, `ExclusiveHandoff`.
  `QuietPosts` follows the lease id through `GITHUB_STATE` into the post launch and
  says what an answered release means; `DeferralsAreClean` follows a denial back to
  the Worker that gave it, which granted the job nothing. Neither needs a hypothesis.
  `LateInv` says how a post launch comes to do the work of main: main was killed before
  its marker (`PostAcquiresLate`). `LeakInv` says that the lease the Worker created for a
  job is the one the job is told; with the two invariants before it, a job whose launches
  both end well leaves no active lease that it was to release (`LeasesLeakAloud`), the
  leases granted behind a timeout included.
* **AdmissionLimitProofs.** The Worker keeps the sum over its active leases within
  the limit; the sum over the jobs at work is another one. `WorkFits` maps each
  working job to the lease it holds, one to one, which is where the two hypotheses
  are needed: two jobs under one lease count twice. A sum of weights is taken as a
  number of slots, an element of weight n occupying n of them, so that the
  cardinality theorems of the library apply; the sum itself is a recursive function
  over subsets, and equals the number of slots by a counterexample of least
  cardinality, because induction theorems that take a predicate are out of reach.
* **TransportProofs.** While reading, exactly one read and one listener are
  outstanding under an armed timer, and the three byte counts agree; so every way
  of settling leaves what `SettledIsClean` demands. Proved for every cap and all
  chunk sizes. `PrequeueImplementsTransport`: every step of a prequeue operation is
  one of its request or leaves the request alone, so that it inherits these
  theorems; with them, `PrequeueIsFailClosed` ties an output to the payload that was
  sent and the answer that was read whole. `InputAssumption` says what GitHub and
  the registry guarantee: a step has all its inputs, given or not, and an event is
  registered or legacy and not both (`prequeueInput` looks a legacy one up only when
  the registry has none of the name).
* **CloudStarterProofs.** At most one winning receipt per intent is in flight,
  while it is there is no permission, and it was written after its call was sent,
  so the deadline bounds its age. From this the refinement: every step is a step
  of `StartPermission` or a stutter (`Implementation`). Assumption:
  `Timeout + Slack < Window` (10 s and 30 s in the code). `PaidOnce` draws what matters
  from the abstract specification: an intent starts once, under its permission and in
  time. `WrongClocksGetNothing` is the price: a clock too far off gets no permission.
* **RangedDownloadProofs.** `RangesPartition` is arithmetic: for every size and
  count each byte lies in exactly one range. The rest ties the phase to the files.
  `FaultlessNeverFails` follows the bytes: without a fault each range brings its own,
  and what is appended so far is the beginning of the artifact (`Undisturbed`), so that
  the ranges put together in order are all of it and the digest refuses nothing.
* **JobContextProofs.** A resolution that has passed the page of its job has seen
  it, so a unique candidate is the job itself; a cache file names a job this
  runner may execute, of the identity it carries. Hypothesis `OneJobPerAttempt`
  (no persistent runner may execute two jobs of one attempt): the run
  `job_context_survives` shows what happens without it. `FinalIds` adds that the
  cache holds the answer as long as the job runs.

`RunnerStepsProofs` is about `RunnerSteps`, as the run is. It has one section for each
tool, which proves the tool's property of the tool's own specification. The last one
draws the conclusions for the tools side by side (`Always*`): a behaviour of
`RunnerSteps` is one of the tool, or the tool is never run in it (`ScopeRuns` and the
lemmas after it).

* **GitLocks** (`RemovesWhatItSaw`). What the listing said of a lock is what the lock
  is, or it was written since; the same for the lock being visited. Hypothesis:
  `MinAge` is a natural number, which both scripts require of their input.
* **TelemetryWriter** (`WholeFiles`, `FilesAreWhereReported`). A fallback directory
  serves one directory of one emitter, as `mkdtemp` makes a new one each time and a
  write tries none where there is a redirect; so only its emitter writes there, and
  a path once reported stays true. `WriterAssumption` says what the names stand for:
  new directories are new, and an emitter writes something. `StaysRedirected` is what is
  left of `NeverSplit`: files part only at the first refusal of their directory.
* **TelemetryEvents** (`EventsJoin`). Each event is determined by what it says of
  itself and what was handed over for it (`EventIsItsOwn`): an identifier is the one
  handed over in lower case (`EffectiveIsGiven`), or a digest, and the digests for phases,
  observations and jobs are never taken for each other (`SpansTell`). No hypothesis.
* **ReleaseManifest** (`PublishedDescribesTree`). What was walked is what is in the
  tree besides the attempt's own temporary file, and temporary files of earlier
  attempts stay what they were; no hypothesis.
* **WranglerPinned** (`PinnedAndConfined`). Whatever the target held is gone before
  anything is run from it, and no variable of the caller that configures is left in a
  child's environment on either platform. `WranglerAssumption`: paths are sequences of
  names, `RUNNER_TEMP` is not the root, and nothing that is passed on configures.
* **PnpmSetup** (`EvidenceIsTrue`). From the install on, the prefix holds the resolved
  version and nothing used its store since. Hypothesis: the fallback version is an
  exact one, as in `resolve-pnpm-version.mjs`.
* **DotnetRestore** (`EvidenceIsTrue`). Until the restore the stores are as the job
  found them; no hypothesis.
* **RunnerBaseline** (`VerdictIsSound`). The lexicographic comparison of
  `compareVersions` agrees with the order of numbers in any base above every part:
  a leading part decides whatever follows it. `BaselineAssumption` is the choice of
  such a base; a part may be no number.
* **ScopeDetection** (`NeverSilentlyLess`). A decision that is not to validate
  everything is the one on the paths that were listed (`ScopeInv`), so the question is
  what a list leaves out. `MovesAreCovered` says what it has to be: git prints every
  path as it is, and the place a file went to triggers, counts and belongs wherever
  the place it came from did. It is a hypothesis of the theorem and not an assumption
  about the code: `action.yml:38` promises more, and `scope_rename` shows the code
  break it. TLC evaluates it on the changes of `runner_steps`.
* **PackageSource** (`RecordIdIdentifies`). A finite set of names in one order can be
  sorted: a name's place is the number of names before it (`NamesCanBeSorted`), which
  needs no induction. So `Sorted` is a list of exactly the selected names, each once,
  that does not depend on the order asked for; the rest follows from what the id
  hashes. `SourceAssumption`: names are finitely many, and `localeCompare` puts any
  two different ones in one order. It takes some distinct strings for equal
  (canonically equivalent ones); those are out, as in the run.
* **PushGate** (`PublishesWhatItJudged`). The invariant follows the hook: what each
  line read so far adds is in `outgoing`, a stage that is reached has the verdict of
  the check before it, and `moved` says of HEAD what two looks at it cannot. Nothing is
  assumed of the history; type correctness is of a repository (`RepositoryAssumption`):
  finitely many commits, each built on commits.

* **Contract** (`BoundedInputs`). The walk returns a whole tree because what is returned
  or still to visit has its parent among the lists and objects that are returned, and
  those have all their entries; the keys counted are the keyed positions returned
  (`WalkInv`). `Cut` leaves no more than the bound as the number of bytes before a byte
  tells the bytes it keeps apart. For paths, `SafeNames` and `Followed` are the same
  function where no name is `..` (`FollowedIsSafe`), and a name it keeps is one of the
  path's, by a least counterexample: a fact about all numbers of names without induction.
  `RulesAssumption`: trees are finite and well formed, as JSON.parse returns them, a path
  is a sequence of names, and the bounds are natural numbers.

The types of all tools are proved (`AlwaysTypeOK`), the bounds in them included: a
decision names no more than `MaxPaths` paths, a scan covers no more than `MaxCommits`, a
walk visits no more than `MaxKeys` keys.

`KeptWithinCap` of `Transport` is proved (`CapHolds`) and not run: it bounds what is
held at any time, `SuccessIsWhole` what a success returns. Four definitions take the form they have for the
proofs' sake: `Merged` of `RunnerBaseline` is written as a function, `Prequeue` names
the inputs of a step (`InputField`), `Sorted` of `PackageSource` chooses a sorted
list of the names in place of a library operator the provers know nothing of, and
`Contract` walks a tree step by step where the code recurses. `Blank` has a name because
the provers cannot take the empty string.

For each thing that was found (above) there is a theorem that says what holds instead:
the leases under `DistinctSubjects`, the ids under `OneJobPerAttempt`, the scope under
`MovesAreCovered`, and without a hypothesis `PostAcquiresLate` and
`RedirectedFilesStayTogether`.

Only model-checked: the liveness properties `EveryJobEnds`, `StepEnds` and
`FaultlessRunExtracts`, as liveness under fairness and ENABLED are outside what the prover
does here. The safety part of the last one is `FaultlessNeverFails`. Every safety property
that a run checks is stated by a theorem, except the five that a run refutes.

## Not modelled

Left out:

* `setup-ci-phase-emitter`: it validates its inputs, writes a wrapper once and
  exports its path; nothing changes either afterwards.
* `history-regression.mjs` builds a repository to test the external scanner;
  `lib/tmp-fixture.mjs` serves the tests.
* The layout of payloads and reports, the escaping of outputs, canonical JSON and
  the parsers of single values: formatting, without a state.
* The workflows: declarative configuration run by GitHub.
* The organization's Worker, GitHub, npm, git, NuGet and the extraction script are
  external: modelled only from how the code uses them.
