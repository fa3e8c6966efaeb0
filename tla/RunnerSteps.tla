------------------------------ MODULE RunnerSteps ------------------------------
(***************************************************************************)
(* The tools a job runs as steps of its own, the hook that gates a push    *)
(* to the repository and the checks of lib/contract.mjs on what is not     *)
(* trusted, side by side.  They share nothing: `tool` is the one this      *)
(* behaviour is about, the variables of the others stay Off.               *)
(* A property here is the property of that name of the tool's module.      *)
(***************************************************************************)
EXTENDS Integers, Sequences, FiniteSets, SequencesExt

CONSTANTS
    Off,                    \* the value of a tool that does not run
    Change, Unusual, Quote, Root, FullRules, IgnoredRules, DocRoots, Markdown, MaxPaths,
    File, Content, Absent, Partial, Folded, Special, MaxFiles, LastAttempt,
    Directory, Temp, Workspace, Real, Variable, Configuring,
    Name,                   \* names of files and directories
    Version, FallbackVersion, Attempts,
    Sdk, LastJob,
    Machine, FileRequirement, InlineRequirement, Bound,
    Catalog, PackageSelection, EvidenceFile, Unverified, Coordinate, Time,
    Before(_, _), MaxRecords,
    Job, Phase, RunOf, Given, Empty, MaxTime, MaxEvents,
    Emitter, Dir, Base, Fallback, NoDir, Plan,
    Lock, MinAge, LastTime, LastVersion,
    Branch, Commit, Local, NoCommit, History, Secret, Broken, Tests, Selection,
    MaxCommits,
    MinToken, MaxDepth, MaxKeys, MaxString, Metadata, GivenPath, Dotted

VARIABLES
    tool,
    change, scope,
    tree, temporaries, manifest, digest, listing, manifestStage, attempt,
    wranglerStage, platform, callerEnv, target, staged, tarball, pnpm, modules, ran,
    pnpmStage, version, tries, bin, store, kind, storeClass,
    dotnetStage, job, sdk, installed, needsSetup, packages, http, before, class, exit,
    summary, failed,
    baselineStage, machine, file, inline, failOnDrift, drift, driftManifest, outputs,
    sourceStage, input, record, published,
    events,
    disk, made, writerStage, detour, redirects, written,
    now, locks, script, clock, listed, todo, at, removed,
    head, remote, pushStage, updates, pushed, unread, outgoing, total, moved, accepted,
    untrusted, verdict, unvisited, keys, trusted

Scope == INSTANCE ScopeDetection
Manifest == INSTANCE ReleaseManifest WITH stage <- manifestStage
Wrangler == INSTANCE WranglerPinned WITH stage <- wranglerStage
Pnpm == INSTANCE PnpmSetup WITH
    Fallback <- FallbackVersion, stage <- pnpmStage, attempt <- tries, class <- storeClass
Dotnet == INSTANCE DotnetRestore WITH stage <- dotnetStage
Baseline == INSTANCE RunnerBaseline WITH stage <- baselineStage, manifest <- driftManifest
Source == INSTANCE PackageSource WITH Selection <- PackageSelection, stage <- sourceStage
Events == INSTANCE TelemetryEvents
Writer == INSTANCE TelemetryWriter WITH stage <- writerStage
Locks == INSTANCE GitLocks
Gate == INSTANCE PushGate WITH stage <- pushStage, todo <- unread
Rules == INSTANCE Contract

-----------------------------------------------------------------------------
(* What the constants stand for. *)

\* A change names finitely many paths.
ASSUME ScopeAssumption ==
    /\ MaxPaths \in Nat
    /\ \A c \in Change : IsFiniteSet(c.written) /\ IsFiniteSet(c.moves) /\ IsFiniteSet(c.given)

ASSUME ManifestAssumption == LastAttempt \in Nat \ {0}

\* A resolved directory is the sequence of its names; RUNNER_TEMP is not the root.  No
\* proxy, and none of the names the action passes on purpose, configures a program.
ASSUME WranglerAssumption ==
    /\ Real \in [Directory -> Seq(Name)]
    /\ Temp \in Seq(Name) /\ Temp # <<>> /\ Workspace \in Seq(Name)
    /\ Configuring \cap (Wrangler!PASSTHROUGH \cup Wrangler!WINDOWS_PASSTHROUGH) = {}

\* The version installed when nothing declares one is an exact one.
ASSUME PnpmAssumption == FallbackVersion \in Version /\ Attempts \in Nat \ {0}

ASSUME DotnetAssumption == LastJob \in Nat \ {0}

\* The base is above every part of a version; a part may be no number, -1.
ASSUME BaselineAssumption ==
    /\ Bound \in Nat \ {0}
    /\ \A m \in Machine : m.git \in Seq(-1..(Bound - 1))
    /\ \A r \in InlineRequirement :
          "git_minimum" \in DOMAIN r => r["git_minimum"] \in Seq(-1..(Bound - 1))

\* The names a publisher may ask for are finitely many, and in one order.
ASSUME SourceAssumption ==
    /\ MaxRecords \in Nat \ {0}
    /\ \A names \in PackageSelection : IsFiniteSet(ToSet(names))
    /\ LET Asked == UNION {ToSet(names) : names \in PackageSelection}
       IN  \A a, b \in Asked :
              /\ Before(a, b) \/ a = b \/ Before(b, a)
              /\ ~(Before(a, b) /\ Before(b, a))
              /\ \A c \in Asked : Before(a, b) /\ Before(b, c) => Before(a, c)

ASSUME EventsAssumption == MaxEvents \in Nat

\* A file an emitter writes.
PlannedFile == [dir : Dir, base : Base, kind : {"replace", "append"}]

\* Fallback directories are new, NoDir is no directory, every emitter writes
\* something, and no value is cut short by itself.
ASSUME WriterAssumption ==
    /\ Fallback \cap Dir = {} /\ NoDir \notin Dir \cup Fallback
    /\ Writer!Torn \notin Emitter
    /\ Plan \in [Emitter -> Seq(PlannedFile)]
    /\ \A e \in Emitter : Plan[e] # <<>>

\* Both scripts require min-age-seconds to be a natural number.
ASSUME LocksAssumption == MinAge \in Nat /\ LastTime \in Nat

\* A repository: finitely many commits, each built on some, the local ones among them.
ASSUME RepositoryAssumption ==
    /\ IsFiniteSet(Commit) /\ Local \subseteq Commit
    /\ History \in [Commit -> SUBSET Commit] /\ MaxCommits \in Nat

\* Metadata was parsed, a path split into its names.
ASSUME RulesAssumption ==
    /\ MinToken \in Nat /\ MaxDepth \in Nat /\ MaxKeys \in Nat /\ MaxString \in Nat
    /\ \A value \in Metadata : Rules!IsTree(value)
    /\ \A path \in GivenPath : path.names \in Seq(STRING)

\* The changes that git lists in full: every path is printed as it is, and where a file
\* came from is covered by where it went.
MovesAreCovered ==
    \A c \in Change : c.given = {} =>
        /\ \A p \in c.written \cup {m[2] : m \in c.moves} : Scope!Printed(p) = p
        /\ \A m \in c.moves :
              /\ Scope!MatchesAny(m[1], FullRules) => Scope!MatchesAny(m[2], FullRules)
              /\ ~Scope!MatchesAny(m[1], IgnoredRules) =>
                    /\ ~Scope!MatchesAny(m[2], IgnoredRules)
                    /\ Scope!Components({m[1]}) \subseteq Scope!Components({m[2]})
              /\ Scope!DocsOnly({m[2]}) => Scope!DocsOnly({m[1]})

-----------------------------------------------------------------------------
scopeVars == <<change, scope>>
manifestVars == <<tree, temporaries, manifest, digest, listing,
                  manifestStage, attempt>>
wranglerVars == <<wranglerStage, platform, callerEnv, target, staged, tarball,
                  pnpm, modules, ran>>
pnpmVars == <<pnpmStage, version, tries, bin, store, kind, storeClass>>
dotnetVars == <<dotnetStage, job, sdk, installed, needsSetup, packages, http,
                before, class, exit, summary, failed>>
baselineVars == <<baselineStage, machine, file, inline, failOnDrift, drift,
                  driftManifest, outputs>>
sourceVars == <<sourceStage, input, record, published>>
eventsVars == <<events>>
writerVars == <<disk, made, writerStage, detour, redirects, written>>
locksVars == <<now, locks, script, clock, listed, todo, at, removed>>
gateVars == <<head, remote, pushStage, updates, pushed, unread, outgoing, total, moved,
              accepted>>
rulesVars == <<untrusted, verdict, unvisited, keys, trusted>>

\* The variables of the tools this behaviour is not about.
scopeOff == change = Off /\ scope = Off
manifestOff ==
    /\ tree = Off /\ temporaries = Off /\ manifest = Off /\ digest = Off /\ listing = Off
    /\ manifestStage = Off /\ attempt = Off
wranglerOff ==
    /\ wranglerStage = Off /\ platform = Off /\ callerEnv = Off /\ target = Off
    /\ staged = Off /\ tarball = Off /\ pnpm = Off /\ modules = Off /\ ran = Off
pnpmOff ==
    /\ pnpmStage = Off /\ version = Off /\ tries = Off /\ bin = Off /\ store = Off
    /\ kind = Off /\ storeClass = Off
dotnetOff ==
    /\ dotnetStage = Off /\ job = Off /\ sdk = Off /\ installed = Off /\ needsSetup = Off
    /\ packages = Off /\ http = Off /\ before = Off /\ class = Off /\ exit = Off
    /\ summary = Off /\ failed = Off
baselineOff ==
    /\ baselineStage = Off /\ machine = Off /\ file = Off /\ inline = Off
    /\ failOnDrift = Off /\ drift = Off /\ driftManifest = Off /\ outputs = Off
sourceOff == sourceStage = Off /\ input = Off /\ record = Off /\ published = Off
eventsOff == events = Off
writerOff ==
    /\ disk = Off /\ made = Off /\ writerStage = Off /\ detour = Off
    /\ redirects = Off /\ written = Off
locksOff ==
    /\ now = Off /\ locks = Off /\ script = Off /\ clock = Off
    /\ listed = Off /\ todo = Off /\ at = Off /\ removed = Off
gateOff ==
    /\ head = Off /\ remote = Off /\ pushStage = Off /\ updates = Off /\ pushed = Off
    /\ unread = Off /\ outgoing = Off /\ total = Off /\ moved = Off /\ accepted = Off
rulesOff ==
    /\ untrusted = Off /\ verdict = Off /\ unvisited = Off /\ keys = Off /\ trusted = Off

Init ==
    /\ tool \in {"scope", "manifest", "wrangler", "pnpm", "dotnet", "baseline", "source",
                "events", "writer", "locks", "gate", "rules"}
    /\ IF tool = "scope" THEN Scope!Init ELSE scopeOff
    /\ IF tool = "manifest" THEN Manifest!Init ELSE manifestOff
    /\ IF tool = "wrangler" THEN Wrangler!Init ELSE wranglerOff
    /\ IF tool = "pnpm" THEN Pnpm!Init ELSE pnpmOff
    /\ IF tool = "dotnet" THEN Dotnet!Init ELSE dotnetOff
    /\ IF tool = "baseline" THEN Baseline!Init ELSE baselineOff
    /\ IF tool = "source" THEN Source!Init ELSE sourceOff
    /\ IF tool = "events" THEN Events!Init ELSE eventsOff
    /\ IF tool = "writer" THEN Writer!Init ELSE writerOff
    /\ IF tool = "locks" THEN Locks!Init ELSE locksOff
    /\ IF tool = "gate" THEN Gate!Init ELSE gateOff
    /\ IF tool = "rules" THEN Rules!Init ELSE rulesOff

\* The others stay as they are.
Only(name) ==
    /\ tool = name /\ UNCHANGED tool
    /\ IF name = "scope" THEN TRUE ELSE UNCHANGED scopeVars
    /\ IF name = "manifest" THEN TRUE ELSE UNCHANGED manifestVars
    /\ IF name = "wrangler" THEN TRUE ELSE UNCHANGED wranglerVars
    /\ IF name = "pnpm" THEN TRUE ELSE UNCHANGED pnpmVars
    /\ IF name = "dotnet" THEN TRUE ELSE UNCHANGED dotnetVars
    /\ IF name = "baseline" THEN TRUE ELSE UNCHANGED baselineVars
    /\ IF name = "source" THEN TRUE ELSE UNCHANGED sourceVars
    /\ IF name = "events" THEN TRUE ELSE UNCHANGED eventsVars
    /\ IF name = "writer" THEN TRUE ELSE UNCHANGED writerVars
    /\ IF name = "locks" THEN TRUE ELSE UNCHANGED locksVars
    /\ IF name = "gate" THEN TRUE ELSE UNCHANGED gateVars
    /\ IF name = "rules" THEN TRUE ELSE UNCHANGED rulesVars

Next ==
    \/ Only("scope") /\ Scope!Next
    \/ Only("manifest") /\ Manifest!Next
    \/ Only("wrangler") /\ Wrangler!Next
    \/ Only("pnpm") /\ Pnpm!Next
    \/ Only("dotnet") /\ Dotnet!Next
    \/ Only("baseline") /\ Baseline!Next
    \/ Only("source") /\ Source!Next
    \/ Only("events") /\ Events!Next
    \/ Only("writer") /\ Writer!Next
    \/ Only("locks") /\ Locks!Next
    \/ Only("gate") /\ Gate!Next
    \/ Only("rules") /\ Rules!Next

vars == <<tool, scopeVars, manifestVars, wranglerVars, pnpmVars, dotnetVars,
          baselineVars, sourceVars, eventsVars, writerVars, locksVars, gateVars,
          rulesVars>>

Spec == Init /\ [][Next]_vars

-----------------------------------------------------------------------------
\* Every tool's type invariant.
TypeOK ==
    /\ tool = "scope" => Scope!TypeOK
    /\ tool = "manifest" => Manifest!TypeOK
    /\ tool = "wrangler" => Wrangler!TypeOK
    /\ tool = "pnpm" => Pnpm!TypeOK
    /\ tool = "dotnet" => Dotnet!TypeOK
    /\ tool = "baseline" => Baseline!TypeOK
    /\ tool = "source" => Source!TypeOK
    /\ tool = "events" => Events!TypeOK
    /\ tool = "writer" => Writer!TypeOK
    /\ tool = "locks" => Locks!TypeOK
    /\ tool = "gate" => Gate!TypeOK
    /\ tool = "rules" => Rules!TypeOK

\* detect-ci-scope: what a change touches is validated, or everything is.
NeverSilentlyLess == tool = "scope" => Scope!NeverSilentlyLess

\* release-manifest: a published manifest is what is in the tree, its hash is its own.
PublishedDescribesTree == tool = "manifest" => Manifest!PublishedDescribesTree

\* wrangler-pinned: only the pinned pnpm runs and only the pinned wrangler is handed
\* out; what is deleted is below RUNNER_TEMP and clear of the workspace.
PinnedAndConfined == tool = "wrangler" => Wrangler!PinnedAndConfined

\* setup-node-pnpm and setup-dotnet-nuget: the evidence of a package store or of a
\* restore is of this job and true.
EvidenceIsTrue ==
    /\ tool = "pnpm" => Pnpm!EvidenceIsTrue
    /\ tool = "dotnet" => Dotnet!EvidenceIsTrue

\* runner-baseline: a passed runner meets every requirement, a failed one has its report.
VerdictIsSound == tool = "baseline" => Baseline!VerdictIsSound

\* package-source-v2: an id stands for one publication, whatever order it was asked in.
RecordIdIdentifies == tool = "source" => Source!RecordIdIdentifies

\* The emitters: events built apart join exactly where they belong together.
EventsJoin == tool = "events" => Events!EventsJoin

\* The telemetry writer: nobody reads a value cut short, what is reported is there, and
\* files stay apart or together.
FilesAreWhereReported ==
    tool = "writer" => Writer!WholeFiles /\ Writer!FilesAreWhereReported

\* clean-stale-git-locks: what it removes is what it judged, unless that was written since.
RemovesWhatItSaw == tool = "locks" => Locks!RemovesWhatItSaw

\* The pre-push hook: what a push adds to the remote was scanned and tested.
PublishesWhatItJudged == tool = "gate" => Gate!PublishesWhatItJudged

\* The shared library: metadata is free of secrets and bounded, paths stay inside.
BoundedInputs == tool = "rules" => Rules!MetadataIsClean /\ Rules!PathsStayInside
=============================================================================
