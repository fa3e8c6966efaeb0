----------------------------- MODULE DotnetRestore -----------------------------
(***************************************************************************)
(* setup-dotnet-nuget: the exact SDK, the state of the persistent NuGet    *)
(* stores before the restore, the restore, and its summary.                *)
(*                                                                         *)
(* The stores stay on the runner from job to job; between jobs they may be *)
(* pruned.  setup-dotnet and `dotnet restore` are external.                *)
(* A definition marked "Defect" is no part of the system.                  *)
(***************************************************************************)
EXTENDS Naturals

CONSTANTS
    Sdk,            \* exact SDK versions
    LastJob         \* bound on jobs

VARIABLES
    stage, job,
    sdk,            \* the version global.json pins
    installed,      \* SDKs of the runner
    needsSetup,     \* output needs-setup
    packages, http, \* the stores: have they entries?
    before,         \* history: had any when this job began
    class,          \* cache-class
    exit,           \* how the restore ended: 0, another code, or NoCode
    summary,        \* [job, status] of the restore summary on disk
    failed          \* the step's exit code is not 0

vars == <<stage, job, sdk, installed, needsSetup, packages, http, before, class,
          exit, summary, failed>>

NoSdk == "none"     \* no global.json, or none that is exact
NoSummary == [job |-> 0, status |-> "none"]
NoCode == 2         \* null: a signal ended it

Init ==
    /\ stage = "start" /\ job = 1 /\ sdk = NoSdk /\ needsSetup = FALSE
    /\ installed \in SUBSET Sdk
    /\ packages \in BOOLEAN /\ http \in BOOLEAN /\ before = (packages \/ http)
    /\ class = "cold" /\ exit = 0 /\ summary = NoSummary /\ failed = FALSE

-----------------------------------------------------------------------------
\* resolveSdkVersion: global.json is required, and an explicit version only repeats
\* it.  In mode "setup", or when the SDK is missing, it is installed.
ResolveSdk ==
    /\ stage = "start"
    /\ \E manifest, explicit \in Sdk \cup {NoSdk}, mode \in {"system-first", "setup"} :
          /\ manifest # NoSdk /\ explicit \in {NoSdk, manifest}
          /\ sdk' = manifest
          /\ needsSetup' = (mode = "setup" \/ manifest \notin installed)
    /\ stage' = "resolved"
    /\ UNCHANGED <<job, installed, packages, http, before, class, exit, summary, failed>>

\* External: setup-dotnet, which may come back without the version.
SetupDotnet ==
    /\ stage = "resolved" /\ needsSetup
    /\ installed' \in {installed, installed \cup {sdk}}
    /\ needsSetup' = FALSE
    /\ UNCHANGED <<stage, job, sdk, packages, http, before, class, exit, summary, failed>>

VerifySdk ==
    /\ stage = "resolved" /\ ~needsSetup /\ sdk \in installed
    /\ stage' = "verified"
    /\ UNCHANGED <<job, sdk, installed, needsSetup, packages, http, before, class,
                   exit, summary, failed>>

\* resolveNugetCacheEvidence: either store with entries is warm.
ClassifyStores ==
    /\ stage = "verified"
    /\ class' = IF packages \/ http THEN "warm" ELSE "cold"
    /\ stage' = "classified"
    /\ UNCHANGED <<job, sdk, installed, needsSetup, packages, http, before, exit, summary, failed>>

\* dotnet restore: it fills the stores with what it fetched, however it ends.
Restore ==
    /\ stage = "classified"
    /\ packages' \in {packages, TRUE} /\ http' \in {http, TRUE}
    /\ exit' \in {0, 1, NoCode}
    /\ stage' = "restored"
    /\ UNCHANGED <<job, sdk, installed, needsSetup, before, class, summary, failed>>

\* Defect: no exit code passes for none.
SucceededOrNull(code) == code \in {0, NoCode}

Succeeded(code) == code = 0

\* Diagnostics, the summary by rename, and the outputs.
Summarize ==
    /\ stage = "restored"
    /\ summary' = [job |-> job, status |-> IF Succeeded(exit) THEN "success" ELSE "failure"]
    /\ failed' = ~Succeeded(exit)
    /\ stage' = "reported"
    /\ UNCHANGED <<job, sdk, installed, needsSetup, packages, http, before, class, exit>>

\* The next job, after a report, an error or a kill.
NextJob ==
    /\ stage # "start" /\ job < LastJob
    /\ job' = job + 1 /\ stage' = "start"
    /\ \E p \in {packages, FALSE}, h \in {http, FALSE} :
          packages' = p /\ http' = h /\ before' = (p \/ h)
    /\ failed' = FALSE
    /\ UNCHANGED <<sdk, installed, needsSetup, class, exit, summary>>

Next ==
    \/ ResolveSdk \/ SetupDotnet \/ VerifySdk \/ ClassifyStores \/ Restore \/ Summarize
    \/ NextJob

Spec == Init /\ [][Next]_vars

-----------------------------------------------------------------------------
TypeOK ==
    /\ stage \in {"start", "resolved", "verified", "classified", "restored", "reported"}
    /\ job \in 1..LastJob /\ sdk \in Sdk \cup {NoSdk} /\ installed \subseteq Sdk
    /\ {needsSetup, packages, http, before, failed} \subseteq BOOLEAN
    /\ class \in {"cold", "warm"} /\ exit \in 0..2
    /\ summary.job \in 0..job

\* What a reported restore says is true of this job: the summary is its own, it is a
\* success exactly when the restore exited 0 and the step did not fail, the pinned
\* SDK was there, and the class is the stores' state before the job filled them.
EvidenceIsTrue ==
    stage = "reported" =>
        /\ summary = [job |-> job, status |-> IF failed THEN "failure" ELSE "success"]
        /\ failed <=> exit # 0
        /\ sdk \in installed
        /\ class = "warm" <=> before
=============================================================================
