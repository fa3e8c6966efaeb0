---------------------------- MODULE WranglerPinned ----------------------------
(***************************************************************************)
(* wrangler-pinned: the install of the one wrangler a job may hand a token *)
(* to, in a directory that may hold anything from before.                  *)
(*                                                                         *)
(* A path is the sequence of its names; Real resolves symbolic links.  A   *)
(* thing on disk is "absent", "pinned" (what the constants of the action   *)
(* name) or "other".  npm, pnpm and the registry are external: they fail,  *)
(* answer with anything, or obey a caller's configuration where they see   *)
(* it.  The action throws at the first check that fails and may be killed. *)
(* A definition marked "Defect" is no part of the system.                  *)
(***************************************************************************)
EXTENDS SequencesExt

CONSTANTS
    Directory,      \* what `dir` may name, below RUNNER_TEMP or absolute
    Temp, Workspace,   \* RUNNER_TEMP and GITHUB_WORKSPACE, resolved
    Real,           \* Real[d]: where a directory is once links are followed
    Variable,       \* variables a caller may have set, in capitals
    Configuring     \* those that npm, pnpm or node take a configuration from

Thing == {"absent", "pinned", "other"}

VARIABLES
    stage,
    platform,       \* of the runner: "unix" or "windows"
    callerEnv,      \* the variables this caller set
    target,         \* the install directory
    staged,         \* package.json and pnpm-lock.yaml in it
    tarball, pnpm,  \* the packed pnpm and the executable unpacked from it
    modules,        \* node_modules/wrangler
    ran             \* history: the executables run to install it

disk == <<staged, tarball, pnpm, modules>>
vars == <<stage, platform, callerEnv, target, disk, ran>>

Inside(child, parent) == IsStrictPrefix(parent, child)

\* Defect: a target around the workspace passes.
AllowedUnlessInside(t) == Inside(t, Temp) /\ t # Workspace /\ ~Inside(t, Workspace)

\* resolveTarget's last checks, made on resolved paths.
Allowed(t) ==
    /\ Inside(t, Temp)
    /\ t # Workspace /\ ~Inside(t, Workspace) /\ ~Inside(Workspace, t)

PASSTHROUGH == {"HTTP_PROXY", "HTTPS_PROXY", "NO_PROXY"}

WINDOWS_PASSTHROUGH ==
    {"SYSTEMROOT", "WINDIR", "COMSPEC", "PATHEXT", "SYSTEMDRIVE", "NUMBER_OF_PROCESSORS",
     "PROCESSOR_ARCHITECTURE", "USERNAME", "USERDOMAIN", "LOGONSERVER"}

\* What libuv takes from the parent's environment on Windows where a child's lacks it.
AddedByLibuv ==
    {"HOMEDRIVE", "HOMEPATH", "LOGONSERVER", "SYSTEMDRIVE", "SYSTEMROOT", "TEMP",
     "USERDOMAIN", "USERNAME", "USERPROFILE", "WINDIR"}

\* Defect: libuv's additions are forgotten, and nothing is set for the child instead.
NothingSet == {}

\* What isolatedEnv points into the isolation directory on Windows only.
SetOnWindows ==
    {"USERPROFILE", "HOMEDRIVE", "HOMEPATH", "APPDATA", "LOCALAPPDATA", "TEMP", "TMP"}

\* isolatedEnv and spawn: the variables a child has from the caller, and not from the
\* action.
ChildEnv ==
    callerEnv \cap (PASSTHROUGH \cup
        IF platform = "windows" THEN WINDOWS_PASSTHROUGH \cup (AddedByLibuv \ SetOnWindows)
                                ELSE {})

\* What a command leaves that reads a configuration.
Fetched == IF ChildEnv \cap Configuring = {} THEN {"pinned"} ELSE {"pinned", "other"}

Init ==
    /\ stage = "start" /\ target = <<>> /\ ran = {}
    /\ platform \in {"unix", "windows"}
    /\ callerEnv \in SUBSET Variable
    /\ staged \in Thing /\ tarball \in Thing /\ pnpm \in Thing /\ modules \in Thing

-----------------------------------------------------------------------------
ResolveTarget ==
    /\ stage = "start"
    /\ \E d \in Directory : Allowed(Real[d]) /\ target' = Real[d]
    /\ stage' = "resolved"
    /\ UNCHANGED <<platform, callerEnv, disk, ran>>

\* Defect: the directory is made where it is not there, and kept where it is.
MakeTarget ==
    /\ stage = "resolved"
    /\ stage' = "empty"
    /\ UNCHANGED <<platform, callerEnv, target, disk, ran>>

\* rm -rf, mkdir, and the isolated home with its empty npm configurations.
RecreateTarget ==
    /\ stage = "resolved"
    /\ staged' = "absent" /\ tarball' = "absent" /\ pnpm' = "absent" /\ modules' = "absent"
    /\ stage' = "empty"
    /\ UNCHANGED <<platform, callerEnv, target, ran>>

\* stagePinnedFiles, when source and copy have the pinned hash.
StagePinnedFiles ==
    /\ stage = "empty"
    /\ staged' = "pinned"
    /\ stage' = "staged"
    /\ UNCHANGED <<platform, callerEnv, target, tarball, pnpm, modules, ran>>

\* npm pack: the registry, or whoever answers for it, may send anything.
Pack ==
    /\ stage = "staged"
    /\ tarball' \in {"pinned", "other"}
    /\ stage' = "packed"
    /\ UNCHANGED <<platform, callerEnv, target, staged, pnpm, modules, ran>>

\* The integrity check, npm install of the tarball, and the look at what it left.
Unpack ==
    /\ stage = "packed" /\ tarball = "pinned"
    /\ pnpm' \in Fetched
    /\ stage' = "unpacked"
    /\ UNCHANGED <<platform, callerEnv, target, staged, tarball, modules, ran>>

\* pnpm install --frozen-lockfile keeps modules it takes for installed, and may
\* touch the files it was given.
Install ==
    /\ stage = "unpacked"
    /\ ran' = ran \cup {pnpm}
    /\ modules' \in Fetched \cup ({modules} \ {"absent"})
    /\ staged' \in {"pinned", "other"}
    /\ stage' = "installed"
    /\ UNCHANGED <<platform, callerEnv, target, tarball, pnpm>>

\* The pinned files are as they were, wrangler has its name and version: the outputs.
Publish ==
    /\ stage = "installed" /\ staged = "pinned"
    /\ stage' = "published"
    /\ UNCHANGED <<platform, callerEnv, target, disk, ran>>

\* A later step or job runs the action again: after a publication, a failed check,
\* a failed command or a kill, over what is on disk by then.
Again ==
    /\ stage # "start"
    /\ stage' = "start" /\ target' = <<>>
    /\ callerEnv' \in SUBSET Variable
    /\ UNCHANGED <<platform, disk, ran>>

Next ==
    \/ ResolveTarget \/ RecreateTarget \/ StagePinnedFiles \/ Pack \/ Unpack
    \/ Install \/ Publish \/ Again

Spec == Init /\ [][Next]_vars

-----------------------------------------------------------------------------
TypeOK ==
    /\ stage \in {"start", "resolved", "empty", "staged", "packed", "unpacked",
                  "installed", "published"}
    /\ platform \in {"unix", "windows"} /\ callerEnv \subseteq Variable
    /\ target \in {<<>>} \cup {Real[d] : d \in Directory}
    /\ {staged, tarball, pnpm, modules} \subseteq Thing

\* Only the pinned pnpm ever runs, and what an output names is the pinned wrangler:
\* whatever an earlier attempt left, the registry sends or the caller configures.
OnlyPinnedRuns ==
    /\ ran \subseteq {"pinned"}
    /\ stage = "published" => modules = "pinned" /\ staged = "pinned"

\* What the action deletes is below RUNNER_TEMP, and neither holds nor is in the
\* workspace, through symbolic links too.
DeletesOnlyItsOwn ==
    target # <<>> =>
        /\ \E i \in 1..(Len(target) - 1) : SubSeq(target, 1, i) = Temp
        /\ ~IsPrefix(target, Workspace) /\ ~IsPrefix(Workspace, target)

\* Nothing runs that is not the pinned one, and nothing is deleted that is not its own.
PinnedAndConfined == OnlyPinnedRuns /\ DeletesOnlyItsOwn
=============================================================================
