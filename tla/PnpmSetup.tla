------------------------------- MODULE PnpmSetup -------------------------------
(***************************************************************************)
(* setup-node-pnpm: the exact pnpm of a job in a prefix of its own, its    *)
(* store, and what is said of the store's initial state.                   *)
(*                                                                         *)
(* The action may be used more than once in a job: the prefix carries the  *)
(* job's name, so the second use finds what the first and the job left.    *)
(* npm and the registry are external; npm may exit 0 without the optional  *)
(* package that holds the executable.                                      *)
(* A definition marked "Defect" is no part of the system.                  *)
(***************************************************************************)
EXTENDS Naturals

CONSTANTS
    Version,        \* exact stable versions
    Fallback,       \* the version used when nothing declares one
    Attempts        \* PNPM_INSTALL_ATTEMPTS

VARIABLES
    stage,
    version,        \* the resolved version
    attempt,        \* install attempts made
    bin,            \* the prefix: "none", "stub", or the version installed
    store,          \* the store in the prefix: "empty" or "filled"
    kind,           \* the store selected: "host-shared" or "isolated"
    class           \* cache-class

vars == <<stage, version, attempt, bin, store, kind, class>>

Inexact == "inexact"      \* a declaration that is no exact stable version
None == "none"            \* no declaration, or no package.json

\* resolvePnpmVersion: the input, else packageManager, else the fallback.
Resolved(explicit, declared) ==
    IF explicit # None THEN explicit ELSE IF declared # None THEN declared ELSE Fallback

\* select-store.sh: a usable PNPM_STORE_DIR, else a usable pnpm_config_store_dir.  A
\* candidate that is unset or refused is passed over.
StoreKind(candidates) ==
    IF \E i \in DOMAIN candidates : candidates[i] = "usable" THEN "host-shared" ELSE "isolated"

Init ==
    /\ stage = "called" /\ version = None /\ attempt = 0
    /\ bin = "none" /\ store = "empty" /\ kind = "isolated" /\ class = "unknown"

-----------------------------------------------------------------------------
ResolveVersion ==
    /\ stage = "called"
    /\ \E explicit, declared \in Version \cup {Inexact, None} :
          /\ version' = Resolved(explicit, declared)
          /\ stage' = IF version' = Inexact THEN "failed" ELSE "installing"
    /\ attempt' = 0
    /\ UNCHANGED <<bin, store, kind, class>>

\* npm's exit code is 0: with the executable, or with the stub alone, which
\* `pnpm --version` finds out.
NpmExitsZero ==
    \/ bin' = version /\ stage' = "installed"
    \/ bin' = "stub" /\ stage' = IF attempt + 1 < Attempts THEN "installing" ELSE "failed"

\* Defect: the last attempt is followed by one more.
NpmFailsOnceMore ==
    /\ bin' \in {"none", "stub", version}
    /\ stage' = IF attempt + 1 =< Attempts THEN "installing" ELSE "failed"

\* npm fails with whatever it had put there.
NpmFails ==
    /\ bin' \in {"none", "stub", version}
    /\ stage' = IF attempt + 1 < Attempts THEN "installing" ELSE "failed"

\* Defect: an attempt starts from what the prefix holds.
TryInPlace ==
    /\ stage = "installing"
    /\ attempt' = attempt + 1
    /\ NpmExitsZero \/ NpmFails
    /\ UNCHANGED <<version, store, kind, class>>

\* One turn of install-pnpm.sh's loop: every attempt starts from an empty prefix,
\* and the store is in the prefix.
TryInstall ==
    /\ stage = "installing"
    /\ attempt' = attempt + 1
    /\ store' = "empty"
    /\ NpmExitsZero \/ NpmFails
    /\ UNCHANGED <<version, kind, class>>

SelectStore ==
    /\ stage = "installed"
    /\ \E candidates \in [1..2 -> {"unset", "refused", "usable"}] : kind' = StoreKind(candidates)
    /\ stage' = "selected"
    /\ UNCHANGED <<version, attempt, bin, store, class>>

\* cache-evidence: a store of the job's own starts empty; of a shared one nothing
\* is measured.
ClassifyStore ==
    /\ stage = "selected"
    /\ class' = IF kind = "isolated" THEN "cold" ELSE "unknown"
    /\ stage' = "ready"
    /\ UNCHANGED <<version, attempt, bin, store, kind>>

\* The job installs its dependencies.
UseStore ==
    /\ stage = "ready"
    /\ store' = IF kind = "isolated" THEN "filled" ELSE store
    /\ stage' = "used"
    /\ UNCHANGED <<version, attempt, bin, kind, class>>

\* The action is used once more, also after a failure the job tolerates.
CallAgain ==
    /\ stage \in {"ready", "used", "failed"}
    /\ stage' = "called"
    /\ UNCHANGED <<version, attempt, bin, store, kind, class>>

Next ==
    \/ ResolveVersion \/ TryInstall \/ SelectStore \/ ClassifyStore \/ UseStore \/ CallAgain

Spec == Init /\ [][Next]_vars

-----------------------------------------------------------------------------
TypeOK ==
    /\ stage \in {"called", "installing", "installed", "selected", "ready", "used", "failed"}
    /\ version \in Version \cup {Inexact, None}
    /\ attempt \in 0..Attempts
    /\ bin \in Version \cup {"none", "stub"}
    /\ store \in {"empty", "filled"}
    /\ kind \in {"isolated", "host-shared"} /\ class \in {"cold", "unknown"}

\* When the action succeeds, the pnpm on the path is the whole executable of the
\* resolved version, and a store called cold is empty, also when the action runs in
\* a job that has used its store already.
EvidenceIsTrue ==
    stage = "ready" =>
        /\ bin = version /\ version \in Version
        /\ class = "cold" <=> kind = "isolated"
        /\ class = "cold" => store = "empty"
=============================================================================
