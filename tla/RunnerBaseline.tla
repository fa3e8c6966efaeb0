---------------------------- MODULE RunnerBaseline ----------------------------
(***************************************************************************)
(* runner-baseline: does this runner still meet its declared requirements, *)
(* and is there a manifest to read when it does not?                       *)
(*                                                                         *)
(* A version is the sequence of its parts; a part that is no number is     *)
(* NotANumber, and comparing with it is false.  Requirements are functions *)
(* from keys; of the eight keys one stands for each way to compare, and a  *)
(* key that is not known stands for every document that is refused.        *)
(* A definition marked "Defect" is no part of the system.                  *)
(***************************************************************************)
EXTENDS Integers, FiniteSets, Sequences

CONSTANTS
    Machine,        \* what os and the tools print: [os, sdks, node, git]
    FileRequirement, InlineRequirement,   \* documents of requirements
    Bound           \* above every part of a version

VARIABLES
    stage,
    machine, file, inline, failOnDrift,   \* the inputs
    drift,          \* the keys not met
    manifest,       \* the drift the manifest on disk records
    outputs         \* the drift the outputs report

vars == <<stage, machine, file, inline, failOnDrift, drift, manifest, outputs>>

NotANumber == -1
Nothing == {"nothing"}      \* no manifest, or no outputs, yet
Key == {"os", "dotnet_sdk", "node_major", "git_minimum"}
Missing == <<>>             \* the tool is not there

\* firstVersion: a version of fewer than three parts is not read.
FirstVersion(printed) == IF Len(printed) < 3 THEN Missing ELSE printed

Part(v, i) == IF i =< Len(v) THEN v[i] ELSE 0

\* left !== right: NaN differs from itself too.
Differ(l, r, i) == Part(l, i) # Part(r, i) \/ Part(l, i) = NotANumber

\* Defect: the fourth part is never compared.
BelowInThree(l, r) ==
    \E i \in 1..3 :
        /\ \A k \in 1..(i - 1) : ~Differ(l, r, k)
        /\ NotANumber \notin {Part(l, i), Part(r, i)} /\ Part(l, i) < Part(r, i)

\* compareVersions(l, r) < 0: decided by the first of four parts that differs.
Below(l, r) ==
    \E i \in 1..4 :
        /\ \A k \in 1..(i - 1) : ~Differ(l, r, k)
        /\ NotANumber \notin {Part(l, i), Part(r, i)} /\ Part(l, i) < Part(r, i)

\* Object.assign: the inline requirement wins, key by key.
Merged ==
    [key \in DOMAIN inline \cup DOMAIN file |->
        IF key \in DOMAIN inline THEN inline[key] ELSE file[key]]

Drifts(m, key, wanted) ==
    CASE key = "os" -> m.os # wanted
      [] key = "dotnet_sdk" -> wanted \notin m.sdks
      [] key = "node_major" -> m.node # wanted
      [] key = "git_minimum" -> FirstVersion(m.git) = Missing \/ Below(m.git, wanted)

Init ==
    /\ stage = "start" /\ machine \in Machine
    /\ file \in FileRequirement /\ inline \in InlineRequirement
    /\ failOnDrift \in {"true", "false", "neither"}
    /\ drift = {} /\ manifest = Nothing /\ outputs = Nothing

-----------------------------------------------------------------------------
\* evaluateBaseline; a key it does not know ends the step before anything is written.
Evaluate ==
    /\ stage = "start"
    /\ IF DOMAIN Merged \subseteq Key
       THEN /\ drift' = {key \in DOMAIN Merged : Drifts(machine, key, Merged[key])}
            /\ stage' = "evaluated"
       ELSE stage' = "refused" /\ UNCHANGED drift
    /\ UNCHANGED <<machine, file, inline, failOnDrift, manifest, outputs>>

WriteManifest ==
    /\ stage = "evaluated"
    /\ manifest' = drift
    /\ stage' = "written"
    /\ UNCHANGED <<machine, file, inline, failOnDrift, drift, outputs>>

WriteOutputs ==
    /\ stage = "written"
    /\ outputs' = drift
    /\ stage' = "reported"
    /\ UNCHANGED <<machine, file, inline, failOnDrift, drift, manifest>>

\* fail-on-drift is read last; a value that is no boolean fails the step.
Decide ==
    /\ stage = "reported"
    /\ stage' = IF failOnDrift = "neither" \/ (drift # {} /\ failOnDrift = "true")
                THEN "failed" ELSE "passed"
    /\ UNCHANGED <<machine, file, inline, failOnDrift, drift, manifest, outputs>>

\* Any write may fail, and a kill ends the step.
Abort ==
    /\ stage \in {"start", "evaluated", "written"}
    /\ stage' = "refused"
    /\ UNCHANGED <<machine, file, inline, failOnDrift, drift, manifest, outputs>>

Next == Evaluate \/ WriteManifest \/ WriteOutputs \/ Decide \/ Abort

Spec == Init /\ [][Next]_vars

-----------------------------------------------------------------------------
TypeOK ==
    /\ stage \in {"start", "evaluated", "written", "reported", "passed", "failed", "refused"}
    /\ drift \subseteq Key
    /\ manifest = Nothing \/ manifest \subseteq Key
    /\ outputs = Nothing \/ outputs \subseteq Key

\* A version read as one number.
Number(v) == ((Part(v, 1) * Bound + Part(v, 2)) * Bound + Part(v, 3)) * Bound + Part(v, 4)

\* A step that passes where drift is to fail it ran on a machine that meets every
\* requirement, the inline one where both name a key, with git at or above the
\* minimum as numbers go; and a step failed for drift leaves the manifest and the
\* outputs an upload after the failure reads.  A version with a part that is no
\* number is left out: such a git passes every minimum it equals up to that part.
VerdictIsSound ==
    /\ stage = "passed" /\ failOnDrift = "true" =>
          /\ \A key \in DOMAIN file \ DOMAIN inline : ~Drifts(machine, key, file[key])
          /\ \A key \in DOMAIN inline : ~Drifts(machine, key, inline[key])
          /\ "git_minimum" \in DOMAIN inline =>
                /\ Len(machine.git) >= 3
                /\ \/ NotANumber \in {machine.git[i] : i \in DOMAIN machine.git}
                   \/ Number(machine.git) >= Number(inline["git_minimum"])
    /\ stage = "failed" => outputs = manifest /\ manifest = drift
=============================================================================
