-------------------------- MODULE TelemetryWriter --------------------------
(***************************************************************************)
(* lib/telemetry-fallback: the writer emit-ci-phase and                    *)
(* emit-cache-observation put their files down with.                       *)
(*                                                                         *)
(* The steps of a job write telemetry into directories a persistent runner *)
(* may have left to another user.  A write the configured directory        *)
(* refuses (EACCES, EPERM) is retried once in a directory made by mkdtemp. *)
(* Emitters run at the same time and may write the same files.  The file   *)
(* system is external; it may refuse any write, and each for itself: the   *)
(* line appended to a file of another user, the rename over an open file.  *)
(* Temporary files carry the process id and are read by nobody: only their *)
(* renaming shows.                                                         *)
(*                                                                         *)
(* The definitions marked "Defect" are no part of the system: the checks   *)
(* put each in the place of a definition after it, to see a property fail. *)
(***************************************************************************)
EXTENDS Naturals, Sequences

CONSTANTS
    Emitter,    \* processes, each with a writer of its own
    Dir, Base,  \* configured directories, and file names in them
    Fallback,   \* directories mkdtemp may make, none of them in Dir
    NoDir,      \* no directory
    Plan        \* Plan[e]: the files emitter e writes, each [dir, base, kind]

VARIABLES
    disk,       \* disk[p][b]: whose values file b of directory p holds
    made,       \* fallback directories made so far
    stage,      \* where each emitter stands in withFallback
    detour,     \* the fallback directory its current write is retried in
    redirects,  \* the redirects of its writer
    written     \* the paths its writes resolved to

vars == <<disk, made, stage, detour, redirects, written>>

Torn == "torn"   \* a value cut short
Stage == {"write", "rename", "refused", "done", "failed", "killed"}
Path == [dir: Dir \cup Fallback, base: Base]

Current(e) == Plan[e][Len(written[e]) + 1]

\* Defect: one redirect serves every directory.
AnyRedirect(e) ==
    IF \E d \in Dir : redirects[e][d] # NoDir
    THEN redirects[e][CHOOSE d \in Dir : redirects[e][d] # NoDir]
    ELSE NoDir

\* redirects.get(directory)
Redirected(e) == redirects[e][Current(e).dir]

\* The directory the write goes to.
Place(e) ==
    IF Redirected(e) # NoDir THEN Redirected(e)
    ELSE IF detour[e] # NoDir THEN detour[e]
    ELSE Current(e).dir

Init ==
    /\ disk = [p \in Dir \cup Fallback |-> [b \in Base |-> <<>>]]
    /\ made = {}
    /\ stage = [e \in Emitter |-> "write"]
    /\ detour = [e \in Emitter |-> NoDir]
    /\ redirects = [e \in Emitter |-> [d \in Dir |-> NoDir]]
    /\ written = [e \in Emitter |-> <<>>]

-----------------------------------------------------------------------------
\* The write succeeded: the redirect is kept, the path is the answer, and the
\* emitter goes on with its next file.
Advance(e, p) ==
    /\ written' = [written EXCEPT ![e] = Append(@, [dir |-> p, base |-> Current(e).base])]
    /\ stage' = [stage EXCEPT ![e] =
          IF Len(written[e]) + 1 = Len(Plan[e]) THEN "done" ELSE "write"]
    /\ detour' = [detour EXCEPT ![e] = NoDir]
    /\ UNCHANGED made

\* Defect: the redirect is not kept.
ReportUnremembered(e) == Advance(e, Place(e)) /\ UNCHANGED redirects

KeepRedirect(e) ==
    IF detour[e] = NoDir
    THEN UNCHANGED redirects
    ELSE redirects' = [redirects EXCEPT ![e][Current(e).dir] = detour[e]]

\* Defect: the answer is the configured path.
ReportConfigured(e) == Advance(e, Current(e).dir) /\ KeepRedirect(e)

Report(e) == Advance(e, Place(e)) /\ KeepRedirect(e)

\* Defect: the value is written in place.
WriteInPlace(e) ==
    /\ stage[e] = "write" /\ Current(e).kind = "replace"
    /\ stage' = [stage EXCEPT ![e] = "rename"]
    /\ disk' = [disk EXCEPT ![Place(e)][Current(e).base] = <<Torn>>]
    /\ UNCHANGED <<made, detour, redirects, written>>

\* atomicWriteFile, up to the rename.
WriteTemporary(e) ==
    /\ stage[e] = "write" /\ Current(e).kind = "replace"
    /\ stage' = [stage EXCEPT ![e] = "rename"]
    /\ UNCHANGED <<disk, made, detour, redirects, written>>

Rename(e) ==
    /\ stage[e] = "rename"
    /\ disk' = [disk EXCEPT ![Place(e)][Current(e).base] = <<e>>]
    /\ Report(e)

AppendLine(e) ==
    /\ stage[e] = "write" /\ Current(e).kind = "append"
    /\ disk' = [disk EXCEPT ![Place(e)][Current(e).base] = Append(@, e)]
    /\ Report(e)

\* The refusal came from the configured directory.
Retries(e) == Redirected(e) = NoDir /\ detour[e] = NoDir

Refused(e) ==
    /\ stage[e] \in {"write", "rename"}
    /\ stage' = [stage EXCEPT ![e] = IF Retries(e) THEN "refused" ELSE "failed"]
    /\ UNCHANGED <<disk, made, detour, redirects, written>>

\* Defect: the directory is named and never made.
NameFallback(e) ==
    /\ stage[e] = "refused"
    /\ \E p \in Fallback \ made : detour' = [detour EXCEPT ![e] = p]
    /\ stage' = [stage EXCEPT ![e] = "write"]
    /\ UNCHANGED <<disk, made, redirects, written>>

\* createFallbackDirectory: mkdtemp returns a directory that was not there.
MakeFallback(e) ==
    /\ stage[e] = "refused"
    /\ \E p \in Fallback \ made :
          /\ made' = made \cup {p}
          /\ detour' = [detour EXCEPT ![e] = p]
    /\ stage' = [stage EXCEPT ![e] = "write"]
    /\ UNCHANGED <<disk, redirects, written>>

\* Any other error, that of mkdtemp included, ends the emitter.
Fail(e) ==
    /\ stage[e] \in {"write", "rename", "refused"}
    /\ stage' = [stage EXCEPT ![e] = "failed"]
    /\ UNCHANGED <<disk, made, detour, redirects, written>>

\* The job is cancelled.
Kill(e) ==
    /\ stage[e] \notin {"done", "failed", "killed"}
    /\ stage' = [stage EXCEPT ![e] = "killed"]
    /\ UNCHANGED <<disk, made, detour, redirects, written>>

Next ==
    \E e \in Emitter :
        \/ WriteTemporary(e) \/ Rename(e) \/ AppendLine(e)
        \/ Refused(e) \/ MakeFallback(e) \/ Fail(e) \/ Kill(e)

Spec == Init /\ [][Next]_vars

-----------------------------------------------------------------------------
(* Properties. *)

TypeOK ==
    /\ disk \in [Dir \cup Fallback -> [Base -> Seq(Emitter \cup {Torn})]]
    /\ made \subseteq Fallback
    /\ stage \in [Emitter -> Stage]
    /\ detour \in [Emitter -> made \cup {NoDir}]
    /\ redirects \in [Emitter -> [Dir -> made \cup {NoDir}]]
    /\ \A e \in Emitter : written[e] \in Seq(Path) /\ Len(written[e]) =< Len(Plan[e])

\* Whoever reads a telemetry file finds whole values, also after a kill and while
\* another emitter replaces the file.
WholeFiles ==
    \A p \in Dir \cup Fallback, b \in Base :
        \A i \in DOMAIN disk[p][b] : disk[p][b][i] # Torn

\* The path an emitter reports for a file is one where a value of the file is, its
\* own value in a directory of its making; no redirect brings two of its files of
\* one name together; and what is redirected of one directory stays together.
FilesAreWhereReported ==
    \A e \in Emitter : \A i, j \in DOMAIN written[e] :
        LET file == disk[written[e][i].dir][written[e][i].base]
        IN  /\ file # <<>>
            /\ written[e][i].dir \in Fallback => \E k \in DOMAIN file : file[k] = e
            /\ written[e][i] = written[e][j] =>
                  Plan[e][i].dir = Plan[e][j].dir /\ Plan[e][i].base = Plan[e][j].base
            /\ Plan[e][i].dir = Plan[e][j].dir
               /\ {written[e][i].dir, written[e][j].dir} \subseteq Fallback
               => written[e][i].dir = written[e][j].dir

\* What the comment above createTelemetryWriter promises: files that shared a
\* directory keep sharing one, so a payload and its envelope never split.
NeverSplit ==
    \A e \in Emitter : \A i, j \in DOMAIN written[e] :
        Plan[e][i].dir = Plan[e][j].dir => written[e][i].dir = written[e][j].dir
=============================================================================
