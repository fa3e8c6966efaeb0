--------------------------- MODULE RangedDownload ---------------------------
(***************************************************************************)
(* download-ranged-artifact: one artifact fetched in parallel byte ranges, *)
(* put together, verified against its digest and extracted.                *)
(*                                                                         *)
(* A byte is its offset in the artifact, a digest is the content itself.   *)
(* The API lists artifacts with their digest, and perhaps their size; the  *)
(* storage the bytes come from may hold something else by then.            *)
(* The ranges proceed independently; Promise.all settles with the first    *)
(* failure and leaves the other ranges running, so they meet the removal   *)
(* of the directory they write to.  The server, the file system and the    *)
(* extraction script are external.                                         *)
(*                                                                         *)
(* The definitions marked "Defect" are no part of the system: the checks   *)
(* put each in the place of a definition after it, to see a property fail. *)
(***************************************************************************)
EXTENDS Integers, Sequences

CONSTANTS
    Sizes,   \* archive sizes to consider, in bytes
    Counts   \* values of the range-count input

ASSUME RangeAssumption == Sizes \subseteq Nat \ {0} /\ Counts \subseteq Nat \ {0}

VARIABLES
    total, count,   \* bytes the storage holds, and the range-count input
    listed,         \* the API's list: unexpired artifacts of the name, length, is it told?
    phase,          \* where downloadArtifact and main stand
    part,           \* what became of each range
    body,           \* the bytes in each part file
    appended,       \* ranges appended to the archive so far
    archive,        \* its bytes
    files,          \* files in the temporary directory
    tempRoot,       \* the temporary directory exists
    extracted,      \* history: what was extracted
    faulted         \* history: the server, the disk or the script misbehaved

source == <<total, count, listed>>
vars == <<source, phase, part, body, appended, archive, files, tempRoot,
          extracted, faulted>>

Phase == {"lookup", "probing", "downloading", "assembling", "verifying", "removing",
          "removingRoot", "extracting", "cleaning", "failed", "done"}
ArchiveFile == -1   \* a part file goes by the index of its range
PartState == {"idle", "fetching", "writing", "written", "failed"}

\* What the API may say of the name: a size is told or not.
Listing == [artifacts: 0..2, length: Sizes, sized: BOOLEAN]

-----------------------------------------------------------------------------
(* buildRanges *)

\* Defect: rounded down.
FloorChunkSize(t, n) == t \div n

ChunkSize(t, n) == (t + n - 1) \div n

Start(t, n, i) == i * ChunkSize(t, n)

Least(a, b) == IF a =< b THEN a ELSE b

\* Defect: the end of a range is taken as exclusive.
ExclusiveEnd(t, n, i) == Least(t - 1, Start(t, n, i) + ChunkSize(t, n))

End(t, n, i) == Least(t - 1, Start(t, n, i) + ChunkSize(t, n) - 1)

\* Defect: the loop does not break.
AllIndices(t, n) == 0..(n - 1)

\* The loop breaks at the first range that would start past the end.
Indices(t, n) == {i \in 0..(n - 1) : Start(t, n, i) < t}

Ranges == Indices(total, count)

\* length bytes from offset first on.
Bytes(first, length) == [k \in 1..length |-> first + k - 1]

RangeLength(i) == End(total, count, i) - Start(total, count, i) + 1

\* What the API's digest is the digest of.
Artifact == Bytes(0, listed.length)

-----------------------------------------------------------------------------
Init ==
    /\ total \in Sizes /\ count \in Counts
    /\ listed \in Listing
    /\ phase = "lookup"
    /\ part = [i \in Ranges |-> "idle"]
    /\ body = [i \in Ranges |-> <<>>]
    /\ appended = 0
    /\ archive = <<>>
    /\ files = {}
    /\ tempRoot = FALSE
    /\ extracted = <<>>
    /\ faulted = (listed.artifacts # 1 \/ listed.length # total)

-----------------------------------------------------------------------------
(* Before the first range: nothing is on disk yet. *)

\* One artifact, neither expired nor ambiguous, with a digest.
Lookup ==
    /\ phase = "lookup"
    /\ phase' = IF listed.artifacts = 1 THEN "probing" ELSE "failed"
    /\ UNCHANGED <<source, part, body, appended, archive, files, tempRoot, extracted, faulted>>

\* The signed redirect and the probe of one byte; a size that the API tells is the
\* storage's.  The temporary directory is made and every range is requested.
Probe ==
    /\ phase = "probing"
    /\ IF listed.sized => listed.length = total
       THEN /\ phase' = "downloading"
            /\ part' = [i \in Ranges |-> "fetching"]
            /\ tempRoot' = TRUE
       ELSE phase' = "failed" /\ UNCHANGED <<part, tempRoot>>
    /\ UNCHANGED <<source, body, appended, archive, files, extracted, faulted>>

\* A request is refused, or its answer has no digest, no trusted host, no range.
FailEarly ==
    /\ phase \in {"lookup", "probing"}
    /\ phase' = "failed"
    /\ faulted' = TRUE
    /\ UNCHANGED <<source, part, body, appended, archive, files, tempRoot, extracted>>

-----------------------------------------------------------------------------
(* One range.  The first failure moves downloadArtifact to its catch; later *)
(* ones concern nobody.                                                     *)

Caught == IF phase = "downloading" THEN "removing" ELSE phase

\* A partial response: its part file is created, which fails when the directory
\* is gone.
OpenPart(i) ==
    /\ part[i] = "fetching"
    /\ IF tempRoot
       THEN /\ part' = [part EXCEPT ![i] = "writing"]
            /\ files' = files \cup {i}
            /\ UNCHANGED phase
       ELSE /\ part' = [part EXCEPT ![i] = "failed"]
            /\ phase' = Caught
            /\ UNCHANGED files
    /\ UNCHANGED <<source, body, appended, archive, tempRoot, extracted, faulted>>

\* The request, the stream or the disk fails.
FailPart(i) ==
    /\ part[i] \in {"fetching", "writing"}
    /\ part' = [part EXCEPT ![i] = "failed"]
    /\ phase' = Caught
    /\ faulted' = TRUE
    /\ UNCHANGED <<source, body, appended, archive, files, tempRoot, extracted>>

\* stat of the part file against the expected bytes; a removed file has no size.
LengthMatches(i, b) == i \in files /\ Len(b) = RangeLength(i)

\* The stream ends; the server may have sent fewer bytes or others.
EndPart(i) ==
    /\ part[i] = "writing"
    /\ \E first \in 0..(total - 1), length \in 1..total :
          /\ first + length =< total
          /\ body' = [body EXCEPT ![i] = Bytes(first, length)]
          /\ faulted' = (faulted \/ first # Start(total, count, i) \/ length # RangeLength(i))
    /\ IF LengthMatches(i, body'[i])
       THEN part' = [part EXCEPT ![i] = "written"] /\ UNCHANGED phase
       ELSE part' = [part EXCEPT ![i] = "failed"] /\ phase' = Caught
    /\ UNCHANGED <<source, appended, archive, files, tempRoot, extracted>>

-----------------------------------------------------------------------------
(* downloadArtifact *)

\* Promise.all fulfils.
Assemble ==
    /\ phase = "downloading"
    /\ \A i \in Ranges : part[i] = "written"
    /\ phase' = "assembling"
    /\ files' = files \cup {ArchiveFile}
    /\ UNCHANGED <<source, part, body, appended, archive, tempRoot, extracted, faulted>>

\* Defect: the parts are appended from the last to the first.
AppendBackwards ==
    /\ phase = "assembling"
    /\ appended \in Ranges
    /\ archive' = body[appended] \o archive
    /\ appended' = appended + 1
    /\ UNCHANGED <<source, phase, part, body, files, tempRoot, extracted, faulted>>

\* The parts are appended in the order of the ranges, whichever came first.
AppendPart ==
    /\ phase = "assembling"
    /\ appended \in Ranges
    /\ archive' = archive \o body[appended]
    /\ appended' = appended + 1
    /\ UNCHANGED <<source, phase, part, body, files, tempRoot, extracted, faulted>>

Close ==
    /\ phase = "assembling"
    /\ appended \notin Ranges
    /\ phase' = "verifying"
    /\ UNCHANGED <<source, part, body, appended, archive, files, tempRoot,
                   extracted, faulted>>

\* Defect: a complete length passes for a verified digest.
VerifyLength ==
    /\ phase = "verifying"
    /\ IF Len(archive) = total
       THEN phase' = "extracting" /\ files' = files \ Ranges
       ELSE phase' = "removing" /\ UNCHANGED files
    /\ UNCHANGED <<source, part, body, appended, archive, tempRoot, extracted, faulted>>

\* Defect: finally removes the whole directory.
VerifyAndRemove ==
    /\ phase = "verifying"
    /\ IF archive = Artifact
       THEN phase' = "extracting" /\ files' = {} /\ tempRoot' = FALSE
       ELSE phase' = "removing" /\ UNCHANGED <<files, tempRoot>>
    /\ UNCHANGED <<source, part, body, appended, archive, extracted, faulted>>

\* The digest decides; on success finally removes the parts and main goes on.
Verify ==
    /\ phase = "verifying"
    /\ IF archive = Artifact
       THEN phase' = "extracting" /\ files' = files \ Ranges
       ELSE phase' = "removing" /\ UNCHANGED files
    /\ UNCHANGED <<source, part, body, appended, archive, tempRoot, extracted, faulted>>

\* catch: rm of the directory removes what it finds in it, then the directory,
\* unless a range that is still running has put a file there meanwhile.  finally
\* then removes the parts it finds.
RemoveFiles ==
    /\ phase = "removing"
    /\ files' = {}
    /\ phase' = "removingRoot"
    /\ UNCHANGED <<source, part, body, appended, archive, tempRoot, extracted, faulted>>

RemoveRoot ==
    /\ phase = "removingRoot"
    /\ tempRoot' = (files # {})
    /\ files' = files \ Ranges
    /\ phase' = "failed"
    /\ UNCHANGED <<source, part, body, appended, archive, extracted, faulted>>

\* The archive cannot be opened, appended to or read, or an output not be written.
FailAssembly ==
    /\ \/ phase = "downloading" /\ \A i \in Ranges : part[i] = "written"
       \/ phase \in {"assembling", "verifying"}
    /\ phase' = "removing"
    /\ faulted' = TRUE
    /\ UNCHANGED <<source, part, body, appended, archive, files, tempRoot, extracted>>

\* rm is refused, after it has removed some of the files: in catch or in finally, of a
\* verified archive's parts too, which ends the process before the extraction; or at the
\* end of main.
FailRemoval ==
    /\ \/ phase \in {"removing", "removingRoot", "cleaning"}
       \/ phase = "verifying" /\ archive = Artifact
    /\ \E left \in SUBSET files :
          /\ phase = "verifying" => ArchiveFile \in left
          /\ files' = left
    /\ phase' = "failed"
    /\ faulted' = TRUE
    /\ UNCHANGED <<source, part, body, appended, archive, tempRoot, extracted>>

-----------------------------------------------------------------------------
(* main *)

\* Defect: a failed extraction skips the cleanup.
ExtractOrLeave ==
    /\ phase = "extracting"
    /\ \/ phase' = "cleaning" /\ extracted' = archive /\ UNCHANGED faulted
       \/ phase' = "done" /\ faulted' = TRUE /\ UNCHANGED extracted
    /\ UNCHANGED <<source, part, body, appended, archive, files, tempRoot>>

Extract ==
    /\ phase = "extracting"
    /\ \/ extracted' = archive /\ UNCHANGED faulted
       \/ faulted' = TRUE /\ UNCHANGED extracted
    /\ phase' = "cleaning"
    /\ UNCHANGED <<source, part, body, appended, archive, files, tempRoot>>

\* finally: the directory goes after the extraction, however that ended.
Clean ==
    /\ phase = "cleaning"
    /\ files' = {} /\ tempRoot' = FALSE
    /\ phase' = "done"
    /\ UNCHANGED <<source, part, body, appended, archive, extracted, faulted>>

-----------------------------------------------------------------------------
Range(i) == OpenPart(i) \/ EndPart(i)

Main ==
    \/ Lookup \/ Probe \/ Assemble \/ AppendPart \/ Close \/ Verify
    \/ RemoveFiles \/ RemoveRoot \/ Extract \/ Clean

Next ==
    \/ Main \/ FailEarly \/ FailAssembly \/ FailRemoval
    \/ \E i \in Ranges : Range(i) \/ FailPart(i)

Spec == Init /\ [][Next]_vars

\* The process goes on while it can, and a range that is being served proceeds.
FairSpec == Spec /\ WF_vars(Main) /\ WF_vars(\E i \in Ranges : Range(i))

-----------------------------------------------------------------------------
(* Properties. *)

TypeOK ==
    /\ total \in Sizes /\ count \in Counts
    /\ listed \in Listing
    /\ phase \in Phase
    /\ part \in [Ranges -> PartState]
    /\ \A i \in Ranges : RangeLength(i) \in 1..total
    /\ DOMAIN body = Ranges
    /\ appended \in 0..count
    /\ files \subseteq Ranges \cup {ArchiveFile}
    /\ tempRoot \in BOOLEAN /\ faulted \in BOOLEAN

\* buildRanges: every byte of the artifact is in exactly one range.
Tiling(t, n) ==
    \A b \in 0..(t - 1) :
        \E i \in Indices(t, n) :
            /\ Start(t, n, i) =< b /\ b =< End(t, n, i)
            /\ \A j \in Indices(t, n) :
                  Start(t, n, j) =< b /\ b =< End(t, n, j) => j = i

RangesTile == Tiling(total, count)

\* Only the artifact the API listed is ever extracted, whatever the storage holds by
\* then and answers to a range.
ExtractsTheArtifact == extracted \in {<<>>, Artifact}

\* The archive is there while the script reads it, and no range can still write
\* beside it.
ArchiveOutlivesParts ==
    phase = "extracting" =>
        /\ tempRoot /\ files = {ArchiveFile}
        /\ \A i \in Ranges : part[i] = "written"

\* A run that got as far as the extraction leaves no directory behind, unless it may not
\* remove it.
NothingLeft == phase = "done" => ~tempRoot /\ files = {}

\* When nothing misbehaves the artifact is extracted, in whatever order its parts
\* arrive.
FaultlessRunExtracts == []~faulted => <>(extracted = Artifact)
=============================================================================
