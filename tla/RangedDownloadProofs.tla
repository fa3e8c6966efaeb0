------------------------ MODULE RangedDownloadProofs ------------------------
(***************************************************************************)
(* Proofs about RangedDownload for every archive size and range count.     *)
(***************************************************************************)
EXTENDS RangedDownload, TLAPS

\* The library's facts about sequences, one of whose names RangedDownload uses itself.
Seqs == INSTANCE SequenceTheorems

-----------------------------------------------------------------------------
(* buildRanges *)

LEMMA Monotone ==
  ASSUME NEW a \in Nat, NEW b \in Nat, NEW c \in Nat, a =< b
  PROVE  a * c =< b * c
<1>1. PICK d \in Nat : b = a + d
  <2>1. b - a \in Nat /\ b = a + (b - a)
    OBVIOUS
  <2> QED
    BY <2>1
<1>2. b * c = a * c + d * c
  BY <1>1
<1>3. d * c \in Nat /\ a * c \in Nat
  OBVIOUS
<1> QED
  BY <1>2, <1>3

\* The ranges are not empty and reach the end of the archive.
LEMMA Chunk ==
  ASSUME NEW t \in Nat \ {0}, NEW n \in Nat \ {0}
  PROVE  /\ ChunkSize(t, n) \in Nat \ {0}
         /\ t =< n * ChunkSize(t, n)
<1> DEFINE x == t + n - 1
           q == x \div n
<1>1. x \in Nat /\ x >= n /\ q \in Int
  OBVIOUS
<1>2. n * q =< x /\ x < n * q + n
  BY <1>1
<1>3. t =< n * q
  BY <1>2
<1>4. q > 0
  <2>1. CASE q =< 0
    <3>1. n * q =< 0
      BY <1>1, <2>1
    <3> QED
      BY <1>3, <3>1
  <2> QED
    BY <1>1, <2>1
<1> QED
  BY <1>1, <1>3, <1>4 DEF ChunkSize

\* Every byte of an artifact of any size is in exactly one of any number of ranges.
THEOREM RangesPartition ==
  \A t, n \in Nat \ {0} : Tiling(t, n)
<1> SUFFICES ASSUME NEW t \in Nat \ {0}, NEW n \in Nat \ {0}, NEW b \in 0..(t - 1)
             PROVE  \E i \in Indices(t, n) :
                       /\ Start(t, n, i) =< b /\ b =< End(t, n, i)
                       /\ \A j \in Indices(t, n) :
                             Start(t, n, j) =< b /\ b =< End(t, n, j) => j = i
  BY DEF Tiling
<1> DEFINE c == ChunkSize(t, n)
           i == b \div c
<1>1. c \in Nat \ {0} /\ t =< n * c /\ b \in Nat /\ b < t
  BY Chunk
<1> HIDE DEF c
<1>2. i \in Nat /\ i * c =< b /\ b < i * c + c
  <2>1. i \in Nat
    BY <1>1
  <2>2. c * i =< b /\ b < c * i + c
    BY <1>1
  <2> QED
    BY <1>1, <2>1, <2>2
<1> HIDE DEF i
<1>3. i =< n - 1
  <2>1. CASE n =< i
    <3>1. n * c =< i * c
      BY <1>1, <1>2, <2>1, Monotone
    <3>2. n * c \in Nat /\ i * c \in Nat
      BY <1>1, <1>2
    <3> QED
      BY <1>1, <1>2, <3>1, <3>2
  <2> QED
    BY <1>2, <2>1
<1>4. i * c \in Nat
  BY <1>1, <1>2
<1>5. i \in Indices(t, n) /\ Start(t, n, i) =< b /\ b =< End(t, n, i)
  BY <1>1, <1>2, <1>3, <1>4 DEF Indices, Start, End, Least, c
<1>6. ASSUME NEW j \in Indices(t, n), Start(t, n, j) =< b, b =< End(t, n, j)
      PROVE  j = i
  <2>1. j \in Nat
    BY DEF Indices
  <2>2. j * c \in Nat /\ j * c =< b
    BY <1>1, <1>6, <2>1 DEF Start, c
  <2>3. b < j * c + c
    BY <1>1, <1>6, <2>2 DEF End, Least, Start, c
  <2>4. CASE i < j
    <3>1. (i + 1) * c =< j * c
      BY <1>1, <1>2, <2>1, <2>4, Monotone
    <3>2. (i + 1) * c = i * c + c
      BY <1>1, <1>2
    <3> QED
      BY <1>1, <1>2, <1>4, <2>2, <3>1, <3>2
  <2>5. CASE j < i
    <3>1. (j + 1) * c =< i * c
      BY <1>1, <1>2, <2>1, <2>5, Monotone
    <3>2. (j + 1) * c = j * c + c
      BY <1>1, <2>1
    <3> QED
      BY <1>1, <1>2, <1>4, <2>2, <2>3, <3>1, <3>2
  <2> QED
    BY <1>2, <2>1, <2>4, <2>5
<1> QED
  BY <1>5, <1>6

\* A requested range is inside the archive.
LEMMA RangesInside ==
  ASSUME total \in Nat \ {0}, count \in Nat \ {0}, NEW i \in Ranges
  PROVE  RangeLength(i) \in 1..total
<1> DEFINE c == ChunkSize(total, count)
<1>1. c \in Nat \ {0}
  BY Chunk
<1> HIDE DEF c
<1>2. i \in Nat /\ i * c \in Nat /\ i * c < total
  BY <1>1 DEF Ranges, Indices, Start, c
<1> QED
  BY <1>1, <1>2 DEF RangeLength, Start, End, Least, c

-----------------------------------------------------------------------------
(* The download. *)

\* Once Promise.all has fulfilled no range runs any more.
Joined ==
    phase \in {"assembling", "verifying", "extracting", "cleaning", "done"}
        => \A i \in Ranges : part[i] = "written"

\* The directory lasts until it is removed, and holds the archive meanwhile.
Directory ==
    /\ phase \in {"downloading", "assembling", "verifying", "extracting"} => tempRoot
    /\ phase \in {"assembling", "verifying"} => ArchiveFile \in files

Verified == phase = "extracting" => archive = Artifact /\ files = {ArchiveFile}

IInv == TypeOK /\ Joined /\ Directory /\ Verified /\ ExtractsTheArtifact /\ NothingLeft

LEMMA InitIInv == Init => IInv
<1> SUFFICES ASSUME Init PROVE IInv
  OBVIOUS
<1>1. total \in Nat \ {0} /\ count \in Nat \ {0}
  BY RangeAssumption DEF Init
<1>2. TypeOK
  <2>1. tempRoot \in BOOLEAN /\ faulted \in BOOLEAN
    BY Zenon DEF Init
  <2>2. \A i \in Ranges : RangeLength(i) \in 1..total
    BY <1>1, RangesInside
  <2> QED
    BY <1>1, <2>1, <2>2 DEF Init, TypeOK, Phase, PartState
<1>3. Joined /\ Directory /\ Verified /\ ExtractsTheArtifact /\ NothingLeft
  BY DEF Init, Joined, Directory, Verified, ExtractsTheArtifact, NothingLeft
<1> QED
  BY <1>2, <1>3 DEF IInv

LEMMA StepIInv == IInv /\ [Next]_vars => IInv'
<1> SUFFICES ASSUME IInv, [Next]_vars PROVE IInv'
  OBVIOUS
<1>1. UNCHANGED source
  BY DEF Next, Main, Range, vars, Lookup, Probe, FailEarly, OpenPart, FailPart, EndPart, Assemble, AppendPart, Close,
         Verify, FailAssembly, FailRemoval, RemoveFiles, RemoveRoot, Extract, Clean
<1>2. Ranges' = Ranges /\ Artifact' = Artifact /\ \A i : RangeLength(i)' = RangeLength(i)
  BY <1>1 DEF source, Ranges, Artifact, RangeLength
<1>3. /\ total \in Nat \ {0} /\ count \in Nat \ {0}
      /\ Ranges \subseteq 0..(count - 1) /\ ArchiveFile \notin Ranges
  BY RangeAssumption DEF IInv, TypeOK, Ranges, Indices, ArchiveFile
<1>4. \A i \in Ranges : RangeLength(i) \in 1..total
  BY <1>3, RangesInside
<1> USE <1>1, <1>2, <1>3, <1>4
    DEF source, IInv, TypeOK, Phase, PartState, Joined, Directory, Verified, ExtractsTheArtifact,
        NothingLeft
<1>5. ASSUME NEW i \in Ranges, OpenPart(i) PROVE IInv'
  BY <1>5 DEF OpenPart, Caught
<1>6. ASSUME NEW i \in Ranges, EndPart(i) PROVE IInv'
  BY <1>6 DEF EndPart, Caught
<1>7. ASSUME NEW i \in Ranges, FailPart(i) PROVE IInv'
  BY <1>7 DEF FailPart, Caught
<1>8. CASE Assemble
  BY <1>8 DEF Assemble
<1>9. CASE AppendPart
  BY <1>9 DEF AppendPart
<1>10. CASE Close
  BY <1>10 DEF Close
<1>11. CASE Verify
  BY <1>11 DEF Verify
<1>12. CASE RemoveFiles
  BY <1>12 DEF RemoveFiles
<1>13. CASE RemoveRoot
  BY <1>13 DEF RemoveRoot
<1>14. CASE Extract
  BY <1>14 DEF Extract
<1>15. CASE Clean
  BY <1>15 DEF Clean
<1>16. CASE UNCHANGED vars
  BY <1>16 DEF vars
<1>17. CASE Lookup
  BY <1>17 DEF Lookup
<1>18. CASE Probe
  BY <1>18 DEF Probe
<1>19. CASE FailEarly
  BY <1>19 DEF FailEarly
<1>20. CASE FailAssembly
  BY <1>20 DEF FailAssembly
<1>21. CASE FailRemoval
  BY <1>21 DEF FailRemoval
<1> QED
  BY <1>5, <1>6, <1>7, <1>8, <1>9, <1>10, <1>11, <1>12, <1>13, <1>14, <1>15, <1>16,
     <1>17, <1>18, <1>19, <1>20, <1>21
  DEF Next, Main, Range

THEOREM Invariance == Spec => []IInv
  BY InitIInv, StepIInv, PTL DEF Spec

\* The state of a download stays in range, and so does every range it requests.
THEOREM TypeCorrect == Spec => []TypeOK
<1>1. IInv => TypeOK
  BY DEF IInv
<1> QED
  BY <1>1, Invariance, PTL

\* The ranges a download requests partition its artifact.
THEOREM RequestsPartition == Spec => []RangesTile
<1>1. IInv => RangesTile
  BY RangesPartition, RangeAssumption DEF IInv, TypeOK, RangesTile
<1> QED
  BY <1>1, Invariance, PTL

\* Nothing but the artifact is extracted.
THEOREM ExtractsVerified == Spec => []ExtractsTheArtifact
<1>1. IInv => ExtractsTheArtifact
  BY DEF IInv
<1> QED
  BY <1>1, Invariance, PTL

\* The script reads an archive that is there, alone and at rest.
THEOREM ArchiveAtRest == Spec => []ArchiveOutlivesParts
<1>1. IInv => ArchiveOutlivesParts
  BY DEF IInv, Joined, Directory, Verified, ArchiveOutlivesParts
<1> QED
  BY <1>1, Invariance, PTL

\* A run that reached the extraction removes its directory.
THEOREM LeavesNothing == Spec => []NothingLeft
<1>1. IInv => NothingLeft
  BY DEF IInv
<1> QED
  BY <1>1, Invariance, PTL

-----------------------------------------------------------------------------
(* A download that nothing disturbs. *)

\* The bytes of the first k ranges.
Upto(k) == Least(total, k * ChunkSize(total, count))

\* Without a fault every range brings its own bytes, and the archive is the beginning
\* of the artifact.
Undisturbed ==
    /\ listed.artifacts = 1 /\ listed.length = total
    /\ phase \notin {"removing", "removingRoot", "failed"}
    /\ \A i \in Ranges : part[i] # "failed"
    /\ phase \in {"lookup", "probing"} => \A i \in Ranges : part[i] = "idle"
    /\ phase = "downloading" =>
          \A i \in Ranges : part[i] \in {"writing", "written"} => i \in files
    /\ \A i \in Ranges :
          part[i] = "written" => body[i] = Bytes(Start(total, count, i), RangeLength(i))
    /\ phase \in {"lookup", "probing", "downloading"} => archive = <<>> /\ appended = 0
    /\ phase = "assembling" => archive = Bytes(0, Upto(appended))
    /\ phase \in {"verifying", "extracting"} => archive = Artifact
    /\ phase \in {"cleaning", "done"} => extracted = Artifact

FaultlessInv == ~faulted => Undisturbed

\* What follows the first a bytes makes them more.
LEMMA BytesFollow ==
  ASSUME NEW a \in Nat, NEW b \in Nat
  PROVE  Bytes(0, a) \o Bytes(a, b) = Bytes(0, a + b)
<1>1. /\ Bytes(0, a) \in Seq(Int) /\ Len(Bytes(0, a)) = a
      /\ Bytes(a, b) \in Seq(Int) /\ Len(Bytes(a, b)) = b
      /\ Bytes(0, a + b) \in Seq(Int) /\ Len(Bytes(0, a + b)) = a + b
  BY DEF Bytes
<1>2. /\ \A k \in 1..a : Bytes(0, a)[k] = k - 1
      /\ \A k \in 1..b : Bytes(a, b)[k] = a + k - 1
      /\ \A k \in 1..(a + b) : Bytes(0, a + b)[k] = k - 1
  BY DEF Bytes
<1> DEFINE s == Bytes(0, a)
           t == Bytes(a, b)
           u == Bytes(0, a + b)
<1> HIDE DEF s, t, u
<1>3. /\ s \in Seq(Int) /\ Len(s) = a /\ t \in Seq(Int) /\ Len(t) = b
      /\ u \in Seq(Int) /\ Len(u) = a + b
      /\ \A k \in 1..a : s[k] = k - 1
      /\ \A k \in 1..b : t[k] = a + k - 1
      /\ \A k \in 1..(a + b) : u[k] = k - 1
  BY <1>1, <1>2 DEF s, t, u
<1>4. /\ s \o t \in Seq(Int) /\ Len(s \o t) = a + b
      /\ \A k \in 1..(a + b) : (s \o t)[k] = IF k =< a THEN s[k] ELSE t[k - a]
  BY <1>3, Seqs!ConcatProperties
<1>5. ASSUME NEW k \in 1..(a + b) PROVE (s \o t)[k] = u[k]
  <2>1. k =< a => k \in 1..a
    OBVIOUS
  <2>2. ~(k =< a) => k - a \in 1..b /\ a + (k - a) - 1 = k - 1
    OBVIOUS
  <2> QED
    BY <1>3, <1>4, <2>1, <2>2
<1>6. s \o t = u
  BY <1>3, <1>4, <1>5, Seqs!SeqEqual
<1> QED
  BY <1>6 DEF s, t, u

\* A range ends where the ranges up to it do; after the last one there are no bytes left.
LEMMA RangesFollow ==
  ASSUME total \in Nat \ {0}, count \in Nat \ {0}, NEW k \in 0..count
  PROVE  /\ Upto(k) \in Nat
         /\ k \in Ranges => /\ Upto(k) = Start(total, count, k)
                            /\ Upto(k + 1) = Start(total, count, k) + RangeLength(k)
         /\ k \notin Ranges => Upto(k) = total
         /\ Upto(0) = 0
<1> DEFINE c == ChunkSize(total, count)
<1>1. c \in Nat \ {0} /\ total =< count * c
  BY Chunk
<1> HIDE DEF c
<1>2. k * c \in Nat /\ (k + 1) * c = k * c + c
  BY <1>1
<1>3. k \in Ranges <=> k \in 0..(count - 1) /\ k * c < total
  BY DEF Ranges, Indices, Start, c
<1>4. Upto(k) = Least(total, k * c) /\ Upto(k + 1) = Least(total, (k + 1) * c)
  BY DEF Upto, c
<1>5. Upto(k) \in Nat
  BY <1>2, <1>4 DEF Least
<1>6. ASSUME k \in Ranges
      PROVE  /\ Upto(k) = Start(total, count, k)
             /\ Upto(k + 1) = Start(total, count, k) + RangeLength(k)
  <2>1. /\ Start(total, count, k) = k * c
        /\ RangeLength(k) = Least(total - 1, k * c + c - 1) - k * c + 1
    BY DEF Start, RangeLength, End, c
  <2> QED
    BY <1>1, <1>2, <1>3, <1>4, <1>6, <2>1 DEF Least
<1>7. ASSUME k \notin Ranges PROVE Upto(k) = total
  <2>1. k * c >= total
    <3>1. CASE k = count
      BY <1>1, <3>1
    <3>2. CASE k # count
      BY <1>2, <1>3, <1>7, <3>2
    <3> QED
      BY <3>1, <3>2
  <2> QED
    BY <1>2, <1>4, <2>1 DEF Least
<1>8. Upto(0) = 0
  BY <1>1 DEF Upto, Least, c
<1> QED
  BY <1>5, <1>6, <1>7, <1>8

\* A step without a fault disturbs nothing.
LEMMA StepUndisturbed == IInv /\ Undisturbed /\ ~faulted' /\ [Next]_vars => Undisturbed'
<1> SUFFICES ASSUME IInv, Undisturbed, ~faulted', [Next]_vars PROVE Undisturbed'
  OBVIOUS
<1>1. UNCHANGED source
  BY DEF Next, Main, Range, vars, Lookup, Probe, FailEarly, OpenPart, FailPart, EndPart,
         Assemble, AppendPart, Close, Verify, FailAssembly, FailRemoval, RemoveFiles, RemoveRoot,
         Extract, Clean
<1>2. /\ Ranges' = Ranges /\ Artifact' = Artifact
      /\ \A i : RangeLength(i)' = RangeLength(i) /\ Upto(i)' = Upto(i)
  BY <1>1 DEF source, Ranges, Artifact, RangeLength, Upto
<1>3. total \in Nat \ {0} /\ count \in Nat \ {0} /\ appended \in 0..count
  BY RangeAssumption DEF IInv, TypeOK
<1>4. part \in [Ranges -> PartState] /\ DOMAIN body = Ranges /\ phase \in Phase
  BY DEF IInv, TypeOK
<1>5. Artifact = Bytes(0, total)
  BY DEF Undisturbed, Artifact
<1> USE <1>1, <1>2 DEF source, Undisturbed
<1>6. ASSUME NEW i \in Ranges, OpenPart(i) PROVE Undisturbed'
  <2>1. phase = "downloading"
    BY <1>4, <1>6 DEF OpenPart, IInv, Joined, Phase
  <2>2. tempRoot
    BY <2>1 DEF IInv, Directory
  <2>3. /\ part' = [part EXCEPT ![i] = "writing"] /\ files' = files \cup {i}
        /\ UNCHANGED <<phase, body, appended, archive, extracted>>
    BY <1>6, <2>2 DEF OpenPart
  <2> QED
    BY <1>4, <2>1, <2>3
<1>7. ASSUME NEW i \in Ranges, EndPart(i) PROVE Undisturbed'
  <2>1. phase = "downloading"
    BY <1>4, <1>7 DEF EndPart, IInv, Joined, Phase
  <2>2. body' = [body EXCEPT ![i] = Bytes(Start(total, count, i), RangeLength(i))]
    BY <1>7 DEF EndPart
  <2>3. body'[i] = Bytes(Start(total, count, i), RangeLength(i))
    BY <1>4, <2>2
  <2>4. RangeLength(i) \in Nat
    BY <1>3, RangesInside
  <2>5. Len(body'[i]) = RangeLength(i)
    BY <2>3, <2>4 DEF Bytes
  <2>6. i \in files
    BY <1>7, <2>1 DEF EndPart
  <2>7. /\ part' = [part EXCEPT ![i] = "written"]
        /\ UNCHANGED <<phase, files, appended, archive, extracted>>
    BY <1>7, <2>5, <2>6 DEF EndPart, LengthMatches
  <2>8. \A j \in Ranges : j # i => part'[j] = part[j] /\ body'[j] = body[j]
    BY <1>4, <2>2, <2>7
  <2>9. part'[i] = "written"
    BY <1>4, <2>7
  <2> QED
    BY <2>1, <2>3, <2>6, <2>7, <2>8, <2>9
<1>8. CASE AppendPart
  <2>1. /\ archive' = archive \o body[appended] /\ appended' = appended + 1
        /\ appended \in Ranges /\ phase = "assembling"
        /\ UNCHANGED <<phase, part, body, files, extracted>>
    BY <1>8 DEF AppendPart
  <2>2. body[appended] = Bytes(Start(total, count, appended), RangeLength(appended))
    BY <2>1 DEF IInv, Joined
  <2>3. /\ Upto(appended) = Start(total, count, appended) /\ Upto(appended) \in Nat
        /\ Upto(appended + 1) = Start(total, count, appended) + RangeLength(appended)
    BY <1>3, <2>1, RangesFollow
  <2>4. RangeLength(appended) \in Nat
    BY <1>3, <2>1, RangesInside
  <2>5. archive' = Bytes(0, Upto(appended + 1))
    BY <2>1, <2>2, <2>3, <2>4, BytesFollow
  <2> QED
    BY <2>1, <2>5
<1>9. CASE Close
  <2>1. appended \notin Ranges /\ phase = "assembling" /\ phase' = "verifying"
        /\ UNCHANGED <<part, body, appended, archive, files, extracted>>
    BY <1>9 DEF Close
  <2>2. Upto(appended) = total
    BY <1>3, <2>1, RangesFollow
  <2> QED
    BY <1>5, <2>1, <2>2
<1>10. CASE Assemble
  <2>1. Upto(0) = 0 /\ Bytes(0, 0) = <<>>
    BY <1>3, RangesFollow DEF Bytes
  <2> QED
    BY <1>10, <2>1 DEF Assemble
<1>11. CASE Verify
  BY <1>11 DEF Verify
<1>12. CASE Extract \/ Clean
  BY <1>12 DEF Extract, Clean
<1>13. CASE Lookup \/ Probe
  BY <1>4, <1>13 DEF Lookup, Probe
<1>14. CASE \/ RemoveFiles \/ RemoveRoot \/ FailEarly \/ FailAssembly \/ FailRemoval
            \/ \E i \in Ranges : FailPart(i)
  BY <1>14 DEF RemoveFiles, RemoveRoot, FailEarly, FailAssembly, FailRemoval, FailPart
<1>15. CASE UNCHANGED vars
  BY <1>15 DEF vars
<1> QED
  BY <1>6, <1>7, <1>8, <1>9, <1>10, <1>11, <1>12, <1>13, <1>14, <1>15
  DEF Next, Main, Range

\* A download fails only where the listing, the server, the disk or the script is at
\* fault, and otherwise ends with the artifact extracted.
FailsForAReason ==
    ~faulted =>
        /\ phase \notin {"removing", "removingRoot", "failed"}
        /\ phase \in {"cleaning", "done"} => extracted = Artifact

\* For an archive of any size in any number of ranges, which end in any order: the parts
\* put together are the artifact, so that the digest refuses nothing it should accept
\* (buildRanges, and downloadArtifact's append of the parts).
THEOREM FaultlessNeverFails == Spec => []FailsForAReason
<1>1. Init => FaultlessInv
  BY DEF Init, FaultlessInv, Undisturbed
<1>2. IInv /\ FaultlessInv /\ [Next]_vars => FaultlessInv'
  <2>1. [Next]_vars /\ faulted => faulted'
    BY DEF Next, Main, Range, vars, Lookup, Probe, FailEarly, OpenPart, FailPart, EndPart,
       Assemble, AppendPart, Close, Verify, FailAssembly, FailRemoval, RemoveFiles, RemoveRoot,
         Extract, Clean
  <2> QED
    BY <2>1, StepUndisturbed DEF FaultlessInv
<1>3. FaultlessInv => FailsForAReason
  BY DEF FaultlessInv, Undisturbed, FailsForAReason
<1> QED
  BY <1>1, <1>2, <1>3, Invariance, PTL DEF Spec
=============================================================================
