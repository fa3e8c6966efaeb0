----------------------------- MODULE PackageSource -----------------------------
(***************************************************************************)
(* package-source-v2: the record of a published set of packages.           *)
(*                                                                         *)
(* A SHA-256 of canonical JSON is the value hashed: equal exactly when the *)
(* values are.  Strings that only have to be well formed are left out.     *)
(* A definition marked "Defect" is no part of the system.                  *)
(***************************************************************************)
EXTENDS Naturals, FiniteSets, SequencesExt

CONSTANTS
    Catalog,        \* catalog files: [producer, publishedAt, packages: a sequence]
    Selection,      \* sequences of names a publisher may ask for
    EvidenceFile,   \* functions from evidence names to a verified digest or Unverified
    Unverified,
    Coordinate,     \* [repository, commit] of the source
    Time,           \* occurredAt
    Before(_, _),   \* the order of names
    MaxRecords      \* bound on records

VARIABLES
    stage, input, record,   \* one run: its inputs, and the record it builds
    published       \* history: [input, record] of the runs that renamed theirs

vars == <<stage, input, record, published>>

EvidenceName == {"registry", "artifact", "sbom", "attestation", "canary"}
NoRecord == [recordId |-> "none"]

Input == [catalog: Catalog, names: Selection, evidence: EvidenceFile,
          source: Coordinate, occurredAt: Time]

-----------------------------------------------------------------------------
\* packageMetadata: the rules of adoption.
Adopted(pkg) ==
    /\ pkg.maturity = "stable" => pkg.consumers >= 2 \/ pkg.exception
    /\ pkg.maturity = "deprecated" => pkg.retires

Names(packages) == {packages[i].name : i \in DOMAIN packages}

\* Defect: the order asked for is kept.
Unsorted(names) == names

\* sortedUniqueStrings, where it does not throw.
Sorted(names) ==
    CHOOSE s \in [1..Cardinality(ToSet(names)) -> ToSet(names)] :
        \A i, j \in DOMAIN s : i < j => Before(s[i], s[j])

\* selectedPackages: the whole catalog is valid, and every name is in it once.
Selects(catalog, names) ==
    /\ catalog.packages # <<>> /\ names # <<>>
    /\ \A i \in DOMAIN catalog.packages : Adopted(catalog.packages[i])
    /\ IsInjective(names)
    /\ Cardinality(Names(catalog.packages)) = Len(catalog.packages)
    /\ ToSet(names) \subseteq Names(catalog.packages)

Package(catalog, name) ==
    CHOOSE pkg \in ToSet(catalog.packages) : pkg.name = name

\* normalizedEvidence: all five, verified, and nothing else.
Verified(evidence) ==
    DOMAIN evidence = EvidenceName /\ \A e \in EvidenceName : evidence[e] # Unverified

Accepts(in) ==
    /\ in.source.repository = in.catalog.producer
    /\ in.occurredAt >= in.catalog.publishedAt
    /\ Selects(in.catalog, in.names)
    /\ Verified(in.evidence)

\* createPackageSourceV2: recordId hashes the identity, the digest the payload.
Record(in) ==
    LET packages == [i \in DOMAIN Sorted(in.names) |-> Package(in.catalog, Sorted(in.names)[i])]
        identity == <<in.catalog.producer, in.occurredAt, in.catalog.publishedAt, in.source,
                      in.catalog, packages, in.evidence>>
        payload == <<in.catalog.publishedAt, in.catalog, in.evidence, packages>>
    IN  [recordId |-> identity, digest |-> payload, occurredAt |-> in.occurredAt,
         contentDigest |-> in.catalog, packages |-> packages, evidence |-> in.evidence]

Init ==
    /\ stage = "start" /\ input \in Input /\ record = NoRecord /\ published = {}

Build ==
    /\ stage = "start" /\ Accepts(input)
    /\ record' = Record(input)
    /\ stage' = "built"
    /\ UNCHANGED <<input, published>>

\* The record appears by rename, then the outputs name it.
Publish ==
    /\ stage = "built"
    /\ published' = published \cup {[input |-> input, record |-> record]}
    /\ stage' = "published"
    /\ UNCHANGED <<input, record>>

\* The next publication, after one that was refused, failed, killed or done.
RunAgain ==
    /\ Cardinality(published) < MaxRecords
    /\ stage' = "start" /\ record' = NoRecord
    /\ input' \in Input
    /\ UNCHANGED published

Next == Build \/ Publish \/ RunAgain

Spec == Init /\ [][Next]_vars

-----------------------------------------------------------------------------
TypeOK ==
    /\ stage \in {"start", "built", "published"}
    /\ input \in Input /\ (stage = "start" <=> record = NoRecord)
    /\ Cardinality(published) =< MaxRecords

\* One publication has one record, whatever the order its names were given in, and
\* two publications never share an id or a digest; a record names every selected
\* package once, adopted, with all its evidence.
RecordIdIdentifies ==
    /\ \A p, q \in published :
          LET same == [p.input EXCEPT !.names = ToSet(@)] = [q.input EXCEPT !.names = ToSet(@)]
          IN  /\ same <=> p.record.recordId = q.record.recordId
              /\ same => p.record = q.record
              /\ p.record.digest = q.record.digest =>
                    p.record.packages = q.record.packages /\ p.record.evidence = q.record.evidence
    /\ \A p \in published :
          /\ Names(p.record.packages) = ToSet(p.input.names)
          /\ Len(p.record.packages) = Cardinality(ToSet(p.input.names))
          /\ \A e \in EvidenceName : p.record.evidence[e] # Unverified
=============================================================================
