---------------------------- MODULE ReleaseManifest ----------------------------
(***************************************************************************)
(* release-manifest: createReleaseManifest over a release tree that is     *)
(* built again between attempts, each of which may be killed anywhere.     *)
(*                                                                         *)
(* An entry of the tree is <<kind, name, content>>.  A manifest is the set *)
(* of entries it lists, and a hash is the manifest it was taken of.  Every *)
(* attempt has a process id of its own, which names its temporary file.    *)
(* A definition marked "Defect" is no part of the system.                  *)
(***************************************************************************)
EXTENDS Naturals, FiniteSets

CONSTANTS
    File, Content,  \* names in the tree and what they may hold
    Absent,         \* no content; also no manifest and no hash
    Partial,        \* a hash file cut short
    Folded,         \* Folded[f]: f in lower case
    Special,        \* names the build makes symbolic links or devices
    MaxFiles,       \* max-files
    LastAttempt     \* bound on attempts

VARIABLES
    tree,           \* tree[f]: the content of f, or Absent
    temporaries,    \* temporary files present: [attempt -> entries] pairs
    manifest,       \* release-manifest.json
    digest,         \* release-manifest.json.sha256
    listing,        \* the entries this attempt walked
    stage, attempt

vars == <<tree, temporaries, manifest, digest, listing, stage, attempt>>

Present == {f \in File : tree[f] # Absent}

\* Everything below the root.
Entries ==
    {<<"file", f, tree[f]>> : f \in Present}
    \cup {<<"temporary", t[1], t[2]>> : t \in temporaries}
    \cup {e \in {<<"manifest", 0, manifest>>, <<"hash", 0, digest>>} : e[3] # Absent}

\* Defect: only the manifest is left out.
ExcludedManifest == {"manifest"}

Excluded == {"manifest", "hash"}

Walked == {e \in Entries : e[1] \notin Excluded}

\* walkFiles throws: a link or device, two names that differ in case only, too many.
Refused ==
    \/ Present \cap Special # {}
    \/ \E f, g \in Present : f # g /\ Folded[f] = Folded[g]
    \/ Cardinality(Walked) > MaxFiles

Init ==
    /\ tree \in [File -> Content \cup {Absent}]
    /\ temporaries = {} /\ manifest = Absent /\ digest = Absent
    /\ listing = {} /\ stage = "built" /\ attempt = 1

-----------------------------------------------------------------------------
Walk ==
    /\ stage = "built" /\ ~Refused
    /\ listing' = Walked
    /\ stage' = "walked"
    /\ UNCHANGED <<tree, temporaries, manifest, digest, attempt>>

\* A kill in the write only cuts short what a later attempt lists of this file.
WriteTemporary ==
    /\ stage = "walked"
    /\ temporaries' = temporaries \cup {<<attempt, listing>>}
    /\ stage' = "written"
    /\ UNCHANGED <<tree, manifest, digest, listing, attempt>>

Rename ==
    /\ stage = "written"
    /\ manifest' = listing
    /\ temporaries' = temporaries \ {<<attempt, listing>>}
    /\ stage' = "renamed"
    /\ UNCHANGED <<tree, digest, listing, attempt>>

\* writeFile of the hash, opened and then filled in place.
OpenHash ==
    /\ stage = "renamed"
    /\ digest' = Partial
    /\ stage' = "opened"
    /\ UNCHANGED <<tree, temporaries, manifest, listing, attempt>>

FillHash ==
    /\ stage = "opened"
    /\ digest' = listing
    /\ stage' = "published"
    /\ UNCHANGED <<tree, temporaries, manifest, listing, attempt>>

\* The attempt is killed, refuses the tree, fails to write, or is done; the tree is
\* built once more over what it left.
BuildAgain ==
    /\ attempt < LastAttempt
    /\ stage' = "built" /\ attempt' = attempt + 1 /\ listing' = {}
    /\ \E f \in File, c \in Content \cup {Absent} : tree' = [tree EXCEPT ![f] = c]
    /\ UNCHANGED <<temporaries, manifest, digest>>

Next == Walk \/ WriteTemporary \/ Rename \/ OpenHash \/ FillHash \/ BuildAgain

Spec == Init /\ [][Next]_vars

-----------------------------------------------------------------------------
TypeOK ==
    /\ tree \in [File -> Content \cup {Absent}]
    /\ attempt \in 1..LastAttempt
    /\ stage \in {"built", "walked", "written", "renamed", "opened", "published"}
    /\ \A t \in temporaries : t[1] \in 1..attempt

\* A manifest whose path was published lists what is in the tree besides it and its
\* hash, with the content that is there, and the hash beside it is its own:
\* whatever killed attempts left in the tree.
PublishedDescribesTree ==
    stage = "published" =>
        /\ manifest = {e \in Entries : e[1] \notin {"manifest", "hash"}}
        /\ digest = manifest
=============================================================================
