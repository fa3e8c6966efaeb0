---------------------------- MODULE ScopeDetection ----------------------------
(***************************************************************************)
(* detect-ci-scope: what of a repository a pull request has to validate.   *)
(*                                                                         *)
(* A path is the sequence of its names.  A change is what the head commit  *)
(* did: paths it wrote or deleted, and moves git recognises as renames.    *)
(* What `git diff --name-only` prints of it (external) is another thing: a *)
(* rename shows its destination only, and a name outside ASCII comes       *)
(* quoted.  A definition marked "Defect" is no part of the system.         *)
(***************************************************************************)
EXTENDS Naturals, FiniteSets, SequencesExt

CONSTANTS
    Change,         \* [written, moves, given]: see Touched and Listing
    Unusual,        \* names git quotes
    Quote,          \* the name a quoted path begins with
    Root,           \* component-root, <<>> when there is none
    FullRules, IgnoredRules,   \* [path, tree]: a path, or all below it
    DocRoots, Markdown,        \* directories of documents, names of root documents
    MaxPaths        \* MAX_PATHS

VARIABLES
    change,         \* what the head commit did
    scope           \* the outputs, or Undecided

vars == <<change, scope>>

Undecided == [reason |-> "undecided"]
Unsafe == [reason |-> "unsafe-path"]

-----------------------------------------------------------------------------
\* External: the paths git prints for a change.
Printed(p) == IF ToSet(p) \cap Unusual # {} THEN <<Quote>> \o p ELSE p
Listing(c) == {Printed(p) : p \in c.written \cup {m[2] : m \in c.moves}}

Matches(p, rule) == IF rule.tree THEN IsStrictPrefix(rule.path, p) ELSE p = rule.path
MatchesAny(p, rules) == \E rule \in rules : Matches(p, rule)

DocsOnly(paths) ==
    /\ paths # {}
    /\ \A p \in paths : \/ p[1] \in DocRoots /\ Len(p) > 1
                        \/ p[1] \in Markdown /\ Len(p) = 1

Components(paths) ==
    IF Root = <<>> THEN {} ELSE {p[Len(Root) + 1] : p \in {q \in paths : IsStrictPrefix(Root, q)}}

Everything(reason) == [paths |-> {}, components |-> {}, docs |-> FALSE, full |-> TRUE, reason |-> reason]

\* Defect: an ignored path triggers nothing.
TriggersUnlessIgnored(all) ==
    \E p \in all : MatchesAny(p, FullRules) /\ ~MatchesAny(p, IgnoredRules)

Triggers(all) == \E p \in all : MatchesAny(p, FullRules)

\* The scope of the listed paths.
Scoped(all) ==
    LET runtime == {p \in all : ~MatchesAny(p, IgnoredRules)}
    IN  [paths |-> all, components |-> Components(runtime), docs |-> DocsOnly(all),
         full |-> Triggers(all),
         reason |-> IF Triggers(all) THEN "full-trigger"
                    ELSE IF runtime = {} THEN "ignored-only" ELSE "scoped"]

Bounded(all) ==
    IF all = {} THEN Everything("empty-diff")
    ELSE IF Cardinality(all) > MaxPaths THEN Everything("diff-too-large")
    ELSE Scoped(all)

-----------------------------------------------------------------------------
Init == change \in Change /\ scope = Undecided

\* The caller hands over the list itself; a path that climbs ends the step.
DetectGiven ==
    /\ scope = Undecided /\ change.given # {}
    /\ scope' = IF \E p \in change.given : ".." \in ToSet(p)
                THEN Unsafe ELSE Bounded(change.given)
    /\ UNCHANGED change

\* One of the commits is not named, or git does not know it.
DetectNothing ==
    /\ scope = Undecided /\ change.given = {}
    /\ \E reason \in {"missing-diff-base", "diff-failed"} : scope' = Everything(reason)
    /\ UNCHANGED change

DetectDiff ==
    /\ scope = Undecided /\ change.given = {}
    /\ scope' = Bounded(Listing(change))
    /\ UNCHANGED change

Next == DetectGiven \/ DetectNothing \/ DetectDiff

Spec == Init /\ [][Next]_vars

-----------------------------------------------------------------------------
TypeOK ==
    /\ change \in Change
    /\ \/ scope \in {Undecided, Unsafe}
       \/ scope.full \in BOOLEAN /\ Cardinality(scope.paths) =< MaxPaths

\* The paths whose content differs between the commits, both ends of a move among them.
Touched(c) ==
    IF c.given # {} THEN c.given ELSE c.written \cup UNION {{m[1], m[2]} : m \in c.moves}

\* action.yml says of `full`: "True when scope cannot be proven or a full-trigger
\* path changed."  A path that was moved away changed too.
FullWhenTriggered ==
    \/ scope \in {Undecided, Unsafe}
    \/ scope.full
    \/ \A p \in Touched(change) : ~MatchesAny(p, FullRules)

\* "callers validate more, never silently less": what was touched and is not
\* ignored is a named component, or everything is validated; a touched trigger
\* validates everything; and a change called documents only touched nothing else.
NeverSilentlyLess ==
    scope \notin {Undecided, Unsafe} /\ ~scope.full =>
        /\ FullWhenTriggered
        /\ Components({p \in Touched(change) : ~MatchesAny(p, IgnoredRules)}) \subseteq scope.components
        /\ scope.docs => DocsOnly(Touched(change))
=============================================================================
