------------------------------- MODULE Contract -------------------------------
(***************************************************************************)
(* lib/contract.mjs: redactBounded, which what callers add to an event or  *)
(* a manifest goes through, and resolveInside, which every path does.      *)
(*                                                                         *)
(* Metadata is a tree, a function from positions to nodes.  A position is  *)
(* the sequence of the numbers of the entries that lead to it, <<>> the    *)
(* whole value.  One call of visit is one step; the calls it makes for the *)
(* entries of a list or an object follow in their order.                   *)
(*                                                                         *)
(* A text is a sequence of "p" and "s", a byte each; a run of at least     *)
(* MinToken "s" is what SECRET_VALUE_PATTERNS match.  A cleaned text is    *)
(* the bytes of it that were copied and the ones that [REDACTED] stands    *)
(* at, which counts as one byte; that a character of several bytes may be  *)
(* cut in two is left out.  "Defect" marks what is no part of the system.  *)
(***************************************************************************)
EXTENDS Naturals, FiniteSets, SequencesExt

CONSTANTS
    MinToken, MaxDepth, MaxKeys, MaxString,
    Metadata,       \* trees a caller may give
    GivenPath,      \* [absolute, names]: paths a caller may give
    Dotted          \* the names that begin with two dots

VARIABLES
    untrusted,      \* what is checked: [kind, value]
    verdict,        \* "visiting", "resolving", "returned" or "refused"
    unvisited,      \* the positions visit is still to be called for
    keys,           \* visitedKeys
    trusted         \* what is returned: a tree, or the names below the root

vars == <<untrusted, verdict, unvisited, keys, trusted>>

Container == {"list", "object"}

\* What JSON.parse may return.
IsTree(tree) ==
    /\ IsFiniteSet(DOMAIN tree) /\ DOMAIN tree \subseteq Seq(Nat \ {0})
    /\ <<>> \in DOMAIN tree
    /\ \A p \in DOMAIN tree :
          /\ tree[p].kind \in {"scalar", "text"} \cup Container
          /\ tree[p].kind = "text" => tree[p].text \in Seq({"p", "s"})
          /\ p # <<>> => Front(p) \in DOMAIN tree /\ tree[Front(p)].kind \in Container

-----------------------------------------------------------------------------
(* redactBounded *)

\* The bytes of a text that are in a token, and the first ones of the tokens.
InToken(text) ==
    {i \in DOMAIN text : \E a, b \in DOMAIN text :
        /\ i \in a..b /\ b - a + 1 >= MinToken
        /\ \A k \in a..b : text[k] = "s"}

TokenStart(text) == {i \in InToken(text) : i - 1 \notin InToken(text)}

\* What is left of a text once every token is replaced, and the first bytes of it.
Replaced(text) == (DOMAIN text \ InToken(text)) \cup TokenStart(text)

Cut(bytes) == {i \in bytes : Cardinality({j \in bytes : j < i}) < MaxString}

\* Defect: the text is cut before it is searched for tokens.
CutThenReplaced(text) ==
    LET begin == SubSeq(text, 1, IF Len(text) > MaxString THEN MaxString ELSE Len(text))
    IN  [copied |-> Replaced(begin) \ InToken(begin), marks |-> TokenStart(begin)]

Cleaned(text) ==
    [copied |-> Cut(Replaced(text)) \ InToken(text),
     marks |-> Cut(Replaced(text)) \cap InToken(text)]

Node(p) == untrusted.value[p]

\* The entries of a list or of an object, and whether p is one of an object.
Entries(p) == {q \in DOMAIN untrusted.value : q # <<>> /\ Front(q) = p}

Keyed(p) == p # <<>> /\ Node(Front(p)).kind = "object"

\* SECRET_KEY matches the key.
SecretKey(p) == Keyed(p) /\ Node(p).key = "secret"

\* p comes before q in the value.
Precedes(p, q) ==
    \E n \in DOMAIN p \cap DOMAIN q : p[n] < q[n] /\ \A i \in 1..(n - 1) : p[i] = q[i]

\* visit is called for p next.
Calls(p) == verdict = "visiting" /\ p \in unvisited /\ \A q \in unvisited : ~Precedes(q, p)

\* Defect: the keys of an object are counted by themselves.
KeysOfOne(p) == IF Keyed(p) THEN p[Len(p)] ELSE keys

\* The keys visited with p.
KeysWith(p) == IF Keyed(p) THEN keys + 1 ELSE keys

\* The call throws, or the one that makes it does for the key of p.
Throws(p) ==
    \/ Keyed(p) /\ (KeysWith(p) > MaxKeys \/ Node(p).key = "bad")
    \/ /\ ~SecretKey(p) /\ Node(p).kind \in Container
       /\ Len(p) >= MaxDepth \/ (Node(p).kind = "list" /\ Cardinality(Entries(p)) > MaxKeys)

\* What the call for p returns, and the calls it makes.
Visited(p, node, calls) ==
    /\ trusted' = [q \in DOMAIN trusted \cup {p} |-> IF q = p THEN node ELSE trusted[q]]
    /\ unvisited' = (unvisited \ {p}) \cup calls
    /\ keys' = KeysWith(p)
    /\ UNCHANGED <<untrusted, verdict>>

Redacted == [kind |-> "redacted"]

Redact(p) == Calls(p) /\ ~Throws(p) /\ SecretKey(p) /\ Visited(p, Redacted, {})

Copy(p) ==
    /\ Calls(p) /\ ~Throws(p) /\ ~SecretKey(p)
    /\ \/ Node(p).kind = "scalar" /\ Visited(p, [kind |-> "scalar"], {})
       \/ /\ Node(p).kind = "text"
          /\ Visited(p, [kind |-> "text", bytes |-> Cleaned(Node(p).text)], {})

Enter(p) ==
    /\ Calls(p) /\ ~Throws(p) /\ ~SecretKey(p) /\ Node(p).kind \in Container
    /\ Visited(p, [kind |-> Node(p).kind], Entries(p))

\* An error leaves nothing of the value.
Throw(p) ==
    /\ Calls(p) /\ Throws(p)
    /\ verdict' = "refused" /\ trusted' = <<>>
    /\ UNCHANGED <<untrusted, unvisited, keys>>

Return ==
    /\ verdict = "visiting" /\ unvisited = {} /\ verdict' = "returned"
    /\ UNCHANGED <<untrusted, unvisited, keys, trusted>>

-----------------------------------------------------------------------------
(* assertSafeRelativePath and resolveInside *)

\* Defect: a path is taken as it is written.
NamesAsWritten(names) == names

\* What normalize drops.
Blank == {"", "."}

SafeNames(names) ==
    LET kept[n \in 0..Len(names)] ==
            IF n = 0 THEN <<>>
            ELSE IF names[n] \in Blank THEN kept[n - 1]
            ELSE Append(kept[n - 1], names[n])
    IN  kept[Len(names)]

\* normalize keeps a trailing slash, so "./" is no "." and stands for the root.
IsDot(names) == SafeNames(names) = <<>> /\ (Len(names) = 1 \/ names[Len(names)] # "")

\* A first name that begins with ".." is refused, also where it is the name of a child.
Escapes(path) ==
    \/ path.absolute
    \/ ".." \in ToSet(path.names)
    \/ IsDot(path.names)
    \/ \E name \in Dotted : SafeNames(path.names) # <<>> /\ SafeNames(path.names)[1] = name

Resolve ==
    /\ verdict = "resolving" /\ ~Escapes(untrusted.value)
    /\ verdict' = "returned" /\ trusted' = SafeNames(untrusted.value.names)
    /\ UNCHANGED <<untrusted, unvisited, keys>>

RefusePath ==
    /\ verdict = "resolving" /\ Escapes(untrusted.value) /\ verdict' = "refused"
    /\ UNCHANGED <<untrusted, unvisited, keys, trusted>>

-----------------------------------------------------------------------------
InitMetadata ==
    /\ untrusted \in {[kind |-> "metadata", value |-> tree] : tree \in Metadata}
    /\ verdict = "visiting" /\ unvisited = {<<>>}

InitPath ==
    /\ untrusted \in {[kind |-> "path", value |-> path] : path \in GivenPath}
    /\ verdict = "resolving" /\ unvisited = {}

Init == (InitMetadata \/ InitPath) /\ keys = 0 /\ trusted = <<>>

Next ==
    \/ \E p \in unvisited : Redact(p) \/ Copy(p) \/ Enter(p) \/ Throw(p)
    \/ Return
    \/ Resolve \/ RefusePath

Spec == Init /\ [][Next]_vars

-----------------------------------------------------------------------------
TypeOK ==
    /\ verdict \in {"visiting", "resolving", "returned", "refused"}
    /\ untrusted.kind \in {"metadata", "path"}
    /\ keys \in 0..MaxKeys
    /\ untrusted.kind = "metadata" =>
          /\ unvisited \cup DOMAIN trusted \subseteq DOMAIN untrusted.value
          /\ \A p \in DOMAIN trusted :
                trusted[p].kind \in {"scalar", "text", "redacted"} \cup Container

\* A tree that redactBounded returns has no part of a token, however a text is cut, and
\* nothing of what a secret key names; every text is short, and the tree is as deep and
\* has as many keys as allowed.  It is whole: every entry is in a list or an object of
\* it, and these have all their entries.
MetadataIsClean ==
    untrusted.kind = "metadata" /\ verdict = "returned" =>
        /\ Cardinality({p \in DOMAIN trusted : Keyed(p)}) =< MaxKeys
        /\ <<>> \in DOMAIN trusted
        /\ \A p \in DOMAIN trusted :
              /\ p # <<>> =>
                    Front(p) \in DOMAIN trusted /\ trusted[Front(p)].kind \in Container
              /\ trusted[p].kind \in Container =>
                    Len(p) < MaxDepth /\ Entries(p) \subseteq DOMAIN trusted
              /\ SecretKey(p) => trusted[p] = Redacted
              /\ trusted[p].kind = "text" =>
                    LET bytes == trusted[p].bytes
                    IN  /\ bytes.copied \cap InToken(Node(p).text) = {}
                        /\ Cardinality(bytes.copied \cup bytes.marks) =< MaxString

\* Where the operating system ends up that follows the names one by one from the root; a
\* name ".." is left of a step out of the root.
Followed(names) ==
    LET at[n \in 0..Len(names)] ==
            IF n = 0 THEN <<>>
            ELSE IF names[n] \in Blank THEN at[n - 1]
            ELSE IF names[n] # ".." THEN Append(at[n - 1], names[n])
            ELSE IF at[n - 1] = <<>> \/ Last(at[n - 1]) = ".." THEN Append(at[n - 1], "..")
            ELSE Front(at[n - 1])
    IN  at[Len(names)]

\* A resolved path is where its names lead, the root or below it.
PathsStayInside ==
    untrusted.kind = "path" /\ verdict = "returned" =>
        /\ ~untrusted.value.absolute
        /\ trusted = Followed(untrusted.value.names)
        /\ ".." \notin ToSet(trusted)
=============================================================================
