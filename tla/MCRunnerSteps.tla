---------------------------- MODULE MCRunnerSteps ----------------------------
(***************************************************************************)
(* Small worlds for the tools of RunnerSteps.                              *)
(***************************************************************************)
EXTENDS RunnerSteps

-----------------------------------------------------------------------------
(* detect-ci-scope *)

\* Paths in two components, in the core every component needs, and of documents.  A
\* move stays in its component or among the documents: MCScope has the others.
ChangedPath ==
    {<<"mcp", "a", "x">>, <<"mcp", "b", "x">>, <<"core", "x">>, <<"core", "notes">>,
     <<"lock">>, <<"docs", "g">>, <<"readme.md">>}

Changes ==
    {[written |-> w, moves |-> {}, given |-> {}] : w \in SUBSET ChangedPath}
    \cup {[written |-> {}, moves |-> {<<<<"mcp", "a", "x">>, <<"mcp", "a", "y">>>>,
                                      <<<<"docs", "g">>, <<"docs", "h">>>>}, given |-> {}]}
    \cup {[written |-> {}, moves |-> {}, given |-> {p} \cup {q}] :
              p, q \in ChangedPath \cup {<<"mcp", "..", "x">>}}

\* AlwaysNeverSilentlyLess is about changes like these.
ASSUME ChangesAssumption == MovesAreCovered

Rule(path, below) == [path |-> path, tree |-> below]

Mcp == <<"mcp">>
Full == {Rule(<<"core">>, TRUE), Rule(<<"lock">>, FALSE)}
Ignored == {Rule(<<"core", "notes">>, FALSE), Rule(<<"docs">>, TRUE)}

-----------------------------------------------------------------------------
(* release-manifest, wrangler-pinned *)

LowerCase == [f \in File |-> IF f = "A" THEN "a" ELSE f]

\* Links that lead into the workspace, to the temporary directory itself and around
\* the workspace, which this runner keeps below its temporary directory.
Resolved ==
    [plain |-> <<"temp", "wrangler">>, linked |-> <<"temp", "work", "wrangler">>,
     around |-> <<"temp", "w">>, itself |-> <<"temp">>, outside |-> <<"home">>]

RunnerTemp == <<"temp">>
GithubWorkspace == <<"temp", "w", "repo">>

-----------------------------------------------------------------------------
(* runner-baseline *)

\* git prints two to four parts, one of them no number; -1 is NotANumber.
Git == {<<>>, <<2, 3>>, <<2, 1, 3>>, <<2, 2, 1>>, <<2, 2, 1, 1>>, <<2, 2, 1, -1>>, <<3, 0, 0>>}

Machines == [os : {"linux", "win32"}, sdks : SUBSET {"8", "9"}, node : {20, 22}, git : Git]

Requirement(os, sdk_, git) == [os |-> os, dotnet_sdk |-> sdk_, git_minimum |-> git]

FileRequirements == {<<>>, [os |-> "linux"], Requirement("linux", "8", <<2, 1, 0>>)}
InlineRequirements ==
    {<<>>, [node_major |-> 22], [unknown |-> "x"], Requirement("win32", "9", <<2, 2, 1, 1>>)}

-----------------------------------------------------------------------------
(* package-source-v2 *)

\* A package of the catalog.
Item(name, maturity, consumers, exception, retires) ==
    [name |-> name, maturity |-> maturity, consumers |-> consumers,
     exception |-> exception, retires |-> retires]

CatalogOf(time, items) == [producer |-> "kit", publishedAt |-> time, packages |-> items]

Catalogs ==
    {CatalogOf(1, <<Item("p", "stable", 2, FALSE, FALSE), Item("q", "deprecated", 0, FALSE, TRUE)>>),
     CatalogOf(2, <<Item("q", "incubating", 0, FALSE, FALSE), Item("p", "stable", 1, TRUE, FALSE)>>),
     CatalogOf(1, <<Item("p", "stable", 1, FALSE, FALSE)>>),
     CatalogOf(1, <<Item("p", "incubating", 0, FALSE, FALSE), Item("p", "stable", 2, FALSE, FALSE)>>)}

PackageSelections == {<<>>, <<"p">>, <<"p", "q">>, <<"q", "p">>, <<"p", "p">>}

EvidenceFiles ==
    {[registry |-> "1", artifact |-> "2", sbom |-> "3", attestation |-> "4", canary |-> c] :
         c \in {"5", "6", "unverified"}}
    \cup {[registry |-> "1", artifact |-> "2", sbom |-> "3", attestation |-> "4"]}

Coordinates == [repository : {"kit", "fork"}, commit : {"c1"}]

Alphabetic(a, b) == a = "p" /\ b = "q"

-----------------------------------------------------------------------------
(* the emitters *)

RunOfJob == [j \in Job |-> IF j = "j3" THEN <<"r", 2>> ELSE <<"r", 1>>]

\* emit-ci-phase writes a payload and its envelope into one directory and a line into
\* a file of the same name in another; the emitter beside it shares two of them.
Plans ==
    [e1 |-> <<[dir |-> "d1", base |-> "payload", kind |-> "replace"],
              [dir |-> "d1", base |-> "envelope", kind |-> "replace"],
              [dir |-> "d2", base |-> "payload", kind |-> "append"]>>,
     e2 |-> <<[dir |-> "d1", base |-> "envelope", kind |-> "replace"],
              [dir |-> "d2", base |-> "payload", kind |-> "append"]>>]

-----------------------------------------------------------------------------
(* the pre-push hook *)

\* Main is built on a secret that was taken out later; a topic branches off before, and
\* leads to a commit with broken tests and one with a test more.  Somebody else has
\* another commit.
Ancestors ==
    [root |-> {"root"}, leak |-> {"root", "leak"}, clean |-> {"root", "leak", "clean"},
     topic |-> {"root", "topic"}, broken |-> {"root", "topic", "broken"},
     more |-> {"root", "topic", "more"}, foreign |-> {"root", "foreign"}]

TestsOf == [c \in Commit |-> IF c = "more" THEN {"a", "b"} ELSE {"a"}]

-----------------------------------------------------------------------------
(* the shared library *)

\* A tree of its topmost node and its entries, each a key and a tree.
Tree(node, entries) ==
    [p \in {<<>>} \cup UNION {{<<i>> \o q : q \in DOMAIN entries[i][2]} : i \in DOMAIN entries} |->
        CASE p = <<>> -> node
          [] Len(p) = 1 -> [entries[p[1]][2][<<>>] EXCEPT !.key = entries[p[1]][1]]
          [] OTHER -> entries[p[1]][2][Tail(p)]]

Scalar == Tree([kind |-> "scalar", key |-> ""], <<>>)
Text(t) == Tree([kind |-> "text", key |-> "", text |-> t], <<>>)
Fields(f) == Tree([kind |-> "object", key |-> ""], f)
Items(i) == Tree([kind |-> "list", key |-> ""], [n \in DOMAIN i |-> <<"", i[n]>>])

Plain == {Scalar, Text(<<"p", "s", "s", "p">>)}
Nested == {Fields(f) : f \in {<<>>, <<<<"secret", Scalar>>>>, <<<<"plain", Text(<<"s", "s">>)>>>>}}
          \cup {Items(<<v>>) : v \in Plain}
Deep == {Fields(<<<<"plain", n>>>>) : n \in Nested} \cup {Items(<<n>>) : n \in Nested}
Part == Plain \cup Nested \cup Deep

\* What is too deep, has too many keys or a bad one, and what just is not.
Trees ==
    {Text(t) : t \in BoundedSeq({"p", "s"}, 6)} \cup Part
    \cup {Items(<<v, w>>) : v, w \in Part}
    \cup {Items(<<v, w, v>>) : v, w \in Plain}
    \cup {Fields(<<<<k, v>>, <<l, w>>>>) :
              <<k, l>> \in {<<"plain", "secret">>, <<"secret", "other">>, <<"plain", "bad">>},
              v, w \in Part}
    \cup {Fields(<<<<"plain", v>>, <<"other", w>>, <<"secret", v>>>>) : v, w \in Plain}

Paths ==
    [absolute : BOOLEAN, names : {n \in BoundedSeq({"a", "..", ".", "", "..x"}, 3) : n # <<>>}]
=============================================================================
