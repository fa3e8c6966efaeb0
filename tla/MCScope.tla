------------------------------- MODULE MCScope -------------------------------
(* A repository of two components, with moves between and out of them. *)
EXTENDS ScopeDetection

Everywhere ==
    {<<"mcp", "a", "x">>, <<"mcp", "b", "x">>, <<"core", "x">>, <<"lock">>, <<"docs", "g">>}

\* Any files written or deleted, and any move of one of them to a new name.
Changes ==
    {[written |-> w, moves |-> {}, given |-> {}] : w \in SUBSET Everywhere}
    \cup {[written |-> w, moves |-> {<<p, q>>}, given |-> {}] :
              w \in {{}, {<<"mcp", "b", "x">>}}, p \in Everywhere,
              q \in {<<"mcp", "a", "new">>, <<"docs", "new">>, <<"core", "new">>}}

Rule(path, below) == [path |-> path, tree |-> below]
Mcp == <<"mcp">>
Full == {Rule(<<"core">>, TRUE), Rule(<<"lock">>, FALSE)}
Ignored == {Rule(<<"docs">>, TRUE)}
=============================================================================
