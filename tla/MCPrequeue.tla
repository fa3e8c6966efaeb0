------------------------------ MODULE MCPrequeue ------------------------------
(* An instance of Prequeue: a registered package event, a registered         *)
(* validation, both legacy events and a status query.                        *)
EXTENDS Prequeue

MCWorkload ==
    [package |-> [repository |-> "hub", package |-> TRUE, priority |-> 40, weight |-> 2, lane |-> "Build"],
     skills |-> [repository |-> "hub", package |-> FALSE, priority |-> 10, weight |-> 1, lane |-> "Background"]]

MCLegacy == [currency |-> "repositories", zap |-> "mode"]

Path(names, ref) == [producer |-> "kit", names |-> names, ref |-> ref]

\* An input that fits every event, without a native record.
Plain(event) ==
    [operation |-> "defer", id |-> Unset, event |-> event, repository |-> "hub",
     priority |-> Unset, weight |-> Unset, lane |-> Unset, deadline |-> Unset,
     repositories |-> 50, scope |-> "nightly", producer |-> "kit", commit |-> "c1",
     path |-> Path(<<"f">>, "c1"), digest |-> "d1", content |-> "d1",
     packages |-> <<"p", "q">>, versions |-> {"p", "q"},
     recordCommit |-> Unset, recordPath |-> Unset, recordBlob |-> Unset,
     recordDigest |-> Unset, recordRun |-> Unset]

WithRecord ==
    [Plain("package") EXCEPT !.recordCommit = "c2", !.recordPath = Path(<<"r">>, "c2"),
                             !.recordBlob = "b", !.recordDigest = "d2", !.recordRun = 1]

MCWellFormed ==
    {Plain(event) : event \in {"package", "skills", "currency", "zap"}}
    \cup {WithRecord, [Plain("zap") EXCEPT !.operation = "status", !.id = "id1"]}

MCAlternative ==
    [event |-> {"zap", "unknown"}, id |-> {"id2", Malformed}, repository |-> {"other"},
     priority |-> {0, 40, 79, 80}, weight |-> {2, 5}, lane |-> {"Build", "Azure"},
     deadline |-> {0, 24}, repositories |-> {0, 51}, scope |-> {"full"},
     commit |-> {"c2", Malformed}, path |-> {Path(<<"..", "f">>, "c1"), Path(<<>>, "c1"), Path(<<"f">>, "c2")},
     digest |-> {"d2"}, content |-> {"d2"}, packages |-> {<<"p">>, <<"p", "q", "p">>, <<>>},
     versions |-> {{"p"}, {"p", "r"}}, recordCommit |-> {Unset, "c1"},
     recordPath |-> {Unset, Path(<<"r", "..">>, "c2"), Path(<<"r">>, "c1")},
     recordRun |-> {Unset, 0}]
=============================================================================
