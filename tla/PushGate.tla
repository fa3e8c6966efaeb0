------------------------------- MODULE PushGate -------------------------------
(***************************************************************************)
(* .githooks/pre-push: what a push publishes was scanned for secrets and   *)
(* tested.                                                                 *)
(*                                                                         *)
(* The hook reads HEAD once, then the updates git advertises; meanwhile    *)
(* HEAD may move under it, and other pushers move the remote's branches.   *)
(* git, the scanners and the server are external; the server takes an      *)
(* update only from the tip it advertised.  The tests run on the checked   *)
(* out tree, which is taken for HEAD's.  Any check or tool may refuse.     *)
(* A definition marked "Defect" is no part of the system.                  *)
(***************************************************************************)
EXTENDS Naturals, FiniteSets

CONSTANTS
    Branch, Commit,
    Local,          \* the commits in the local repository
    NoCommit,       \* the id of all zeros
    History,        \* History[c]: c and all it is built on
    Secret, Broken, \* commits that add a secret, trees whose tests fail
    Tests,          \* Tests[c]: the test files of a commit
    Selection,      \* CONTRACT_TESTS
    MaxCommits      \* outgoing commits of one push, 500

VARIABLES
    head, remote,   \* HEAD, and the remote's branches
    stage,
    updates,        \* what git advertised: branch |-> [new, old]
    pushed,         \* HEAD_SHA
    todo,           \* branches not yet read
    outgoing, total,   \* commits of the ranges, and their number
    moved,          \* history: HEAD left the pushed commit, and came back, after
                    \* the look at it that precedes the tests
    accepted        \* branches the server updated

vars == <<head, remote, stage, updates, pushed, todo, outgoing, total, moved, accepted>>

Known(c) == IF c = NoCommit THEN {} ELSE History[c]

\* Defect: a new branch publishes its tip.
TipIfNew(old, new) == IF old = NoCommit THEN {new} ELSE Known(new) \ Known(old)

\* A new branch can publish any ancestor.
Outgoing(old, new) == Known(new) \ Known(old)

Init ==
    /\ head \in Local /\ remote \in [Branch -> Commit \cup {NoCommit}]
    /\ stage = "idle" /\ updates = [b \in {} |-> NoCommit] /\ pushed = NoCommit
    /\ todo = {} /\ outgoing = {} /\ total = 0 /\ moved = "no" /\ accepted = {}

-----------------------------------------------------------------------------
(* the world *)

Running == {"called", "reading", "scanning", "scanned", "checked", "tested"}

\* A move before the hook looks at HEAD again is like one while it scans.
Move ==
    /\ stage \in {"scanned", "checked", "tested"}
    /\ head' \in Local
    /\ moved' = IF stage = "scanned" \/ (head = pushed) = (head' = pushed)
                THEN moved
                ELSE IF head = pushed THEN "left" ELSE IF moved = "left" THEN "back" ELSE moved
    /\ UNCHANGED <<remote, stage, updates, pushed, todo, outgoing, total, accepted>>

\* Another pusher is noticed no sooner than here.
RemoteMoves ==
    /\ stage = "passed"
    /\ \E b \in Branch, c \in Commit \cup {NoCommit} : remote' = [remote EXCEPT ![b] = c]
    /\ UNCHANGED <<head, stage, updates, pushed, todo, outgoing, total, moved, accepted>>

\* git asks the server for its tips and calls the hook.
Push ==
    /\ stage = "idle"
    /\ \E branches \in SUBSET Branch :
          \E new \in [branches -> Local \cup {NoCommit}] :
             updates' = [b \in branches |-> [new |-> new[b], old |-> remote[b]]]
    /\ stage' = "called"
    /\ UNCHANGED <<head, remote, pushed, todo, outgoing, total, moved, accepted>>

\* The hook passed: the server takes the branches that are where they were.
Publish ==
    /\ stage = "passed"
    /\ accepted' = {b \in DOMAIN updates : remote[b] = updates[b].old}
    /\ remote' = [b \in Branch |-> IF b \in accepted' THEN updates[b].new ELSE remote[b]]
    /\ stage' = "published"
    /\ UNCHANGED <<head, updates, pushed, todo, outgoing, total, moved>>

-----------------------------------------------------------------------------
(* the hook *)

Begin ==
    /\ stage = "called"
    /\ pushed' = head /\ todo' = DOMAIN updates
    /\ stage' = "reading"
    /\ UNCHANGED <<head, remote, updates, outgoing, total, moved, accepted>>

\* One line of the advertised updates: HEAD to a branch, over a tip that is known
\* and an ancestor of it.
ReadUpdate(b) ==
    /\ stage = "reading" /\ b \in todo
    /\ LET new == updates[b].new
           old == updates[b].old
       IN  /\ new = pushed
           /\ old # NoCommit => old \in Local /\ old \in History[new]
           /\ Outgoing(old, new) # {}
           /\ total' = total + Cardinality(Outgoing(old, new)) /\ total' =< MaxCommits
           /\ outgoing' = outgoing \cup Outgoing(old, new)
    /\ todo' = todo \ {b}
    /\ UNCHANGED <<head, remote, stage, updates, pushed, moved, accepted>>

\* At least one update, and the selection is every test of the pushed commit.
EndUpdates ==
    /\ stage = "reading" /\ todo = {} /\ outgoing # {}
    /\ Tests[pushed] = Selection
    /\ stage' = "scanning"
    /\ UNCHANGED <<head, remote, updates, pushed, todo, outgoing, total, moved, accepted>>

Scan ==
    /\ stage = "scanning" /\ outgoing \cap Secret = {}
    /\ stage' = "scanned"
    /\ UNCHANGED <<head, remote, updates, pushed, todo, outgoing, total, moved, accepted>>

\* Defect: HEAD is looked at after the tests only.
CheckNothing ==
    /\ stage = "scanned"
    /\ stage' = "checked"
    /\ UNCHANGED <<head, remote, updates, pushed, todo, outgoing, total, moved, accepted>>

CheckHead ==
    /\ stage = "scanned" /\ head = pushed
    /\ stage' = "checked"
    /\ UNCHANGED <<head, remote, updates, pushed, todo, outgoing, total, moved, accepted>>

\* run-contract-tests: every selected file is there, has a test, and passes.
RunTests ==
    /\ stage = "checked" /\ Selection \subseteq Tests[head] /\ head \notin Broken
    /\ stage' = "tested"
    /\ UNCHANGED <<head, remote, updates, pushed, todo, outgoing, total, moved, accepted>>

CheckAgain ==
    /\ stage = "tested" /\ head = pushed
    /\ stage' = "passed"
    /\ UNCHANGED <<head, remote, updates, pushed, todo, outgoing, total, moved, accepted>>

Refuse ==
    /\ stage \in Running
    /\ stage' = "refused"
    /\ UNCHANGED <<head, remote, updates, pushed, todo, outgoing, total, moved, accepted>>

Next ==
    \/ Move \/ RemoteMoves \/ Push \/ Publish
    \/ Begin \/ EndUpdates \/ Scan \/ CheckHead \/ RunTests \/ CheckAgain \/ Refuse
    \/ \E b \in Branch : ReadUpdate(b)

Spec == Init /\ [][Next]_vars

-----------------------------------------------------------------------------
TypeOK ==
    /\ head \in Local /\ remote \in [Branch -> Commit \cup {NoCommit}]
    /\ stage \in Running \cup {"idle", "passed", "published", "refused"}
    /\ pushed \in Local \cup {NoCommit} /\ todo \subseteq DOMAIN updates
    /\ outgoing \subseteq Commit /\ total \in 0..MaxCommits
    /\ moved \in {"no", "left", "back"} /\ accepted \subseteq Branch

\* Whoever moves HEAD or the remote meanwhile: nothing that a push adds to a branch
\* holds a secret, and unless HEAD left and came back while the tests ran, the pushed
\* commit passed all its tests.
PublishesWhatItJudged ==
    accepted # {} =>
        /\ \A b \in accepted : (Known(remote[b]) \ Known(updates[b].old)) \cap Secret = {}
        /\ moved # "back" => pushed \notin Broken /\ Selection = Tests[pushed]
=============================================================================
