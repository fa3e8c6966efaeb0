------------------------------- MODULE GitLocks -------------------------------
(***************************************************************************)
(* clean-stale-git-locks beside git processes that take, write, close and  *)
(* drop the locks it looks at.  git is external: it opens a lock when it   *)
(* makes it, may close it long before it is done, and leaves it when       *)
(* killed.                                                                 *)
(*                                                                         *)
(* find and Get-ChildItem list the names while they are being visited.     *)
(* The Unix script reads the clock once and a lock's age when it visits    *)
(* it; the Windows script the clock at every visit and the age in the      *)
(* listing.  Either removes whatever has the name by then.  "Defect" marks *)
(* what is no part of the system.                                          *)
(***************************************************************************)
EXTENDS Naturals

CONSTANTS
    Lock,
    MinAge,         \* min-age-seconds
    LastTime, LastVersion    \* bounds on time and on the writes of a lock

VARIABLES
    now,
    locks,          \* [present, open, made, version]: version counts writes, made is the last
    script,         \* "windows", "unix", or "blind": Unix without lsof and fuser
    clock,          \* `now` of the Unix script
    listed,         \* what the listing said of each name, Unlisted before
    todo,           \* the names listed and not yet visited
    at,             \* the name being visited and how far: [lock, stage, seen, probed]
    removed         \* history: [seen, probed, version, age, open] of every removal

vars == <<now, locks, script, clock, listed, todo, at, removed>>

Unlisted == [made |-> 0, version |-> 0]
NotStarted == [lock |-> "none", stage |-> "start", seen |-> 0, probed |-> 0]
Walking == [lock |-> "none", stage |-> "walking", seen |-> 0, probed |-> 0]
Failed == [lock |-> "none", stage |-> "failed", seen |-> 0, probed |-> 0]

Init ==
    /\ now = 0 /\ script \in {"windows", "unix", "blind"} /\ clock = 0
    /\ locks = [l \in Lock |-> [present |-> FALSE, open |-> FALSE, made |-> 0, version |-> 0]]
    /\ listed = [l \in Lock |-> Unlisted] /\ todo = {} /\ at = NotStarted /\ removed = {}

-----------------------------------------------------------------------------
(* git and time *)

cleaner == <<script, clock, listed, todo, at, removed>>

Tick == now < LastTime /\ now' = now + 1 /\ UNCHANGED <<locks, cleaner>>

\* git makes the lock, or writes to the one it has open.
Write(l) ==
    /\ locks[l].present => locks[l].open
    /\ locks[l].version < LastVersion
    /\ locks' = [locks EXCEPT ![l] = [present |-> TRUE, open |-> TRUE, made |-> now,
                                      version |-> @.version + 1]]
    /\ UNCHANGED <<now, cleaner>>

\* git closes the file, or is killed: the lock stays.
Shut(l) ==
    /\ locks[l].open
    /\ locks' = [locks EXCEPT ![l].open = FALSE]
    /\ UNCHANGED <<now, cleaner>>

Drop(l) ==
    /\ locks[l].present
    /\ locks' = [locks EXCEPT ![l].present = FALSE, ![l].open = FALSE]
    /\ UNCHANGED <<now, cleaner>>

-----------------------------------------------------------------------------
(* the cleaner *)

Begin ==
    /\ at = NotStarted
    /\ clock' = now
    /\ at' = Walking
    /\ UNCHANGED <<now, locks, script, listed, todo, removed>>

List(l) ==
    /\ at \notin {NotStarted, Failed}
    /\ listed[l] = Unlisted /\ locks[l].present
    /\ listed' = [listed EXCEPT ![l] = [made |-> locks[l].made, version |-> locks[l].version]]
    /\ todo' = todo \cup {l}
    /\ UNCHANGED <<now, locks, script, clock, at, removed>>

\* Defect: a lock is old enough a second too early.
OldEnoughSoon(lock, time) == lock.made =< time + 1 /\ lock.made + MinAge =< time + 1

OldEnough(lock, time) == lock.made + MinAge =< time

Visit(l, lock, time) ==
    /\ at = Walking /\ l \in todo
    /\ todo' = todo \ {l}
    /\ at' = IF OldEnough(lock, time)
             THEN [lock |-> l, stage |-> "old", seen |-> lock.version, probed |-> 0]
             ELSE Walking
    /\ UNCHANGED <<now, locks, script, clock, listed, removed>>

\* stat, which a lock that has vanished fails.
VisitUnix(l) == script # "windows" /\ locks[l].present /\ Visit(l, locks[l], clock)
VisitVanished(l) ==
    /\ script # "windows" /\ ~locks[l].present /\ at = Walking /\ l \in todo
    /\ todo' = todo \ {l}
    /\ UNCHANGED <<now, locks, script, clock, listed, at, removed>>
VisitWindows(l) == script = "windows" /\ Visit(l, listed[l], now)

\* Defect: nobody is asked who holds the lock.
UnusedUnasked(l) == script = "windows" => locks[l].present

\* lsof or fuser find nobody, or are not installed; or the exclusive open succeeds.
Unused(l) ==
    /\ locks[l].open => script = "blind"
    /\ script = "windows" => locks[l].present

Probe ==
    /\ at.stage = "old"
    /\ at' = IF Unused(at.lock)
             THEN [at EXCEPT !.stage = "unused", !.probed = locks[at.lock].version]
             ELSE Walking
    /\ UNCHANGED <<now, locks, script, clock, listed, todo, removed>>

\* rm -f; Remove-Item fails instead where the lock has vanished.
Remove ==
    /\ at.stage = "unused" /\ (script = "windows" => locks[at.lock].present)
    /\ IF locks[at.lock].present
       THEN /\ locks' = [locks EXCEPT ![at.lock].present = FALSE, ![at.lock].open = FALSE]
            /\ removed' = removed \cup
                 {[seen |-> at.seen, probed |-> at.probed, version |-> locks[at.lock].version,
                   age |-> now - locks[at.lock].made, open |-> locks[at.lock].open]}
       ELSE UNCHANGED <<locks, removed>>
    /\ at' = Walking
    /\ UNCHANGED <<now, script, clock, listed, todo>>

\* The removal is refused, which ends either script.  Windows: the probe is refused for
\* another reason than use, or the removal finds the lock gone or open again.
Fail ==
    /\ \/ at.stage = "unused" /\ (script # "windows" => locks[at.lock].present)
       \/ at.stage = "old" /\ script = "windows"
    /\ at' = Failed
    /\ UNCHANGED <<now, locks, script, clock, listed, todo, removed>>

Next ==
    \/ Tick \/ Begin \/ Probe \/ Remove \/ Fail
    \/ \E l \in Lock : \/ Write(l) \/ Shut(l) \/ Drop(l)
                       \/ List(l) \/ VisitUnix(l) \/ VisitVanished(l) \/ VisitWindows(l)

Spec == Init /\ [][Next]_vars

-----------------------------------------------------------------------------
TypeOK ==
    /\ now \in 0..LastTime /\ clock \in 0..now /\ todo \subseteq Lock
    /\ \A l \in Lock : locks[l].open => locks[l].present
    /\ at.stage \in {"start", "walking", "old", "unused", "failed"}

\* However long the walk, and whichever of the age and the clock was read early: a lock
\* nobody wrote since the cleaner's look at its age was old enough when it went; and one
\* nobody wrote since the probe, even if git had made it anew before, was closed where
\* the script can see who holds it.
RemovesWhatItSaw ==
    \A r \in removed :
        /\ r.version = r.seen => r.age >= MinAge
        /\ r.version = r.probed /\ r.open => script = "blind"
=============================================================================
