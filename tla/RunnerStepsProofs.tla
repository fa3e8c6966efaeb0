--------------------------- MODULE RunnerStepsProofs ---------------------------
(***************************************************************************)
(* The tools a job runs as steps of their own and the pre-push hook: for   *)
(* every value of their constants, the properties that RunnerSteps.cfg     *)
(* checks on small worlds.                                                 *)
(*                                                                         *)
(* Each section is about one tool, and is independent of the others: its   *)
(* theorems are about the tool's own specification, and their inductive    *)
(* invariant relates what a step took note of to what is there by now.     *)
(* The last section draws the conclusions for the tools side by side.      *)
(***************************************************************************)
EXTENDS RunnerSteps, FiniteSetTheorems, WellFoundedInduction, TLAPS

-----------------------------------------------------------------------------
(* counting *)

\* One element more is at most one element more, also when it was there already.
LEMMA OneMore ==
    ASSUME NEW S, IsFiniteSet(S), NEW x, NEW T, T = S \cup {x}
    PROVE  /\ IsFiniteSet(T) /\ Cardinality(S) \in Nat
           /\ Cardinality(T) \in Nat /\ Cardinality(T) =< Cardinality(S) + 1
<1>1. Cardinality(S) \in Nat
  BY FS_CardinalityType
<1>2. /\ IsFiniteSet(T)
      /\ Cardinality(T) = IF x \in S THEN Cardinality(S) ELSE Cardinality(S) + 1
  BY FS_AddElement
<1> QED
  BY <1>1, <1>2

-----------------------------------------------------------------------------
(* clean-stale-git-locks *)

LockState == [present : BOOLEAN, open : BOOLEAN, made : Nat, version : Nat]

LocksTypes ==
    /\ now \in Nat /\ clock \in Nat /\ clock =< now
    /\ locks \in [Lock -> LockState]
    /\ listed \in [Lock -> [made : Nat, version : Nat]]

\* What the listing said of a lock is what the lock is, or it was written since.
ListingIsOfAVersion ==
    \A l \in Lock :
        /\ listed[l].version =< locks[l].version
        /\ listed[l].version = locks[l].version => listed[l].made = locks[l].made

\* The lock being visited is old enough, or it was written since the look at its age;
\* and after the probe it is closed where the script can see who holds it, or it was
\* written since the probe.
VisitIsOfAVersion ==
    /\ todo \subseteq Lock
    /\ at.stage \in {"old", "unused"} =>
          /\ at.lock \in Lock /\ at.seen \in Nat
          /\ at.seen =< locks[at.lock].version
          /\ at.seen = locks[at.lock].version => locks[at.lock].made + MinAge =< now
    /\ at.stage = "unused" =>
          /\ at.probed \in Nat /\ at.probed =< locks[at.lock].version
          /\ at.probed = locks[at.lock].version /\ locks[at.lock].open => script = "blind"

LocksInv ==
    LocksTypes /\ ListingIsOfAVersion /\ VisitIsOfAVersion /\ Locks!RemovesWhatItSaw

\* A lock that is let go of is still a lock.
LEMMA LetGo ==
    ASSUME NEW ls \in [Lock -> LockState], NEW l \in Lock
    PROVE  /\ [ls EXCEPT ![l].open = FALSE] \in [Lock -> LockState]
           /\ [ls EXCEPT ![l].present = FALSE, ![l].open = FALSE] \in [Lock -> LockState]
<1>1. [ls EXCEPT ![l].open = FALSE] \in [Lock -> LockState]
  BY DEF LockState
<1>2. [ls EXCEPT ![l].present = FALSE] \in [Lock -> LockState]
  BY DEF LockState
<1> DEFINE gone == [ls EXCEPT ![l].present = FALSE]
<1>3. [gone EXCEPT ![l].open = FALSE] \in [Lock -> LockState]
  BY <1>2 DEF LockState
<1> QED
  BY <1>1, <1>3

\* At first nothing was listed that is not there.
LEMMA LocksInitInv == Locks!Init => LocksInv
BY DEF Locks!Init, LocksInv, LocksTypes, LockState, ListingIsOfAVersion,
   VisitIsOfAVersion, Locks!RemovesWhatItSaw, Locks!Unlisted, Locks!NotStarted

\* git and time: a write is a version that was not looked at yet; closing or dropping a
\* lock leaves its version and its age.
LEMMA LocksGitStep ==
    ASSUME LocksInv,
           Locks!Tick \/ \E l \in Lock : Locks!Write(l) \/ Locks!Shut(l) \/ Locks!Drop(l)
    PROVE  LocksInv'
<1> USE DEF LocksInv, LocksTypes, LockState
<1>1. UNCHANGED <<script, clock, listed, todo, at, removed>>
  BY DEF Locks!Tick, Locks!Write, Locks!Shut, Locks!Drop, Locks!cleaner
<1>2. Locks!RemovesWhatItSaw'
  BY <1>1 DEF Locks!RemovesWhatItSaw
<1>3. CASE Locks!Tick
  BY <1>1, <1>2, <1>3, LocksAssumption DEF Locks!Tick, ListingIsOfAVersion, VisitIsOfAVersion
<1>4. ASSUME NEW l \in Lock, Locks!Write(l) PROVE LocksInv'
  <2>1. LocksTypes'
    BY <1>1, <1>4 DEF Locks!Write
  <2>2. locks'[l].version = locks[l].version + 1
        /\ \A k \in Lock \ {l} : locks'[k] = locks[k]
    BY <1>4 DEF Locks!Write
  <2>3. ListingIsOfAVersion'
    BY <1>1, <1>4, <2>2 DEF ListingIsOfAVersion
  <2>4. VisitIsOfAVersion'
    <3>1. now' = now
      BY <1>4 DEF Locks!Write
    <3>2. /\ at.stage \in {"old", "unused"} /\ at.seen = locks'[at.lock].version => at.lock # l
          /\ at.stage = "unused" /\ at.probed = locks'[at.lock].version => at.lock # l
      BY <2>2 DEF VisitIsOfAVersion
    <3>3. /\ at.stage \in {"old", "unused"} => at.seen =< locks'[at.lock].version
          /\ at.stage = "unused" => at.probed =< locks'[at.lock].version
      BY <2>2 DEF VisitIsOfAVersion
    <3> QED
      BY <1>1, <2>2, <3>1, <3>2, <3>3 DEF VisitIsOfAVersion
  <2> QED
    BY <1>2, <2>1, <2>3, <2>4
<1>5. ASSUME NEW l \in Lock, Locks!Shut(l) \/ Locks!Drop(l) PROVE LocksInv'
  <2>1. LocksTypes'
    <3> HIDE DEF LockState
    <3>1. locks' \in [Lock -> LockState]
      <4>1. CASE Locks!Shut(l)
        BY <4>1, LetGo DEF Locks!Shut
      <4>2. CASE Locks!Drop(l)
        <5>1. locks' = [locks EXCEPT ![l].present = FALSE, ![l].open = FALSE]
          BY <4>2 DEF Locks!Drop
        <5>2. [locks EXCEPT ![l].present = FALSE, ![l].open = FALSE] \in [Lock -> LockState]
          BY LetGo, Zenon
        <5> QED
          BY <5>1, <5>2
      <4> QED
        BY <1>5, <4>1, <4>2
    <3>2. now' = now
      BY <1>5 DEF Locks!Shut, Locks!Drop
    <3> QED
      BY <1>1, <3>1, <3>2
  <2>2. \A k \in Lock : /\ locks'[k].version = locks[k].version
                        /\ locks'[k].made = locks[k].made
                        /\ locks'[k].open => locks[k].open
    BY <1>5 DEF Locks!Shut, Locks!Drop
  <2>3. now' = now
    BY <1>5 DEF Locks!Shut, Locks!Drop
  <2>4. ListingIsOfAVersion'
    BY <1>1, <2>2 DEF ListingIsOfAVersion
  <2>5. VisitIsOfAVersion'
    BY <1>1, <2>2, <2>3 DEF VisitIsOfAVersion
  <2> QED
    BY <1>2, <2>1, <2>4, <2>5
<1> QED
  BY <1>3, <1>4, <1>5

\* The cleaner: what it sees of a lock is of the version it sees.
LEMMA LocksCleanerStep ==
    ASSUME LocksInv,
           \/ Locks!Begin \/ Locks!Probe \/ Locks!Remove \/ Locks!Fail
           \/ UNCHANGED Locks!vars
           \/ \E l \in Lock : \/ Locks!List(l) \/ Locks!VisitUnix(l)
                            \/ Locks!VisitVanished(l) \/ Locks!VisitWindows(l)
    PROVE  LocksInv'
<1> USE DEF LocksInv, LocksTypes, LockState
<1>1. CASE Locks!Begin \/ Locks!Fail \/ UNCHANGED Locks!vars
  BY <1>1 DEF Locks!Begin, Locks!Fail, Locks!vars, Locks!Walking, Locks!Failed,
     ListingIsOfAVersion, VisitIsOfAVersion, Locks!RemovesWhatItSaw
<1>2. CASE Locks!Probe
  BY <1>2 DEF Locks!Probe, Locks!Unused, Locks!Walking, ListingIsOfAVersion,
     VisitIsOfAVersion, Locks!RemovesWhatItSaw
<1>3. CASE Locks!Remove
  <2> DEFINE l == at.lock
  <2>1. l \in Lock /\ at.seen \in Nat
        /\ (at.seen = locks[l].version => locks[l].made + MinAge =< now)
        /\ (at.probed = locks[l].version /\ locks[l].open => script = "blind")
    BY <1>3 DEF Locks!Remove, VisitIsOfAVersion
  <2>2. \A k \in Lock : /\ locks'[k].version = locks[k].version
                        /\ locks'[k].made = locks[k].made
    BY <1>3, <2>1 DEF Locks!Remove
  <2>3. LocksTypes'
    <3> HIDE DEF LockState
    <3>1. [locks EXCEPT ![at.lock].present = FALSE, ![at.lock].open = FALSE]
              \in [Lock -> LockState]
      BY <2>1, LetGo, Zenon
    <3>2. \/ locks' = [locks EXCEPT ![at.lock].present = FALSE, ![at.lock].open = FALSE]
          \/ locks' = locks
      BY <1>3 DEF Locks!Remove
    <3>3. locks' \in [Lock -> LockState]
      BY <3>1, <3>2
    <3> QED
      BY <1>3, <3>3 DEF Locks!Remove
  <2>4. ListingIsOfAVersion'
    BY <1>3, <2>2 DEF Locks!Remove, ListingIsOfAVersion
  <2>5. VisitIsOfAVersion'
    BY <1>3 DEF Locks!Remove, VisitIsOfAVersion, Locks!Walking
  <2>6. Locks!RemovesWhatItSaw'
    BY <1>3, <2>1, LocksAssumption DEF Locks!Remove, Locks!RemovesWhatItSaw
  <2> QED
    BY <2>3, <2>4, <2>5, <2>6
<1>4. ASSUME NEW l \in Lock, Locks!List(l) PROVE LocksInv'
  BY <1>4 DEF Locks!List, ListingIsOfAVersion, VisitIsOfAVersion, Locks!RemovesWhatItSaw
<1>5. ASSUME NEW l \in Lock, Locks!VisitVanished(l) PROVE LocksInv'
  BY <1>5 DEF Locks!VisitVanished, ListingIsOfAVersion, VisitIsOfAVersion,
     Locks!RemovesWhatItSaw
<1>6. ASSUME NEW l \in Lock, Locks!VisitUnix(l) PROVE LocksInv'
  BY <1>6, LocksAssumption DEF Locks!VisitUnix, Locks!Visit, Locks!OldEnough, Locks!Walking,
     ListingIsOfAVersion, VisitIsOfAVersion, Locks!RemovesWhatItSaw
<1>7. ASSUME NEW l \in Lock, Locks!VisitWindows(l) PROVE LocksInv'
  BY <1>7 DEF Locks!VisitWindows, Locks!Visit, Locks!OldEnough, Locks!Walking,
     ListingIsOfAVersion, VisitIsOfAVersion, Locks!RemovesWhatItSaw
<1> QED
  BY <1>1, <1>2, <1>3, <1>4, <1>5, <1>6, <1>7

\* Whatever git and the scripts do: what a script took note of is what is there, or it
\* was written since.
LEMMA LocksInvariant == Locks!Spec => []LocksInv
<1>1. LocksInv /\ [Locks!Next]_Locks!vars => LocksInv'
  BY LocksGitStep, LocksCleanerStep DEF Locks!Next
<1> QED
  BY LocksInitInv, <1>1, PTL DEF Locks!Spec

\* Whatever git does beside the cleaner, and however long the walk over the locks
\* takes: a lock that was not written since its age was read is old enough when it is
\* removed, and one not written since the probe closed unless there is no tool to ask
\* (clean-stale-git-locks/action.yml, the loops of both scripts).
THEOREM RemovalsAreOfWhatWasSeen == Locks!Spec => []Locks!RemovesWhatItSaw
<1>1. LocksInv => Locks!RemovesWhatItSaw
  BY DEF LocksInv
<1> QED
  BY LocksInvariant, <1>1, PTL

\* Type correctness of the cleaner and of git's locks: only a lock that is there is
\* open, and the time the Unix script read is not ahead.
THEOREM LocksTypeCorrect == Locks!Spec => []Locks!TypeOK
<1> DEFINE Visit == [lock : Lock \cup {"none"}, seen : Nat, probed : Nat,
                     stage : {"start", "walking", "old", "unused", "failed"}]
           Inv == Locks!TypeOK /\ at \in Visit
<1>1. Locks!Init => Inv
  BY LocksAssumption DEF Locks!Init, Locks!TypeOK, Locks!NotStarted
<1>2. LocksInv /\ Inv /\ [Locks!Next]_Locks!vars => Inv'
  <2> SUFFICES ASSUME LocksInv, Inv, [Locks!Next]_Locks!vars PROVE Inv'
      OBVIOUS
  <2>1. LocksTypes /\ VisitIsOfAVersion
    BY DEF LocksInv
  <2> USE DEF Locks!TypeOK
  <2>2. CASE Locks!Tick
    BY <2>2, LocksAssumption DEF Locks!Tick, Locks!cleaner
  <2>3. ASSUME NEW l \in Lock, Locks!Write(l) \/ Locks!Shut(l) \/ Locks!Drop(l)
        PROVE  Inv'
    <3>1. UNCHANGED <<now, clock, todo, at>>
      BY <2>3 DEF Locks!Write, Locks!Shut, Locks!Drop, Locks!cleaner
    <3>2. \A k \in Lock : locks'[k].open => locks'[k].present
      BY <2>1, <2>3 DEF Locks!Write, Locks!Shut, Locks!Drop, LocksTypes, LockState
    <3> QED
      BY <3>1, <3>2
  <2>4. CASE Locks!Begin \/ Locks!Fail \/ UNCHANGED Locks!vars
    BY <2>4 DEF Locks!Begin, Locks!Fail, Locks!vars, Locks!Walking, Locks!Failed
  <2>5. CASE Locks!Probe
    <3>1. at' \in Visit
      BY <2>1, <2>5 DEF Locks!Probe, Locks!Walking, VisitIsOfAVersion, LocksTypes, LockState
    <3> QED
      BY <2>5, <3>1 DEF Locks!Probe
  <2>6. CASE Locks!Remove
    <3>1. at.lock \in Lock
      BY <2>1, <2>6 DEF Locks!Remove, VisitIsOfAVersion
    <3>2. \A k \in Lock : locks'[k].open => locks'[k].present
      BY <2>1, <2>6, <3>1 DEF Locks!Remove, LocksTypes, LockState
    <3> QED
      BY <2>6, <3>2 DEF Locks!Remove, Locks!Walking
  <2>7. ASSUME NEW l \in Lock, \/ Locks!List(l) \/ Locks!VisitUnix(l)
                               \/ Locks!VisitVanished(l) \/ Locks!VisitWindows(l)
        PROVE  Inv'
    <3>1. locks[l].version \in Nat /\ listed[l].version \in Nat
      BY <2>1 DEF LocksTypes, LockState
    <3> QED
      BY <2>7, <3>1 DEF Locks!List, Locks!VisitUnix, Locks!VisitVanished,
         Locks!VisitWindows, Locks!Visit, Locks!Walking
  <2> QED
    BY <2>2, <2>3, <2>4, <2>5, <2>6, <2>7 DEF Locks!Next
<1> QED
  BY LocksInvariant, <1>1, <1>2, PTL DEF Locks!Spec

-----------------------------------------------------------------------------
(* lib/telemetry-fallback: the writer of the emitters *)

Busy == {"write", "rename", "refused"}

WriterTypes ==
    /\ disk \in [Dir \cup Fallback -> [Base -> Seq(Emitter)]]
    /\ made \subseteq Fallback
    /\ writerStage \in [Emitter -> Writer!Stage]
    /\ detour \in [Emitter -> made \cup {NoDir}]
    /\ redirects \in [Emitter -> [Dir -> made \cup {NoDir}]]
    /\ written \in [Emitter -> Seq(Writer!Path)]
    /\ \A e \in Emitter : Len(written[e]) =< Len(Plan[e])
    /\ \A e \in Emitter : writerStage[e] \in Busy => Len(written[e]) < Len(Plan[e])

\* A fallback directory serves one directory of one emitter: the detour of a write
\* is no redirect of anybody's yet, and is taken where there is no redirect only.
FallbacksAreApart ==
    \A e, f \in Emitter :
        /\ detour[e] = detour[f] /\ detour[e] # NoDir => e = f
        /\ \A d \in Dir : detour[e] = redirects[f][d] => detour[e] = NoDir
        /\ \A c, d \in Dir :
              redirects[e][c] = redirects[f][d] /\ redirects[e][c] # NoDir => e = f /\ c = d
        /\ writerStage[e] \in Busy /\ detour[e] # NoDir => Writer!Redirected(e) = NoDir
        /\ writerStage[e] = "refused" => Writer!Retries(e)

\* What a write resolved to: its own file, in its own directory or in the one that
\* is redirected to.
WrittenAsPlanned ==
    \A e \in Emitter : \A i \in DOMAIN written[e] :
        /\ written[e][i].base = Plan[e][i].base
        /\ written[e][i].dir # NoDir
        /\ written[e][i].dir \in {Plan[e][i].dir, redirects[e][Plan[e][i].dir]}

\* A reported file has a value, in a fallback directory one of the emitter's own.
ReportedIsThere ==
    \A e \in Emitter : \A i \in DOMAIN written[e] :
        LET held == disk[written[e][i].dir][written[e][i].base]
        IN  /\ held # <<>>
            /\ written[e][i].dir \in Fallback => \E k \in DOMAIN held : held[k] = e

WriterInv == WriterTypes /\ FallbacksAreApart /\ WrittenAsPlanned /\ ReportedIsThere

\* At first nothing is on the disk, and nothing is reported.
LEMMA WriterInitInv == Writer!Init => WriterInv
<1> SUFFICES ASSUME Writer!Init PROVE WriterInv
    OBVIOUS
<1>1. ASSUME NEW e \in Emitter PROVE Len(Plan[e]) \in Nat /\ Len(Plan[e]) > 0
  <2>1. Plan[e] \in Seq(PlannedFile) /\ Plan[e] # <<>>
    BY WriterAssumption
  <2> QED
    BY <2>1
<1>2. \A e \in Emitter : written[e] = <<>>
  BY DEF Writer!Init
<1> USE DEF Writer!Init
<1>3. WriterTypes
  <2>1. disk \in [Dir \cup Fallback -> [Base -> Seq(Emitter)]]
    OBVIOUS
  <2>2. written \in [Emitter -> Seq(Writer!Path)]
    OBVIOUS
  <2>3. writerStage \in [Emitter -> Writer!Stage]
    BY DEF Writer!Stage
  <2> QED
    BY <1>1, <1>2, <2>1, <2>2, <2>3 DEF WriterTypes
<1>4. FallbacksAreApart
  BY DEF FallbacksAreApart
<1> QED
  BY <1>2, <1>3, <1>4 DEF WriterInv, WrittenAsPlanned, ReportedIsThere

\* A busy emitter has a file to write, and a directory to write it to.
LEMMA CurrentFile ==
    ASSUME WriterTypes, NEW e \in Emitter, writerStage[e] \in Busy
    PROVE  /\ Writer!Current(e).dir \in Dir /\ Writer!Current(e).base \in Base
           /\ Writer!Redirected(e) \in made \cup {NoDir}
           /\ Writer!Place(e) \in Dir \cup Fallback /\ Writer!Place(e) # NoDir
<1>1. Len(written[e]) \in Nat /\ Len(written[e]) < Len(Plan[e])
  BY DEF WriterTypes
<1>2. /\ Plan[e] \in Seq(PlannedFile)
      /\ Len(Plan[e]) \in Nat
  BY WriterAssumption
<1>3. Len(written[e]) + 1 \in 1..Len(Plan[e])
  <2> DEFINE m == Len(written[e])
             n == Len(Plan[e])
  <2> HIDE DEF m, n
  <2>1. m \in Nat /\ n \in Nat /\ m < n
    BY <1>1, <1>2 DEF m, n
  <2>2. m + 1 \in 1..n
    BY <2>1
  <2> QED
    BY <2>2 DEF m, n
<1>4. Writer!Current(e) \in PlannedFile
  BY <1>2, <1>3 DEF Writer!Current
<1>5. Writer!Redirected(e) \in made \cup {NoDir} /\ detour[e] \in made \cup {NoDir}
  BY <1>4 DEF WriterTypes, Writer!Redirected, PlannedFile
<1> QED
  BY <1>4, <1>5, WriterAssumption DEF Writer!Place, WriterTypes, PlannedFile

\* What was written had been planned.
LEMMA PlannedBefore ==
    ASSUME WriterTypes, NEW e \in Emitter, NEW i \in DOMAIN written[e]
    PROVE  Plan[e][i].dir \in Dir /\ Plan[e][i].base \in Base
<1>1. Plan[e] \in Seq(PlannedFile) /\ written[e] \in Seq(Writer!Path)
  BY WriterAssumption DEF WriterTypes
<1>2. Len(written[e]) =< Len(Plan[e])
  BY DEF WriterTypes
<1>3. i \in 1..Len(Plan[e])
  BY <1>1, <1>2
<1>4. Plan[e][i] \in PlannedFile
  BY <1>1, <1>3
<1> QED
  BY <1>4 DEF PlannedFile

\* A step that only goes on, or ends, disturbs nothing.
LEMMA QuietWriterStep ==
    ASSUME WriterInv, UNCHANGED <<disk, made, detour, redirects, written>>,
           writerStage' \in [Emitter -> Writer!Stage],
           \A e \in Emitter : writerStage'[e] \in Busy => writerStage[e] \in Busy,
           \A e \in Emitter : writerStage'[e] = "refused" => Writer!Retries(e)
    PROVE  WriterInv'
<1>1. WriterTypes'
  BY DEF WriterInv, WriterTypes
<1>2. FallbacksAreApart'
  <2>1. \A e \in Emitter : /\ Writer!Redirected(e)' = Writer!Redirected(e)
                           /\ Writer!Retries(e) => Writer!Retries(e)'
    BY DEF Writer!Retries, Writer!Redirected, Writer!Current
  <2>2. FallbacksAreApart
    BY DEF WriterInv
  <2> QED
    BY <2>1, <2>2 DEF FallbacksAreApart
<1>3. WrittenAsPlanned' /\ ReportedIsThere'
  <2>1. WrittenAsPlanned /\ ReportedIsThere
    BY DEF WriterInv
  <2> QED
    BY <2>1 DEF WrittenAsPlanned, ReportedIsThere
<1> QED
  BY <1>1, <1>2, <1>3 DEF WriterInv

\* mkdtemp: nobody has been redirected to the new directory.
LEMMA MakeFallbackStep ==
    ASSUME WriterInv, NEW e \in Emitter, Writer!MakeFallback(e)
    PROVE  WriterInv'
<1>1. PICK p \in Fallback \ made :
         made' = made \cup {p} /\ detour' = [detour EXCEPT ![e] = p]
  BY DEF Writer!MakeFallback
<1>2. p # NoDir /\ p \notin made
  BY WriterAssumption
<1>3. /\ UNCHANGED <<disk, redirects, written>>
      /\ writerStage' = [writerStage EXCEPT ![e] = "write"]
      /\ writerStage[e] = "refused"
  BY DEF Writer!MakeFallback
<1>4. WriterTypes'
  BY <1>1, <1>3 DEF WriterInv, WriterTypes, Busy, Writer!Stage
<1>5. \A f \in Emitter, d \in Dir : redirects[f][d] \in made \cup {NoDir}
  BY DEF WriterInv, WriterTypes
<1>6. \A f \in Emitter : detour[f] \in made \cup {NoDir}
  BY DEF WriterInv, WriterTypes
<1>7. \A f \in Emitter : detour'[f] = IF f = e THEN p ELSE detour[f]
  BY <1>1 DEF WriterInv, WriterTypes
<1>8. FallbacksAreApart'
  <2> SUFFICES ASSUME NEW f \in Emitter, NEW g \in Emitter
               PROVE  FallbacksAreApart!(f, g)'
      BY DEF FallbacksAreApart
  <2>1. detour'[f] = detour'[g] /\ detour'[f] # NoDir => f = g
    BY <1>2, <1>6, <1>7 DEF WriterInv, FallbacksAreApart
  <2>2. \A d \in Dir : detour'[f] = redirects'[g][d] => detour'[f] = NoDir
    BY <1>2, <1>3, <1>5, <1>7 DEF WriterInv, FallbacksAreApart
  <2>3. writerStage'[f] \in Busy /\ detour'[f] # NoDir => Writer!Redirected(f)' = NoDir
    BY <1>3, <1>7 DEF WriterInv, FallbacksAreApart, Writer!Retries, Writer!Redirected,
       Writer!Current, Busy
  <2>4. writerStage'[f] = "refused" => Writer!Retries(f)'
    BY <1>3, <1>7, <1>4 DEF WriterInv, WriterTypes, FallbacksAreApart, Writer!Retries,
       Writer!Redirected, Writer!Current
  <2> QED
    BY <1>3, <2>1, <2>2, <2>3, <2>4 DEF WriterInv, FallbacksAreApart
<1>9. WrittenAsPlanned' /\ ReportedIsThere'
  BY <1>3 DEF WriterInv, WrittenAsPlanned, ReportedIsThere
<1> QED
  BY <1>4, <1>8, <1>9 DEF WriterInv

\* A write that succeeds: its file holds a value of the emitter's, the redirect it
\* took is kept, and the path is the answer.
LEMMA PutStep ==
    ASSUME WriterInv, NEW e \in Emitter, NEW value \in Seq(Emitter),
           writerStage[e] \in {"write", "rename"}, Writer!Report(e),
           disk' = [disk EXCEPT ![Writer!Place(e)][Writer!Current(e).base] = value],
           value # <<>>, \E k \in DOMAIN value : value[k] = e
    PROVE  WriterInv'
<1> DEFINE dir == Writer!Current(e).dir
           base == Writer!Current(e).base
           place == Writer!Place(e)
           n == Len(written[e])
           last == Len(Plan[e])
           new == [dir |-> place, base |-> base]
<1>1. /\ dir \in Dir /\ base \in Base /\ place \in Dir \cup Fallback /\ place # NoDir
      /\ n \in Nat /\ Plan[e][n + 1] = Writer!Current(e)
      /\ n < last /\ last \in Nat
  <2>1. writerStage[e] \in Busy
    BY DEF Busy
  <2>2. Plan[e] \in Seq(PlannedFile)
    BY WriterAssumption
  <2>3. Len(written[e]) \in Nat /\ Len(written[e]) < Len(Plan[e])
    BY <2>1 DEF WriterInv, WriterTypes
  <2>4. Len(Plan[e]) \in Nat
    BY <2>2
  <2> QED
    BY <2>1, <2>3, <2>4, CurrentFile DEF WriterInv, Writer!Current
<1>2. /\ made' = made
      /\ written' = [written EXCEPT ![e] = Append(@, new)]
      /\ writerStage' = [writerStage EXCEPT ![e] = IF n + 1 = last THEN "done" ELSE "write"]
      /\ detour' = [detour EXCEPT ![e] = NoDir]
  BY DEF Writer!Report, Writer!Advance
<1>3. redirects' = IF detour[e] = NoDir THEN redirects
                   ELSE [redirects EXCEPT ![e][dir] = detour[e]]
  BY DEF Writer!Report, Writer!KeepRedirect
<1>4. new \in Writer!Path
  BY <1>1 DEF Writer!Path
<1>5. /\ \A f \in Emitter \ {e} : /\ written'[f] = written[f] /\ detour'[f] = detour[f]
                                  /\ redirects'[f] = redirects[f]
                                  /\ writerStage'[f] = writerStage[f]
      /\ detour'[e] = NoDir
      /\ written'[e] = Append(written[e], new)
      /\ writerStage'[e] = IF n + 1 = last THEN "done" ELSE "write"
  BY <1>2, <1>3 DEF WriterInv, WriterTypes
<1>6. \A d \in Dir : redirects'[e][d] =
         IF detour[e] # NoDir /\ d = dir THEN detour[e] ELSE redirects[e][d]
  BY <1>1, <1>3 DEF WriterInv, WriterTypes
<1> HIDE DEF dir, base, place, n, last, new
<1>7. /\ Len(written'[e]) = n + 1
      /\ DOMAIN written'[e] = DOMAIN written[e] \cup {n + 1}
      /\ \A i \in DOMAIN written[e] : written'[e][i] = written[e][i]
      /\ written'[e][n + 1] = new
      /\ written'[e] \in Seq(Writer!Path)
  <2>1. written[e] \in Seq(Writer!Path)
    BY DEF WriterInv, WriterTypes
  <2> QED
    BY <2>1, <1>4, <1>5 DEF n
<1>8. WriterTypes'
  <2>1. disk' \in [Dir \cup Fallback -> [Base -> Seq(Emitter)]]
    BY <1>1 DEF WriterInv, WriterTypes, place, base
  <2>2. redirects' \in [Emitter -> [Dir -> made \cup {NoDir}]]
    BY <1>1, <1>3 DEF WriterInv, WriterTypes
  <2>3. detour' \in [Emitter -> made \cup {NoDir}]
    BY <1>2 DEF WriterInv, WriterTypes
  <2>4. writerStage' \in [Emitter -> Writer!Stage]
    BY <1>2 DEF WriterInv, WriterTypes, Writer!Stage
  <2>5. written' \in [Emitter -> Seq(Writer!Path)]
    BY <1>2, <1>5, <1>7 DEF WriterInv, WriterTypes
  <2>6. \A f \in Emitter : Len(written'[f]) =< Len(Plan[f])
    <3>1. n + 1 =< last
      BY <1>1
    <3> QED
      BY <1>5, <1>7, <3>1 DEF WriterInv, WriterTypes, last
  <2>7. \A f \in Emitter : writerStage'[f] \in Busy => Len(written'[f]) < Len(Plan[f])
    <3>1. n + 1 # last => n + 1 < last
      BY <1>1
    <3> QED
      BY <1>5, <1>7, <3>1 DEF WriterInv, WriterTypes, Busy, last
  <2> QED
    BY <1>2, <2>1, <2>2, <2>3, <2>4, <2>5, <2>6, <2>7 DEF WriterInv, WriterTypes
<1>9. \A f \in Emitter, d \in Dir : redirects[f][d] \in made \cup {NoDir}
  BY DEF WriterInv, WriterTypes
<1>10. /\ detour[e] # NoDir => redirects[e][dir] = NoDir
       /\ place = IF redirects[e][dir] # NoDir THEN redirects[e][dir]
                  ELSE IF detour[e] # NoDir THEN detour[e] ELSE dir
       /\ redirects[e][dir] # NoDir => detour[e] = NoDir
  BY DEF WriterInv, FallbacksAreApart, Busy, Writer!Place, Writer!Redirected, dir, place
\* What was redirected stays redirected.
<1>11. \A f \in Emitter, d \in Dir :
          redirects[f][d] # NoDir => redirects'[f][d] = redirects[f][d]
  BY <1>5, <1>6, <1>10
<1>12. FallbacksAreApart'
  <2> SUFFICES ASSUME NEW f \in Emitter, NEW g \in Emitter
               PROVE  FallbacksAreApart!(f, g)'
      BY DEF FallbacksAreApart
  <2>0. FallbacksAreApart
    BY DEF WriterInv
  <2>1. detour'[f] = detour'[g] /\ detour'[f] # NoDir => f = g
    BY <1>5, <2>0 DEF FallbacksAreApart
  <2>2. \A d \in Dir : detour'[f] = redirects'[g][d] => detour'[f] = NoDir
    BY <1>5, <1>6, <2>0 DEF FallbacksAreApart
  <2>3. ASSUME NEW c \in Dir, NEW d \in Dir,
               redirects'[f][c] = redirects'[g][d], redirects'[f][c] # NoDir
        PROVE  f = g /\ c = d
    BY <1>5, <1>6, <2>0, <2>3 DEF FallbacksAreApart
  <2>4. f # e => Writer!Redirected(f)' = Writer!Redirected(f)
    BY <1>5 DEF Writer!Redirected, Writer!Current
  <2>5. writerStage'[f] \in Busy /\ detour'[f] # NoDir => Writer!Redirected(f)' = NoDir
    BY <1>5, <2>0, <2>4 DEF FallbacksAreApart
  <2>6. writerStage'[f] = "refused" => Writer!Retries(f)'
    BY <1>5, <2>0, <2>4 DEF FallbacksAreApart, Writer!Retries
  <2> QED
    BY <2>1, <2>2, <2>3, <2>5, <2>6
<1>13. WrittenAsPlanned'
  <2> SUFFICES ASSUME NEW f \in Emitter, NEW i \in DOMAIN written'[f]
               PROVE  /\ written'[f][i].base = Plan[f][i].base
                      /\ written'[f][i].dir # NoDir
                      /\ written'[f][i].dir
                            \in {Plan[f][i].dir, redirects'[f][Plan[f][i].dir]}
      BY DEF WrittenAsPlanned
  <2>1. CASE i \in DOMAIN written[f]
    <3>1. written'[f][i] = written[f][i]
      BY <1>5, <1>7, <2>1
    <3>2. Plan[f][i].dir \in Dir
      BY <2>1, PlannedBefore DEF WriterInv
    <3> QED
      BY <1>11, <2>1, <3>1, <3>2 DEF WriterInv, WrittenAsPlanned
  <2>2. CASE f = e /\ i = n + 1
    <3>1. written'[f][i] = new /\ Plan[f][i].dir = dir /\ Plan[f][i].base = base
      BY <1>1, <1>7, <2>2 DEF dir, base
    <3>2. place \in {dir, redirects'[e][dir]}
      BY <1>1, <1>6, <1>10
    <3> QED
      BY <1>1, <2>2, <3>1, <3>2 DEF new
  <2> QED
    BY <1>5, <1>7, <2>1, <2>2
\* Only its emitter writes into a fallback directory.
<1>14. ASSUME NEW f \in Emitter, NEW i \in DOMAIN written[f],
              written[f][i].dir = place, place \in Fallback
       PROVE  f = e
  <2>1. Plan[f][i].dir \in Dir
    BY PlannedBefore DEF WriterInv
  <2>2. place = redirects[f][Plan[f][i].dir]
    BY <1>14, <2>1, WriterAssumption DEF WriterInv, WrittenAsPlanned
  <2>3. place \in {redirects[e][dir], detour[e]}
    BY <1>1, <1>10, <1>14, WriterAssumption
  <2> QED
    BY <1>1, <2>1, <2>2, <2>3 DEF WriterInv, FallbacksAreApart
<1>15. ReportedIsThere'
  <2> SUFFICES ASSUME NEW f \in Emitter, NEW i \in DOMAIN written'[f]
               PROVE  LET path == written'[f][i]
                          held == disk'[path.dir][path.base]
                      IN  /\ held # <<>>
                          /\ path.dir \in Fallback => \E k \in DOMAIN held : held[k] = f
      BY DEF ReportedIsThere
  <2>1. disk'[place][base] = value
    BY <1>1 DEF WriterInv, WriterTypes, place, base
  <2>2. CASE i \in DOMAIN written[f]
    <3> DEFINE path == written[f][i]
    <3>1. written'[f][i] = path /\ path.dir \in Dir \cup Fallback /\ path.base \in Base
      <4>1. written[f] \in Seq(Writer!Path)
        BY DEF WriterInv, WriterTypes
      <4>2. path \in Writer!Path
        BY <2>2, <4>1
      <4> QED
        BY <1>5, <1>7, <2>2, <4>2 DEF Writer!Path
    <3>2. CASE path.dir = place /\ path.base = base
      BY <1>14, <2>1, <2>2, <3>1, <3>2
    <3>3. CASE path.dir # place \/ path.base # base
      <4>1. disk'[path.dir][path.base] = disk[path.dir][path.base]
        BY <1>1, <3>1, <3>3 DEF WriterInv, WriterTypes, place, base
      <4>2. /\ disk[path.dir][path.base] # <<>>
            /\ path.dir \in Fallback =>
                  \E k \in DOMAIN disk[path.dir][path.base] :
                      disk[path.dir][path.base][k] = f
        BY <2>2 DEF WriterInv, ReportedIsThere
      <4> QED
        BY <3>1, <4>1, <4>2
    <3> QED
      BY <3>2, <3>3
  <2>3. CASE f = e /\ i = n + 1
    <3>1. written'[f][i].dir = place /\ written'[f][i].base = base
      BY <1>7, <2>3 DEF new
    <3> QED
      BY <2>1, <2>3, <3>1
  <2> QED
    BY <1>5, <1>7, <2>2, <2>3
<1> QED
  BY <1>8, <1>12, <1>13, <1>15 DEF WriterInv

\* Every step of an emitter is quiet, puts a file down, or makes a directory.
LEMMA WriterStep ==
    ASSUME WriterInv, [Writer!Next]_Writer!vars
    PROVE  WriterInv'
<1>1. CASE UNCHANGED Writer!vars
  <2>1. UNCHANGED <<disk, made, writerStage, detour, redirects, written>>
    BY <1>1 DEF Writer!vars
  <2>2. writerStage' \in [Emitter -> Writer!Stage]
    BY <2>1 DEF WriterInv, WriterTypes
  <2>3. \A e \in Emitter : writerStage'[e] \in Busy => writerStage[e] \in Busy
    BY <2>1
  <2>4. \A e \in Emitter : writerStage'[e] = "refused" => Writer!Retries(e)
    BY <2>1 DEF WriterInv, FallbacksAreApart
  <2> QED
    BY <2>1, <2>2, <2>3, <2>4, QuietWriterStep
<1>2. ASSUME NEW e \in Emitter,
             Writer!WriteTemporary(e) \/ Writer!Refused(e) \/ Writer!Fail(e) \/ Writer!Kill(e)
      PROVE  WriterInv'
  <2>1. UNCHANGED <<disk, made, detour, redirects, written>>
    BY <1>2 DEF Writer!WriteTemporary, Writer!Refused, Writer!Fail, Writer!Kill
  <2>2. PICK s \in Writer!Stage : /\ writerStage' = [writerStage EXCEPT ![e] = s]
                                  /\ s \in Busy => writerStage[e] \in Busy
                                  /\ s = "refused" => Writer!Retries(e)
    BY <1>2 DEF Writer!WriteTemporary, Writer!Refused, Writer!Fail, Writer!Kill,
       Writer!Stage, Busy
  <2>3. writerStage' \in [Emitter -> Writer!Stage]
    BY <2>2 DEF WriterInv, WriterTypes
  <2>4. \A f \in Emitter : writerStage'[f] = IF f = e THEN s ELSE writerStage[f]
    BY <2>2 DEF WriterInv, WriterTypes
  <2>5. \A f \in Emitter : writerStage'[f] \in Busy => writerStage[f] \in Busy
    BY <2>2, <2>4
  <2>6. \A f \in Emitter : writerStage'[f] = "refused" => Writer!Retries(f)
    BY <2>2, <2>4 DEF WriterInv, FallbacksAreApart
  <2> QED
    BY <2>1, <2>3, <2>5, <2>6, QuietWriterStep
<1>3. ASSUME NEW e \in Emitter, Writer!Rename(e)
      PROVE  WriterInv'
  <2>1. <<e>> \in Seq(Emitter) /\ <<e>> # <<>> /\ \E k \in DOMAIN <<e>> : <<e>>[k] = e
    OBVIOUS
  <2> QED
    BY <1>3, <2>1, PutStep DEF Writer!Rename
<1>4. ASSUME NEW e \in Emitter, Writer!AppendLine(e)
      PROVE  WriterInv'
  <2> DEFINE old == disk[Writer!Place(e)][Writer!Current(e).base]
  <2>1. old \in Seq(Emitter)
    <3>1. Writer!Place(e) \in Dir \cup Fallback /\ Writer!Current(e).base \in Base
      BY <1>4, CurrentFile DEF Writer!AppendLine, Busy, WriterInv
    <3> QED
      BY <3>1 DEF WriterInv, WriterTypes
  <2> HIDE DEF old
  <2>2. /\ Append(old, e) \in Seq(Emitter) /\ Append(old, e) # <<>>
        /\ \E k \in DOMAIN Append(old, e) : Append(old, e)[k] = e
    <3>1. Len(old) + 1 \in DOMAIN Append(old, e) /\ Append(old, e)[Len(old) + 1] = e
      BY <2>1
    <3> QED
      BY <2>1, <3>1
  <2>3. disk' = [disk EXCEPT ![Writer!Place(e)][Writer!Current(e).base] = Append(old, e)]
    BY <1>4 DEF Writer!AppendLine, old
  <2> QED
    BY <1>4, <2>2, <2>3, PutStep DEF Writer!AppendLine
<1> QED
  BY <1>1, <1>2, <1>3, <1>4, MakeFallbackStep DEF Writer!Next

\* Whatever the emitters do and whenever they are killed: what they put is theirs.
LEMMA WriterInvariant == Writer!Spec => []WriterInv
<1>1. WriterInv /\ [Writer!Next]_Writer!vars => WriterInv'
  BY WriterStep
<1> QED
  BY WriterInitInv, <1>1, PTL DEF Writer!Spec

\* Nobody reads a value cut short: whatever is refused, killed or written beside it, a
\* file holds whole values (atomicWriteFile and the append of lib/telemetry-fallback).
THEOREM TelemetryFilesAreWhole == Writer!Spec => []Writer!WholeFiles
<1>1. WriterInv => Writer!WholeFiles
  <2> SUFFICES ASSUME WriterInv, NEW p \in Dir \cup Fallback, NEW b \in Base,
                      NEW i \in DOMAIN disk[p][b]
               PROVE  disk[p][b][i] # Writer!Torn
      BY DEF Writer!WholeFiles
  <2>1. disk[p][b] \in Seq(Emitter)
    BY DEF WriterInv, WriterTypes
  <2>2. disk[p][b][i] \in Emitter
    BY <2>1
  <2> QED
    BY <2>2, WriterAssumption
<1> QED
  BY WriterInvariant, <1>1, PTL

\* Whatever write is refused at whatever point, and however many emitters are
\* redirected at once: the path an emitter reports holds the file, in a fallback
\* directory its own value; files stay apart, and what is redirected of one directory
\* stays together (createTelemetryWriter's redirects).
THEOREM TelemetryIsWhereReported == Writer!Spec => []Writer!FilesAreWhereReported
<1>1. WriterInv => Writer!FilesAreWhereReported
  <2> SUFFICES ASSUME WriterInv, NEW e \in Emitter,
                      NEW i \in DOMAIN written[e], NEW j \in DOMAIN written[e]
               PROVE  Writer!FilesAreWhereReported!(e)!(i, j)
      BY DEF Writer!FilesAreWhereReported
  <2>1. Plan[e][i].dir \in Dir /\ Plan[e][j].dir \in Dir
    BY PlannedBefore DEF WriterInv
  <2>2. \A k \in {i, j} :
           /\ written[e][k].base = Plan[e][k].base
           /\ written[e][k].dir # NoDir
           /\ written[e][k].dir \in {Plan[e][k].dir, redirects[e][Plan[e][k].dir]}
    BY DEF WriterInv, WrittenAsPlanned
  <2>3. \A d \in Dir : redirects[e][d] \in Fallback \cup {NoDir}
    BY DEF WriterInv, WriterTypes
  <2>4. written[e][i] = written[e][j] =>
           Plan[e][i].dir = Plan[e][j].dir /\ Plan[e][i].base = Plan[e][j].base
    BY <2>1, <2>2, <2>3, WriterAssumption DEF WriterInv, FallbacksAreApart
  <2>5. Plan[e][i].dir = Plan[e][j].dir
        /\ {written[e][i].dir, written[e][j].dir} \subseteq Fallback
        => written[e][i].dir = written[e][j].dir
    BY <2>1, <2>2, WriterAssumption
  <2> QED
    BY <2>4, <2>5 DEF WriterInv, ReportedIsThere
<1> QED
  BY WriterInvariant, <1>1, PTL

\* NeverSplit fails at one point only: a file written before the first refusal is in the
\* configured directory, the ones after it are in its fallback.  From then on the files
\* of a directory stay together, whatever is refused, so that no third place comes up.
StaysRedirected ==
    \A e \in Emitter : \A i, j \in DOMAIN written[e] :
        i < j /\ Plan[e][i].dir = Plan[e][j].dir /\ written[e][i].dir \in Fallback
        => written[e][j].dir = written[e][i].dir

\* A write reports the redirect of its directory where there is one.
LEMMA ReportKeepsRedirect ==
    ASSUME WriterInv, WriterInv', StaysRedirected, NEW e \in Emitter, Writer!Report(e),
           writerStage[e] \in Busy
    PROVE  StaysRedirected'
<1> DEFINE n == Len(written[e])
           new == [dir |-> Writer!Place(e), base |-> Writer!Current(e).base]
<1>1. /\ \A f \in Emitter : written[f] \in Seq(Writer!Path)
      /\ \A f \in Emitter : written'[f] = IF f = e THEN Append(written[e], new) ELSE written[f]
  BY DEF WriterInv, WriterTypes, Writer!Report, Writer!Advance
<1>2. /\ n \in Nat
      /\ DOMAIN written[e] = 1..n /\ DOMAIN written'[e] = 1..(n + 1)
      /\ \A i \in 1..n : written'[e][i] = written[e][i]
      /\ written'[e][n + 1].dir = Writer!Place(e)
  <2> HIDE DEF new
  <2>1. written[e] \in Seq(Writer!Path) /\ written'[e] = Append(written[e], new)
    BY <1>1
  <2>2. written'[e][n + 1] = new /\ new.dir = Writer!Place(e)
    BY <2>1 DEF new
  <2> QED
    BY <2>1, <2>2
<1>3. ASSUME NEW i \in 1..n, Plan[e][i].dir = Writer!Current(e).dir,
             written[e][i].dir \in Fallback
      PROVE  Writer!Place(e) = written[e][i].dir
  <2>1. Plan[e][i].dir \in Dir
    BY <1>2, PlannedBefore DEF WriterInv
  <2>2. written[e][i].dir = redirects[e][Plan[e][i].dir] /\ written[e][i].dir # NoDir
    BY <1>2, <1>3, <2>1, WriterAssumption DEF WriterInv, WrittenAsPlanned
  <2> QED
    BY <1>3, <2>2 DEF Writer!Place, Writer!Redirected
<1>4. Plan[e][n + 1] = Writer!Current(e)
  BY DEF Writer!Current
<1> HIDE DEF n, new
<1> SUFFICES ASSUME NEW f \in Emitter, NEW i \in DOMAIN written'[f],
                    NEW j \in DOMAIN written'[f], i < j,
                    Plan[f][i].dir = Plan[f][j].dir, written'[f][i].dir \in Fallback
             PROVE  written'[f][j].dir = written'[f][i].dir
    BY DEF StaysRedirected
<1>5. CASE f # e
  BY <1>1, <1>5 DEF StaysRedirected
<1>6. CASE f = e /\ j \in 1..n
  <2>1. i \in 1..n
    BY <1>2, <1>6
  <2> QED
    BY <1>2, <1>6, <2>1 DEF StaysRedirected
<1>7. CASE f = e /\ j = n + 1
  <2>1. i \in 1..n
    BY <1>2, <1>7
  <2> QED
    BY <1>2, <1>3, <1>4, <1>7, <2>1
<1> QED
  BY <1>2, <1>5, <1>6, <1>7

\* Once a file of a directory is redirected, every later one of that directory goes where
\* it went (the map of redirects that createTelemetryWriter keeps).
THEOREM RedirectedFilesStayTogether == Writer!Spec => []StaysRedirected
<1>1. Writer!Init => StaysRedirected
  BY DEF Writer!Init, StaysRedirected
<1>2. ASSUME WriterInv, WriterInv', StaysRedirected, [Writer!Next]_Writer!vars
      PROVE  StaysRedirected'
  <2>1. CASE UNCHANGED written
    BY <1>2, <2>1 DEF StaysRedirected
  <2>2. ASSUME NEW e \in Emitter, Writer!Rename(e) \/ Writer!AppendLine(e)
        PROVE  StaysRedirected'
    BY <1>2, <2>2, ReportKeepsRedirect DEF Writer!Rename, Writer!AppendLine, Busy
  <2> QED
    BY <1>2, <2>1, <2>2 DEF Writer!Next, Writer!vars, Writer!WriteTemporary,
       Writer!Refused, Writer!MakeFallback, Writer!Fail, Writer!Kill
<1> QED
  BY <1>1, <1>2, WriterInvariant, PTL DEF Writer!Spec

\* Type correctness of the writer: redirects and detours lead into directories that
\* were made, and no emitter reports more than it writes.
THEOREM WriterTypeCorrect == Writer!Spec => []Writer!TypeOK
<1>1. WriterInv => Writer!TypeOK
  <2> SUFFICES ASSUME WriterInv PROVE Writer!TypeOK
      OBVIOUS
  <2>1. Seq(Emitter) \subseteq Seq(Emitter \cup {Writer!Torn})
    OBVIOUS
  <2>2. disk \in [Dir \cup Fallback -> [Base -> Seq(Emitter \cup {Writer!Torn})]]
    <3>1. disk \in [Dir \cup Fallback -> [Base -> Seq(Emitter)]]
      BY DEF WriterInv, WriterTypes
    <3> DEFINE S == Seq(Emitter)
               T == Seq(Emitter \cup {Writer!Torn})
    <3> HIDE DEF S, T
    <3>2. S \subseteq T /\ disk \in [Dir \cup Fallback -> [Base -> S]]
      BY <2>1, <3>1 DEF S, T
    <3>3. disk \in [Dir \cup Fallback -> [Base -> T]]
      BY <3>2
    <3> QED
      BY <3>3 DEF T
  <2>3. \A e \in Emitter : written[e] \in Seq(Writer!Path) /\ Len(written[e]) =< Len(Plan[e])
    BY DEF WriterInv, WriterTypes
  <2> QED
    BY <2>2, <2>3 DEF Writer!TypeOK, WriterInv, WriterTypes
<1> QED
  BY WriterInvariant, <1>1, PTL

-----------------------------------------------------------------------------
(* emit-ci-phase and emit-cache-observation: the events *)

\* An identifier is lower case, and the one handed over if there is any.
IdentifierIsGiven(id, given) ==
    /\ id = Events!Digest(id.digits)
    /\ \A digits \in given : id = Events!Digest(digits)

\* What a single event says of itself.
EventIsItsOwn(e) ==
    /\ IdentifierIsGiven(e.trace, e.given.trace)
    /\ IdentifierIsGiven(e.span, e.given.span)
    /\ IdentifierIsGiven(e.parent, e.given.parent)
    /\ e.given.trace = {} => e.trace = Events!DerivedTrace(e.job)
    /\ e.of = RunOf[e.job]
    /\ e.given.parent = {} => e.parent = Events!JobSpan(e.trace, e.job)
    /\ \/ /\ e.kind = "ci_phase" /\ e.phase \in Phase
          /\ e.given.span = {} => e.span = Events!PhaseSpan(e.trace, e.job, e.phase)
       \/ /\ e.kind = "cache_observation" /\ e.phase = Empty
          /\ e.span = Events!CacheSpan(e.trace, e.job)

\* optionalHex: what is handed over is taken in lower case, and what is derived is lower
\* case already.
LEMMA EffectiveIsGiven ==
    ASSUME NEW known, NEW handed \in Events!Optional(known) \cup {{Events!Null}}, NEW derived,
           derived = Events!Digest(derived.digits)
    PROVE  /\ IdentifierIsGiven(Events!Effective(handed, derived), Events!Digits(handed))
           /\ Events!Digits(handed) = {} => Events!Effective(handed, derived) = derived
<1>1. CASE handed = {}
  BY <1>1 DEF Events!Effective, Events!Digits, IdentifierIsGiven
<1>2. CASE handed # {}
  <2>1. PICK value \in [digits : known, upper : BOOLEAN] \cup {Events!Null} : handed = {value}
    BY <1>2 DEF Events!Optional
  <2>2. (CHOOSE v \in handed : TRUE) = value
    BY <2>1
  <2>3. Events!Effective(handed, derived) = Events!Digest(value.digits)
    BY <1>2, <2>2 DEF Events!Effective, Events!LowerCase
  <2>4. Events!Digits(handed) = {value.digits}
    BY <2>1 DEF Events!Digits
  <2>5. Events!Digest(value.digits).digits = value.digits
    BY DEF Events!Digest
  <2> QED
    BY <2>3, <2>4, <2>5 DEF IdentifierIsGiven
<1> QED
  BY <1>1, <1>2

\* What is derived is lower case, and tells what it is derived from.
LEMMA DigestsTell ==
    /\ \A of : Events!Digest(of) = Events!Digest(Events!Digest(of).digits)
    /\ \A x, y : Events!Digest(x) = Events!Digest(y) => x = y
BY DEF Events!Digest

\* The spans derived for phases, observations and jobs are never taken for each other.
LEMMA SpansTell ==
    ASSUME NEW t, NEW u, NEW j, NEW k, NEW p, NEW q
    PROVE  /\ Events!PhaseSpan(t, j, p) = Events!PhaseSpan(u, k, q)
                 <=> t = u /\ j = k /\ p = q
           /\ Events!CacheSpan(t, j) = Events!CacheSpan(u, k) <=> t = u /\ j = k
           /\ Events!PhaseSpan(t, j, p) # Events!CacheSpan(u, k)
           /\ Events!JobSpan(u, k) # Events!PhaseSpan(t, j, p)
           /\ Events!JobSpan(u, k) # Events!CacheSpan(t, j)
<1>1. /\ Len(<<t, "job", j, "ci_phase", p>>) = 5
      /\ Len(<<u, "job", k, "cache_observation">>) = 4
      /\ Len(<<t, "job", j, "cache_observation">>) = 4
      /\ Len(<<u, "job", k>>) = 3
  OBVIOUS
<1>2. /\ <<t, "job", j, "ci_phase", p>> # <<u, "job", k, "cache_observation">>
      /\ <<u, "job", k>> # <<t, "job", j, "ci_phase", p>>
      /\ <<u, "job", k>> # <<t, "job", j, "cache_observation">>
  BY <1>1
<1>3. /\ <<t, "job", j, "ci_phase", p>> = <<u, "job", k, "ci_phase", q>>
            <=> t = u /\ j = k /\ p = q
      /\ <<t, "job", j, "cache_observation">> = <<u, "job", k, "cache_observation">>
            <=> t = u /\ j = k
  OBVIOUS
<1> QED
  BY <1>2, <1>3, DigestsTell DEF Events!PhaseSpan, Events!CacheSpan, Events!JobSpan

\* A phase that is emitted, in its parts.
LEMMA PhaseEmitted ==
    ASSUME NEW j \in Job, NEW p \in Phase, Events!EmitPhase(j, p)
    PROVE  \E event : /\ events' = events \cup {event} /\ EventIsItsOwn(event)
                     /\ event.job = j /\ event.kind = "ci_phase"
<1>1. PICK asked \in {j, Empty}, elapsed \in -1..MaxTime, duration \in (0..MaxTime) \cup {Empty},
           traceId \in Events!Optional(Events!KnownTraces),
           spanId \in Events!Optional(Events!KnownSpans),
           parentSpanId \in Events!Optional(Events!KnownSpans) \cup {{Events!Null}} :
        LET named == Events!JobId(asked, j)
            trace == Events!Effective(traceId, Events!DerivedTrace(j))
        IN  Events!Emit([kind |-> "ci_phase", job |-> named, of |-> RunOf[j], phase |-> p,
                 duration |-> Events!Duration(duration, elapsed),
                 given |-> [trace |-> Events!Digits(traceId), span |-> Events!Digits(spanId),
                            parent |-> Events!Digits(parentSpanId)],
                 trace |-> trace,
                 span |-> Events!Effective(spanId, Events!PhaseSpan(trace, named, p)),
                 parent |-> Events!Effective(parentSpanId, Events!JobSpan(trace, named))])
  BY DEF Events!EmitPhase
<1>2. Events!JobId(asked, j) = j
  BY DEF Events!JobId
<1> DEFINE trace == Events!Effective(traceId, Events!DerivedTrace(j))
           span == Events!Effective(spanId, Events!PhaseSpan(trace, j, p))
           parent == Events!Effective(parentSpanId, Events!JobSpan(trace, j))
           given == [trace |-> Events!Digits(traceId), span |-> Events!Digits(spanId),
                     parent |-> Events!Digits(parentSpanId)]
           event == [kind |-> "ci_phase", job |-> j, of |-> RunOf[j], phase |-> p,
                     duration |-> Events!Duration(duration, elapsed),
                     given |-> given, trace |-> trace, span |-> span, parent |-> parent]
<1>3. events' = events \cup {event}
  BY <1>1, <1>2 DEF Events!Emit
<1>4. /\ IdentifierIsGiven(trace, given.trace)
      /\ given.trace = {} => trace = Events!DerivedTrace(j)
  BY EffectiveIsGiven, DigestsTell DEF Events!DerivedTrace
<1>5. /\ IdentifierIsGiven(span, given.span)
      /\ given.span = {} => span = Events!PhaseSpan(trace, j, p)
  BY EffectiveIsGiven, DigestsTell DEF Events!PhaseSpan
<1>6. /\ IdentifierIsGiven(parent, given.parent)
      /\ given.parent = {} => parent = Events!JobSpan(trace, j)
  BY EffectiveIsGiven, DigestsTell DEF Events!JobSpan
<1> HIDE DEF trace, span, parent, given
<1>7. EventIsItsOwn(event)
  BY <1>4, <1>5, <1>6 DEF EventIsItsOwn
<1> QED
  BY <1>3, <1>7

\* An observation that is emitted, in its parts.
LEMMA CacheEmitted ==
    ASSUME NEW j \in Job, Events!EmitCache(j)
    PROVE  \E event : /\ events' = events \cup {event} /\ EventIsItsOwn(event)
                     /\ event.job = j /\ event.kind = "cache_observation"
<1>1. PICK asked \in {j, Empty}, c \in {"warm", "cold", "unknown"} :
        Events!EmitCache(j)!(asked, c)
  BY DEF Events!EmitCache
<1>2. Events!JobId(asked, j) = j
  BY DEF Events!JobId
<1> DEFINE trace == Events!DerivedTrace(j)
           span == Events!CacheSpan(trace, j)
           parent == Events!JobSpan(trace, j)
           given == [trace |-> {}, span |-> {}, parent |-> {}]
           event == [kind |-> "cache_observation", job |-> j, of |-> RunOf[j],
                     phase |-> Empty, class |-> c,
                     hit |-> [warm |-> "true", cold |-> "false", unknown |-> "null"][c],
                     given |-> given, trace |-> trace, span |-> span, parent |-> parent]
<1>3. events' = events \cup {event}
  BY <1>1, <1>2 DEF Events!Emit, Events!NothingGiven
<1>4. /\ IdentifierIsGiven(trace, given.trace) /\ IdentifierIsGiven(span, given.span)
      /\ IdentifierIsGiven(parent, given.parent)
  BY DigestsTell DEF IdentifierIsGiven, Events!DerivedTrace, Events!JobSpan, Events!CacheSpan
<1> HIDE DEF trace, given
<1>5. EventIsItsOwn(event)
  BY <1>4 DEF EventIsItsOwn, trace, given
<1> QED
  BY <1>3, <1>5

\* Emitters that share nothing but the job's environment build events that join: by
\* trace if of one run attempt, by parent if of one job, and a span is never two
\* things; and where a caller hands an identifier over, by that one (buildCorrelation
\* and buildCacheObservation).
THEOREM EventsFindEachOther == Events!Spec => []Events!EventsJoin
<1> DEFINE Inv == \A e \in events : EventIsItsOwn(e)
<1>1. Events!Init => Inv
  BY DEF Events!Init
<1>2. Inv /\ [Events!Next]_events => Inv'
  <2> SUFFICES ASSUME Inv, [Events!Next]_events PROVE Inv'
      OBVIOUS
  <2>1. ASSUME NEW j \in Job, NEW p \in Phase, Events!EmitPhase(j, p) PROVE Inv'
    <3>1. PICK event : events' = events \cup {event} /\ EventIsItsOwn(event)
      BY <2>1, PhaseEmitted
    <3> QED
      BY <3>1
  <2>2. ASSUME NEW j \in Job, Events!EmitCache(j) PROVE Inv'
    <3>1. PICK event : events' = events \cup {event} /\ EventIsItsOwn(event)
      BY <2>2, CacheEmitted
    <3> QED
      BY <3>1
  <2>3. CASE UNCHANGED events
    BY <2>3
  <2> QED
    BY <2>1, <2>2, <2>3 DEF Events!Next
<1>3. Inv => Events!EventsJoin
  <2> SUFFICES ASSUME Inv, NEW e \in events, NEW f \in events
               PROVE  Events!EventsJoin!(e, f)
      BY DEF Events!EventsJoin
  <2>1. EventIsItsOwn(e) /\ EventIsItsOwn(f)
    OBVIOUS
  <2>2. e.given.trace = {} /\ f.given.trace = {} => (e.trace = f.trace <=> e.of = f.of)
    BY <2>1 DEF EventIsItsOwn, Events!DerivedTrace, Events!Digest
  <2>3. e.given.parent = {} /\ f.given.parent = {} =>
           (e.parent = f.parent <=> e.trace = f.trace /\ e.job = f.job)
    BY <2>1 DEF EventIsItsOwn, Events!JobSpan, Events!Digest
  <2>4. e.given.span = {} /\ f.given.span = {} =>
           (e.span = f.span <=> /\ e.trace = f.trace /\ e.job = f.job
                                /\ e.kind = f.kind /\ e.phase = f.phase)
    <3> SUFFICES ASSUME e.given.span = {}, f.given.span = {}
                 PROVE  e.span = f.span <=> /\ e.trace = f.trace /\ e.job = f.job
                                            /\ e.kind = f.kind /\ e.phase = f.phase
      OBVIOUS
    <3>1. CASE e.kind = "ci_phase" /\ f.kind = "ci_phase"
      <4>1. /\ e.span = Events!PhaseSpan(e.trace, e.job, e.phase)
            /\ f.span = Events!PhaseSpan(f.trace, f.job, f.phase)
        BY <2>1, <3>1 DEF EventIsItsOwn
      <4> QED
        BY <3>1, <4>1, SpansTell
    <3>2. CASE e.kind = "cache_observation" /\ f.kind = "cache_observation"
      <4>1. /\ e.span = Events!CacheSpan(e.trace, e.job) /\ e.phase = Empty
            /\ f.span = Events!CacheSpan(f.trace, f.job) /\ f.phase = Empty
        BY <2>1, <3>2 DEF EventIsItsOwn
      <4> QED
        BY <3>2, <4>1, SpansTell
    <3>3. CASE e.kind = "ci_phase" /\ f.kind = "cache_observation"
      <4>1. /\ e.span = Events!PhaseSpan(e.trace, e.job, e.phase)
            /\ f.span = Events!CacheSpan(f.trace, f.job)
        BY <2>1, <3>3 DEF EventIsItsOwn
      <4> QED
        BY <3>3, <4>1, SpansTell
    <3>4. CASE e.kind = "cache_observation" /\ f.kind = "ci_phase"
      <4>1. /\ e.span = Events!CacheSpan(e.trace, e.job)
            /\ f.span = Events!PhaseSpan(f.trace, f.job, f.phase)
        BY <2>1, <3>4 DEF EventIsItsOwn
      <4> QED
        BY <3>4, <4>1, SpansTell
    <3> QED
      BY <2>1, <3>1, <3>2, <3>3, <3>4 DEF EventIsItsOwn
  <2>5. e.given.span = {} /\ f.given.parent = {} => e.span # f.parent
    <3> SUFFICES ASSUME e.given.span = {}, f.given.parent = {} PROVE e.span # f.parent
      OBVIOUS
    <3>1. f.parent = Events!JobSpan(f.trace, f.job)
      BY <2>1 DEF EventIsItsOwn
    <3>2. \/ e.span = Events!PhaseSpan(e.trace, e.job, e.phase)
          \/ e.span = Events!CacheSpan(e.trace, e.job)
      BY <2>1 DEF EventIsItsOwn
    <3> QED
      BY <3>1, <3>2, SpansTell
  <2>6. f.trace.digits \in e.given.trace => e.trace = f.trace
    BY <2>1 DEF EventIsItsOwn, IdentifierIsGiven
  <2>7. /\ f.span.digits \in e.given.span => e.span = f.span
        /\ f.span.digits \in e.given.parent => e.parent = f.span
    BY <2>1 DEF EventIsItsOwn, IdentifierIsGiven
  <2> QED
    BY <2>2, <2>3, <2>4, <2>5, <2>6, <2>7
<1> QED
  BY <1>1, <1>2, <1>3, PTL DEF Events!Spec

\* Type correctness of the events: each is of a job, whatever an input names
\* (buildCorrelation), and never more than allowed.
THEOREM EventsTypeCorrect == Events!Spec => []Events!TypeOK
<1> DEFINE Kinds == {"ci_phase", "cache_observation"}
           Inv == /\ IsFiniteSet(events) /\ Cardinality(events) =< MaxEvents
                  /\ \A e \in events : e.job \in Job /\ e.kind \in Kinds
<1>1. \A S : Events!Cardinality(S) = Cardinality(S)
  BY DEF Events!Cardinality, Cardinality
<1>2. Events!Init => Inv
  BY FS_EmptySet, EventsAssumption DEF Events!Init
<1>3. Inv /\ [Events!Next]_events => Inv'
  <2> SUFFICES ASSUME Inv, Events!Next PROVE Inv'
      OBVIOUS
  <2>1. Cardinality(events) < MaxEvents
    BY <1>1 DEF Events!Next
  <2>2. PICK event : /\ events' = events \cup {event}
                     /\ event.job \in Job /\ event.kind \in Kinds
    BY PhaseEmitted, CacheEmitted DEF Events!Next
  <2>3. /\ IsFiniteSet(events') /\ Cardinality(events) \in Nat
        /\ Cardinality(events') \in Nat
        /\ Cardinality(events') =< Cardinality(events) + 1
    BY <2>2, OneMore
  <2>4. Cardinality(events') =< MaxEvents
    BY <2>1, <2>3, EventsAssumption
  <2>5. \A e \in events' : e.job \in Job /\ e.kind \in Kinds
    BY <2>2
  <2> QED
    BY <2>3, <2>4, <2>5
<1>4. Inv => Events!TypeOK
  BY <1>1 DEF Events!TypeOK
<1> QED
  BY <1>2, <1>3, <1>4, PTL DEF Events!Spec

-----------------------------------------------------------------------------
(* release-manifest *)

\* The temporary file of this attempt is there between its writing and its renaming
\* only; those of earlier attempts stay.
TemporariesAreOfAttempts ==
    /\ attempt \in Nat
    /\ \A t \in temporaries : t = <<t[1], t[2]>> /\ t[1] \in Nat /\ t[1] =< attempt
    /\ manifestStage \in {"built", "walked", "renamed", "opened", "published"} =>
          \A t \in temporaries : t # <<attempt, listing>>
    /\ manifestStage \in {"built", "walked"} => \A t \in temporaries : t[1] < attempt

\* What was walked is what is in the tree besides the attempt's own files.
ListingIsTheTree ==
    /\ manifestStage \in {"walked", "renamed", "opened", "published"} =>
          listing = Manifest!Walked
    /\ manifestStage = "written" =>
          listing = Manifest!Walked \ {<<"temporary", attempt, listing>>}
    /\ manifestStage \in {"renamed", "opened", "published"} => manifest = listing
    /\ manifestStage = "published" => digest = listing

ManifestInv == TemporariesAreOfAttempts /\ ListingIsTheTree

\* What the walk is to list: the files of the build, and the temporary files that
\* killed attempts left.
InTree ==
    {<<"file", f, tree[f]>> : f \in Manifest!Present}
    \cup {<<"temporary", t[1], t[2]>> : t \in temporaries}

WalkIsComplete == Manifest!Walked = InTree

\* The manifest and its hash are not walked, and nothing else is left out.
LEMMA WalkedEntries == WalkIsComplete
<1> DEFINE files == {<<"file", f, tree[f]>> : f \in Manifest!Present}
           others == {<<"temporary", t[1], t[2]>> : t \in temporaries}
           own == {e \in {<<"manifest", 0, manifest>>, <<"hash", 0, digest>>} :
                      e[3] # Absent}
<1>1. \A e \in files \cup others : e[1] \notin Manifest!Excluded
  BY DEF Manifest!Excluded
<1>2. \A e \in own : e[1] \in Manifest!Excluded
  BY DEF Manifest!Excluded
<1>3. Manifest!Entries = files \cup others \cup own
  BY DEF Manifest!Entries
<1> QED
  BY <1>1, <1>2, <1>3 DEF WalkIsComplete, Manifest!Walked, InTree

\* Nor after a step.
LEMMA WalkedEntriesNext == Manifest!Walked' = InTree'
<1>1. WalkIsComplete'
  BY WalkedEntries, PTL
<1> QED
  BY <1>1 DEF WalkIsComplete

\* At first there is no listing and no manifest.
LEMMA ManifestInitInv == Manifest!Init => ManifestInv
BY DEF Manifest!Init, ManifestInv, TemporariesAreOfAttempts, ListingIsTheTree

\* Each step of an attempt keeps what it walked in the tree.
LEMMA ManifestStep == ManifestInv /\ [Manifest!Next]_Manifest!vars => ManifestInv'
<1> SUFFICES ASSUME ManifestInv, [Manifest!Next]_Manifest!vars PROVE ManifestInv'
    OBVIOUS
<1> USE DEF ManifestInv, TemporariesAreOfAttempts, ListingIsTheTree
<1>1. UNCHANGED <<tree, temporaries>> => Manifest!Walked' = Manifest!Walked
  BY WalkedEntries, WalkedEntriesNext DEF WalkIsComplete, InTree, Manifest!Present
<1>2. CASE Manifest!Walk
  BY <1>1, <1>2 DEF Manifest!Walk
<1>3. CASE Manifest!WriteTemporary
  <2> DEFINE own == <<"temporary", attempt, listing>>
  <2>1. Manifest!Walked' = Manifest!Walked \cup {own}
    <3>1. /\ temporaries' = temporaries \cup {<<attempt, listing>>}
          /\ Manifest!Present' = Manifest!Present /\ tree' = tree
      BY <1>3 DEF Manifest!WriteTemporary, Manifest!Present
    <3>2. {<<"temporary", t[1], t[2]>> : t \in temporaries'}
             = {<<"temporary", t[1], t[2]>> : t \in temporaries} \cup {own}
      <4> DEFINE name(t) == <<"temporary", t[1], t[2]>>
      <4>1. name(<<attempt, listing>>) = own
        OBVIOUS
      <4> HIDE DEF name, own
      <4>2. {name(t) : t \in temporaries'} = {name(t) : t \in temporaries} \cup {own}
        BY <3>1, <4>1
      <4> QED
        BY <4>2 DEF name
    <3>3. {<<"file", f, tree'[f]>> : f \in Manifest!Present'}
             = {<<"file", f, tree[f]>> : f \in Manifest!Present}
      BY <3>1
    <3>4. InTree' = InTree \cup {own}
      BY <3>2, <3>3 DEF InTree
    <3> QED
      BY <3>4, WalkedEntries, WalkedEntriesNext DEF WalkIsComplete
  <2>2. own \notin Manifest!Walked
    <3> SUFFICES ASSUME own \in Manifest!Walked PROVE FALSE
        OBVIOUS
    <3>1. PICK t \in temporaries : own = <<"temporary", t[1], t[2]>>
      BY WalkedEntries DEF WalkIsComplete, InTree
    <3> QED
      BY <1>3, <3>1 DEF Manifest!WriteTemporary
  <2> QED
    BY <1>3, <2>1, <2>2 DEF Manifest!WriteTemporary
<1>4. CASE Manifest!Rename
  <2> DEFINE own == <<"temporary", attempt, listing>>
  <2>1. Manifest!Walked' = Manifest!Walked \ {own}
    BY <1>4, WalkedEntries, WalkedEntriesNext DEF WalkIsComplete, Manifest!Rename, InTree,
       Manifest!Present
  <2> QED
    BY <1>4, <2>1 DEF Manifest!Rename
<1>5. CASE Manifest!OpenHash \/ Manifest!FillHash \/ UNCHANGED Manifest!vars
  BY <1>1, <1>5 DEF Manifest!OpenHash, Manifest!FillHash, Manifest!vars
<1>6. CASE Manifest!BuildAgain
  BY <1>6 DEF Manifest!BuildAgain
<1> QED
  BY <1>2, <1>3, <1>4, <1>5, <1>6 DEF Manifest!Next

\* Whatever attempts were killed before, at whatever point: a published manifest lists
\* the tree it was published in, and its hash is of it (createReleaseManifest).
THEOREM ManifestsDescribeTheTree == Manifest!Spec => []Manifest!PublishedDescribesTree
<1>1. ManifestInv => Manifest!PublishedDescribesTree
  BY DEF ManifestInv, ListingIsTheTree, Manifest!PublishedDescribesTree, Manifest!Walked,
     Manifest!Excluded
<1> QED
  BY ManifestInitInv, ManifestStep, <1>1, PTL DEF Manifest!Spec

\* Type correctness of the manifest's attempts.
THEOREM ManifestTypeCorrect == Manifest!Spec => []Manifest!TypeOK
<1>1. Manifest!Init => Manifest!TypeOK
  BY ManifestAssumption DEF Manifest!Init, Manifest!TypeOK
<1>2. Manifest!TypeOK /\ [Manifest!Next]_Manifest!vars => Manifest!TypeOK'
  <2> SUFFICES ASSUME Manifest!TypeOK, [Manifest!Next]_Manifest!vars PROVE Manifest!TypeOK'
      OBVIOUS
  <2> USE DEF Manifest!TypeOK
  <2>1. CASE Manifest!BuildAgain
    BY <2>1, ManifestAssumption DEF Manifest!BuildAgain
  <2>2. CASE Manifest!WriteTemporary
    BY <2>2 DEF Manifest!WriteTemporary
  <2>3. CASE \/ Manifest!Walk \/ Manifest!Rename \/ Manifest!OpenHash \/ Manifest!FillHash
             \/ UNCHANGED Manifest!vars
    BY <2>3 DEF Manifest!Walk, Manifest!Rename, Manifest!OpenHash, Manifest!FillHash,
       Manifest!vars
  <2> QED
    BY <2>1, <2>2, <2>3 DEF Manifest!Next
<1> QED
  BY <1>1, <1>2, PTL DEF Manifest!Spec

-----------------------------------------------------------------------------
(* wrangler-pinned *)

\* Whatever the target held is gone, and what came since is the pinned one.
TargetHoldsPinned ==
    /\ wranglerStage \in {"empty", "staged", "packed", "unpacked"} => modules = "absent"
    /\ wranglerStage = "unpacked" => pnpm = "pinned"
    /\ wranglerStage \in {"installed", "published"} => modules = "pinned"
    /\ wranglerStage = "published" => staged = "pinned"

TargetIsAllowed ==
    target # <<>> => \E d \in Directory : target = Real[d] /\ Wrangler!Allowed(Real[d])

WranglerInv == TargetHoldsPinned /\ ran \subseteq {"pinned"} /\ TargetIsAllowed

\* isolatedEnv lets no configuration of the caller's through: what libuv would add on
\* Windows is either set by the action or passed on purpose.
LEMMA WhatIsFetched == Wrangler!Fetched = {"pinned"}
<1>1. Wrangler!AddedByLibuv \ Wrangler!SetOnWindows \subseteq Wrangler!WINDOWS_PASSTHROUGH
  BY DEF Wrangler!AddedByLibuv, Wrangler!SetOnWindows, Wrangler!WINDOWS_PASSTHROUGH
<1>2. Wrangler!ChildEnv \subseteq Wrangler!PASSTHROUGH \cup Wrangler!WINDOWS_PASSTHROUGH
  BY <1>1 DEF Wrangler!ChildEnv
<1> QED
  BY <1>2, WranglerAssumption DEF Wrangler!Fetched

\* Whatever the directory held, the registry answers or the caller configures: only
\* the pinned pnpm runs, and a published wrangler is the pinned one (run of
\* wrangler-pinned.mjs).
THEOREM WranglerIsPinned == Wrangler!Spec => []Wrangler!OnlyPinnedRuns
<1>1. Wrangler!Init => WranglerInv
  BY DEF Wrangler!Init, WranglerInv, TargetHoldsPinned, TargetIsAllowed
<1>2. WranglerInv /\ [Wrangler!Next]_Wrangler!vars => WranglerInv'
  BY WhatIsFetched DEF WranglerInv, TargetHoldsPinned, TargetIsAllowed, Wrangler!Next,
     Wrangler!vars, Wrangler!disk, Wrangler!ResolveTarget, Wrangler!RecreateTarget,
     Wrangler!StagePinnedFiles, Wrangler!Pack, Wrangler!Unpack, Wrangler!Install,
     Wrangler!Publish, Wrangler!Again
<1>3. WranglerInv => Wrangler!OnlyPinnedRuns
  BY DEF WranglerInv, Wrangler!OnlyPinnedRuns, TargetHoldsPinned
<1> QED
  BY <1>1, <1>2, <1>3, PTL DEF Wrangler!Spec

\* What resolveTarget's last checks say of a path, name by name.
LEMMA AllowedIsApart ==
    ASSUME NEW t \in Seq(Name), Wrangler!Allowed(t)
    PROVE  /\ \E i \in 1..(Len(t) - 1) : SubSeq(t, 1, i) = Temp
           /\ ~Wrangler!IsPrefix(t, Workspace) /\ ~Wrangler!IsPrefix(Workspace, t)
<1>1. /\ Wrangler!IsStrictPrefix(Temp, t) /\ t # Workspace
      /\ ~Wrangler!IsStrictPrefix(Workspace, t) /\ ~Wrangler!IsStrictPrefix(t, Workspace)
  BY DEF Wrangler!Allowed, Wrangler!Inside
<1>2. ~Wrangler!IsPrefix(t, Workspace) /\ ~Wrangler!IsPrefix(Workspace, t)
  BY <1>1 DEF Wrangler!IsStrictPrefix
<1>3. /\ Len(Temp) =< Len(t) /\ SubSeq(Temp, 1, Len(Temp)) = SubSeq(t, 1, Len(Temp))
      /\ Temp # t
  BY <1>1 DEF Wrangler!IsStrictPrefix, Wrangler!IsPrefix
<1>4. SubSeq(Temp, 1, Len(Temp)) = Temp /\ SubSeq(t, 1, Len(t)) = t
  BY WranglerAssumption
<1>5. Len(Temp) # Len(t)
  <2>1. ASSUME Len(Temp) = Len(t) PROVE FALSE
    <3>1. SubSeq(t, 1, Len(Temp)) = SubSeq(t, 1, Len(t))
      BY <2>1
    <3> QED
      BY <1>3, <1>4, <3>1
  <2> QED
    BY <2>1
<1>6. Len(Temp) \in Nat /\ Len(Temp) > 0 /\ Len(t) \in Nat
  BY WranglerAssumption
<1>7. Len(Temp) \in 1..(Len(t) - 1)
  <2> DEFINE m == Len(Temp)
             n == Len(t)
  <2> HIDE DEF m, n
  <2>1. m \in Nat /\ n \in Nat /\ m > 0 /\ m =< n /\ m # n
    BY <1>3, <1>5, <1>6 DEF m, n
  <2>2. m \in 1..(n - 1)
    BY <2>1
  <2> QED
    BY <2>2 DEF m, n
<1>8. SubSeq(t, 1, Len(Temp)) = Temp
  BY <1>3, <1>4
<1> QED
  BY <1>2, <1>7, <1>8

\* Whatever `dir` names and wherever its links lead: the directory removed and made
\* anew is below RUNNER_TEMP, and neither holds the workspace nor is in it
\* (resolveTarget).
THEOREM DeletionsAreConfined == Wrangler!Spec => []Wrangler!DeletesOnlyItsOwn
<1>1. Wrangler!Init => TargetIsAllowed
  BY DEF Wrangler!Init, TargetIsAllowed
<1>2. TargetIsAllowed /\ [Wrangler!Next]_Wrangler!vars => TargetIsAllowed'
  BY DEF TargetIsAllowed, Wrangler!Next, Wrangler!vars, Wrangler!disk,
     Wrangler!ResolveTarget, Wrangler!RecreateTarget, Wrangler!StagePinnedFiles,
     Wrangler!Pack, Wrangler!Unpack, Wrangler!Install, Wrangler!Publish, Wrangler!Again
<1>3. TargetIsAllowed => Wrangler!DeletesOnlyItsOwn
  BY AllowedIsApart, WranglerAssumption DEF TargetIsAllowed, Wrangler!DeletesOnlyItsOwn
<1> QED
  BY <1>1, <1>2, <1>3, PTL DEF Wrangler!Spec

\* Both at once: the property of wrangler-pinned that the run checks.
THEOREM WranglerIsPinnedAndConfined == Wrangler!Spec => []Wrangler!PinnedAndConfined
<1>1. Wrangler!OnlyPinnedRuns /\ Wrangler!DeletesOnlyItsOwn => Wrangler!PinnedAndConfined
  BY DEF Wrangler!PinnedAndConfined
<1> QED
  BY WranglerIsPinned, DeletionsAreConfined, <1>1, PTL

\* Type correctness of the pinned install: the target is a directory asked for.
THEOREM WranglerTypeCorrect == Wrangler!Spec => []Wrangler!TypeOK
<1>1. Wrangler!Init => Wrangler!TypeOK
  BY DEF Wrangler!Init, Wrangler!TypeOK
<1>2. Wrangler!TypeOK /\ [Wrangler!Next]_Wrangler!vars => Wrangler!TypeOK'
  BY WhatIsFetched
     DEF Wrangler!TypeOK, Wrangler!Thing, Wrangler!Next, Wrangler!vars, Wrangler!disk,
     Wrangler!ResolveTarget, Wrangler!RecreateTarget, Wrangler!StagePinnedFiles,
     Wrangler!Pack, Wrangler!Unpack, Wrangler!Install, Wrangler!Publish, Wrangler!Again
<1> QED
  BY <1>1, <1>2, PTL DEF Wrangler!Spec

-----------------------------------------------------------------------------
(* setup-node-pnpm *)

\* From the install on, the prefix holds the resolved version and nothing used the
\* store since; the class is that of the store selected.
PrefixIsOfThisUse ==
    /\ pnpmStage \in {"installing", "installed", "selected", "ready"} => version \in Version
    /\ pnpmStage \in {"installed", "selected", "ready"} => bin = version /\ store = "empty"
    /\ pnpmStage = "ready" => storeClass = IF kind = "isolated" THEN "cold" ELSE "unknown"

\* Whatever an earlier use or a failed attempt left in the prefix: a setup that
\* succeeds has the whole pnpm of the resolved version, and a store it calls cold is
\* empty (install-pnpm.sh and resolveIsolatedPnpmCacheEvidence).
THEOREM PnpmIsWholeAndColdIsEmpty == Pnpm!Spec => []Pnpm!EvidenceIsTrue
<1>1. Pnpm!Init => PrefixIsOfThisUse
  BY DEF Pnpm!Init, PrefixIsOfThisUse
<1>2. PrefixIsOfThisUse /\ [Pnpm!Next]_Pnpm!vars => PrefixIsOfThisUse'
  <2> SUFFICES ASSUME PrefixIsOfThisUse, [Pnpm!Next]_Pnpm!vars PROVE PrefixIsOfThisUse'
      OBVIOUS
  <2> USE DEF PrefixIsOfThisUse
  <2>1. CASE Pnpm!ResolveVersion
    BY <2>1, PnpmAssumption DEF Pnpm!ResolveVersion, Pnpm!Resolved
  <2>2. CASE Pnpm!TryInstall
    BY <2>2 DEF Pnpm!TryInstall, Pnpm!NpmExitsZero, Pnpm!NpmFails
  <2>3. CASE \/ Pnpm!SelectStore \/ Pnpm!ClassifyStore \/ Pnpm!UseStore \/ Pnpm!CallAgain
             \/ UNCHANGED Pnpm!vars
    BY <2>3 DEF Pnpm!SelectStore, Pnpm!ClassifyStore, Pnpm!UseStore, Pnpm!CallAgain,
       Pnpm!vars
  <2> QED
    BY <2>1, <2>2, <2>3 DEF Pnpm!Next
<1>3. PrefixIsOfThisUse => Pnpm!EvidenceIsTrue
  BY DEF PrefixIsOfThisUse, Pnpm!EvidenceIsTrue
<1> QED
  BY <1>1, <1>2, <1>3, PTL DEF Pnpm!Spec

\* Type correctness of the setup, and its bound: never more attempts than allowed.
THEOREM PnpmTypeCorrect == Pnpm!Spec => []Pnpm!TypeOK
<1> DEFINE Inv == /\ Pnpm!TypeOK
                  /\ pnpmStage = "installing" => version \in Version /\ tries < Attempts
<1>1. Pnpm!Init => Inv
  BY PnpmAssumption DEF Pnpm!Init, Pnpm!TypeOK
<1>2. Inv /\ [Pnpm!Next]_Pnpm!vars => Inv'
  <2> SUFFICES ASSUME Inv, [Pnpm!Next]_Pnpm!vars PROVE Inv'
      OBVIOUS
  <2> USE DEF Pnpm!TypeOK
  <2>1. CASE Pnpm!ResolveVersion
    BY <2>1, PnpmAssumption DEF Pnpm!ResolveVersion, Pnpm!Resolved
  <2>2. CASE Pnpm!TryInstall
    BY <2>2, PnpmAssumption DEF Pnpm!TryInstall, Pnpm!NpmExitsZero, Pnpm!NpmFails
  <2>3. CASE \/ Pnpm!SelectStore \/ Pnpm!ClassifyStore \/ Pnpm!UseStore \/ Pnpm!CallAgain
             \/ UNCHANGED Pnpm!vars
    BY <2>3 DEF Pnpm!SelectStore, Pnpm!StoreKind, Pnpm!ClassifyStore, Pnpm!UseStore,
       Pnpm!CallAgain, Pnpm!vars
  <2> QED
    BY <2>1, <2>2, <2>3 DEF Pnpm!Next
<1> QED
  BY <1>1, <1>2, PTL DEF Pnpm!Spec

-----------------------------------------------------------------------------
(* setup-dotnet-nuget *)

\* Until the restore the stores are as the job found them; the class is taken before
\* it, and the report after it.
ReportIsOfThisJob ==
    /\ packages \in BOOLEAN /\ http \in BOOLEAN /\ before \in BOOLEAN
    /\ dotnetStage \in {"start", "resolved", "verified", "classified"} =>
          (before <=> packages \/ http)
    /\ dotnetStage \in {"verified", "classified", "restored", "reported"} => sdk \in installed
    /\ dotnetStage \in {"classified", "restored", "reported"} =>
          class = IF before THEN "warm" ELSE "cold"
    /\ dotnetStage = "reported" =>
          /\ summary = [job |-> job, status |-> IF exit = 0 THEN "success" ELSE "failure"]
          /\ failed <=> exit # 0

\* Whatever earlier jobs left in the stores and in the summary: a report is of its own
\* job and of how its restore ended, and the class is of the stores before it
\* (resolveNugetCacheEvidence and the restore step).
THEOREM RestoreReportsAreTrue == Dotnet!Spec => []Dotnet!EvidenceIsTrue
<1>1. Dotnet!Init => ReportIsOfThisJob
  BY DEF Dotnet!Init, ReportIsOfThisJob
<1>2. ReportIsOfThisJob /\ [Dotnet!Next]_Dotnet!vars => ReportIsOfThisJob'
  <2> SUFFICES ASSUME ReportIsOfThisJob, [Dotnet!Next]_Dotnet!vars PROVE ReportIsOfThisJob'
      OBVIOUS
  <2> USE DEF ReportIsOfThisJob
  <2>1. CASE \/ Dotnet!ResolveSdk \/ Dotnet!SetupDotnet \/ Dotnet!VerifySdk
             \/ UNCHANGED Dotnet!vars
    BY <2>1 DEF Dotnet!ResolveSdk, Dotnet!SetupDotnet, Dotnet!VerifySdk, Dotnet!vars
  <2>2. CASE Dotnet!ClassifyStores
    BY <2>2 DEF Dotnet!ClassifyStores
  <2>3. CASE Dotnet!Restore
    BY <2>3 DEF Dotnet!Restore
  <2>4. CASE Dotnet!Summarize
    BY <2>4 DEF Dotnet!Summarize, Dotnet!Succeeded
  <2>5. CASE Dotnet!NextJob
    <3>1. PICK p \in {packages, FALSE}, h \in {http, FALSE} :
              packages' = p /\ http' = h /\ before' = (p \/ h)
      BY <2>5 DEF Dotnet!NextJob
    <3>2. /\ packages' \in BOOLEAN /\ http' \in BOOLEAN /\ before' \in BOOLEAN
          /\ before' <=> packages' \/ http'
      BY <3>1
    <3>3. dotnetStage' = "start"
      BY <2>5 DEF Dotnet!NextJob
    <3> QED
      BY <3>2, <3>3
  <2> QED
    BY <2>1, <2>2, <2>3, <2>4, <2>5 DEF Dotnet!Next
<1>3. ReportIsOfThisJob => Dotnet!EvidenceIsTrue
  BY DEF ReportIsOfThisJob, Dotnet!EvidenceIsTrue
<1> QED
  BY <1>1, <1>2, <1>3, PTL DEF Dotnet!Spec

\* Type correctness of the restores: no summary is of a job to come.
THEOREM DotnetTypeCorrect == Dotnet!Spec => []Dotnet!TypeOK
<1> DEFINE Flags == /\ needsSetup \in BOOLEAN /\ failed \in BOOLEAN
                    /\ packages \in BOOLEAN /\ http \in BOOLEAN /\ before \in BOOLEAN
           Others ==
              /\ dotnetStage \in {"start", "resolved", "verified", "classified", "restored",
                                  "reported"}
              /\ job \in 1..LastJob /\ sdk \in Sdk \cup {Dotnet!NoSdk} /\ installed \subseteq Sdk
              /\ class \in {"cold", "warm"} /\ exit \in 0..2
              /\ summary.job \in 0..job
              /\ dotnetStage # "start" => sdk \in Sdk
<1>1. Dotnet!Init => Flags /\ Others
  <2>1. Dotnet!Init => Flags
    BY DEF Dotnet!Init
  <2>2. Dotnet!Init => Others
    BY DotnetAssumption DEF Dotnet!Init, Dotnet!NoSummary
  <2> QED
    BY <2>1, <2>2
<1>2. Flags /\ [Dotnet!Next]_Dotnet!vars => Flags'
  <2> SUFFICES ASSUME Flags, [Dotnet!Next]_Dotnet!vars PROVE Flags'
      OBVIOUS
  <2>1. CASE Dotnet!NextJob
    <3>1. PICK p \in {packages, FALSE}, h \in {http, FALSE} :
              packages' = p /\ http' = h /\ before' = (p \/ h)
      BY <2>1 DEF Dotnet!NextJob
    <3>2. packages' \in BOOLEAN /\ http' \in BOOLEAN /\ before' \in BOOLEAN
      BY <3>1
    <3>3. failed' = FALSE /\ needsSetup' = needsSetup
      BY <2>1 DEF Dotnet!NextJob
    <3> QED
      BY <3>2, <3>3
  <2>2. CASE Dotnet!Restore
    BY <2>2 DEF Dotnet!Restore
  <2>3. CASE Dotnet!ResolveSdk
    BY <2>3 DEF Dotnet!ResolveSdk
  <2>4. CASE Dotnet!Summarize
    BY <2>4 DEF Dotnet!Summarize
  <2>5. CASE \/ Dotnet!SetupDotnet \/ Dotnet!VerifySdk \/ Dotnet!ClassifyStores
             \/ UNCHANGED Dotnet!vars
    BY <2>5 DEF Dotnet!SetupDotnet, Dotnet!VerifySdk, Dotnet!ClassifyStores, Dotnet!vars
  <2> QED
    BY <2>1, <2>2, <2>3, <2>4, <2>5 DEF Dotnet!Next
<1>3. Others /\ [Dotnet!Next]_Dotnet!vars => Others'
  <2> SUFFICES ASSUME Others, [Dotnet!Next]_Dotnet!vars PROVE Others'
      OBVIOUS
  <2>1. CASE Dotnet!ResolveSdk
    BY <2>1 DEF Dotnet!ResolveSdk
  <2>2. CASE Dotnet!SetupDotnet \/ Dotnet!VerifySdk \/ UNCHANGED Dotnet!vars
    BY <2>2 DEF Dotnet!SetupDotnet, Dotnet!VerifySdk, Dotnet!vars
  <2>3. CASE Dotnet!ClassifyStores
    BY <2>3 DEF Dotnet!ClassifyStores
  <2>4. CASE Dotnet!Restore
    BY <2>4 DEF Dotnet!Restore, Dotnet!NoCode
  <2>5. CASE Dotnet!Summarize
    BY <2>5 DEF Dotnet!Summarize
  <2>6. CASE Dotnet!NextJob
    <3>1. /\ job < LastJob /\ job' = job + 1 /\ dotnetStage' = "start"
          /\ UNCHANGED <<sdk, installed, class, exit, summary>>
      BY <2>6 DEF Dotnet!NextJob
    <3> QED
      BY <3>1, DotnetAssumption
  <2> QED
    BY <2>1, <2>2, <2>3, <2>4, <2>5, <2>6 DEF Dotnet!Next
<1>4. Flags /\ Others => Dotnet!TypeOK
  <2> HIDE DEF Others
  <2>1. Flags => {needsSetup, packages, http, before, failed} \subseteq BOOLEAN
    BY Zenon
  <2> USE DEF Others
  <2> QED
    BY <2>1 DEF Dotnet!TypeOK
<1> QED
  BY <1>1, <1>2, <1>3, <1>4, PTL DEF Dotnet!Spec

-----------------------------------------------------------------------------
(* runner-baseline *)

\* The drift is that of the inputs, and what is on disk and in the outputs is the drift.
DriftIsRecorded ==
    /\ machine \in Machine /\ inline \in InlineRequirement
    /\ baselineStage \in {"evaluated", "written", "reported", "passed", "failed"} =>
          drift = {key \in DOMAIN Baseline!Merged :
                      Baseline!Drifts(machine, key, Baseline!Merged[key])}
    /\ baselineStage \in {"written", "reported", "passed", "failed"} =>
          driftManifest = drift
    /\ baselineStage \in {"reported", "passed", "failed"} => outputs = drift
    /\ baselineStage = "passed" /\ failOnDrift = "true" => drift = {}

\* Each stage leaves what the one before it found.
LEMMA BaselineInvariant == Baseline!Spec => []DriftIsRecorded
<1>1. Baseline!Init => DriftIsRecorded
  BY DEF Baseline!Init, DriftIsRecorded
<1>2. DriftIsRecorded /\ [Baseline!Next]_Baseline!vars => DriftIsRecorded'
  <2> SUFFICES ASSUME DriftIsRecorded, [Baseline!Next]_Baseline!vars PROVE DriftIsRecorded'
      OBVIOUS
  <2>1. /\ UNCHANGED <<machine, file, inline, failOnDrift>>
        /\ Baseline!Merged' = Baseline!Merged
    BY DEF Baseline!Next, Baseline!Evaluate, Baseline!WriteManifest,
       Baseline!WriteOutputs, Baseline!Decide, Baseline!Abort, Baseline!vars,
       Baseline!Merged
  <2>2. CASE Baseline!Evaluate
    BY <2>1, <2>2 DEF Baseline!Evaluate, DriftIsRecorded, Baseline!Drifts
  <2>3. CASE \/ Baseline!WriteManifest \/ Baseline!WriteOutputs \/ Baseline!Decide
             \/ Baseline!Abort \/ UNCHANGED Baseline!vars
    BY <2>1, <2>3 DEF Baseline!WriteManifest, Baseline!WriteOutputs, Baseline!Decide,
       Baseline!Abort, Baseline!vars, DriftIsRecorded, Baseline!Drifts
  <2> QED
    BY <2>2, <2>3 DEF Baseline!Next
<1> QED
  BY <1>1, <1>2, PTL DEF Baseline!Spec

\* A leading part decides whatever follows it.
LEMMA LeadingPart ==
    ASSUME NEW B \in Nat, NEW x \in Int, NEW y \in Int, NEW p \in Nat, NEW q \in Int,
           q < B, x > y
    PROVE  x * B + p > y * B + q
<1>1. PICK d \in Nat : x = y + 1 + d
  <2>1. x - y - 1 \in Nat /\ x = y + 1 + (x - y - 1)
    OBVIOUS
  <2> QED
    BY <2>1
<1>2. x * B = y * B + B + d * B
  BY <1>1
<1>3. d * B \in Nat /\ y * B \in Int
  BY <1>1
<1> QED
  BY <1>2, <1>3

\* Two numbers with the same digits in front compare as their last digits do.
LEMMA NextPart ==
    ASSUME NEW B \in Nat, NEW x \in Int, NEW y \in Int, NEW p \in Nat, NEW q \in Int,
           q < B, x > y \/ (x = y /\ p >= q)
    PROVE  /\ x * B + p \in Int /\ y * B + q \in Int
           /\ x * B + p > y * B + q \/ (x = y /\ p = q /\ x * B + p = y * B + q)
<1>1. x * B \in Int /\ y * B \in Int
  OBVIOUS
<1>2. CASE x > y
  BY <1>1, <1>2, LeadingPart
<1>3. CASE x = y /\ p >= q
  BY <1>1, <1>3
<1> QED
  BY <1>2, <1>3

\* compareVersions compares as the numbers do.
LEMMA NumbersCompareAlike ==
    ASSUME Bound \in Nat, NEW l, NEW r,
           \A i \in 1..4 : /\ Baseline!Part(l, i) \in 0..(Bound - 1)
                           /\ Baseline!Part(r, i) \in -1..(Bound - 1),
           ~Baseline!Below(l, r)
    PROVE  Baseline!Number(l) >= Baseline!Number(r)
<1> DEFINE a(i) == Baseline!Part(l, i)
           b(i) == Baseline!Part(r, i)
           la2 == a(1) * Bound + a(2)
           lb2 == b(1) * Bound + b(2)
           la3 == la2 * Bound + a(3)
           lb3 == lb2 * Bound + b(3)
           la4 == la3 * Bound + a(4)
           lb4 == lb3 * Bound + b(4)
<1>1. \A i \in 1..4 : a(i) \in Nat /\ b(i) \in Int /\ b(i) < Bound
  OBVIOUS
<1>2. \A i \in 1..4 : /\ a(i) # Baseline!NotANumber
                      /\ b(i) # Baseline!NotANumber => b(i) \in Nat
  BY DEF Baseline!NotANumber
<1>3. \A i \in 1..4 : (\A k \in 1..(i - 1) : a(k) = b(k)) => a(i) >= b(i)
  <2> SUFFICES ASSUME NEW i \in 1..4, \A k \in 1..(i - 1) : a(k) = b(k), a(i) < b(i)
               PROVE  FALSE
      BY <1>1
  <2>1. \A k \in 1..(i - 1) : ~Baseline!Differ(l, r, k)
    <3> SUFFICES ASSUME NEW k \in 1..(i - 1) PROVE ~Baseline!Differ(l, r, k)
        OBVIOUS
    <3>1. k \in 1..4
      OBVIOUS
    <3> QED
      BY <1>2, <3>1 DEF Baseline!Differ
  <2>2. Baseline!NotANumber \notin {Baseline!Part(l, i), Baseline!Part(r, i)}
    BY <1>1, <1>2 DEF Baseline!NotANumber
  <2> QED
    BY <2>1, <2>2 DEF Baseline!Below
<1>4. /\ a(1) >= b(1)
      /\ a(1) = b(1) => a(2) >= b(2)
      /\ a(1) = b(1) /\ a(2) = b(2) => a(3) >= b(3)
      /\ a(1) = b(1) /\ a(2) = b(2) /\ a(3) = b(3) => a(4) >= b(4)
  <2> HIDE DEF a, b
  <2>1. (\A k \in 1..0 : a(k) = b(k)) => a(1) >= b(1)
    BY <1>3
  <2>2. (\A k \in 1..1 : a(k) = b(k)) => a(2) >= b(2)
    BY <1>3
  <2>3. (\A k \in 1..2 : a(k) = b(k)) => a(3) >= b(3)
    BY <1>3
  <2>4. (\A k \in 1..3 : a(k) = b(k)) => a(4) >= b(4)
    BY <1>3
  <2>5. 1..0 = {} /\ 1..1 = {1} /\ 1..2 = {1, 2} /\ 1..3 = {1, 2, 3}
    OBVIOUS
  <2> QED
    BY <2>1, <2>2, <2>3, <2>4, <2>5
<1>5. /\ a(1) \in Int /\ a(2) \in Nat /\ a(3) \in Nat /\ a(4) \in Nat
      /\ b(1) \in Int /\ b(2) \in Int /\ b(3) \in Int /\ b(4) \in Int
      /\ b(2) < Bound /\ b(3) < Bound /\ b(4) < Bound
  BY <1>1
<1> HIDE DEF a, b
<1>6. la2 \in Int /\ lb2 \in Int
      /\ (la2 > lb2 \/ (a(1) = b(1) /\ a(2) = b(2) /\ la2 = lb2))
  <2>1. a(1) > b(1) \/ (a(1) = b(1) /\ a(2) >= b(2))
    BY <1>4, <1>5
  <2> QED
    BY <1>5, <2>1, NextPart
<1> HIDE DEF la2, lb2
<1>7. la3 \in Int /\ lb3 \in Int
      /\ (la3 > lb3 \/ (a(1) = b(1) /\ a(2) = b(2) /\ a(3) = b(3) /\ la3 = lb3))
  <2>1. la2 > lb2 \/ (la2 = lb2 /\ a(3) >= b(3))
    BY <1>4, <1>6
  <2> QED
    BY <1>4, <1>5, <1>6, <2>1, NextPart
<1> HIDE DEF la3, lb3
<1>8. la4 \in Int /\ lb4 \in Int /\ (la4 > lb4 \/ la4 = lb4)
  <2>1. la3 > lb3 \/ (la3 = lb3 /\ a(4) >= b(4))
    BY <1>4, <1>7
  <2> QED
    BY <1>5, <1>7, <2>1, NextPart
<1>9. la4 >= lb4
  BY <1>8
<1> QED
  BY <1>9 DEF Baseline!Number, la2, lb2, la3, lb3, a, b

\* Of git's versions, those that are all numbers have four, with zeros at the end.
LEMMA PartsInBound ==
    ASSUME Bound \in Nat \ {0}, NEW v \in Seq(-1..(Bound - 1)), NEW i \in 1..4
    PROVE  /\ Baseline!Part(v, i) \in -1..(Bound - 1)
           /\ Baseline!NotANumber \notin {v[k] : k \in DOMAIN v} =>
                 Baseline!Part(v, i) \in 0..(Bound - 1)
<1>1. Len(v) \in Nat /\ DOMAIN v = 1..Len(v)
  OBVIOUS
<1>2. CASE i =< Len(v)
  <2>1. i \in DOMAIN v /\ v[i] \in -1..(Bound - 1) /\ Baseline!Part(v, i) = v[i]
    BY <1>1, <1>2 DEF Baseline!Part
  <2> QED
    BY <2>1 DEF Baseline!NotANumber
<1>3. CASE ~(i =< Len(v))
  BY <1>3 DEF Baseline!Part
<1> QED
  BY <1>2, <1>3

\* Whatever is required where and whatever the tools print: a runner that passes meets
\* every requirement, with git at or above the minimum as numbers go, and one that
\* fails for drift leaves its manifest (evaluateBaseline, compareVersions).
THEOREM BaselineVerdictsAreSound == Baseline!Spec => []Baseline!VerdictIsSound
<1>1. DriftIsRecorded => Baseline!VerdictIsSound
  <2> SUFFICES ASSUME DriftIsRecorded PROVE Baseline!VerdictIsSound
      OBVIOUS
  <2>1. baselineStage = "failed" => outputs = driftManifest /\ driftManifest = drift
    BY DEF DriftIsRecorded
  <2>2. ASSUME baselineStage = "passed", failOnDrift = "true"
        PROVE  /\ \A key \in DOMAIN file \ DOMAIN inline :
                     ~Baseline!Drifts(machine, key, file[key])
               /\ \A key \in DOMAIN inline : ~Baseline!Drifts(machine, key, inline[key])
    <3>1. \A key \in DOMAIN Baseline!Merged :
             ~Baseline!Drifts(machine, key, Baseline!Merged[key])
      BY <2>2 DEF DriftIsRecorded
    <3>2. /\ DOMAIN Baseline!Merged = DOMAIN inline \cup DOMAIN file
          /\ \A key \in DOMAIN inline : Baseline!Merged[key] = inline[key]
          /\ \A key \in DOMAIN file \ DOMAIN inline : Baseline!Merged[key] = file[key]
      BY DEF Baseline!Merged
    <3> QED
      BY <3>1, <3>2
  <2>3. ASSUME baselineStage = "passed", failOnDrift = "true",
               "git_minimum" \in DOMAIN inline
        PROVE  /\ Len(machine.git) >= 3
               /\ \/ Baseline!NotANumber \in {machine.git[i] : i \in DOMAIN machine.git}
                  \/ Baseline!Number(machine.git) >= Baseline!Number(inline["git_minimum"])
    <3> DEFINE git == machine.git
               wanted == inline["git_minimum"]
    <3>1. git \in Seq(-1..(Bound - 1)) /\ wanted \in Seq(-1..(Bound - 1))
      BY <2>3, BaselineAssumption DEF DriftIsRecorded
    <3>2. Baseline!FirstVersion(git) # Baseline!Missing /\ ~Baseline!Below(git, wanted)
      <4>1. ~Baseline!Drifts(machine, "git_minimum", wanted)
        BY <2>2, <2>3
      <4> QED
        BY <4>1 DEF Baseline!Drifts
    <3>3. Len(git) >= 3
      BY <3>1, <3>2 DEF Baseline!FirstVersion
    <3>4. ASSUME Baseline!NotANumber \notin {git[i] : i \in DOMAIN git}
          PROVE  Baseline!Number(git) >= Baseline!Number(wanted)
      <4>1. Bound \in Nat \ {0}
        BY BaselineAssumption
      <4>2. \A i \in 1..4 : /\ Baseline!Part(git, i) \in 0..(Bound - 1)
                            /\ Baseline!Part(wanted, i) \in -1..(Bound - 1)
        BY <3>1, <3>4, <4>1, PartsInBound
      <4> QED
        BY <3>2, <4>1, <4>2, NumbersCompareAlike
    <3> QED
      BY <3>3, <3>4
  <2> QED
    BY <2>1, <2>2, <2>3 DEF Baseline!VerdictIsSound
<1> QED
  BY BaselineInvariant, <1>1, PTL

\* Type correctness of the baseline: drift is of keys that are known.
THEOREM BaselineTypeCorrect == Baseline!Spec => []Baseline!TypeOK
<1>1. Baseline!Init => Baseline!TypeOK
  BY DEF Baseline!Init, Baseline!TypeOK
<1>2. Baseline!TypeOK /\ [Baseline!Next]_Baseline!vars => Baseline!TypeOK'
  BY DEF Baseline!TypeOK, Baseline!Next, Baseline!Evaluate, Baseline!WriteManifest,
     Baseline!WriteOutputs, Baseline!Decide, Baseline!Abort, Baseline!vars
<1> QED
  BY <1>1, <1>2, PTL DEF Baseline!Spec

-----------------------------------------------------------------------------
(* .githooks/pre-push *)

\* The stages after the scan, and those after the end of the advertised updates.
AfterScan == {"scanned", "checked", "tested", "passed", "published"}
AfterLines == {"scanning"} \cup AfterScan

\* A line that was read names HEAD_SHA, and what it adds is to be scanned.
LinesRead ==
    pushStage \in {"reading"} \cup AfterLines =>
            \A b \in DOMAIN updates \ unread :
                updates[b].new = pushed /\ Gate!Outgoing(updates[b].old, pushed) \subseteq outgoing

\* No line is left, the selection is complete, and nothing outgoing holds a secret.
ListIsJudged ==
    /\ pushStage \in AfterLines => unread = {} /\ Tests[pushed] = Selection
    /\ pushStage \in AfterScan => outgoing \cap Secret = {}

\* Between the two looks at HEAD, "left" says that it is elsewhere.
HeadIsTracked ==
    /\ moved \in {"no", "left", "back"}
    /\ pushStage \notin {"checked", "tested", "passed", "published", "refused"} => moved = "no"
    /\ pushStage \in {"checked", "tested"} => (moved = "left" <=> head # pushed)

\* Tests that passed were those of the pushed commit, unless HEAD was elsewhere.
TestsWereOfThePush ==
    /\ pushStage = "tested" /\ moved = "no" => pushed \notin Broken
    /\ pushStage \in {"passed", "published"} /\ moved # "back" => pushed \notin Broken

\* The server has what it accepted.
ServerHasThePush ==
    /\ pushStage # "published" => accepted = {}
    /\ DOMAIN updates \subseteq Branch
    /\ accepted \subseteq DOMAIN updates
    /\ \A b \in accepted : remote[b] = updates[b].new

GateInv ==
    LinesRead /\ ListIsJudged /\ HeadIsTracked /\ TestsWereOfThePush /\ ServerHasThePush


\* At first nothing is pushed and nothing was judged.
LEMMA GateInitInv == Gate!Init => GateInv
BY DEF Gate!Init, GateInv, LinesRead, ListIsJudged, HeadIsTracked, TestsWereOfThePush,
       ServerHasThePush, AfterLines, AfterScan

\* Each line that is read adds to what is scanned; no other step reads or forgets one.
LEMMA LinesReadStep == GateInv /\ [Gate!Next]_Gate!vars => LinesRead'
<1> SUFFICES ASSUME GateInv, [Gate!Next]_Gate!vars PROVE LinesRead'
    OBVIOUS
<1> USE DEF GateInv, LinesRead, AfterLines, AfterScan
<1>1. ASSUME NEW b \in Branch, Gate!ReadUpdate(b) PROVE LinesRead'
  BY <1>1 DEF Gate!ReadUpdate, Gate!Outgoing
<1>2. CASE Gate!Begin
  BY <1>2 DEF Gate!Begin
<1>3. CASE Gate!Push
  BY <1>3 DEF Gate!Push
<1>4. CASE \/ Gate!Move \/ Gate!RemoteMoves \/ Gate!Publish \/ Gate!EndUpdates
           \/ Gate!Scan \/ Gate!CheckHead
           \/ Gate!RunTests \/ Gate!CheckAgain \/ Gate!Refuse \/ UNCHANGED Gate!vars
  BY <1>4 DEF Gate!Move, Gate!RemoteMoves, Gate!Publish, Gate!EndUpdates, Gate!Scan,
     Gate!CheckHead, Gate!RunTests,
     Gate!CheckAgain, Gate!Refuse, Gate!vars, Gate!Outgoing, Gate!Known
<1> QED
  BY <1>1, <1>2, <1>3, <1>4 DEF Gate!Next

\* What was scanned stays what is to be published.
LEMMA ListIsJudgedStep == GateInv /\ [Gate!Next]_Gate!vars => ListIsJudged'
<1> SUFFICES ASSUME GateInv, [Gate!Next]_Gate!vars PROVE ListIsJudged'
    OBVIOUS
<1> USE DEF GateInv, ListIsJudged, AfterLines, AfterScan
<1>1. CASE Gate!EndUpdates \/ Gate!Scan
  BY <1>1 DEF Gate!EndUpdates, Gate!Scan
<1>2. CASE \/ Gate!Move \/ Gate!RemoteMoves \/ Gate!Push \/ Gate!Publish
           \/ Gate!Begin \/ Gate!CheckHead \/ Gate!RunTests
           \/ Gate!CheckAgain \/ Gate!Refuse \/ UNCHANGED Gate!vars
           \/ \E b \in Branch : Gate!ReadUpdate(b)
  BY <1>2 DEF Gate!Move, Gate!RemoteMoves, Gate!Push, Gate!Publish, Gate!Begin,
     Gate!CheckHead, Gate!RunTests, Gate!CheckAgain,
     Gate!Refuse, Gate!vars, Gate!ReadUpdate
<1> QED
  BY <1>1, <1>2 DEF Gate!Next

\* Only `Move` moves HEAD, and it says so; `CheckHead` starts with HEAD in its place.
LEMMA HeadIsTrackedStep == GateInv /\ [Gate!Next]_Gate!vars => HeadIsTracked'
<1> SUFFICES ASSUME GateInv, [Gate!Next]_Gate!vars PROVE HeadIsTracked'
    OBVIOUS
<1> USE DEF GateInv, HeadIsTracked
<1>1. CASE Gate!Move
  BY <1>1 DEF Gate!Move
<1>2. CASE Gate!CheckHead
  BY <1>2 DEF Gate!CheckHead
<1>3. CASE \/ Gate!RemoteMoves \/ Gate!Push \/ Gate!Publish \/ Gate!Begin
           \/ Gate!EndUpdates \/ Gate!Scan \/ Gate!RunTests
           \/ Gate!CheckAgain \/ Gate!Refuse \/ UNCHANGED Gate!vars
           \/ \E b \in Branch : Gate!ReadUpdate(b)
  BY <1>3 DEF Gate!RemoteMoves, Gate!Push, Gate!Publish, Gate!Begin, Gate!EndUpdates,
     Gate!Scan, Gate!RunTests, Gate!CheckAgain,
     Gate!Refuse, Gate!vars, Gate!ReadUpdate, Gate!Running
<1> QED
  BY <1>1, <1>2, <1>3 DEF Gate!Next

\* The tests run where HEAD is; the second look finds it in its place, so that it
\* either never left or came back.
LEMMA TestsWereOfThePushStep == GateInv /\ [Gate!Next]_Gate!vars => TestsWereOfThePush'
<1> SUFFICES ASSUME GateInv, [Gate!Next]_Gate!vars PROVE TestsWereOfThePush'
    OBVIOUS
<1> USE DEF GateInv, TestsWereOfThePush, HeadIsTracked
<1>1. CASE Gate!Move
  BY <1>1 DEF Gate!Move
<1>2. CASE Gate!RunTests
  BY <1>2 DEF Gate!RunTests
<1>3. CASE Gate!CheckAgain
  BY <1>3 DEF Gate!CheckAgain
<1>4. CASE \/ Gate!RemoteMoves \/ Gate!Push \/ Gate!Publish \/ Gate!Begin
           \/ Gate!EndUpdates \/ Gate!Scan \/ Gate!CheckHead
           \/ Gate!Refuse \/ UNCHANGED Gate!vars
           \/ \E b \in Branch : Gate!ReadUpdate(b)
  BY <1>4 DEF Gate!RemoteMoves, Gate!Push, Gate!Publish, Gate!Begin, Gate!EndUpdates,
     Gate!Scan, Gate!CheckHead,
     Gate!Refuse, Gate!vars, Gate!ReadUpdate
<1> QED
  BY <1>1, <1>2, <1>3, <1>4 DEF Gate!Next

\* The server has the commits the push is about, whoever else pushes.
LEMMA ServerHasThePushStep == GateInv /\ [Gate!Next]_Gate!vars => ServerHasThePush'
<1> SUFFICES ASSUME GateInv, [Gate!Next]_Gate!vars PROVE ServerHasThePush'
    OBVIOUS
<1> USE DEF GateInv, ServerHasThePush
<1>1. CASE Gate!Publish
  <2>1. accepted' \subseteq DOMAIN updates /\ accepted' \subseteq Branch
    BY <1>1 DEF Gate!Publish
  <2>2. \A b \in accepted' : remote'[b] = updates[b].new
    BY <1>1, <2>1 DEF Gate!Publish
  <2> QED
    BY <1>1, <2>1, <2>2 DEF Gate!Publish
<1>2. CASE Gate!RemoteMoves
  BY <1>2 DEF Gate!RemoteMoves
<1>3. CASE Gate!Push
  BY <1>3 DEF Gate!Push
<1>4. CASE \/ Gate!Move \/ Gate!Begin \/ Gate!EndUpdates \/ Gate!Scan
           \/ Gate!CheckHead \/ Gate!RunTests \/ Gate!CheckAgain
           \/ Gate!Refuse \/ UNCHANGED Gate!vars
           \/ \E b \in Branch : Gate!ReadUpdate(b)
  BY <1>4 DEF Gate!Move, Gate!Begin, Gate!EndUpdates, Gate!Scan, Gate!CheckHead,
     Gate!RunTests, Gate!CheckAgain, Gate!Refuse,
     Gate!vars, Gate!ReadUpdate, Gate!Running
<1> QED
  BY <1>1, <1>2, <1>3, <1>4 DEF Gate!Next

\* Whatever moves under the hook: what it read and judged is what the push publishes.
LEMMA GateInvariant == Gate!Spec => []GateInv
<1>1. GateInv /\ [Gate!Next]_Gate!vars => GateInv'
  BY LinesReadStep, ListIsJudgedStep, HeadIsTrackedStep, TestsWereOfThePushStep,
     ServerHasThePushStep DEF GateInv
<1> QED
  BY GateInitInv, <1>1, PTL DEF Gate!Spec

\* Whatever the history and however HEAD and the remote move while the hook runs:
\* a branch the server updated gained no secret, and unless HEAD left and came back
\* between the hook's two looks at it, the pushed commit passed all its tests
\* (.githooks/pre-push, from HEAD_SHA to the last look at HEAD).
THEOREM PushesAreJudged == Gate!Spec => []Gate!PublishesWhatItJudged
<1>1. GateInv => Gate!PublishesWhatItJudged
  <2> SUFFICES ASSUME GateInv, accepted # {} PROVE Gate!PublishesWhatItJudged
      BY DEF Gate!PublishesWhatItJudged
  <2>1. pushStage = "published"
    BY DEF GateInv, ServerHasThePush
  <2>2. unread = {} /\ outgoing \cap Secret = {} /\ Selection = Tests[pushed]
    BY <2>1 DEF GateInv, ListIsJudged, AfterLines, AfterScan
  <2>3. moved # "back" => pushed \notin Broken
    BY <2>1 DEF GateInv, TestsWereOfThePush
  <2>4. ASSUME NEW b \in accepted
        PROVE  (Gate!Known(remote[b]) \ Gate!Known(updates[b].old)) \cap Secret = {}
    <3>1. b \in DOMAIN updates \ unread /\ remote[b] = updates[b].new
      BY <2>2 DEF GateInv, ServerHasThePush
    <3>2. updates[b].new = pushed /\ Gate!Outgoing(updates[b].old, pushed) \subseteq outgoing
      BY <2>1, <3>1 DEF GateInv, LinesRead, AfterLines, AfterScan
    <3> QED
      BY <2>2, <3>1, <3>2 DEF Gate!Outgoing
  <2> QED
    BY <2>2, <2>3, <2>4 DEF Gate!PublishesWhatItJudged
<1> QED
  BY GateInvariant, <1>1, PTL

\* What git advertised and the hook has read of it.
UpdatesTyped ==
    /\ DOMAIN updates \subseteq Branch
    /\ \A b \in DOMAIN updates : updates[b].new \in Local \cup {NoCommit}

\* Type correctness of the hook and its world: no more outgoing commits than allowed
\* are scanned, and HEAD_SHA is a commit of the local repository.
THEOREM GateTypeCorrect == Gate!Spec => []Gate!TypeOK
<1> DEFINE Inv == Gate!TypeOK /\ UpdatesTyped /\ (pushStage = "idle" => unread = {})
<1>1. Gate!Init => Inv
  BY RepositoryAssumption DEF Gate!Init, Gate!TypeOK, UpdatesTyped
<1>2. Inv /\ [Gate!Next]_Gate!vars => Inv'
  <2> SUFFICES ASSUME Inv, [Gate!Next]_Gate!vars PROVE Inv'
      OBVIOUS
  <2> USE DEF Gate!TypeOK, UpdatesTyped, Gate!Running
  <2>1. ASSUME NEW b \in Branch, Gate!ReadUpdate(b) PROVE Inv'
    <3> DEFINE added == Gate!Outgoing(updates[b].old, updates[b].new)
    <3>1. added \subseteq Commit
      BY <2>1, RepositoryAssumption DEF Gate!ReadUpdate, Gate!Outgoing, Gate!Known
    <3>2. Gate!Cardinality(added) \in Nat
      <4>1. Gate!Cardinality(added) = Cardinality(added)
        BY DEF Gate!Cardinality, Cardinality
      <4> QED
        BY <3>1, <4>1, FS_Subset, FS_CardinalityType, RepositoryAssumption
    <3> HIDE DEF added
    <3>3. /\ total' = total + Gate!Cardinality(added) /\ total' =< MaxCommits
          /\ outgoing' = outgoing \cup added /\ unread' = unread \ {b}
          /\ UNCHANGED <<head, remote, pushStage, updates, pushed, moved, accepted>>
      BY <2>1 DEF Gate!ReadUpdate, added
    <3>4. total' \in 0..MaxCommits
      BY <3>2, <3>3, RepositoryAssumption
    <3> QED
      BY <3>1, <3>3, <3>4
  <2>2. CASE Gate!Push
    <3>0. PICK branches \in SUBSET Branch :
             \E new \in [branches -> Local \cup {NoCommit}] :
                updates' = [b \in branches |-> [new |-> new[b], old |-> remote[b]]]
      BY <2>2 DEF Gate!Push
    <3>1. PICK new \in [branches -> Local \cup {NoCommit}] :
             updates' = [b \in branches |-> [new |-> new[b], old |-> remote[b]]]
      BY <3>0
    <3>2. UpdatesTyped'
      <4>1. DOMAIN updates' = branches
        BY <3>1
      <4>2. \A b \in branches : updates'[b].new = new[b]
        BY <3>1
      <4> QED
        BY <4>1, <4>2
    <3>3. /\ pushStage = "idle" /\ pushStage' = "called"
          /\ UNCHANGED <<head, remote, pushed, unread, outgoing, total, moved, accepted>>
      BY <2>2 DEF Gate!Push
    <3> QED
      BY <3>2, <3>3
  <2>3. CASE Gate!Publish
    <3>1. accepted' \subseteq DOMAIN updates /\ DOMAIN updates \subseteq Branch
      BY <2>3 DEF Gate!Publish
    <3>2. remote' \in [Branch -> Commit \cup {NoCommit}]
      BY <2>3, <3>1, RepositoryAssumption DEF Gate!Publish
    <3> QED
      BY <2>3, <3>1, <3>2 DEF Gate!Publish
  <2>4. CASE Gate!Move \/ Gate!RemoteMoves
    BY <2>4 DEF Gate!Move, Gate!RemoteMoves
  <2>5. CASE Gate!Begin
    BY <2>5 DEF Gate!Begin
  <2>6. CASE \/ Gate!EndUpdates \/ Gate!Scan \/ Gate!CheckHead \/ Gate!RunTests
             \/ Gate!CheckAgain \/ Gate!Refuse \/ UNCHANGED Gate!vars
    BY <2>6 DEF Gate!EndUpdates, Gate!Scan, Gate!CheckHead, Gate!RunTests,
       Gate!CheckAgain, Gate!Refuse, Gate!vars
  <2> QED
    BY <2>1, <2>2, <2>3, <2>4, <2>5, <2>6 DEF Gate!Next
<1> QED
  BY <1>1, <1>2, PTL DEF Gate!Spec

-----------------------------------------------------------------------------
(* detect-ci-scope *)

\* The paths a scope is decided on: those handed over, or those git prints.
Listed(c) == IF c.given # {} THEN c.given ELSE Scope!Listing(c)

\* A decision that is not to validate everything is the one on the listed paths.
ScopeInv ==
    /\ change \in Change
    /\ scope \notin {Scope!Undecided, Scope!Unsafe} =>
          /\ scope.full \in BOOLEAN /\ Scope!Cardinality(scope.paths) =< MaxPaths
          /\ ~scope.full => scope = Scope!Scoped(Listed(change)) /\ Listed(change) # {}

\* The values of a function are no more than its arguments.
LEMMA RangeIsFinite ==
    ASSUME NEW S, IsFiniteSet(S), NEW f, DOMAIN f = S, f = [x \in S |-> f[x]]
    PROVE  IsFiniteSet({f[x] : x \in S})
<1> DEFINE T == {f[x] : x \in S}
<1>1. f \in Surjection(S, T)
  BY DEF Surjection
<1> QED
  BY <1>1, FS_Surjection

\* Finitely many paths are listed of a change.
LEMMA ListedIsFinite ==
    ASSUME NEW c \in Change
    PROVE  IsFiniteSet(Listed(c))
<1> DEFINE news == {m[2] : m \in c.moves}
           names == c.written \cup news
<1>1. IsFiniteSet(c.written) /\ IsFiniteSet(c.moves) /\ IsFiniteSet(c.given)
  BY ScopeAssumption
<1>2. IsFiniteSet(news)
  <2> DEFINE f == [m \in c.moves |-> m[2]]
  <2>1. IsFiniteSet({f[m] : m \in c.moves})
    BY <1>1, RangeIsFinite
  <2> QED
    BY <2>1
<1>3. IsFiniteSet(names)
  BY <1>1, <1>2, FS_Union
<1>4. Scope!Listing(c) = {Scope!Printed(p) : p \in names}
  BY DEF Scope!Listing
<1> HIDE DEF names
<1>5. IsFiniteSet({Scope!Printed(p) : p \in names})
  <2> DEFINE f == [p \in names |-> Scope!Printed(p)]
  <2>1. IsFiniteSet({f[p] : p \in names})
    BY <1>3, RangeIsFinite
  <2> QED
    BY <2>1
<1> QED
  BY <1>1, <1>4, <1>5 DEF Listed

\* Whatever paths are listed: too many, or none, validate everything.
LEMMA BoundedScope ==
    ASSUME NEW all, IsFiniteSet(all)
    PROVE  LET decided == Scope!Bounded(all)
           IN  /\ decided \notin {Scope!Undecided, Scope!Unsafe}
               /\ decided.full \in BOOLEAN /\ Scope!Cardinality(decided.paths) =< MaxPaths
               /\ ~decided.full => decided = Scope!Scoped(all) /\ all # {}
<1> DEFINE decided == Scope!Bounded(all)
<1>1. \A S : Scope!Cardinality(S) = Cardinality(S)
  BY DEF Scope!Cardinality, Cardinality
<1>2. ASSUME NEW reason
      PROVE  LET e == Scope!Everything(reason)
             IN  /\ e \notin {Scope!Undecided, Scope!Unsafe}
                 /\ e.full = TRUE /\ e.paths = {}
  BY DEF Scope!Everything, Scope!Undecided, Scope!Unsafe
<1>3. Scope!Cardinality({}) =< MaxPaths
  BY <1>1, FS_EmptySet, ScopeAssumption
<1>4. /\ Scope!Scoped(all) \notin {Scope!Undecided, Scope!Unsafe}
      /\ Scope!Scoped(all).paths = all
      /\ Scope!Scoped(all).full = Scope!Triggers(all)
  BY DEF Scope!Scoped, Scope!Undecided, Scope!Unsafe
<1>5. Scope!Triggers(all) \in BOOLEAN
  BY DEF Scope!Triggers
<1>6. CASE all = {}
  BY <1>2, <1>3, <1>6 DEF Scope!Bounded
<1>7. CASE all # {} /\ Scope!Cardinality(all) > MaxPaths
  BY <1>2, <1>3, <1>7 DEF Scope!Bounded
<1>8. CASE all # {} /\ ~(Scope!Cardinality(all) > MaxPaths)
  <2>1. Scope!Cardinality(all) =< MaxPaths
    BY <1>1, <1>8, FS_CardinalityType, ScopeAssumption
  <2>2. decided = Scope!Scoped(all)
    BY <1>8 DEF Scope!Bounded
  <2> QED
    BY <1>4, <1>5, <1>8, <2>1, <2>2
<1> QED
  BY <1>6, <1>7, <1>8

\* A decision is about the paths that were listed, however it was come to (detectScope).
LEMMA ScopeInvariant == Scope!Spec => []ScopeInv
<1>1. Scope!Init => ScopeInv
  BY DEF Scope!Init, ScopeInv
<1>2. ScopeInv /\ [Scope!Next]_Scope!vars => ScopeInv'
  <2> SUFFICES ASSUME ScopeInv, [Scope!Next]_Scope!vars PROVE ScopeInv'
      OBVIOUS
  <2>1. CASE Scope!DetectGiven
    <3>1. change' = change /\ change \in Change /\ change.given # {}
      BY <2>1 DEF Scope!DetectGiven, ScopeInv
    <3>2. Listed(change) = change.given /\ IsFiniteSet(change.given)
      BY <3>1, ListedIsFinite DEF Listed
    <3>3. scope' = Scope!Unsafe \/ scope' = Scope!Bounded(change.given)
      BY <2>1 DEF Scope!DetectGiven
    <3> QED
      BY <3>1, <3>2, <3>3, BoundedScope DEF ScopeInv
  <2>2. CASE Scope!DetectNothing
    <3>1. PICK reason : scope' = Scope!Everything(reason)
      BY <2>2 DEF Scope!DetectNothing
    <3>2. scope' # Scope!Undecided /\ scope'.full = TRUE /\ scope'.paths = {}
      BY <3>1 DEF Scope!Everything, Scope!Undecided
    <3>3. Scope!Cardinality({}) =< MaxPaths
      <4>1. Scope!Cardinality({}) = Cardinality({})
        BY DEF Scope!Cardinality, Cardinality
      <4> QED
        BY <4>1, FS_EmptySet, ScopeAssumption
    <3>4. change' = change
      BY <2>2 DEF Scope!DetectNothing
    <3> QED
      BY <3>2, <3>3, <3>4 DEF ScopeInv
  <2>3. CASE Scope!DetectDiff
    <3>1. change' = change /\ change \in Change /\ change.given = {}
      BY <2>3 DEF Scope!DetectDiff, ScopeInv
    <3>2. Listed(change) = Scope!Listing(change) /\ IsFiniteSet(Scope!Listing(change))
      <4>1. Listed(change) = Scope!Listing(change)
        BY <3>1 DEF Listed
      <4> QED
        BY <3>1, <4>1, ListedIsFinite
    <3>3. scope' = Scope!Bounded(Scope!Listing(change))
      BY <2>3 DEF Scope!DetectDiff
    <3> QED
      BY <3>1, <3>2, <3>3, BoundedScope DEF ScopeInv
  <2>4. CASE UNCHANGED Scope!vars
    BY <2>4 DEF Scope!vars, ScopeInv
  <2> QED
    BY <2>1, <2>2, <2>3, <2>4 DEF Scope!Next
<1> QED
  BY <1>1, <1>2, PTL DEF Scope!Spec

\* Type correctness of the scope: a decision names no more paths than allowed.
THEOREM ScopeTypeCorrect == Scope!Spec => []Scope!TypeOK
<1>1. ScopeInv => Scope!TypeOK
  BY DEF ScopeInv, Scope!TypeOK
<1> QED
  BY ScopeInvariant, <1>1, PTL

\* A component is affected by one path at a time.
LEMMA ComponentOfAPath ==
    ASSUME NEW S, NEW x
    PROVE  x \in Scope!Components(S) <=> \E p \in S : x \in Scope!Components({p})
BY DEF Scope!Components

\* Documents only, path by path.
LEMMA DocumentsByPath ==
    ASSUME NEW S
    PROVE  Scope!DocsOnly(S) <=> S # {} /\ \A p \in S : Scope!DocsOnly({p})
BY DEF Scope!DocsOnly

\* Of changes that git lists in full: no full validation, component or code change is
\* missed because of a path that is not listed (gitDiffPaths and detectScope).
THEOREM ScopeMissesNothing ==
    ASSUME MovesAreCovered
    PROVE  Scope!Spec => []Scope!NeverSilentlyLess
<1>1. ScopeInv => Scope!NeverSilentlyLess
  <2> SUFFICES ASSUME ScopeInv, scope \notin {Scope!Undecided, Scope!Unsafe}, ~scope.full
               PROVE  /\ Scope!FullWhenTriggered
                      /\ Scope!Components({p \in Scope!Touched(change) :
                                              ~Scope!MatchesAny(p, IgnoredRules)})
                            \subseteq scope.components
                      /\ scope.docs => Scope!DocsOnly(Scope!Touched(change))
      BY DEF Scope!NeverSilentlyLess
  <2> DEFINE all == Listed(change)
             touched == Scope!Touched(change)
  <2>1. change \in Change /\ scope = Scope!Scoped(all) /\ all # {}
    BY DEF ScopeInv
  <2>2. /\ scope.full = Scope!Triggers(all)
        /\ scope.components =
              Scope!Components({p \in all : ~Scope!MatchesAny(p, IgnoredRules)})
        /\ scope.docs = Scope!DocsOnly(all)
    BY <2>1 DEF Scope!Scoped
  \* Every touched path is listed or covered by one that is.
  <2>3. /\ all \subseteq touched
        /\ \A p \in touched \ all : \E q \in all :
              /\ Scope!MatchesAny(p, FullRules) => Scope!MatchesAny(q, FullRules)
              /\ ~Scope!MatchesAny(p, IgnoredRules) =>
                    /\ ~Scope!MatchesAny(q, IgnoredRules)
                    /\ Scope!Components({p}) \subseteq Scope!Components({q})
              /\ Scope!DocsOnly({q}) => Scope!DocsOnly({p})
    <3>1. CASE change.given # {}
      BY <3>1 DEF Listed, Scope!Touched
    <3>2. CASE change.given = {}
      <4>1. touched = change.written \cup UNION {{m[1], m[2]} : m \in change.moves}
        BY <3>2 DEF Scope!Touched
      <4>2. all = change.written \cup {m[2] : m \in change.moves}
        <5>1. all = {Scope!Printed(p) : p \in change.written \cup {m[2] : m \in change.moves}}
          BY <3>2 DEF Listed, Scope!Listing
        <5>2. \A p \in change.written \cup {m[2] : m \in change.moves} : Scope!Printed(p) = p
          BY <2>1, <3>2 DEF MovesAreCovered
        <5> QED
          BY <5>1, <5>2
      <4>3. all \subseteq touched
        BY <4>1, <4>2
      <4>4. \A p \in touched \ all : \E m \in change.moves : p = m[1] /\ m[2] \in all
        BY <4>1, <4>2
      <4> HIDE DEF all, touched
      <4> QED
        BY <2>1, <3>2, <4>3, <4>4 DEF MovesAreCovered
    <3> QED
      BY <3>1, <3>2
  <2> HIDE DEF all, touched
  <2>4. \A p \in touched : ~Scope!MatchesAny(p, FullRules)
    BY <2>2, <2>3 DEF Scope!Triggers
  <2>5. ASSUME NEW p \in touched, ~Scope!MatchesAny(p, IgnoredRules),
               NEW x \in Scope!Components({p})
        PROVE  x \in scope.components
    <3>1. PICK q \in all : ~Scope!MatchesAny(q, IgnoredRules) /\ x \in Scope!Components({q})
      BY <2>3, <2>5
    <3> DEFINE runtime == {r \in all : ~Scope!MatchesAny(r, IgnoredRules)}
    <3>2. q \in runtime
      BY <3>1
    <3> HIDE DEF runtime
    <3>3. x \in Scope!Components(runtime)
      BY <3>1, <3>2, ComponentOfAPath
    <3> QED
      BY <2>2, <3>3 DEF runtime
  <2>6. Scope!Components({p \in touched : ~Scope!MatchesAny(p, IgnoredRules)})
            \subseteq scope.components
    <3> DEFINE runtime == {p \in touched : ~Scope!MatchesAny(p, IgnoredRules)}
    <3>1. \A p \in runtime : Scope!Components({p}) \subseteq scope.components
      BY <2>5
    <3> HIDE DEF runtime
    <3>2. Scope!Components(runtime) \subseteq scope.components
      BY <3>1, ComponentOfAPath
    <3> QED
      BY <3>2 DEF runtime
  <2>7. scope.docs => Scope!DocsOnly(touched)
    <3> SUFFICES ASSUME Scope!DocsOnly(all) PROVE Scope!DocsOnly(touched)
        BY <2>2
    <3>1. \A p \in all : Scope!DocsOnly({p})
      BY DocumentsByPath
    <3>2. \A p \in touched : Scope!DocsOnly({p})
      BY <2>3, <3>1
    <3> QED
      BY <2>1, <2>3, <3>2, DocumentsByPath
  <2> QED
    BY <2>4, <2>6, <2>7 DEF Scope!FullWhenTriggered, touched
<1> QED
  BY ScopeInvariant, <1>1, PTL

-----------------------------------------------------------------------------
(* package-source-v2 *)

\* The names that may be asked for, which are in one order.
Asked == UNION {ToSet(names) : names \in PackageSelection}

Ascends(s) == \A i, j \in DOMAIN s : i < j => Before(s[i], s[j])

\* Any two names are in order.
LEMMA NamesAreOrdered ==
    ASSUME NEW a \in Asked, NEW b \in Asked
    PROVE  /\ Before(a, b) \/ a = b \/ Before(b, a)
           /\ ~(Before(a, b) /\ Before(b, a))
           /\ \A c \in Asked : Before(a, b) /\ Before(b, c) => Before(a, c)
BY SourceAssumption DEF Asked

\* Finitely many names can be put in order: each goes where the number of names before
\* it says.
LEMMA NamesCanBeSorted ==
    ASSUME NEW T \in SUBSET Asked, IsFiniteSet(T)
    PROVE  \E s \in [1..Cardinality(T) -> T] : Ascends(s)
<1> DEFINE n == Cardinality(T)
           below(x) == {y \in T : Before(y, x)}
           rank == [x \in T |-> Cardinality(below(x)) + 1]
<1>1. n \in Nat
  BY FS_CardinalityType
<1>2. \A x \in T : IsFiniteSet(below(x)) /\ Cardinality(below(x)) \in Nat
  <2> TAKE x \in T
  <2>1. below(x) \in SUBSET T
    OBVIOUS
  <2> HIDE DEF below
  <2> QED
    BY <2>1, FS_Subset, FS_CardinalityType
<1>3. ASSUME NEW x \in T PROVE rank[x] \in 1..n
  <2>1. x \notin below(x)
    BY NamesAreOrdered
  <2>2. IsFiniteSet(T \ {x}) /\ Cardinality(T \ {x}) = n - 1
    BY FS_RemoveElement
  <2>3. below(x) \in SUBSET (T \ {x})
    BY <2>1
  <2>4. Cardinality(below(x)) =< n - 1
    <3> HIDE DEF below
    <3> QED
      BY <2>2, <2>3, FS_Subset
  <2>5. rank[x] = Cardinality(below(x)) + 1
    OBVIOUS
  <2> HIDE DEF below, rank
  <2> QED
    BY <1>1, <1>2, <2>4, <2>5
<1>4. ASSUME NEW x \in T, NEW y \in T, Before(x, y) PROVE rank[x] < rank[y]
  <2>1. x \notin below(x) /\ below(x) \cup {x} \in SUBSET below(y)
    BY <1>4, NamesAreOrdered
  <2>2. Cardinality(below(x) \cup {x}) = Cardinality(below(x)) + 1
    BY <1>2, <2>1, FS_AddElement
  <2>3. Cardinality(below(x) \cup {x}) =< Cardinality(below(y))
    <3> HIDE DEF below
    <3> QED
      BY <1>2, <2>1, FS_Subset
  <2>4. rank[x] = Cardinality(below(x)) + 1 /\ rank[y] = Cardinality(below(y)) + 1
    OBVIOUS
  <2> HIDE DEF below, rank
  <2> QED
    BY <1>2, <2>2, <2>3, <2>4
<1> HIDE DEF rank, below
<1>5. rank \in [T -> 1..n]
  <2>1. rank = [x \in T |-> rank[x]]
    BY DEF rank
  <2> QED
    BY <1>3, <2>1
<1>6. \A x, y \in T : rank[x] = rank[y] => x = y
  BY <1>1, <1>3, <1>4, NamesAreOrdered
<1>7. rank \in Surjection(T, 1..n)
  <2>1. rank \in Injection(T, 1..n)
    BY <1>5, <1>6 DEF Injection, IsInjective
  <2>2. IsFiniteSet(1..n) /\ Cardinality(1..n) = n
    BY <1>1, FS_Interval
  <2> QED
    BY <2>1, <2>2, FS_Injection
<1>8. \A i \in 1..n : \E x \in T : rank[x] = i
  BY <1>7 DEF Surjection
<1> DEFINE s == [i \in 1..n |-> CHOOSE x \in T : rank[x] = i]
<1>9. \A i \in 1..n : s[i] \in T /\ rank[s[i]] = i
  BY <1>8
<1>10. s \in [1..n -> T]
  BY <1>9
<1>11. DOMAIN s = 1..n
  OBVIOUS
<1> HIDE DEF s
<1>12. ASSUME NEW i \in 1..n, NEW j \in 1..n, i < j PROVE Before(s[i], s[j])
  <2>1. s[i] \in T /\ s[j] \in T /\ rank[s[i]] < rank[s[j]]
    BY <1>9, <1>12
  <2>2. ~(rank[s[j]] < rank[s[i]])
    BY <1>1, <1>3, <2>1
  <2> QED
    BY <1>4, <2>1, <2>2, NamesAreOrdered
<1> QED
  BY <1>10, <1>11, <1>12 DEF Ascends

\* The sorted names are the names, each once.
LEMMA SortedNames ==
    ASSUME NEW names \in PackageSelection
    PROVE  LET T == Source!ToSet(names)
               s == Source!Sorted(names)
           IN  /\ DOMAIN s = 1..Source!Cardinality(T) /\ Source!Cardinality(T) \in Nat
               /\ {s[i] : i \in DOMAIN s} = T
<1> DEFINE T == ToSet(names)
           n == Cardinality(T)
           s == Source!Sorted(names)
<1>1. Source!ToSet(names) = T
  BY DEF Source!ToSet, ToSet
<1>2. \A S : Source!Cardinality(S) = Cardinality(S)
  BY DEF Source!Cardinality, Cardinality
<1>3. T \in SUBSET Asked /\ IsFiniteSet(T)
  BY SourceAssumption DEF Asked
<1>4. n \in Nat
  BY <1>3, FS_CardinalityType
<1> HIDE DEF T
<1>5. s = CHOOSE t \in [1..n -> T] : Ascends(t)
  BY <1>1, <1>2 DEF Source!Sorted, Ascends
<1>6. s \in [1..n -> T] /\ Ascends(s)
  BY <1>3, <1>5, NamesCanBeSorted
<1> HIDE DEF s, n
<1>7. \A i, j \in 1..n : i < j => s[i] # s[j]
  <2> SUFFICES ASSUME NEW i \in 1..n, NEW j \in 1..n, i < j PROVE s[i] # s[j]
      OBVIOUS
  <2>1. s[i] \in Asked /\ s[j] \in Asked /\ Before(s[i], s[j])
    BY <1>3, <1>6 DEF Ascends
  <2> QED
    BY <2>1, NamesAreOrdered
<1>8. s \in Injection(1..n, T)
  BY <1>4, <1>6, <1>7 DEF Injection, IsInjective
<1>9. s \in Surjection(1..n, T)
  <2>1. Cardinality(1..n) = n
    BY <1>4, FS_Interval
  <2> QED
    BY <1>3, <1>8, <2>1, FS_Injection DEF n
<1>10. {s[i] : i \in 1..n} = T
  BY <1>6, <1>9 DEF Surjection
<1>11. DOMAIN s = 1..n
  BY <1>6
<1> QED
  BY <1>1, <1>2, <1>4, <1>10, <1>11 DEF s, n

\* A record was built of an accepted input, and so was every published one.
SourceInv ==
    /\ input \in Source!Input
    /\ sourceStage = "built" => Source!Accepts(input) /\ record = Source!Record(input)
    /\ \A p \in published :
          /\ p.input \in Source!Input /\ Source!Accepts(p.input)
          /\ p.record = Source!Record(p.input)

\* Each publication is of an accepted input, and has the record built of it.
LEMMA SourceInvariant == Source!Spec => []SourceInv
<1>1. Source!Init => SourceInv
  BY DEF Source!Init, SourceInv
<1>2. SourceInv /\ [Source!Next]_Source!vars => SourceInv'
  <2> SUFFICES ASSUME SourceInv, [Source!Next]_Source!vars PROVE SourceInv'
      OBVIOUS
  <2> USE DEF SourceInv
  <2>1. CASE Source!Build
    BY <2>1 DEF Source!Build
  <2>2. CASE Source!Publish
    <3>1. published' = published \cup {[input |-> input, record |-> record]}
      BY <2>2 DEF Source!Publish
    <3>2. UNCHANGED <<input, record>> /\ sourceStage = "built" /\ sourceStage' = "published"
      BY <2>2 DEF Source!Publish
    <3> QED
      BY <3>1, <3>2
  <2>3. CASE Source!RunAgain \/ UNCHANGED Source!vars
    BY <2>3 DEF Source!RunAgain, Source!vars
  <2> QED
    BY <2>1, <2>2, <2>3 DEF Source!Next
<1> QED
  BY <1>1, <1>2, PTL DEF Source!Spec

\* The packages of a record are the selected ones, each once.
LEMMA RecordedPackages ==
    ASSUME NEW in \in Source!Input, Source!Accepts(in)
    PROVE  LET chosen == Source!Record(in).packages
           IN  /\ Source!Names(chosen) = Source!ToSet(in.names)
               /\ Len(chosen) = Source!Cardinality(Source!ToSet(in.names))
<1> DEFINE s == Source!Sorted(in.names)
           T == Source!ToSet(in.names)
           n == Source!Cardinality(T)
           chosen == [i \in DOMAIN s |-> Source!Package(in.catalog, s[i])]
<1>1. Source!Record(in).packages = chosen
  BY DEF Source!Record
<1>2. in.names \in PackageSelection
  BY DEF Source!Input
<1>3. DOMAIN s = 1..n /\ n \in Nat /\ {s[i] : i \in DOMAIN s} = T
  BY <1>2, SortedNames
<1>4. ASSUME NEW name \in T PROVE Source!Package(in.catalog, name).name = name
  <2>1. T \subseteq Source!Names(in.catalog.packages)
    BY DEF Source!Accepts, Source!Selects
  <2>2. PICK i \in DOMAIN in.catalog.packages : in.catalog.packages[i].name = name
    BY <2>1 DEF Source!Names
  <2>3. \E pkg \in Source!ToSet(in.catalog.packages) : pkg.name = name
    BY <2>2 DEF Source!ToSet
  <2> QED
    BY <2>3 DEF Source!Package
<1> HIDE DEF s, T, n
<1>5. \A i \in DOMAIN s : s[i] \in T /\ chosen[i].name = s[i]
  BY <1>3, <1>4
<1>6. DOMAIN chosen = DOMAIN s
  OBVIOUS
<1>7. chosen \in Seq({chosen[i] : i \in DOMAIN s}) /\ Len(chosen) = n
  BY <1>3
<1> HIDE DEF chosen
<1>8. Source!Names(chosen) = T
  BY <1>3, <1>5, <1>6 DEF Source!Names
<1> QED
  BY <1>1, <1>7, <1>8 DEF T, n

\* One publication has one record, whatever the order its names were given in: the
\* record hashes what is sorted, and names all that it hashes (createPackageSourceV2).
THEOREM RecordsIdentifyPublications == Source!Spec => []Source!RecordIdIdentifies
<1> DEFINE Unordered(in) == [in EXCEPT !.names = Source!ToSet(@)]
<1>1. ASSUME SourceInv, NEW p \in published, NEW q \in published
      PROVE  LET same == Unordered(p.input) = Unordered(q.input)
             IN  /\ same <=> p.record.recordId = q.record.recordId
                 /\ same => p.record = q.record
                 /\ p.record.digest = q.record.digest =>
                       /\ p.record.packages = q.record.packages
                       /\ p.record.evidence = q.record.evidence
  <2> DEFINE a == p.input
             b == q.input
             Rec(in) == Source!Record(in)
  <2>1. /\ a \in Source!Input /\ Source!Accepts(a) /\ p.record = Rec(a)
        /\ b \in Source!Input /\ Source!Accepts(b) /\ q.record = Rec(b)
    BY <1>1 DEF SourceInv
  <2> HIDE DEF a, b
  <2>2. ASSUME NEW in
        PROVE  /\ Rec(in).recordId =
                     <<in.catalog.producer, in.occurredAt, in.catalog.publishedAt,
                       in.source, in.catalog, Rec(in).packages, in.evidence>>
               /\ Rec(in).digest =
                     <<in.catalog.publishedAt, in.catalog, in.evidence, Rec(in).packages>>
               /\ Rec(in).evidence = in.evidence
    BY DEF Source!Record
  <2>3. Unordered(a) = Unordered(b) <=>
           /\ a.catalog = b.catalog /\ a.evidence = b.evidence /\ a.source = b.source
           /\ a.occurredAt = b.occurredAt
           /\ Source!ToSet(a.names) = Source!ToSet(b.names)
    BY <2>1 DEF Source!Input
  <2>4. Unordered(a) = Unordered(b) => Rec(a) = Rec(b)
    <3> SUFFICES ASSUME Unordered(a) = Unordered(b) PROVE Rec(a) = Rec(b)
        OBVIOUS
    <3>1. Source!Sorted(a.names) = Source!Sorted(b.names)
      BY <2>3 DEF Source!Sorted
    <3> QED
      BY <2>3, <3>1 DEF Source!Record
  <2> HIDE DEF Rec
  <2>5. Rec(a).recordId = Rec(b).recordId => Unordered(a) = Unordered(b)
    <3> SUFFICES ASSUME Rec(a).recordId = Rec(b).recordId PROVE Unordered(a) = Unordered(b)
        OBVIOUS
    <3>1. /\ a.catalog = b.catalog /\ a.evidence = b.evidence /\ a.source = b.source
          /\ a.occurredAt = b.occurredAt /\ Rec(a).packages = Rec(b).packages
      BY <2>2
    <3>2. Source!ToSet(a.names) = Source!ToSet(b.names)
      BY <2>1, <3>1, RecordedPackages DEF Rec
    <3> QED
      BY <2>3, <3>1, <3>2
  <2>6. Rec(a).digest = Rec(b).digest =>
           Rec(a).packages = Rec(b).packages /\ Rec(a).evidence = Rec(b).evidence
    BY <2>2
  <2> QED
    BY <2>1, <2>4, <2>5, <2>6 DEF a, b
<1>2. ASSUME SourceInv, NEW p \in published
      PROVE  /\ Source!Names(p.record.packages) = Source!ToSet(p.input.names)
             /\ Len(p.record.packages) = Source!Cardinality(Source!ToSet(p.input.names))
             /\ \A e \in Source!EvidenceName : p.record.evidence[e] # Unverified
  <2>1. /\ p.input \in Source!Input /\ Source!Accepts(p.input)
        /\ p.record = Source!Record(p.input)
    BY <1>2 DEF SourceInv
  <2>2. p.record.evidence = p.input.evidence
    BY <2>1 DEF Source!Record
  <2> QED
    BY <2>1, <2>2, RecordedPackages DEF Source!Accepts, Source!Verified
<1>3. SourceInv => Source!RecordIdIdentifies
  BY <1>1, <1>2 DEF Source!RecordIdIdentifies
<1> QED
  BY SourceInvariant, <1>3, PTL

\* Type correctness of the publications: never more than allowed.
THEOREM SourceTypeCorrect == Source!Spec => []Source!TypeOK
<1> DEFINE Inv == /\ Source!TypeOK /\ IsFiniteSet(published)
                  /\ sourceStage # "published" => Cardinality(published) < MaxRecords
<1>1. \A S : Source!Cardinality(S) = Cardinality(S)
  BY DEF Source!Cardinality, Cardinality
<1>2. Source!Init => Inv
  BY <1>1, FS_EmptySet, SourceAssumption DEF Source!Init, Source!TypeOK
<1>3. Inv /\ [Source!Next]_Source!vars => Inv'
  <2> SUFFICES ASSUME Inv, [Source!Next]_Source!vars PROVE Inv'
      OBVIOUS
  <2> USE <1>1, SourceAssumption DEF Source!TypeOK
  <2>1. CASE Source!Build
    <3>1. record' # Source!NoRecord
      BY <2>1 DEF Source!Build, Source!Record, Source!NoRecord
    <3> QED
      BY <2>1, <3>1 DEF Source!Build
  <2>2. CASE Source!Publish
    <3> DEFINE entry == [input |-> input, record |-> record]
    <3>1. published' = published \cup {entry} /\ IsFiniteSet(published)
      BY <2>2 DEF Source!Publish
    <3>2. Cardinality(published) < MaxRecords
      BY <2>2 DEF Source!Publish
    <3> HIDE DEF entry
    <3>3. /\ IsFiniteSet(published') /\ Cardinality(published) \in Nat
          /\ Cardinality(published') \in Nat
          /\ Cardinality(published') =< Cardinality(published) + 1
      BY <3>1, OneMore
    <3>4. Cardinality(published') =< MaxRecords
      BY <3>2, <3>3
    <3> QED
      BY <2>2, <3>3, <3>4 DEF Source!Publish
  <2>3. CASE Source!RunAgain \/ UNCHANGED Source!vars
    BY <2>3 DEF Source!RunAgain, Source!vars
  <2> QED
    BY <2>1, <2>2, <2>3 DEF Source!Next
<1>4. Inv => Source!TypeOK
  OBVIOUS
<1> QED
  BY <1>2, <1>3, <1>4, PTL DEF Source!Spec

-----------------------------------------------------------------------------
(* the shared library *)

\* Smaller and smaller subsets come to an end.
LEMMA SubsetsAreWellFounded ==
    ASSUME NEW S, IsFiniteSet(S)
    PROVE  IsWellFoundedOn(StrictSubsetOrdering(S), SUBSET S)
BY FS_StrictSubsetOrderingWellFounded, FS_FiniteSubsetsOfFinite

\* A set of numbers up to a bound has a least one.
LEMMA LeastNumber ==
    ASSUME NEW N \in Nat, NEW S \in SUBSET (0..N), S # {}
    PROVE  \E n \in S : \A m \in S : n =< m
<1> DEFINE R == 1..N
           Bad == {1..n : n \in S}
<1>1. Bad \subseteq SUBSET R /\ Bad # {}
  <2>1. \A n \in S : 1..n \in SUBSET R
    OBVIOUS
  <2> HIDE DEF R
  <2> QED
    BY <2>1
<1>2. IsFiniteSet(R)
  BY FS_Interval
<1>3. \A n, m \in S : m < n => 1..m \subseteq 1..n /\ 1..m # 1..n
  <2> TAKE n, m \in S
  <2> HAVE m < n
  <2>1. n \in 1..n /\ n \notin 1..m
    OBVIOUS
  <2> QED
    BY <2>1
<1> HIDE DEF R
<1>4. PICK s \in Bad : \A t \in Bad : ~(<<t, s>> \in StrictSubsetOrdering(R))
  <2> HIDE DEF Bad
  <2>1. IsWellFoundedOn(StrictSubsetOrdering(R), SUBSET R)
    BY <1>2, SubsetsAreWellFounded
  <2> QED
    BY <1>1, <2>1, WFMin
<1>5. PICK n \in S : s = 1..n
  OBVIOUS
<1>6. ASSUME NEW m \in S, m < n PROVE FALSE
  <2>1. 1..m \in Bad /\ 1..n \in Bad
    OBVIOUS
  <2> DEFINE a == 1..m
             b == 1..n
  <2>2. a \subseteq b /\ a # b
    BY <1>3, <1>6
  <2> HIDE DEF a, b, Bad
  <2>4. a \in SUBSET R /\ b \in SUBSET R
    BY <1>1, <2>1 DEF a, b
  <2>3. <<a, b>> \in StrictSubsetOrdering(R)
    BY <2>2, <2>4 DEF StrictSubsetOrdering
  <2> QED
    BY <1>4, <1>5, <2>1, <2>3 DEF a, b
<1> QED
  BY <1>6

LEMMA FollowedIsSafe ==
    ASSUME NEW names \in Seq(STRING), ".." \notin Rules!ToSet(names)
    PROVE  Rules!Followed(names) = Rules!SafeNames(names)
<1> DEFINE Kept(f) == [n \in 0..Len(names) |->
                         IF n = 0 THEN <<>>
                         ELSE IF names[n] \in Rules!Blank THEN f[n - 1]
                         ELSE Append(f[n - 1], names[n])]
           At(f) == [n \in 0..Len(names) |->
                         IF n = 0 THEN <<>>
                         ELSE IF names[n] \in Rules!Blank THEN f[n - 1]
                         ELSE IF names[n] # ".." THEN Append(f[n - 1], names[n])
                         ELSE IF f[n - 1] = <<>> \/ Rules!Last(f[n - 1]) = ".."
                         THEN Append(f[n - 1], "..")
                         ELSE Rules!Front(f[n - 1])]
<1>1. \A n \in 1..Len(names) : names[n] # ".."
  BY DEF Rules!ToSet
<1>2. ASSUME NEW f PROVE Kept(f) = At(f)
  BY <1>1
<1>3. Rules!SafeNames(names) = (CHOOSE f : f = Kept(f))[Len(names)]
  BY DEF Rules!SafeNames
<1>4. Rules!Followed(names) = (CHOOSE f : f = At(f))[Len(names)]
  BY DEF Rules!Followed
<1> HIDE DEF Kept, At
<1> QED
  BY <1>2, <1>3, <1>4

\* The names that are left are names of the path.
LEMMA SafeNamesAreNames ==
    ASSUME NEW names \in Seq(STRING)
    PROVE  Rules!ToSet(Rules!SafeNames(names)) \subseteq Rules!ToSet(names)
<1> DEFINE N == Len(names)
           Those == Rules!ToSet(names)
           Step(s, n) == IF names[n] \in Rules!Blank THEN s ELSE Append(s, names[n])
           Kept(f) == [n \in 0..N |->
                         IF n = 0 THEN <<>>
                         ELSE IF names[n] \in Rules!Blank THEN f[n - 1]
                         ELSE Append(f[n - 1], names[n])]
           IsKept(g, n) == /\ g = [k \in 0..n |-> g[k]] /\ g[0] = <<>>
                           /\ \A k \in 1..n : g[k] = Step(g[k - 1], k)
           f == CHOOSE g : g = Kept(g)
<1>1. N \in Nat /\ Those \subseteq STRING /\ \A n \in 1..N : names[n] \in Those
  BY DEF Rules!ToSet
<1>2. Rules!SafeNames(names) = f[N]
  BY DEF Rules!SafeNames
<1> HIDE DEF N
<1>3. \A n \in 0..N : \E g : IsKept(g, n)
  <2> DEFINE Bad == {n \in 0..N : ~ \E g : IsKept(g, n)}
  <2> SUFFICES ASSUME Bad # {} PROVE FALSE
    OBVIOUS
  <2>1. PICK n \in Bad : \A m \in Bad : n =< m
    <3>1. Bad \in SUBSET (0..N)
      OBVIOUS
    <3> HIDE DEF Bad
    <3> QED
      BY <1>1, <3>1, LeastNumber
  <2>2. n # 0
    <3> SUFFICES ASSUME n = 0 PROVE FALSE
      OBVIOUS
    <3> DEFINE g == [k \in 0..0 |-> <<>>]
    <3>1. IsKept(g, 0)
      OBVIOUS
    <3> HIDE DEF IsKept, g
    <3> QED
      BY <3>1
  <2>3. n \in 1..N /\ n - 1 \in 0..N /\ n - 1 \notin Bad
    <3> HIDE DEF Bad
    <3>1. n \in 0..N
      BY DEF Bad
    <3> QED
      BY <1>1, <2>1, <2>2, <3>1
  <2>4. PICK g : IsKept(g, n - 1)
    BY <2>3
  <2> DEFINE h == [k \in 0..n |-> IF k = n THEN Step(g[n - 1], n) ELSE g[k]]
  <2>5. IsKept(h, n)
    <3> HIDE DEF Step
    <3>1. \A k \in 0..(n - 1) : h[k] = g[k]
      BY <2>3
    <3>2. h[n] = Step(g[n - 1], n) /\ h[0] = <<>> /\ h = [k \in 0..n |-> h[k]]
      BY <2>3, <2>4
    <3>3. ASSUME NEW k \in 1..n PROVE h[k] = Step(h[k - 1], k)
      <4>0. 1..(n - 1) \subseteq 0..(n - 1)
        OBVIOUS
      <4>1. k - 1 \in 0..(n - 1) /\ (k = n \/ k \in 1..(n - 1))
        BY <2>3
      <4>2. h[k - 1] = g[k - 1]
        BY <3>1, <4>1
      <4>3. CASE k = n
        <5> HIDE DEF h
        <5> QED
          BY <3>2, <4>2, <4>3
      <4>4. CASE k \in 1..(n - 1)
        <5>1. g[k] = Step(g[k - 1], k) /\ h[k] = g[k]
          <6> HIDE DEF h
          <6> QED
            BY <2>4, <3>1, <4>0, <4>4
        <5> HIDE DEF h
        <5> QED
          BY <4>2, <5>1
      <4> QED
        BY <4>1, <4>3, <4>4
    <3> QED
      BY <3>2, <3>3
  <2> HIDE DEF IsKept, h
  <2> QED
    BY <2>1, <2>5
<1>4. f = Kept(f)
  <2>1. PICK g : IsKept(g, N)
    BY <1>1, <1>3
  <2>2. g = Kept(g)
    <3>1. g = [k \in 0..N |-> g[k]] /\ g[0] = <<>>
      BY <2>1
    <3>2. \A k \in 1..N : g[k] = Step(g[k - 1], k)
      BY <2>1
    <3>3. \A k \in 0..N : Kept(g)[k] = IF k = 0 THEN <<>> ELSE Step(g[k - 1], k)
      OBVIOUS
    <3>4. Kept(g) = [k \in 0..N |-> Kept(g)[k]]
      OBVIOUS
    <3>5. \A k \in 0..N : k = 0 \/ k \in 1..N
      BY <1>1
    <3> HIDE DEF Kept, Step
    <3>6. \A k \in 0..N : g[k] = Kept(g)[k]
      BY <3>1, <3>2, <3>3, <3>5
    <3> QED
      BY <3>1, <3>4, <3>6
  <2> HIDE DEF Kept
  <2> QED
    BY <2>2
<1> HIDE DEF f
<1>5. f[0] = <<>> /\ \A k \in 1..N : f[k] = Step(f[k - 1], k)
  <2>1. 0 \in 0..N /\ \A k \in 1..N : k \in 0..N /\ k # 0
    BY <1>1
  <2>2. \A k \in 0..N : Kept(f)[k] = IF k = 0 THEN <<>> ELSE Step(f[k - 1], k)
    OBVIOUS
  <2>3. \A k \in 0..N : f[k] = Kept(f)[k]
    BY <1>4
  <2> HIDE DEF Kept, Step
  <2> QED
    BY <2>1, <2>2, <2>3
<1> HIDE DEF Kept
<1>6. \A n \in 0..N : f[n] \in Seq(Those)
  <2> DEFINE Bad == {n \in 0..N : f[n] \notin Seq(Those)}
  <2> SUFFICES ASSUME Bad # {} PROVE FALSE
    OBVIOUS
  <2>1. PICK n \in Bad : \A m \in Bad : n =< m
    <3>1. Bad \in SUBSET (0..N)
      OBVIOUS
    <3> HIDE DEF Bad
    <3> QED
      BY <1>1, <3>1, LeastNumber
  <2>2. n # 0
    <3>1. f[n] \notin Seq(Those) /\ <<>> \in Seq(Those)
      OBVIOUS
    <3> QED
      BY <1>5, <3>1
  <2>3. n \in 1..N /\ n - 1 \in 0..N /\ n - 1 \notin Bad
    <3> HIDE DEF Bad
    <3>1. n \in 0..N
      BY DEF Bad
    <3> QED
      BY <1>1, <2>1, <2>2, <3>1
  <2>4. f[n - 1] \in Seq(Those) /\ names[n] \in Those
    BY <1>1, <2>3
  <2>5. f[n] = Step(f[n - 1], n)
    BY <1>5, <2>3
  <2>6. f[n] \in Seq(Those)
    <3> HIDE DEF Those
    <3> QED
      BY <2>4, <2>5
  <2> QED
    BY <2>6
<1>7. f[N] \in Seq(Those)
  BY <1>1, <1>6
<1> HIDE DEF Those
<1>8. \A s \in Seq(Those) : \A i \in DOMAIN s : s[i] \in Those
  OBVIOUS
<1>9. Rules!ToSet(f[N]) \subseteq Those
  <2> HIDE DEF N
  <2> QED
    BY <1>7, <1>8 DEF Rules!ToSet
<1> QED
  BY <1>2, <1>9 DEF Those

\* The library's Cardinality is the one the theorems are about.
LEMMA CountsAgree == \A S : Rules!Cardinality(S) = Cardinality(S)
BY DEF Rules!Cardinality, Cardinality

\* Of a set of numbers, the first few are few.
LEMMA CutIsBounded ==
    ASSUME NEW n \in Nat, NEW bytes \in SUBSET (1..n), MaxString \in Nat
    PROVE  /\ IsFiniteSet(Rules!Cut(bytes))
           /\ Cardinality(Rules!Cut(bytes)) =< MaxString
<1> DEFINE C == Rules!Cut(bytes)
           Below(i) == {j \in bytes : j < i}
           rank == [i \in C |-> Cardinality(Below(i)) + 1]
<1>1. IsFiniteSet(bytes) /\ bytes \subseteq Nat
  <2> DEFINE R == 1..n
  <2>1. IsFiniteSet(R)
    BY FS_Interval
  <2>2. bytes \in SUBSET R /\ bytes \subseteq Nat
    OBVIOUS
  <2> HIDE DEF R
  <2> QED
    BY <2>1, <2>2, FS_Subset
<1>2. C \subseteq bytes /\ \A i \in C : Cardinality(Below(i)) < MaxString
  BY CountsAgree DEF Rules!Cut
<1>3. \A i \in bytes : IsFiniteSet(Below(i)) /\ Cardinality(Below(i)) \in Nat
  <2> TAKE i \in bytes
  <2>1. Below(i) \in SUBSET bytes
    OBVIOUS
  <2> HIDE DEF Below
  <2> QED
    BY <1>1, <2>1, FS_Subset, FS_CardinalityType
<1>4. ASSUME NEW i \in bytes, NEW j \in bytes, i < j
      PROVE  Cardinality(Below(i)) < Cardinality(Below(j))
  <2>0. \A k \in bytes : k < i => k < j /\ k # i
    BY <1>1, <1>4
  <2>1. i \notin Below(i) /\ Below(i) \cup {i} \in SUBSET Below(j)
    BY <2>0, <1>4
  <2> HIDE DEF Below
  <2>2. Cardinality(Below(i) \cup {i}) = Cardinality(Below(i)) + 1
    BY <1>3, <2>1, FS_AddElement
  <2>3. Cardinality(Below(i) \cup {i}) =< Cardinality(Below(j))
    BY <1>3, <2>1, FS_Subset
  <2> QED
    BY <1>3, <2>2, <2>3
<1> HIDE DEF Below, C
<1>5. rank \in [C -> 1..MaxString]
  <2>1. \A i \in C : Cardinality(Below(i)) + 1 \in 1..MaxString
    BY <1>2, <1>3
  <2> QED
    BY <2>1
<1>6. \A i, j \in C : rank[i] = rank[j] => i = j
  <2> TAKE i, j \in C
  <2> HAVE rank[i] = rank[j]
  <2>1. Cardinality(Below(i)) = Cardinality(Below(j))
    <3>1. Cardinality(Below(i)) \in Nat /\ Cardinality(Below(j)) \in Nat
      BY <1>2, <1>3
    <3> QED
      BY <3>1
  <2>2. i \in Nat /\ j \in Nat /\ i \in bytes /\ j \in bytes
    BY <1>1, <1>2
  <2>3. ~(i < j) /\ ~(j < i)
    BY <1>3, <1>4, <2>1, <2>2
  <2> QED
    BY <2>2, <2>3
<1> HIDE DEF rank
<1>7. rank \in Injection(C, 1..MaxString)
  BY <1>5, <1>6 DEF Injection, IsInjective
<1>8. IsFiniteSet(1..MaxString) /\ Cardinality(1..MaxString) = MaxString
  BY FS_Interval
<1>9. IsFiniteSet(C) /\ Cardinality(C) =< Cardinality(1..MaxString)
  BY <1>7, <1>8, FS_Injection
<1> QED
  BY <1>8, <1>9 DEF C

\* A cleaned text has nothing of a token, and is short.
LEMMA CleanedIsClean ==
    ASSUME NEW text \in Seq({"p", "s"}), MaxString \in Nat
    PROVE  LET bytes == Rules!Cleaned(text)
           IN  /\ bytes.copied \cap Rules!InToken(text) = {}
               /\ Cardinality(bytes.copied \cup bytes.marks) =< MaxString
<1> DEFINE R == Rules!Replaced(text)
<1>1. R \in SUBSET (1..Len(text)) /\ Len(text) \in Nat
  BY DEF Rules!Replaced, Rules!TokenStart, Rules!InToken
<1> HIDE DEF R
<1>2. Cardinality(Rules!Cut(R)) =< MaxString
  BY <1>1, CutIsBounded
<1>3. Rules!Cleaned(text) = [copied |-> Rules!Cut(R) \ Rules!InToken(text),
                             marks |-> Rules!Cut(R) \cap Rules!InToken(text)]
  BY DEF R, Rules!Cleaned
<1>4. /\ Rules!Cleaned(text).copied = Rules!Cut(R) \ Rules!InToken(text)
      /\ Rules!Cleaned(text).marks = Rules!Cut(R) \cap Rules!InToken(text)
  BY <1>3
<1>5. Rules!Cleaned(text).copied \cup Rules!Cleaned(text).marks = Rules!Cut(R)
  BY <1>4
<1> QED
  BY <1>2, <1>4, <1>5

\* The positions visit was called for or is to be called for: none is both, all are in
\* the value, and each is the whole value or an entry of a list or an object returned.
WalkIsOfTheValue ==
    /\ DOMAIN trusted \cup unvisited \subseteq DOMAIN untrusted.value
    /\ DOMAIN trusted \cap unvisited = {}
    /\ <<>> \in DOMAIN trusted \cup unvisited
    /\ \A p \in DOMAIN trusted \cup unvisited :
          p # <<>> => /\ Rules!Front(p) \in DOMAIN trusted
                      /\ trusted[Rules!Front(p)].kind \in Rules!Container

\* Every key that was visited is counted, and there are not too many.
KeysAreCounted ==
    /\ keys = Cardinality({p \in DOMAIN trusted : Rules!Keyed(p)})
    /\ keys \in 0..MaxKeys

\* A node that was returned is clean, and its entries are returned or are still visited.
NodesAreClean ==
    \A p \in DOMAIN trusted :
        /\ trusted[p].kind \in {"scalar", "text", "redacted"} \cup Rules!Container
        /\ trusted[p].kind \in Rules!Container =>
              Len(p) < MaxDepth /\ Rules!Entries(p) \subseteq DOMAIN trusted \cup unvisited
        /\ Rules!SecretKey(p) => trusted[p] = Rules!Redacted
        /\ trusted[p].kind = "text" =>
              LET bytes == trusted[p].bytes
              IN  /\ bytes.copied \cap Rules!InToken(Rules!Node(p).text) = {}
                  /\ Cardinality(bytes.copied \cup bytes.marks) =< MaxString

\* A walk over a value: visiting, returned with nothing left to visit, or refused.
WalkInv ==
    /\ untrusted.value \in Metadata
    /\ verdict \in {"visiting", "returned", "refused"}
    /\ keys \in 0..MaxKeys
    /\ verdict = "refused" => trusted = <<>> /\ unvisited \subseteq DOMAIN untrusted.value
    /\ verdict # "refused" => WalkIsOfTheValue /\ KeysAreCounted /\ NodesAreClean
    /\ verdict = "returned" => unvisited = {}

\* A path: it is resolved in one step.
PathInv ==
    \E path \in GivenPath :
        /\ untrusted = [kind |-> "path", value |-> path]
        /\ verdict \in {"resolving", "returned", "refused"}
        /\ keys \in 0..MaxKeys
        /\ verdict = "returned" =>
              ~Rules!Escapes(path) /\ trusted = Rules!SafeNames(path.names)

RulesInv == (untrusted.kind = "metadata" /\ WalkInv) \/ PathInv

\* What is untrusted is not changed, and with it what visit asks of it.
LEMMA InputStays ==
    ASSUME UNCHANGED untrusted
    PROVE  /\ \A p : Rules!Entries(p)' = Rules!Entries(p)
           /\ \A p : Rules!Node(p)' = Rules!Node(p)
           /\ \A p : Rules!Keyed(p)' = Rules!Keyed(p)
           /\ \A p : Rules!SecretKey(p)' = Rules!SecretKey(p)
<1>1. \A p : Rules!Node(p)' = Rules!Node(p)
  BY DEF Rules!Node
<1>2. \A p : Rules!Entries(p)' = Rules!Entries(p)
  BY DEF Rules!Entries
<1>3. \A p : Rules!Keyed(p)' = Rules!Keyed(p)
  BY <1>1 DEF Rules!Keyed
<1> QED
  BY <1>1, <1>2, <1>3 DEF Rules!SecretKey

\* A call of visit that returns keeps the walk's invariant, whatever is returned, if
\* that is clean and the calls it makes are for its entries.
LEMMA VisitKeepsInv ==
    ASSUME WalkInv, verdict = "visiting", NEW p \in unvisited, ~Rules!Throws(p),
           NEW node, NEW calls, Rules!Visited(p, node, calls),
           node.kind \in {"scalar", "text", "redacted"} \cup Rules!Container,
           node.kind \in Rules!Container => Len(p) < MaxDepth /\ calls = Rules!Entries(p),
           node.kind \notin Rules!Container => calls = {},
           Rules!SecretKey(p) => node = Rules!Redacted,
           node.kind = "text" =>
               /\ node.bytes.copied \cap Rules!InToken(Rules!Node(p).text) = {}
               /\ Cardinality(node.bytes.copied \cup node.bytes.marks) =< MaxString
    PROVE  WalkInv'
<1> DEFINE D == DOMAIN trusted
           T == [q \in D \cup {p} |-> IF q = p THEN node ELSE trusted[q]]
<1>1. /\ trusted' = T /\ unvisited' = (unvisited \ {p}) \cup calls
      /\ keys' = Rules!KeysWith(p) /\ UNCHANGED <<untrusted, verdict>>
  BY DEF Rules!Visited
<1>2. WalkIsOfTheValue /\ KeysAreCounted /\ NodesAreClean
  BY DEF WalkInv
<1>3. p \notin D /\ p \in DOMAIN untrusted.value
  BY <1>2 DEF WalkIsOfTheValue
<1>4. /\ DOMAIN trusted' = D \cup {p} /\ trusted'[p] = node
      /\ \A q \in D : trusted'[q] = trusted[q]
  BY <1>1, <1>3
<1>5. calls \subseteq Rules!Entries(p) /\ (calls # {} => node.kind \in Rules!Container)
  OBVIOUS
<1>6. \A q \in calls : q \in DOMAIN untrusted.value /\ q # <<>> /\ Rules!Front(q) = p
  BY <1>5 DEF Rules!Entries
<1>7. /\ \A q : Rules!Entries(q)' = Rules!Entries(q)
      /\ \A q : Rules!Node(q)' = Rules!Node(q)
      /\ \A q : Rules!Keyed(q)' = Rules!Keyed(q)
      /\ \A q : Rules!SecretKey(q)' = Rules!SecretKey(q)
  BY <1>1, InputStays
<1>8. DOMAIN trusted' \cup unvisited' = D \cup unvisited \cup calls
  BY <1>1, <1>4
<1> HIDE DEF T
<1>9. WalkIsOfTheValue'
  <2>1. \A q \in D \cup unvisited \cup calls :
           q # <<>> => /\ Rules!Front(q) \in D \cup {p}
                       /\ trusted'[Rules!Front(q)].kind \in Rules!Container
    <3> TAKE q \in D \cup unvisited \cup calls
    <3> HAVE q # <<>>
    <3>1. CASE q \in D \cup unvisited
      BY <1>2, <1>4, <3>1 DEF WalkIsOfTheValue
    <3>2. CASE q \in calls
      BY <1>4, <1>5, <1>6, <3>2
    <3> QED
      BY <3>1, <3>2
  <2>2. (D \cup {p}) \cap unvisited' = {}
    <3>1. ASSUME NEW q \in calls PROVE q \notin D \cup {p}
      <4>1. q # <<>> /\ Rules!Front(q) = p
        BY <1>6
      <4> QED
        BY <1>2, <1>3, <4>1 DEF WalkIsOfTheValue
    <3> QED
      BY <1>1, <1>2, <3>1 DEF WalkIsOfTheValue
  <2>3. <<>> \in D \cup unvisited \cup calls
    BY <1>2 DEF WalkIsOfTheValue
  <2>4. D \cup unvisited \cup calls \subseteq DOMAIN untrusted.value
    BY <1>2, <1>6 DEF WalkIsOfTheValue
  <2>5. untrusted' = untrusted
    BY <1>1
  <2> QED
    BY <1>4, <1>8, <2>1, <2>2, <2>3, <2>4, <2>5
       DEF WalkIsOfTheValue, Rules!Front, Rules!Container
<1>10. KeysAreCounted'
  <2> DEFINE K == {q \in D : Rules!Keyed(q)}
             L == {q \in D \cup {p} : Rules!Keyed(q)}
  <2>1. {q \in DOMAIN trusted : Rules!Keyed(q)}' = L
    BY <1>4, <1>7
  <2>2. keys = Cardinality(K) /\ keys \in 0..MaxKeys
    BY <1>2 DEF KeysAreCounted
  <2>3. IsFiniteSet(K) /\ p \notin K
    <3> DEFINE E == DOMAIN untrusted.value
    <3>1. IsFiniteSet(E)
      BY RulesAssumption DEF WalkInv, Rules!IsTree, Rules!IsFiniteSet, IsFiniteSet
    <3>2. K \in SUBSET E /\ p \notin K
      BY <1>2, <1>3 DEF WalkIsOfTheValue
    <3> HIDE DEF E, K
    <3> QED
      BY <3>1, <3>2, FS_Subset
  <2>4. L = IF Rules!Keyed(p) THEN K \cup {p} ELSE K
    OBVIOUS
  <2> HIDE DEF K, L
  <2>5. keys' = Cardinality(L)
    <3>1. CASE Rules!Keyed(p)
      <4>1. Cardinality(K \cup {p}) = Cardinality(K) + 1
        BY <2>3, FS_AddElement
      <4> QED
        BY <1>1, <2>2, <2>4, <3>1, <4>1 DEF Rules!KeysWith
    <3>2. CASE ~Rules!Keyed(p)
      BY <1>1, <2>2, <2>4, <3>2 DEF Rules!KeysWith
    <3> QED
      BY <3>1, <3>2
  <2>6. keys' \in 0..MaxKeys
    BY <1>1, <2>2, RulesAssumption DEF Rules!KeysWith, Rules!Throws
  <2> QED
    BY <2>1, <2>5, <2>6 DEF KeysAreCounted
<1>11. NodesAreClean'
  <2> DEFINE Clean(q, n) ==
          /\ n.kind \in {"scalar", "text", "redacted"} \cup Rules!Container
          /\ n.kind \in Rules!Container =>
                Len(q) < MaxDepth /\ Rules!Entries(q) \subseteq D \cup unvisited \cup calls
          /\ Rules!SecretKey(q) => n = Rules!Redacted
          /\ n.kind = "text" =>
                /\ n.bytes.copied \cap Rules!InToken(Rules!Node(q).text) = {}
                /\ Cardinality(n.bytes.copied \cup n.bytes.marks) =< MaxString
  <2>1. ASSUME NEW q \in D PROVE Clean(q, trusted[q])
    BY <1>2 DEF NodesAreClean
  <2>2. Clean(p, node)
    OBVIOUS
  <2>3. \A q \in D \cup {p} : Clean(q, trusted'[q])
    <3> HIDE DEF Clean
    <3> QED
      BY <1>4, <2>1, <2>2
  <2>4. \A S : Rules!InToken(S)' = Rules!InToken(S)
    BY DEF Rules!InToken
  <2>5. Rules!Container' = Rules!Container /\ Rules!Redacted' = Rules!Redacted
    BY DEF Rules!Container, Rules!Redacted
  <2> QED
    BY <1>4, <1>7, <1>8, <2>3, <2>4, <2>5 DEF NodesAreClean
<1>12. keys' \in 0..MaxKeys
  BY <1>10 DEF KeysAreCounted
<1> QED
  BY <1>1, <1>9, <1>10, <1>11, <1>12 DEF WalkInv

\* Where nothing of the walk changes, what is known of it stays.
LEMMA WalkStays ==
    ASSUME UNCHANGED <<untrusted, unvisited, keys, trusted>>,
           WalkIsOfTheValue, KeysAreCounted, NodesAreClean
    PROVE  (WalkIsOfTheValue /\ KeysAreCounted /\ NodesAreClean)'
<1>1. /\ \A q : Rules!Entries(q)' = Rules!Entries(q)
      /\ \A q : Rules!Node(q)' = Rules!Node(q)
      /\ \A q : Rules!Keyed(q)' = Rules!Keyed(q)
      /\ \A q : Rules!SecretKey(q)' = Rules!SecretKey(q)
  BY InputStays
<1>2. WalkIsOfTheValue'
  BY DEF WalkIsOfTheValue, Rules!Front, Rules!Container
<1>3. KeysAreCounted'
  <2>1. {q \in DOMAIN trusted : Rules!Keyed(q)}' = {q \in DOMAIN trusted : Rules!Keyed(q)}
    BY <1>1
  <2> QED
    BY <2>1 DEF KeysAreCounted
<1>4. NodesAreClean'
  <2>1. \A S : Rules!InToken(S)' = Rules!InToken(S)
    BY DEF Rules!InToken
  <2>2. Rules!Container' = Rules!Container /\ Rules!Redacted' = Rules!Redacted
    BY DEF Rules!Container, Rules!Redacted
  <2> QED
    BY <1>1, <2>1, <2>2 DEF NodesAreClean
<1> QED
  BY <1>2, <1>3, <1>4

\* A walk begins with the whole value, and no step leaves its invariant.
LEMMA WalkStep ==
    ASSUME untrusted.kind = "metadata", WalkInv, Rules!Next
    PROVE  WalkInv' /\ UNCHANGED untrusted
<1>1. CASE \E p \in unvisited : Rules!Redact(p)
  <2>1. PICK p \in unvisited : Rules!Redact(p)
    BY <1>1
  <2>2. /\ verdict = "visiting" /\ ~Rules!Throws(p)
        /\ Rules!Visited(p, Rules!Redacted, {})
    BY <2>1 DEF Rules!Redact, Rules!Calls
  <2>3. Rules!Redacted.kind = "redacted" /\ "redacted" \notin Rules!Container
    BY DEF Rules!Redacted, Rules!Container
  <2>4. WalkInv'
    BY <2>2, <2>3, VisitKeepsInv
  <2> QED
    BY <2>2, <2>4 DEF Rules!Visited
<1>2. CASE \E p \in unvisited : Rules!Copy(p)
  <2>1. PICK p \in unvisited : Rules!Copy(p)
    BY <1>2
  <2>2. verdict = "visiting" /\ ~Rules!Throws(p) /\ ~Rules!SecretKey(p)
    BY <2>1 DEF Rules!Copy, Rules!Calls
  <2>3. "scalar" \notin Rules!Container /\ "text" \notin Rules!Container
    BY DEF Rules!Container
  <2>4. CASE Rules!Node(p).kind = "scalar" /\ Rules!Visited(p, [kind |-> "scalar"], {})
    <3> DEFINE node == [kind |-> "scalar"]
    <3>1. node.kind = "scalar" /\ Rules!Visited(p, node, {})
      BY <2>4
    <3> HIDE DEF node
    <3>2. WalkInv'
      BY <2>2, <2>3, <3>1, VisitKeepsInv
    <3> QED
      BY <3>1, <3>2 DEF Rules!Visited
  <2>5. CASE /\ Rules!Node(p).kind = "text"
             /\ Rules!Visited(p, [kind |-> "text",
                                  bytes |-> Rules!Cleaned(Rules!Node(p).text)], {})
    <3> DEFINE node == [kind |-> "text", bytes |-> Rules!Cleaned(Rules!Node(p).text)]
    <3>1. /\ node.kind = "text" /\ node.bytes = Rules!Cleaned(Rules!Node(p).text)
          /\ Rules!Visited(p, node, {})
      BY <2>5
    <3> HIDE DEF node
    <3>2. Rules!Node(p).text \in Seq({"p", "s"})
      BY <2>2, <2>5, RulesAssumption
         DEF WalkInv, WalkIsOfTheValue, Rules!IsTree, Rules!Node
    <3>3. /\ node.bytes.copied \cap Rules!InToken(Rules!Node(p).text) = {}
          /\ Cardinality(node.bytes.copied \cup node.bytes.marks) =< MaxString
      BY <3>1, <3>2, CleanedIsClean, RulesAssumption
    <3>4. WalkInv'
      BY <2>2, <2>3, <3>1, <3>3, VisitKeepsInv
    <3> QED
      BY <3>1, <3>4 DEF Rules!Visited
  <2> QED
    BY <2>1, <2>4, <2>5 DEF Rules!Copy
<1>3. CASE \E p \in unvisited : Rules!Enter(p)
  <2>1. PICK p \in unvisited : Rules!Enter(p)
    BY <1>3
  <2> DEFINE node == [kind |-> Rules!Node(p).kind]
  <2>2. /\ verdict = "visiting" /\ ~Rules!Throws(p) /\ ~Rules!SecretKey(p)
        /\ node.kind = Rules!Node(p).kind /\ node.kind \in Rules!Container
        /\ Rules!Visited(p, node, Rules!Entries(p))
    BY <2>1 DEF Rules!Enter, Rules!Calls
  <2>3. node.kind # "text"
    BY <2>2 DEF Rules!Container
  <2>4. Len(p) < MaxDepth
    <3>1. p \in Seq(Nat \ {0})
      BY <2>2, RulesAssumption DEF WalkInv, WalkIsOfTheValue, Rules!IsTree
    <3>2. ~(Len(p) >= MaxDepth)
      BY <2>2 DEF Rules!Throws
    <3> QED
      BY <3>1, <3>2, RulesAssumption
  <2> HIDE DEF node
  <2>5. WalkInv'
    BY <2>2, <2>3, <2>4, VisitKeepsInv
  <2> QED
    BY <2>2, <2>5 DEF Rules!Visited
<1>4. CASE \E p \in unvisited : Rules!Throw(p)
  <2>1. /\ verdict = "visiting" /\ verdict' = "refused" /\ trusted' = <<>>
        /\ UNCHANGED <<untrusted, unvisited, keys>>
    BY <1>4 DEF Rules!Throw, Rules!Calls
  <2> QED
    BY <2>1 DEF WalkInv, WalkIsOfTheValue
<1>5. CASE Rules!Return
  <2>1. verdict = "visiting" /\ unvisited = {} /\ verdict' = "returned"
    BY <1>5 DEF Rules!Return
  <2>2. UNCHANGED <<untrusted, unvisited, keys, trusted>>
    BY <1>5 DEF Rules!Return
  <2>3. (WalkIsOfTheValue /\ KeysAreCounted /\ NodesAreClean)'
    BY <2>1, <2>2, WalkStays DEF WalkInv
  <2> QED
    BY <2>1, <2>2, <2>3 DEF WalkInv
<1>6. CASE Rules!Resolve \/ Rules!RefusePath
  BY <1>6 DEF Rules!Resolve, Rules!RefusePath, WalkInv
<1> QED
  BY <1>1, <1>2, <1>3, <1>4, <1>5, <1>6 DEF Rules!Next

\* A path is resolved in one step, or refused.
LEMMA PathStep ==
    ASSUME PathInv, [Rules!Next]_Rules!vars
    PROVE  PathInv'
<1>1. PICK path \in GivenPath :
        /\ untrusted = [kind |-> "path", value |-> path]
        /\ verdict \in {"resolving", "returned", "refused"}
        /\ keys \in 0..MaxKeys
        /\ verdict = "returned" =>
              ~Rules!Escapes(path) /\ trusted = Rules!SafeNames(path.names)
  BY DEF PathInv
<1>2. Rules!SafeNames(path.names)' = Rules!SafeNames(path.names)
  BY DEF Rules!SafeNames
<1>3. Rules!Escapes(path)' = Rules!Escapes(path)
  BY Zenon DEF Rules!Escapes, Rules!IsDot, Rules!SafeNames, Rules!ToSet
<1>4. CASE Rules!Resolve
  <2>1. untrusted.value = path /\ UNCHANGED <<untrusted, keys>> /\ verdict' = "returned"
    BY <1>1, <1>4 DEF Rules!Resolve
  <2>2. ~Rules!Escapes(path) /\ trusted' = Rules!SafeNames(path.names)
    BY <1>4, <2>1 DEF Rules!Resolve
  <2> QED
    BY <1>1, <1>2, <1>3, <2>1, <2>2 DEF PathInv
<1>5. CASE Rules!RefusePath
  <2>1. UNCHANGED <<untrusted, keys>> /\ verdict' = "refused"
    BY <1>5 DEF Rules!RefusePath
  <2> QED
    BY <1>1, <2>1 DEF PathInv
<1>6. CASE UNCHANGED Rules!vars
  <2>1. UNCHANGED <<untrusted, keys, trusted>> /\ UNCHANGED verdict
    BY <1>6 DEF Rules!vars
  <2> QED
    BY <1>1, <1>2, <1>3, <2>1 DEF PathInv
<1>7. CASE \/ Rules!Return
           \/ \E p \in unvisited : \/ Rules!Redact(p) \/ Rules!Copy(p)
                                   \/ Rules!Enter(p) \/ Rules!Throw(p)
  <2>1. verdict = "visiting"
    BY <1>7 DEF Rules!Return, Rules!Redact, Rules!Copy, Rules!Enter, Rules!Throw, Rules!Calls
  <2> QED
    BY <1>1, <2>1
<1> QED
  BY <1>4, <1>5, <1>6, <1>7 DEF Rules!Next

\* A walk stays as it is known to be, and a path is resolved in one step, for every
\* value, path and bound.
LEMMA RulesInvariant == Rules!Spec => []RulesInv
<1>1. Rules!Init => RulesInv
  <2> SUFFICES ASSUME Rules!Init PROVE RulesInv
    OBVIOUS
  <2>1. trusted = <<>> /\ DOMAIN trusted = {} /\ keys = 0 /\ 0 \in 0..MaxKeys
    BY RulesAssumption DEF Rules!Init
  <2>2. CASE Rules!InitMetadata
    <3>1. untrusted.kind = "metadata" /\ untrusted.value \in Metadata
      BY <2>2 DEF Rules!InitMetadata
    <3>2. verdict = "visiting" /\ unvisited = {<<>>}
      BY <2>2 DEF Rules!InitMetadata
    <3>3. <<>> \in DOMAIN untrusted.value
      BY <3>1, RulesAssumption DEF Rules!IsTree
    <3>4. WalkIsOfTheValue /\ NodesAreClean
      BY <2>1, <3>2, <3>3 DEF WalkIsOfTheValue, NodesAreClean
    <3>5. KeysAreCounted
      <4>1. {p \in DOMAIN trusted : Rules!Keyed(p)} = {}
        BY <2>1
      <4> QED
        BY <2>1, <4>1, FS_EmptySet DEF KeysAreCounted
    <3> QED
      BY <2>1, <3>1, <3>2, <3>4, <3>5 DEF RulesInv, WalkInv
  <2>3. CASE Rules!InitPath
    BY <2>1, <2>3 DEF Rules!InitPath, RulesInv, PathInv
  <2> QED
    BY <2>2, <2>3 DEF Rules!Init
<1>2. RulesInv /\ [Rules!Next]_Rules!vars => RulesInv'
  <2> SUFFICES ASSUME RulesInv, [Rules!Next]_Rules!vars PROVE RulesInv'
    OBVIOUS
  <2>1. CASE UNCHANGED Rules!vars /\ untrusted.kind = "metadata" /\ WalkInv
    <3>1. UNCHANGED <<untrusted, unvisited, keys, trusted>> /\ UNCHANGED verdict
      BY <2>1 DEF Rules!vars
    <3>2. verdict # "refused" => (WalkIsOfTheValue /\ KeysAreCounted /\ NodesAreClean)'
      BY <2>1, <3>1, WalkStays DEF WalkInv
    <3> QED
      BY <2>1, <3>1, <3>2 DEF RulesInv, WalkInv
  <2>2. CASE Rules!Next /\ untrusted.kind = "metadata" /\ WalkInv
    BY <2>2, WalkStep DEF RulesInv
  <2>3. CASE PathInv
    BY <2>3, PathStep DEF RulesInv
  <2> QED
    BY <2>1, <2>2, <2>3 DEF RulesInv
<1> QED
  BY <1>1, <1>2, PTL DEF Rules!Spec

\* Type correctness of the walk over metadata and of the resolution of paths.
THEOREM RulesTypeCorrect == Rules!Spec => []Rules!TypeOK
<1>1. RulesInv => Rules!TypeOK
  <2> SUFFICES ASSUME RulesInv PROVE Rules!TypeOK
    OBVIOUS
  <2>1. CASE untrusted.kind = "metadata" /\ WalkInv
    <3>1. CASE verdict = "refused"
      <4>1. DOMAIN trusted = {} /\ unvisited \subseteq DOMAIN untrusted.value
        BY <2>1, <3>1 DEF WalkInv
      <4> QED
        BY <2>1, <4>1 DEF WalkInv, Rules!TypeOK
    <3>2. CASE verdict # "refused"
      BY <2>1, <3>2 DEF WalkInv, WalkIsOfTheValue, NodesAreClean, Rules!TypeOK
    <3> QED
      BY <3>1, <3>2
  <2>2. CASE PathInv
    BY <2>2 DEF PathInv, Rules!TypeOK
  <2> QED
    BY <2>1, <2>2 DEF RulesInv
<1> QED
  BY <1>1, RulesInvariant, PTL

\* For every tree, token length and bound: what redactBounded returns has no part of a
\* token and nothing of what a secret key names, is as deep and as large as allowed,
\* and whole.
THEOREM ReturnedMetadataIsClean == Rules!Spec => []Rules!MetadataIsClean
<1>1. RulesInv => Rules!MetadataIsClean
  <2> SUFFICES ASSUME RulesInv, untrusted.kind = "metadata", verdict = "returned"
               PROVE  Rules!MetadataIsClean
    BY DEF Rules!MetadataIsClean
  <2>1. WalkIsOfTheValue /\ KeysAreCounted /\ NodesAreClean /\ unvisited = {}
    BY DEF RulesInv, WalkInv, PathInv
  <2>2. Rules!Cardinality({p \in DOMAIN trusted : Rules!Keyed(p)}) =< MaxKeys
    BY <2>1, CountsAgree, RulesAssumption DEF KeysAreCounted
  <2>3. DOMAIN trusted \cup unvisited = DOMAIN trusted
    BY <2>1
  <2>4. <<>> \in DOMAIN trusted
    BY <2>1, <2>3 DEF WalkIsOfTheValue
  <2>5. \A p \in DOMAIN trusted :
           p # <<>> => /\ Rules!Front(p) \in DOMAIN trusted
                       /\ trusted[Rules!Front(p)].kind \in Rules!Container
    BY <2>1, <2>3 DEF WalkIsOfTheValue
  <2> QED
    BY <2>1, <2>2, <2>3, <2>4, <2>5, CountsAgree DEF NodesAreClean, Rules!MetadataIsClean
<1> QED
  BY <1>1, RulesInvariant, PTL

\* For every path of any length: a path that is resolved leads where its names lead one
\* by one, and that is the root or below it.
THEOREM ResolvedPathsStayInside == Rules!Spec => []Rules!PathsStayInside
<1>1. RulesInv => Rules!PathsStayInside
  <2> SUFFICES ASSUME RulesInv, untrusted.kind = "path", verdict = "returned"
               PROVE  Rules!PathsStayInside
    BY DEF Rules!PathsStayInside
  <2> DEFINE names == untrusted.value.names
  <2>1. /\ untrusted.value \in GivenPath /\ ~Rules!Escapes(untrusted.value)
        /\ trusted = Rules!SafeNames(names)
    BY DEF RulesInv, PathInv
  <2>2. names \in Seq(STRING)
    BY <2>1, RulesAssumption
  <2>3. ~untrusted.value.absolute /\ ".." \notin Rules!ToSet(names)
    BY <2>1 DEF Rules!Escapes
  <2>4. trusted = Rules!Followed(names)
    BY <2>1, <2>2, <2>3, FollowedIsSafe
  <2>5. ".." \notin Rules!ToSet(trusted)
    BY <2>1, <2>2, <2>3, SafeNamesAreNames
  <2> QED
    BY <2>3, <2>4, <2>5 DEF Rules!PathsStayInside
<1> QED
  BY <1>1, RulesInvariant, PTL

-----------------------------------------------------------------------------
(* the tools side by side *)

\* Whether this behaviour is about that tool.
Runs(name) == tool = name

\* A behaviour is about one tool.
LEMMA ToolStays == [Next]_vars => UNCHANGED tool
<1>1. ASSUME NEW name, Only(name) PROVE UNCHANGED tool
  BY <1>1 DEF Only
<1> QED
  BY <1>1 DEF Next, vars

\* A behaviour is one of detect-ci-scope, or detect-ci-scope is never run in it.
LEMMA ScopeRuns == Spec => Scope!Spec \/ []~Runs("scope")
<1>1. Init /\ Runs("scope") => Scope!Init
  BY DEF Init, Runs
<1>2. Runs("scope") /\ [Next]_vars => Runs("scope")' /\ [Scope!Next]_Scope!vars
  BY DEF Next, Only, vars, scopeVars, Runs, Scope!vars
<1>3. ~Runs("scope") /\ [Next]_vars => ~Runs("scope")'
  BY ToolStays DEF Runs
<1> QED
  BY <1>1, <1>2, <1>3, PTL DEF Spec, Scope!Spec

\* A behaviour is one of release-manifest, or release-manifest is never run in it.
LEMMA ManifestRuns == Spec => Manifest!Spec \/ []~Runs("manifest")
<1>1. Init /\ Runs("manifest") => Manifest!Init
  BY DEF Init, Runs
<1>2. Runs("manifest") /\ [Next]_vars => Runs("manifest")' /\ [Manifest!Next]_Manifest!vars
  BY DEF Next, Only, vars, manifestVars, Runs, Manifest!vars
<1>3. ~Runs("manifest") /\ [Next]_vars => ~Runs("manifest")'
  BY ToolStays DEF Runs
<1> QED
  BY <1>1, <1>2, <1>3, PTL DEF Spec, Manifest!Spec

\* A behaviour is one of wrangler-pinned, or wrangler-pinned is never run in it.
LEMMA WranglerRuns == Spec => Wrangler!Spec \/ []~Runs("wrangler")
<1>1. Init /\ Runs("wrangler") => Wrangler!Init
  BY DEF Init, Runs
<1>2. Runs("wrangler") /\ [Next]_vars => Runs("wrangler")' /\ [Wrangler!Next]_Wrangler!vars
  BY DEF Next, Only, vars, wranglerVars, Runs, Wrangler!vars, Wrangler!disk
<1>3. ~Runs("wrangler") /\ [Next]_vars => ~Runs("wrangler")'
  BY ToolStays DEF Runs
<1> QED
  BY <1>1, <1>2, <1>3, PTL DEF Spec, Wrangler!Spec

\* A behaviour is one of setup-node-pnpm, or setup-node-pnpm is never run in it.
LEMMA PnpmRuns == Spec => Pnpm!Spec \/ []~Runs("pnpm")
<1>1. Init /\ Runs("pnpm") => Pnpm!Init
  BY DEF Init, Runs
<1>2. Runs("pnpm") /\ [Next]_vars => Runs("pnpm")' /\ [Pnpm!Next]_Pnpm!vars
  BY DEF Next, Only, vars, pnpmVars, Runs, Pnpm!vars
<1>3. ~Runs("pnpm") /\ [Next]_vars => ~Runs("pnpm")'
  BY ToolStays DEF Runs
<1> QED
  BY <1>1, <1>2, <1>3, PTL DEF Spec, Pnpm!Spec

\* A behaviour is one of setup-dotnet-nuget, or setup-dotnet-nuget is never run in it.
LEMMA DotnetRuns == Spec => Dotnet!Spec \/ []~Runs("dotnet")
<1>1. Init /\ Runs("dotnet") => Dotnet!Init
  BY DEF Init, Runs
<1>2. Runs("dotnet") /\ [Next]_vars => Runs("dotnet")' /\ [Dotnet!Next]_Dotnet!vars
  BY DEF Next, Only, vars, dotnetVars, Runs, Dotnet!vars
<1>3. ~Runs("dotnet") /\ [Next]_vars => ~Runs("dotnet")'
  BY ToolStays DEF Runs
<1> QED
  BY <1>1, <1>2, <1>3, PTL DEF Spec, Dotnet!Spec

\* A behaviour is one of runner-baseline, or runner-baseline is never run in it.
LEMMA BaselineRuns == Spec => Baseline!Spec \/ []~Runs("baseline")
<1>1. Init /\ Runs("baseline") => Baseline!Init
  BY DEF Init, Runs
<1>2. Runs("baseline") /\ [Next]_vars => Runs("baseline")' /\ [Baseline!Next]_Baseline!vars
  BY DEF Next, Only, vars, baselineVars, Runs, Baseline!vars
<1>3. ~Runs("baseline") /\ [Next]_vars => ~Runs("baseline")'
  BY ToolStays DEF Runs
<1> QED
  BY <1>1, <1>2, <1>3, PTL DEF Spec, Baseline!Spec

\* A behaviour is one of package-source-v2, or package-source-v2 is never run in it.
LEMMA SourceRuns == Spec => Source!Spec \/ []~Runs("source")
<1>1. Init /\ Runs("source") => Source!Init
  BY DEF Init, Runs
<1>2. Runs("source") /\ [Next]_vars => Runs("source")' /\ [Source!Next]_Source!vars
  BY DEF Next, Only, vars, sourceVars, Runs, Source!vars
<1>3. ~Runs("source") /\ [Next]_vars => ~Runs("source")'
  BY ToolStays DEF Runs
<1> QED
  BY <1>1, <1>2, <1>3, PTL DEF Spec, Source!Spec

\* A behaviour is one of the emitters, or they are never run in it.
LEMMA EventsRuns == Spec => Events!Spec \/ []~Runs("events")
<1>1. Init /\ Runs("events") => Events!Init
  BY DEF Init, Runs
<1>2. Runs("events") /\ [Next]_vars => Runs("events")' /\ [Events!Next]_events
  BY DEF Next, Only, vars, eventsVars, Runs
<1>3. ~Runs("events") /\ [Next]_vars => ~Runs("events")'
  BY ToolStays DEF Runs
<1> QED
  BY <1>1, <1>2, <1>3, PTL DEF Spec, Events!Spec

\* A behaviour is one of the telemetry writer, or the telemetry writer is never run in it.
LEMMA WriterRuns == Spec => Writer!Spec \/ []~Runs("writer")
<1>1. Init /\ Runs("writer") => Writer!Init
  BY DEF Init, Runs
<1>2. Runs("writer") /\ [Next]_vars => Runs("writer")' /\ [Writer!Next]_Writer!vars
  BY DEF Next, Only, vars, writerVars, Runs, Writer!vars
<1>3. ~Runs("writer") /\ [Next]_vars => ~Runs("writer")'
  BY ToolStays DEF Runs
<1> QED
  BY <1>1, <1>2, <1>3, PTL DEF Spec, Writer!Spec

\* A behaviour is one of clean-stale-git-locks, or clean-stale-git-locks is never run in it.
LEMMA LocksRuns == Spec => Locks!Spec \/ []~Runs("locks")
<1>1. Init /\ Runs("locks") => Locks!Init
  BY DEF Init, Runs
<1>2. Runs("locks") /\ [Next]_vars => Runs("locks")' /\ [Locks!Next]_Locks!vars
  BY DEF Next, Only, vars, locksVars, Runs, Locks!vars
<1>3. ~Runs("locks") /\ [Next]_vars => ~Runs("locks")'
  BY ToolStays DEF Runs
<1> QED
  BY <1>1, <1>2, <1>3, PTL DEF Spec, Locks!Spec

\* A behaviour is one of the pre-push hook, or the pre-push hook is never run in it.
LEMMA GateRuns == Spec => Gate!Spec \/ []~Runs("gate")
<1>1. Init /\ Runs("gate") => Gate!Init
  BY DEF Init, Runs
<1>2. Runs("gate") /\ [Next]_vars => Runs("gate")' /\ [Gate!Next]_Gate!vars
  BY DEF Next, Only, vars, gateVars, Runs, Gate!vars
<1>3. ~Runs("gate") /\ [Next]_vars => ~Runs("gate")'
  BY ToolStays DEF Runs
<1> QED
  BY <1>1, <1>2, <1>3, PTL DEF Spec, Gate!Spec

\* A behaviour is one of the shared library, or the shared library is never run in it.
LEMMA RulesRuns == Spec => Rules!Spec \/ []~Runs("rules")
<1>1. Init /\ Runs("rules") => Rules!Init
  BY DEF Init, Runs
<1>2. Runs("rules") /\ [Next]_vars => Runs("rules")' /\ [Rules!Next]_Rules!vars
  BY DEF Next, Only, vars, rulesVars, Runs, Rules!vars
<1>3. ~Runs("rules") /\ [Next]_vars => ~Runs("rules")'
  BY ToolStays DEF Runs
<1> QED
  BY <1>1, <1>2, <1>3, PTL DEF Spec, Rules!Spec

\* Type correctness of every tool, the bounds of its model included.
THEOREM AlwaysTypeOK == Spec => []TypeOK
<1> DEFINE Typed == /\ Runs("scope") => Scope!TypeOK
                    /\ Runs("manifest") => Manifest!TypeOK
                    /\ Runs("wrangler") => Wrangler!TypeOK
                    /\ Runs("pnpm") => Pnpm!TypeOK
                    /\ Runs("dotnet") => Dotnet!TypeOK
                    /\ Runs("baseline") => Baseline!TypeOK
                    /\ Runs("source") => Source!TypeOK
                    /\ Runs("events") => Events!TypeOK
                    /\ Runs("writer") => Writer!TypeOK
                    /\ Runs("locks") => Locks!TypeOK
                    /\ Runs("gate") => Gate!TypeOK
                    /\ Runs("rules") => Rules!TypeOK
<1>1. Typed => TypeOK
  BY DEF TypeOK, Runs
<1> QED
  BY <1>1,
     ScopeRuns, ScopeTypeCorrect,
     ManifestRuns, ManifestTypeCorrect,
     WranglerRuns, WranglerTypeCorrect,
     PnpmRuns, PnpmTypeCorrect,
     DotnetRuns, DotnetTypeCorrect,
     BaselineRuns, BaselineTypeCorrect,
     SourceRuns, SourceTypeCorrect,
     EventsRuns, EventsTypeCorrect,
     WriterRuns, WriterTypeCorrect,
     LocksRuns, LocksTypeCorrect,
     GateRuns, GateTypeCorrect,
     RulesRuns, RulesTypeCorrect, PTL

\* Where git prints every path as it is and a moved file went where it is covered as
\* before: a change is validated in full, or everything it touches is (detectScope).
THEOREM AlwaysNeverSilentlyLess ==
    ASSUME MovesAreCovered
    PROVE  Spec => []NeverSilentlyLess
<1>1. ~Runs("scope") => NeverSilentlyLess
  BY DEF NeverSilentlyLess, Runs
<1>2. Scope!NeverSilentlyLess => NeverSilentlyLess
  BY DEF NeverSilentlyLess
<1> QED
  BY <1>1, <1>2, ScopeRuns, ScopeMissesNothing, PTL

\* Whatever files a release tree has and whenever they change: a published
\* manifest says of every file what is in the tree, each path once, and its hash is its
\* own (release-manifest).
THEOREM AlwaysPublishedDescribesTree == Spec => []PublishedDescribesTree
<1>1. ~Runs("manifest") => PublishedDescribesTree
  BY DEF PublishedDescribesTree, Runs
<1>2. Manifest!PublishedDescribesTree => PublishedDescribesTree
  BY DEF PublishedDescribesTree
<1> QED
  BY <1>1, <1>2, ManifestRuns, ManifestsDescribeTheTree, PTL

\* Whatever the directories and links of a runner: only the pinned pnpm runs, only
\* the pinned wrangler is handed out, and what is deleted is below RUNNER_TEMP and clear
\* of the workspace (wrangler-pinned).
THEOREM AlwaysPinnedAndConfined == Spec => []PinnedAndConfined
<1>1. ~Runs("wrangler") => PinnedAndConfined
  BY DEF PinnedAndConfined, Runs
<1>2. Wrangler!PinnedAndConfined => PinnedAndConfined
  BY DEF PinnedAndConfined
<1> QED
  BY <1>1, <1>2, WranglerRuns, WranglerIsPinnedAndConfined, PTL

\* For any number of attempts and of jobs on a runner: what setup-node-pnpm says
\* of a store and setup-dotnet-nuget of a restore is of this job and true.
THEOREM AlwaysEvidenceIsTrue == Spec => []EvidenceIsTrue
<1>1. /\ Runs("pnpm") => Pnpm!EvidenceIsTrue
      /\ Runs("dotnet") => Dotnet!EvidenceIsTrue
      => EvidenceIsTrue
  BY DEF EvidenceIsTrue, Runs
<1> QED
  BY <1>1, PnpmRuns, PnpmIsWholeAndColdIsEmpty, DotnetRuns, RestoreReportsAreTrue, PTL

\* Whatever a machine has and whatever is required of it: a runner that passes meets
\* every requirement, one that fails has its report (runner-baseline).
THEOREM AlwaysVerdictIsSound == Spec => []VerdictIsSound
<1>1. ~Runs("baseline") => VerdictIsSound
  BY DEF VerdictIsSound, Runs
<1>2. Baseline!VerdictIsSound => VerdictIsSound
  BY DEF VerdictIsSound
<1> QED
  BY <1>1, <1>2, BaselineRuns, BaselineVerdictsAreSound, PTL

\* For any catalog and selection: an id stands for one publication, whatever order
\* it was asked for in, and its record names all it hashes (createPackageSourceV2).
THEOREM AlwaysRecordIdIdentifies == Spec => []RecordIdIdentifies
<1>1. ~Runs("source") => RecordIdIdentifies
  BY DEF RecordIdIdentifies, Runs
<1>2. Source!RecordIdIdentifies => RecordIdIdentifies
  BY DEF RecordIdIdentifies
<1> QED
  BY <1>1, <1>2, SourceRuns, RecordsIdentifyPublications, PTL

\* For any jobs, phases and given traces: events built apart join exactly where they
\* belong together (emit-ci-phase and emit-cache-observation).
THEOREM AlwaysEventsJoin == Spec => []EventsJoin
<1>1. ~Runs("events") => EventsJoin
  BY DEF EventsJoin, Runs
<1>2. Events!EventsJoin => EventsJoin
  BY DEF EventsJoin
<1> QED
  BY <1>1, <1>2, EventsRuns, EventsFindEachOther, PTL

\* However many emitters write wherever: nobody reads a value cut short, and what is
\* reported to be in a file is in that file (lib/telemetry-fallback).
THEOREM AlwaysFilesAreWhereReported == Spec => []FilesAreWhereReported
<1>1. ~Runs("writer") => FilesAreWhereReported
  BY DEF FilesAreWhereReported, Runs
<1>2. Writer!WholeFiles /\ Writer!FilesAreWhereReported => FilesAreWhereReported
  BY DEF FilesAreWhereReported
<1> QED
  BY <1>1, <1>2, WriterRuns, TelemetryFilesAreWhole, TelemetryIsWhereReported, PTL

\* However git and both cleaners interleave: a lock file that is removed is the one
\* that was judged, or was written since (clean-stale-git-locks).
THEOREM AlwaysRemovesWhatItSaw == Spec => []RemovesWhatItSaw
<1>1. ~Runs("locks") => RemovesWhatItSaw
  BY DEF RemovesWhatItSaw, Runs
<1>2. Locks!RemovesWhatItSaw => RemovesWhatItSaw
  BY DEF RemovesWhatItSaw
<1> QED
  BY <1>1, <1>2, LocksRuns, RemovalsAreOfWhatWasSeen, PTL

\* Whatever the history and whoever else pushes: what a push adds to the remote was
\* scanned and tested (.githooks/pre-push).
THEOREM AlwaysPublishesWhatItJudged == Spec => []PublishesWhatItJudged
<1>1. ~Runs("gate") => PublishesWhatItJudged
  BY DEF PublishesWhatItJudged, Runs
<1>2. Gate!PublishesWhatItJudged => PublishesWhatItJudged
  BY DEF PublishesWhatItJudged
<1> QED
  BY <1>1, <1>2, GateRuns, PushesAreJudged, PTL

\* Whatever is given as metadata or as a path, and whatever the bounds: what is returned
\* carries no secret and is bounded, and a path stays where it belongs (lib/contract).
THEOREM AlwaysBoundedInputs == Spec => []BoundedInputs
<1>1. ~Runs("rules") => BoundedInputs
  BY DEF BoundedInputs, Runs
<1>2. Rules!MetadataIsClean /\ Rules!PathsStayInside => BoundedInputs
  BY DEF BoundedInputs
<1> QED
  BY <1>1, <1>2, RulesRuns, ReturnedMetadataIsClean, ResolvedPathsStayInside, PTL
=============================================================================
