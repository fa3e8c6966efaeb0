-------------------------- MODULE TransportProofs --------------------------
(***************************************************************************)
(* Proofs about Transport for every cap and every set of chunk sizes, and  *)
(* about Prequeue, which runs over it, for every registry and every input. *)
(*                                                                         *)
(* The properties speak of a settled request; the invariant adds what must *)
(* hold before, so that every way of settling leaves things as they say.   *)
(***************************************************************************)
EXTENDS Prequeue, TLAPS

\* While fetch is outstanding nothing has been opened and the timer tells
\* whether the signal is aborted.
Fetching ==
    phase = "fetching" =>
        /\ timer = IF aborted THEN "fired" ELSE "armed"
        /\ listeners = 0 /\ ~locked /\ ~pending /\ ~opened /\ cancels = 0
        /\ size = 0 /\ kept = 0 /\ delivered = 0

\* While the body is read exactly one read and one listener are outstanding,
\* under an armed timer, and the three byte counts agree.
Reading ==
    phase = "reading" =>
        /\ timer = "armed" /\ ~aborted
        /\ pending /\ listeners = 1 /\ locked /\ opened /\ cancels = 0
        /\ size = kept /\ kept = delivered

Outcome == result = "none" <=> phase # "settled"

IInv ==
    /\ TypeOK /\ Fetching /\ Reading /\ Outcome
    /\ KeptWithinCap /\ SuccessIsWhole /\ SettledIsClean

LEMMA InitIInv == Init => IInv
<1> SUFFICES ASSUME Init PROVE IInv
  OBVIOUS
<1>1. TypeOK
  <2>1. aborted \in BOOLEAN /\ pending \in BOOLEAN /\ locked \in BOOLEAN
    BY Zenon DEF Init
  <2>2. opened \in BOOLEAN /\ ended \in BOOLEAN
    BY Zenon DEF Init
  <2>3. /\ size \in Nat /\ kept \in Nat /\ delivered \in Nat
        /\ listeners \in 0..1 /\ cancels \in 0..1
    BY DEF Init
  <2> QED
    BY <2>1, <2>2, <2>3 DEF Init, TypeOK, Result
<1>2. Fetching /\ Reading /\ Outcome
  BY DEF Init, Fetching, Reading, Outcome
<1>3. KeptWithinCap
  BY SizeAssumption DEF Init, KeptWithinCap
<1>4. SuccessIsWhole /\ SettledIsClean
  BY DEF Init, SuccessIsWhole, SettledIsClean
<1> QED
  BY <1>1, <1>2, <1>3, <1>4 DEF IInv

\* Every event of the request preserves the invariant.
LEMMA StepIInv == IInv /\ [Next]_vars => IInv'
<1> SUFFICES ASSUME IInv, [Next]_vars PROVE IInv'
  OBVIOUS
<1> USE SizeAssumption
    DEF IInv, TypeOK, Fetching, Reading, Outcome, KeptWithinCap, SuccessIsWhole,
        SettledIsClean, Result, Failure, Settle, SettleUncancelled, FailReading
<1>1. CASE FetchNoBody
  BY <1>1 DEF FetchNoBody
<1>2. CASE FetchBody
  <2>1. locked' \in BOOLEAN /\ opened' \in BOOLEAN /\ pending' \in BOOLEAN
    BY <1>2, Zenon DEF FetchBody
  <2>2. CASE aborted
    BY <1>2, <2>1, <2>2 DEF FetchBody
  <2>3. CASE ~aborted
    BY <1>2, <2>1, <2>3 DEF FetchBody
  <2> QED
    BY <2>2, <2>3
<1>3. CASE FetchRejects
  BY <1>3 DEF FetchRejects
<1>4. ASSUME NEW n \in ChunkSize, ReadChunk(n) PROVE IInv'
  <2>1. n \in Nat /\ size \in Nat /\ kept \in Nat /\ delivered \in Nat
    OBVIOUS
  <2>2. kept' = kept + n /\ size' = size + n /\ delivered' = delivered + n
    BY <1>4 DEF ReadChunk
  <2> QED
    BY <1>4, <2>1, <2>2 DEF ReadChunk
<1>5. ASSUME NEW n \in ChunkSize, ReadTooMuch(n) PROVE IInv'
  <2>1. /\ timer = "armed" /\ ~aborted /\ listeners = 1 /\ cancels = 0
        /\ phase = "reading" /\ opened
    BY <1>5 DEF ReadTooMuch
  <2>2. locked' \in BOOLEAN /\ pending' \in BOOLEAN
    BY <1>5, Zenon DEF ReadTooMuch
  <2>3. listeners' = 0 /\ timer' = "cleared" /\ phase' = "settled"
    BY <1>5, <2>1 DEF ReadTooMuch
  <2> QED
    BY <1>5, <2>1, <2>2, <2>3 DEF ReadTooMuch
<1>6. CASE ReadEnd
  <2>1. /\ timer = "armed" /\ ~aborted /\ listeners = 1 /\ cancels = 0
        /\ phase = "reading" /\ opened
    BY <1>6 DEF ReadEnd
  <2>2. locked' \in BOOLEAN /\ pending' \in BOOLEAN /\ ended' \in BOOLEAN
    BY <1>6, Zenon DEF ReadEnd
  <2>3. listeners' = 0 /\ timer' = "cleared" /\ phase' = "settled"
    BY <1>6, <2>1 DEF ReadEnd
  <2> QED
    BY <1>6, <2>1, <2>2, <2>3 DEF ReadEnd
<1>7. CASE ReadError
  <2>1. /\ timer = "armed" /\ ~aborted /\ listeners = 1 /\ cancels = 0
        /\ phase = "reading" /\ opened
    BY <1>7 DEF ReadError
  <2>2. locked' \in BOOLEAN /\ pending' \in BOOLEAN
    BY <1>7, Zenon DEF ReadError
  <2>3. listeners' = 0 /\ timer' = "cleared" /\ phase' = "settled"
    BY <1>7, <2>1 DEF ReadError
  <2> QED
    BY <1>7, <2>1, <2>2, <2>3 DEF ReadError
<1>8. CASE LateRead
  BY <1>8 DEF LateRead
<1>9. CASE TimerFires
  <2>1. CASE phase = "fetching"
    <3>1. aborted' \in BOOLEAN
      BY <1>9, Zenon DEF TimerFires
    <3> QED
      BY <1>9, <2>1, <3>1 DEF TimerFires
  <2>2. CASE phase = "reading"
    <3>1. listeners = 1 /\ cancels = 0 /\ opened
      BY <2>2
    <3>2. aborted' \in BOOLEAN /\ locked' \in BOOLEAN
      BY <1>9, <2>2, Zenon DEF TimerFires
    <3>3. listeners' = 0 /\ cancels' = 1 /\ phase' = "settled" /\ result' = "timedOut"
      BY <1>9, <2>2, <3>1 DEF TimerFires
    <3> QED
      BY <1>9, <2>2, <3>1, <3>2, <3>3 DEF TimerFires
  <2> QED
    BY <1>9, <2>1, <2>2 DEF TimerFires
<1>10. CASE UNCHANGED vars
  BY <1>10 DEF vars
<1> QED
  BY <1>1, <1>2, <1>3, <1>4, <1>5, <1>6, <1>7, <1>8, <1>9, <1>10 DEF Next

\* The invariant holds of every execution.
THEOREM Invariance == Spec => []IInv
  BY InitIInv, StepIInv, PTL DEF Spec

\* requestJson's state stays in range: never more than one abort listener, and
\* the body is cancelled at most once.
THEOREM TypeCorrect == Spec => []TypeOK
<1>1. IInv => TypeOK
  BY DEF IInv
<1> QED
  BY <1>1, Invariance, PTL

\* The cumulative cap of readBoundedJson bounds what it holds.
THEOREM CapHolds == Spec => []KeptWithinCap
<1>1. IInv => KeptWithinCap
  BY DEF IInv
<1> QED
  BY <1>1, Invariance, PTL

\* requestJson returns a body only when it is the whole one, in time.
THEOREM WholeBodies == Spec => []SuccessIsWhole
<1>1. IInv => SuccessIsWhole
  BY DEF IInv
<1> QED
  BY <1>1, Invariance, PTL

\* Every path out of requestJson clears the timer, removes the listener, releases
\* the lock and cancels a body it did not finish.
THEOREM CleanSettlement == Spec => []SettledIsClean
<1>1. IInv => SettledIsClean
  BY DEF IInv
<1> QED
  BY <1>1, Invariance, PTL

\* No late event changes the outcome of a settled request.
THEOREM FinalOutcome == Spec => OutcomeIsFinal
<1>1. IInv /\ [Next]_vars
        => [phase = "settled" => UNCHANGED <<phase, result, kept, cancels>>]_vars
  <2> SUFFICES ASSUME IInv, Next, phase = "settled"
               PROVE  UNCHANGED <<phase, result, kept, cancels>>
    OBVIOUS
  <2>1. timer # "armed"
    BY DEF IInv, SettledIsClean
  <2>2. LateRead
    BY <2>1 DEF Next, FetchNoBody, FetchBody, FetchRejects, ReadChunk, ReadTooMuch,
                ReadEnd, ReadError, TimerFires
  <2> QED
    BY <2>2 DEF LateRead
<1> QED
  BY <1>1, Invariance, PTL DEF Spec, OutcomeIsFinal

-----------------------------------------------------------------------------
(* A prequeue step is a request, with what comes before and after it. *)

\* prequeueDefer and prequeueStatus do to the request only what requestJson does.
THEOREM PrequeueImplementsTransport == PrequeueSpec => Spec
<1>1. PrequeueInit => Init
  BY DEF PrequeueInit
<1>2. [PrequeueNext]_all => [Next]_vars
  BY DEF PrequeueNext, Ask, Exchange, RequestFails, Receive, Write, all
<1> QED
  BY <1>1, <1>2, PTL DEF PrequeueSpec, Spec

\* A payload of a valid defer is one the Worker may dispatch unattended.
LEMMA ValidIsBound ==
    ASSUME NEW in, in = [f \in InputField |-> in[f]], ValidDefer(in)
    PROVE  Bound(Payload(in))
<1> DEFINE p == Payload(in)
<1>1. /\ p.priority = Priority(in) /\ p.weight = Weight(in) /\ p.lane = Lane(in)
      /\ \A f \in InputField \ {"priority", "weight", "lane"} : p[f] = in[f]
  BY Zenon DEF Payload, InputField
<1>2. /\ p.event = in.event /\ p.repository = in.repository /\ p.path = in.path
      /\ p.producer = in.producer /\ p.commit = in.commit /\ p.digest = in.digest
      /\ p.content = in.content /\ p.versions = in.versions /\ p.packages = in.packages
      /\ p.recordPath = in.recordPath /\ p.recordCommit = in.recordCommit
      /\ p.recordBlob = in.recordBlob /\ p.recordDigest = in.recordDigest
      /\ p.recordRun = in.recordRun
  BY <1>1 DEF InputField
<1> HIDE DEF p
<1>3. CASE in.event \in DOMAIN Workload
  <2> DEFINE w == Workload[in.event]
  <2>1. in.event \notin DOMAIN Legacy
    BY <1>3, InputAssumption
  <2>2. /\ in.repository = w.repository
        /\ Priority(in) = w.priority /\ Weight(in) = w.weight /\ Lane(in) = w.lane
    BY <1>3 DEF ValidDefer, Registered, AsRegistered
  <2>3. ASSUME w.package
        PROVE  /\ BindsPath(in.path, in.producer, in.commit)
               /\ in.digest = in.content
               /\ {in.packages[i] : i \in DOMAIN in.packages} = in.versions
               /\ ValidRecord(in)
    BY <1>3, <2>3 DEF ValidDefer, ValidPayload, ValidPackage, Registered
  <2>4. ASSUME w.package, in.recordPath # Unset
        PROVE  /\ BindsPath(in.recordPath, in.producer, in.recordCommit)
               /\ Unset \notin {in.recordCommit, in.recordBlob, in.recordDigest, in.recordRun}
    <3>1. /\ RecordInputs(in)[1] = in.recordCommit /\ RecordInputs(in)[2] = in.recordPath
          /\ RecordInputs(in)[3] = in.recordBlob /\ RecordInputs(in)[4] = in.recordDigest
          /\ RecordInputs(in)[5] = in.recordRun
      BY DEF RecordInputs
    <3>2. RecordInputs(in)[2] # Unset /\ 2 \in 1..5
      BY <2>4, <3>1
    <3>3. /\ \A i \in 1..5 : RecordInputs(in)[i] \notin {Unset, Malformed}
          /\ BindsPath(in.recordPath, in.producer, in.recordCommit)
      BY <2>3, <2>4, <3>2 DEF ValidRecord
    <3> QED
      BY <3>1, <3>3
  <2>5. ASSUME w.package
        PROVE  /\ ".." \notin {p.path.names[i] : i \in DOMAIN p.path.names}
               /\ <<p.path.producer, p.path.ref>> = <<p.producer, p.commit>>
               /\ p.digest = p.content
               /\ \A name \in p.versions : \E i \in DOMAIN p.packages : p.packages[i] = name
    <3>1. \A i \in DOMAIN in.path.names : in.path.names[i] # ".."
      BY <2>3, <2>5 DEF BindsPath
    <3>2. in.path.producer = in.producer /\ in.path.ref = in.commit /\ in.digest = in.content
      BY <2>3, <2>5 DEF BindsPath
    <3>3. \A name \in in.versions : \E i \in DOMAIN in.packages : in.packages[i] = name
      BY <2>3, <2>5
    <3> QED
      BY <1>2, <3>1, <3>2, <3>3
  <2>6. ASSUME w.package, p.recordPath # Unset
        PROVE  /\ ".." \notin {p.recordPath.names[i] : i \in DOMAIN p.recordPath.names}
               /\ <<p.recordPath.producer, p.recordPath.ref>> = <<p.producer, p.recordCommit>>
               /\ Unset \notin {p.recordCommit, p.recordBlob, p.recordDigest, p.recordRun}
    <3>1. /\ \A i \in DOMAIN in.recordPath.names : in.recordPath.names[i] # ".."
          /\ in.recordPath.producer = in.producer /\ in.recordPath.ref = in.recordCommit
      BY <1>2, <2>4, <2>6 DEF BindsPath
    <3> QED
      BY <1>2, <2>4, <2>6, <3>1
  <2> HIDE DEF w
  <2> QED
    BY <1>1, <1>2, <2>1, <2>2, <2>5, <2>6 DEF Bound, w, p
<1>4. CASE in.event \notin DOMAIN Workload
  <2>1. Priority(in) \in 1..79 /\ Weight(in) \in 1..4
    BY <1>4 DEF ValidDefer, InRange, Priority, Weight, Default, Registered
  <2> QED
    BY <1>1, <1>2, <1>4, <2>1 DEF Bound, p
<1> QED
  BY <1>3, <1>4

-----------------------------------------------------------------------------
(* What a step has put down so far. *)

\* The inputs are a record; the values of an answer are those of Answer.
OutputValue == Id \cup {Unset, Malformed, "queued", "two-lines", "reused"}

\* What was sent stands for valid inputs.
Requested ==
    step \in {"asking", "writing", "ended"} \/ outputs # <<>> =>
        Valid(asked) /\ request = <<Payload(asked)>>

\* What was accepted came in time, whole, and is about the dispatch asked for.
Answered ==
    step = "writing" \/ outputs # <<>> =>
        /\ result = "ok"
        /\ reply \in Seq(OutputValue) /\ Len(reply) = 3
        /\ reply[1] \in Id
        /\ asked.operation = "status" => reply[1] = asked.id

\* What is written comes from the answer, from its first value on.
Written ==
    /\ outputs \in Seq(OutputValue)
    /\ step \in {"start", "asking"} => outputs = <<>>
    /\ step = "writing" => Len(outputs) < 3
    /\ outputs # <<>> => outputs[1] = reply[1]

PrequeueIInv ==
    /\ IInv
    /\ asked = [f \in InputField |-> asked[f]]
    /\ Requested /\ Answered /\ Written

LEMMA PrequeueInitInv == PrequeueInit => PrequeueIInv
<1> SUFFICES ASSUME PrequeueInit PROVE PrequeueIInv
  OBVIOUS
<1>1. IInv
  BY InitIInv DEF PrequeueInit
<1>2. asked = [f \in InputField |-> asked[f]]
  <2>1. PICK in \in WellFormed, f \in DOMAIN Alternative, g \in DOMAIN Alternative :
           \E a \in Alternative[f], b \in Alternative[g] : asked = [in EXCEPT ![f] = a, ![g] = b]
    BY DEF PrequeueInit
  <2>2. in = [h \in InputField |-> in[h]] /\ f \in InputField /\ g \in InputField
    BY InputAssumption
  <2>3. PICK a, b : asked = [in EXCEPT ![f] = a, ![g] = b]
    BY <2>1
  <2> QED
    BY <2>2, <2>3
<1>3. Requested /\ Answered /\ Written
  BY DEF PrequeueInit, Requested, Answered, Written
<1> QED
  BY <1>1, <1>2, <1>3 DEF PrequeueIInv

\* Every step keeps what was sent, accepted and written together.
LEMMA PrequeueStepInv == PrequeueIInv /\ [PrequeueNext]_all => PrequeueIInv'
<1> SUFFICES ASSUME PrequeueIInv, [PrequeueNext]_all PROVE PrequeueIInv'
  OBVIOUS
<1>0. IInv /\ asked = [f \in InputField |-> asked[f]] /\ Requested /\ Answered /\ Written
  BY DEF PrequeueIInv
<1>1. IInv'
  BY <1>0, StepIInv DEF PrequeueNext, Ask, Exchange, RequestFails, Receive, Write, all
<1>2. asked' = asked
  BY DEF PrequeueNext, Ask, Exchange, RequestFails, Receive, Write, all, own
<1> SUFFICES Requested' /\ Answered' /\ Written'
  BY <1>0, <1>1, <1>2 DEF PrequeueIInv
<1>3. CASE Ask
  <2>1. result' = result /\ reply' = reply /\ outputs' = outputs /\ outputs = <<>>
    BY <1>0, <1>3 DEF Ask, vars, Written
  <2>2. step' \in {"asking", "failed"}
    BY <1>3 DEF Ask
  <2>3. step' = "asking" => Valid(asked) /\ request' = <<Payload(asked)>>
    BY <1>3 DEF Ask
  <2> QED
    BY <1>2, <2>1, <2>2, <2>3 DEF Requested, Answered, Written
<1>4. CASE Exchange
  <2>1. result = "ok" => result' = "ok"
    <3>1. result = "ok" => phase = "settled" /\ timer # "armed"
      BY <1>0 DEF IInv, Outcome, TypeOK, SettledIsClean
    <3>2. result = "ok" /\ Next => LateRead
      BY <3>1 DEF Next, FetchNoBody, FetchBody, FetchRejects, ReadChunk, ReadTooMuch,
                  ReadEnd, ReadError, TimerFires
    <3> QED
      BY <1>4, <3>2 DEF Exchange, LateRead
  <2>2. UNCHANGED own
    BY <1>4 DEF Exchange
  <2> QED
    BY <1>0, <2>1, <2>2 DEF own, Requested, Answered, Written
<1>5. CASE RequestFails
  BY <1>0, <1>5 DEF RequestFails, vars, Requested, Answered, Written
<1>6. CASE Receive
  <2>1. PICK answer \in Answer :
           IF Accepts(answer)
           THEN step' = "writing" /\ reply' = <<answer.id, answer.status, "reused">>
           ELSE step' = "failed" /\ UNCHANGED reply
    BY <1>6 DEF Receive
  <2>2. /\ step = "asking" /\ result = "ok" /\ result' = "ok"
        /\ request' = request /\ outputs' = outputs /\ outputs = <<>>
    BY <1>0, <1>6 DEF Receive, vars, Written
  <2>3. Requested' /\ Written'
    BY <1>0, <1>2, <2>1, <2>2 DEF Requested, Written
  <2>4. CASE ~Accepts(answer)
    BY <2>1, <2>2, <2>3, <2>4 DEF Answered
  <2>5. CASE Accepts(answer)
    <3>1. /\ answer.id \in Id
          /\ asked.operation = "status" => answer.id = asked.id
      <4>1. asked.operation = "status" => asked.id \in Id
        BY <1>0, <2>2 DEF Requested, Valid
      <4> QED
        BY <2>5, <4>1 DEF Accepts
    <3>2. answer.id \in OutputValue /\ answer.status \in OutputValue /\ "reused" \in OutputValue
      BY DEF Answer, OutputValue
    <3>3. reply' = <<answer.id, answer.status, "reused">>
      BY <2>1, <2>5
    <3>4. reply' \in Seq(OutputValue) /\ Len(reply') = 3 /\ reply'[1] = answer.id
      BY <3>2, <3>3
    <3>5. Answered'
      BY <1>0, <1>2, <2>2, <3>1, <3>4 DEF Answered
    <3> QED
      BY <2>3, <3>5
  <2> QED
    BY <2>4, <2>5
<1>7. CASE Write
  <2> DEFINE value == reply[Len(outputs) + 1]
  <2>1. /\ step = "writing"
        /\ result' = result /\ asked' = asked /\ request' = request /\ reply' = reply
    BY <1>7 DEF Write, vars
  <2>2. IF value = "two-lines"
        THEN step' = "failed" /\ UNCHANGED outputs
        ELSE /\ outputs' = Append(outputs, value)
             /\ step' = IF Len(outputs') = Len(reply) THEN "ended" ELSE "writing"
    BY <1>7 DEF Write
  <2> HIDE DEF value
  <2>3. /\ result = "ok"
        /\ reply \in Seq(OutputValue) /\ Len(reply) = 3 /\ reply[1] \in Id
        /\ outputs \in Seq(OutputValue) /\ Len(outputs) \in 0..2
    <3>1. result = "ok" /\ reply \in Seq(OutputValue) /\ Len(reply) = 3 /\ reply[1] \in Id
      BY <1>0, <2>1 DEF Answered
    <3>2. outputs \in Seq(OutputValue) /\ Len(outputs) < 3
      BY <1>0, <2>1 DEF Written
    <3>3. Len(outputs) \in Nat
      BY <3>2
    <3>4. Len(outputs) \in 0..2
      <4> DEFINE n == Len(outputs)
      <4>1. n \in Nat /\ n < 3
        BY <3>2, <3>3
      <4> HIDE DEF n
      <4>2. n \in 0..2
        BY <4>1
      <4> QED
        BY <4>2 DEF n
    <3> QED
      BY <3>1, <3>2, <3>4
  <2>4. value \in OutputValue /\ (outputs = <<>> => value = reply[1])
    <3> DEFINE n == Len(outputs) + 1
    <3>1. n \in 1..3
      <4> DEFINE k == Len(outputs)
      <4>1. k \in 0..2
        BY <2>3
      <4> HIDE DEF k
      <4>2. k + 1 \in 1..3
        BY <4>1
      <4> QED
        BY <4>2 DEF k
    <3> HIDE DEF n
    <3>2. reply[n] \in OutputValue
      BY <2>3, <3>1
    <3>3. outputs = <<>> => value = reply[1]
      BY DEF value
    <3> QED
      BY <3>2, <3>3 DEF value, n
  <2>5. Requested' /\ Answered'
    BY <1>0, <2>1, <2>3 DEF Requested, Answered
  <2>6. CASE value = "two-lines"
    BY <1>0, <2>1, <2>2, <2>5, <2>6 DEF Written
  <2>7. CASE value # "two-lines"
    <3>1. /\ outputs' \in Seq(OutputValue) /\ Len(outputs') = Len(outputs) + 1
          /\ outputs'[1] = IF outputs = <<>> THEN value ELSE outputs[1]
      BY <2>2, <2>3, <2>4, <2>7
    <3>2. outputs'[1] = reply[1]
      BY <1>0, <2>4, <3>1 DEF Written
    <3>3. step' \in {"ended", "writing"} /\ (step' = "writing" => Len(outputs') < 3)
      BY <2>2, <2>3, <2>7, <3>1
    <3> QED
      BY <2>1, <2>5, <3>1, <3>2, <3>3 DEF Written
  <2> QED
    BY <2>6, <2>7
<1>8. CASE UNCHANGED all
  BY <1>0, <1>8 DEF all, own, vars, Requested, Answered, Written
<1> QED
  BY <1>3, <1>4, <1>5, <1>6, <1>7, <1>8 DEF PrequeueNext

\* Every dispatch id a step writes, one that fails in the middle included, is the
\* Worker's whole and timely answer to a bound payload, or about the dispatch asked for.
THEOREM PrequeueIsFailClosed == PrequeueSpec => []PrequeueFailsClosed
<1>1. PrequeueIInv => PrequeueFailsClosed
  <2> SUFFICES ASSUME PrequeueIInv, outputs # <<>>
               PROVE  /\ result = "ok" /\ ended /\ kept = delivered
                      /\ outputs[1] \in Id
                      /\ IF asked.operation = "status"
                         THEN outputs[1] = asked.id ELSE Bound(request[1])
    BY DEF PrequeueFailsClosed
  <2>1. result = "ok" /\ outputs[1] \in Id /\ (asked.operation = "status" => outputs[1] = asked.id)
    BY DEF PrequeueIInv, Answered, Written
  <2>2. ended /\ kept = delivered
    BY <2>1 DEF PrequeueIInv, IInv, SuccessIsWhole
  <2>3. asked.operation # "status" => Bound(request[1])
    BY ValidIsBound DEF PrequeueIInv, Requested, Valid
  <2> QED
    BY <2>1, <2>2, <2>3
<1> QED
  BY <1>1, PrequeueInitInv, PrequeueStepInv, PTL DEF PrequeueSpec

=============================================================================
