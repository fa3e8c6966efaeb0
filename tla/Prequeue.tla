------------------------------- MODULE Prequeue -------------------------------
(***************************************************************************)
(* The prequeue operations of ci-admission: prequeueDefer and              *)
(* prequeueStatus, from their inputs over one bounded request (Transport)  *)
(* to their outputs.                                                       *)
(*                                                                         *)
(* `asked` is a record of what the checks tell apart: a well formed input  *)
(* with at most two fields changed.  A digest, a dispatch id or a name is  *)
(* well formed or Malformed; an API path is [producer, names, ref], the    *)
(* names below the producer's contents.  The Worker's answers are external.*)
(* A definition marked "Defect" is no part of the system.                  *)
(***************************************************************************)
EXTENDS Transport, Integers, Sequences, FiniteSets

CONSTANTS
    Workload,       \* DEFERRED_WORKLOADS: event type |-> [repository, package, priority, weight, lane]
    Legacy,         \* LEGACY_PREQUEUE_EVENT_TYPES: event type |-> the input its payload is
    Id,             \* dispatch ids, UUIDs
    Unset, Malformed,
    WellFormed,     \* well formed inputs
    Alternative     \* field |-> other values a caller may give it

InputField ==
    {"operation", "id", "event", "repository", "priority", "weight", "lane", "deadline",
     "repositories", "scope", "producer", "commit", "path", "digest", "content", "packages",
     "versions", "recordCommit", "recordPath", "recordBlob", "recordDigest", "recordRun"}

\* An event is registered or legacy; every step has all the inputs, given or not.
ASSUME InputAssumption ==
    /\ DOMAIN Workload \cap DOMAIN Legacy = {}
    /\ \A in \in WellFormed : in = [f \in InputField |-> in[f]]
    /\ DOMAIN Alternative \subseteq InputField

VARIABLES
    asked,          \* the inputs of the step
    step,           \* "start", "asking", "writing", "ended" or "failed"
    request,        \* history: the payload that was sent, or Nothing
    reply,          \* the answer that was accepted, or Nothing
    outputs         \* the values written to GITHUB_OUTPUT so far

own == <<asked, step, request, reply, outputs>>
all == <<vars, own>>

Nothing == <<>>

-----------------------------------------------------------------------------
(* prequeueInput *)

Registered(in) == in.event \in DOMAIN Workload

Default(given, value) == IF given = Unset THEN value ELSE given

Priority(in) == Default(in.priority, IF Registered(in) THEN Workload[in.event].priority ELSE 10)
Weight(in) == Default(in.weight, IF Registered(in) THEN Workload[in.event].weight ELSE 1)
Lane(in) == Default(in.lane, IF Registered(in) THEN Workload[in.event].lane ELSE "Background")

\* boundedInteger and deadlineAt look at a value that is given only.
InRange(given, low, high) == given = Unset \/ given \in low..high

\* What priority, weight and lane the registry fixes.
AsRegistered(in) ==
    [priority |-> Priority(in), weight |-> Weight(in), lane |-> Lane(in)]
        = [priority |-> Workload[in.event].priority, weight |-> Workload[in.event].weight,
           lane |-> Workload[in.event].lane]

\* Defect: only where the path begins is looked at.
PathOfProducer(path, producer, commit) == path.producer = producer /\ path.ref = commit

\* source-api-path and record-api-path: below the producer, at the exact commit.
BindsPath(path, producer, commit) ==
    /\ path.producer = producer /\ path.ref = commit
    /\ path.names # <<>>
    /\ \A i \in DOMAIN path.names : path.names[i] \notin {"", ".", ".."}

\* The native record's inputs are supplied together or not at all.
RecordInputs(in) ==
    <<in.recordCommit, in.recordPath, in.recordBlob, in.recordDigest, in.recordRun>>

ValidRecord(in) ==
    \/ \A i \in 1..5 : RecordInputs(in)[i] = Unset
    \/ /\ \A i \in 1..5 : RecordInputs(in)[i] \notin {Unset, Malformed}
       /\ BindsPath(in.recordPath, in.producer, in.recordCommit)
       /\ in.recordRun >= 1

ValidPackage(in) ==
    /\ {in.producer, in.commit, in.digest, in.content} \cap {Unset, Malformed} = {}
    /\ BindsPath(in.path, in.producer, in.commit)
    /\ in.digest = in.content
    /\ Len(in.packages) \in 1..64
    /\ {in.packages[i] : i \in DOMAIN in.packages} = in.versions
    /\ Cardinality(in.versions) = Len(in.packages)
    /\ ValidRecord(in)

ValidPayload(in) ==
    IF Registered(in) /\ Workload[in.event].package THEN ValidPackage(in)
    ELSE IF ~Registered(in) /\ Legacy[in.event] = "repositories" THEN in.repositories \in 1..50
    ELSE /\ in.commit \notin {Unset, Malformed}
         /\ \/ in.scope = "nightly"
            \/ in.scope = "full" /\ ~Registered(in) /\ Legacy[in.event] = "mode"

ValidDefer(in) ==
    /\ in.event \in DOMAIN Workload \cup DOMAIN Legacy
    /\ Registered(in) => in.repository = Workload[in.event].repository /\ AsRegistered(in)
    /\ ValidPayload(in)
    /\ InRange(in.priority, 1, 79) /\ InRange(in.weight, 1, 4) /\ InRange(in.deadline, 1, 24)

\* The payload: the inputs with their defaults; what the event has no use for is left out.
Payload(in) ==
    [in EXCEPT !.priority = Priority(in), !.weight = Weight(in), !.lane = Lane(in)]

Valid(in) == IF in.operation = "status" THEN in.id \in Id ELSE ValidDefer(in)

-----------------------------------------------------------------------------
PrequeueInit ==
    /\ Init
    /\ \E in \in WellFormed, f, g \in DOMAIN Alternative :
          \E a \in Alternative[f], b \in Alternative[g] : asked = [in EXCEPT ![f] = a, ![g] = b]
    /\ step = "start" /\ request = Nothing /\ reply = Nothing /\ outputs = <<>>

\* A valid input is sent; any other ends the step before a request is made.
Ask ==
    /\ step = "start"
    /\ IF Valid(asked)
       THEN step' = "asking" /\ request' = <<Payload(asked)>>
       ELSE step' = "failed" /\ UNCHANGED request
    /\ UNCHANGED <<vars, asked, reply, outputs>>

\* An event of the request; the last read may settle after the step has ended.
Exchange == step # "start" /\ Next /\ UNCHANGED own

\* requestJson threw.
RequestFails ==
    /\ step = "asking" /\ phase = "settled" /\ result # "ok"
    /\ step' = "failed"
    /\ UNCHANGED <<vars, asked, request, reply, outputs>>

\* Defect: an answer about another dispatch passes.
AcceptsStatus(answer) ==
    IF asked.operation = "status"
    THEN answer.code \in 200..299 /\ answer.status # Unset
    ELSE answer.code \in {200, 202} /\ answer.id \in Id /\ answer.status # Unset

\* A defer is answered with a dispatch, a status with the dispatch asked for.
Accepts(answer) ==
    IF asked.operation = "status"
    THEN answer.code \in 200..299 /\ answer.id = asked.id /\ answer.status # Unset
    ELSE answer.code \in {200, 202} /\ answer.id \in Id /\ answer.status # Unset

Answer == [code : {200, 202, 204, 429}, id : Id \cup {Unset, Malformed},
           status : {"queued", "two-lines", Unset}]

Receive ==
    /\ step = "asking" /\ result = "ok"
    /\ \E answer \in Answer :
          IF Accepts(answer)
          THEN step' = "writing" /\ reply' = <<answer.id, answer.status, "reused">>
          ELSE step' = "failed" /\ UNCHANGED reply
    /\ UNCHANGED <<vars, asked, request, outputs>>

\* emitPrequeueOutputs appends one output at a time, and throws at a value of two
\* lines: what was written before it stays.
Write ==
    /\ step = "writing"
    /\ LET value == reply[Len(outputs) + 1]
       IN  IF value = "two-lines"
           THEN step' = "failed" /\ UNCHANGED outputs
           ELSE /\ outputs' = Append(outputs, value)
                /\ step' = IF Len(outputs') = Len(reply) THEN "ended" ELSE "writing"
    /\ UNCHANGED <<vars, asked, request, reply>>

PrequeueNext == Ask \/ Exchange \/ RequestFails \/ Receive \/ Write

PrequeueSpec == PrequeueInit /\ [][PrequeueNext]_all

\* The step's own code runs on; the timer fires unless it is cleared, and fetch reacts
\* to an aborted signal.  Nothing is assumed of the peer.
FairPrequeueSpec ==
    /\ PrequeueSpec
    /\ WF_all(Ask \/ RequestFails \/ Receive \/ Write)
    /\ WF_all(step # "start" /\ TimerFires /\ UNCHANGED own)
    /\ WF_all(step # "start" /\ aborted /\ (FetchRejects \/ FetchBody \/ FetchNoBody) /\ UNCHANGED own)

-----------------------------------------------------------------------------
\* A payload the Worker may dispatch unattended: what the registry fixes is fixed, and
\* everything it names lies in the producer's repository at the commit it names.
Bound(p) ==
    /\ p.event \in DOMAIN Workload =>
          /\ p.repository = Workload[p.event].repository
          /\ p.priority = Workload[p.event].priority
          /\ p.weight = Workload[p.event].weight
          /\ p.lane = Workload[p.event].lane
          /\ Workload[p.event].package =>
                /\ ".." \notin {p.path.names[i] : i \in DOMAIN p.path.names}
                /\ <<p.path.producer, p.path.ref>> = <<p.producer, p.commit>>
                /\ p.digest = p.content
                /\ \A name \in p.versions : \E i \in DOMAIN p.packages : p.packages[i] = name
                /\ p.recordPath # Unset =>
                      /\ ".." \notin {p.recordPath.names[i] : i \in DOMAIN p.recordPath.names}
                      /\ <<p.recordPath.producer, p.recordPath.ref>> = <<p.producer, p.recordCommit>>
                      /\ Unset \notin {p.recordCommit, p.recordBlob, p.recordDigest, p.recordRun}
    /\ p.event \in DOMAIN Legacy => p.priority \in 1..79 /\ p.weight \in 1..4

\* A dispatch id that a step wrote comes from a whole answer, received in time, to the
\* request it stands for: a bound payload, or the dispatch that was asked for.  No
\* step, failed ones included, leaves an id that stands for anything else.
PrequeueFailsClosed ==
    outputs # <<>> =>
        /\ result = "ok" /\ ended /\ kept = delivered
        /\ outputs[1] \in Id
        /\ IF asked.operation = "status" THEN outputs[1] = asked.id ELSE Bound(request[1])

\* Whatever the Worker does, and a Worker that never answers included, the step ends.
StepEnds == <>(step \in {"ended", "failed"})
=============================================================================
