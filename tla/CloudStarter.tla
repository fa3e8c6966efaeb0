---------------------------- MODULE CloudStarter ----------------------------
(***************************************************************************)
(* cloudOperation of ci-admission/index.mjs: the client a cloud starter    *)
(* uses to reserve, claim and inspect a paid job.                          *)
(*                                                                         *)
(* Several starters may hold the same job identity.  The Worker, the       *)
(* network and the starters are external: requests are handled late or     *)
(* never, even after their caller gave up; an answer may be an error, be   *)
(* malformed, name another intent or replay an old permission; and a       *)
(* starter may change the intent object it passed while it waits.          *)
(*                                                                         *)
(* `now` is the Worker's time, which claimed_at carries; a starter reads   *)
(* its own clock, off by Skew.  A reply body is one of                     *)
(*   receipt    start_permitted: true with every receipt field             *)
(*   denial     start_permitted: false with a reason                       *)
(*   readonly   start_permitted: false, perhaps with a historical receipt  *)
(*   replay     a readonly body with a start_permitted: true inside        *)
(*   malformed  anything else, and every HTTP error                        *)
(*                                                                         *)
(* The definitions marked "Defect" are no part of the system: the checks   *)
(* put each in the place of a definition after it, to see a property fail. *)
(***************************************************************************)
EXTENDS Integers

CONSTANTS
    Starter,   \* processes that call cloudOperation
    Intent,    \* job identities: repository, run, attempt, job
    Skew,      \* Skew[s]: starter s's clock minus the Worker's
    Window,    \* start_before - claimed_at
    Timeout,   \* REQUEST_TIMEOUT_MS
    Slack,     \* how late the event loop may run an expired timer
    NoCall, NoPermission,
    MaxCalls,  \* bound: the calls of each starter
    MaxTime    \* bound: the Worker's time

ASSUME TimeAssumption ==
    /\ Skew \in [Starter -> Int]
    /\ Window \in Nat /\ Timeout \in Nat /\ Slack \in Nat
    /\ Timeout + Slack < Window
    /\ MaxCalls \in [Starter -> Nat] /\ MaxTime \in Nat

VARIABLES
    now,        \* the Worker's time
    claimedAt,  \* the Worker's durable claims, Unclaimed before one
    net,        \* requests and replies in flight
    made,       \* the number of calls each starter has made
    call,       \* the call each starter waits for, or NoCall
    held,       \* the start permission each starter holds
    permits,    \* history: permissions returned for each intent
    starts      \* history: starts of each intent

client == <<made, call, held, permits, starts>>
vars == <<now, claimedAt, net, client>>

Operation == {"reserve", "claim", "status"}
Body == {"request", "receipt", "denial", "readonly", "replay", "malformed"}
Unclaimed == -1
Time == Nat
MaybeTime == Time \cup {Unclaimed}

\* A call: the identity it was sent with (expectedIntentHash), the caller's intent
\* object as it is now, and when it was sent.
Call == [op: Operation, intent: Intent, object: Intent, sentAt: Time]

\* A message belongs to call `number` of starter `to`; `about` and `at` are the
\* intent and the claim a receipt names.
Message ==
    [to: Starter, number: Nat, op: Operation, intent: Intent, body: Body,
     about: Intent, at: MaybeTime]

\* A permission: the intent its call sent, the one its receipt names, the claim.
Permission == [sent: Intent, intent: Intent, at: MaybeTime]

ASSUME NoneAssumption == NoCall \notin Call /\ NoPermission \notin Permission

clock(s) == now + Skew[s]

Waiting(s) == call[s] # NoCall

Init ==
    /\ now = 0
    /\ claimedAt = [i \in Intent |-> Unclaimed]
    /\ net = {}
    /\ made = [s \in Starter |-> 0]
    /\ call = [s \in Starter |-> NoCall]
    /\ held = [s \in Starter |-> NoPermission]
    /\ permits = [i \in Intent |-> 0]
    /\ starts = [i \in Intent |-> 0]

-----------------------------------------------------------------------------
(* cloudOperation *)

\* The request and expectedIntentHash are built before the first await.
Send(s, op, i) ==
    /\ ~Waiting(s)
    /\ made[s] < MaxCalls[s]
    /\ made' = [made EXCEPT ![s] = @ + 1]
    /\ call' = [call EXCEPT ![s] = [op |-> op, intent |-> i, object |-> i, sentAt |-> now]]
    /\ net' = net \cup {[to |-> s, number |-> made'[s], op |-> op, intent |-> i,
                          body |-> "request", about |-> i, at |-> Unclaimed]}
    /\ UNCHANGED <<now, claimedAt, held, permits, starts>>

\* The reply of the call s waits for.
Reply(s, m) ==
    /\ Waiting(s)
    /\ m.to = s /\ m.number = made[s] /\ m.body # "request"

\* What is left in the network when s waits no more: only requests.
Closed(s) == {m \in net : m.to # s \/ m.body = "request"}

\* Defect: the claim may lie in the future.
PastStartOnly(s, m) == clock(s) < m.at + Window

\* claimed_at is past and start_before still ahead, on the starter's clock once
\* the body is complete.
InWindow(s, m) == m.at =< clock(s) /\ clock(s) < m.at + Window

\* Defect: the caller's object is read again after the await.
IsMutatedIntent(s, m) == m.about = call[s].object

\* Bound to the identity the request was sent with.
IsSentIntent(s, m) == m.about = call[s].intent

\* validateCloudClaim: permission comes from a receipt only.
ValidClaim(s, m) == m.body = "receipt" /\ IsSentIntent(s, m) /\ InWindow(s, m)

\* Defect: only the top of a readonly answer is looked at.
TopIsReadonly(m) == m.body \in {"denial", "readonly", "replay"}

\* validateReadonlyCloudResponse: no start_permitted but false at any depth.
ReadonlyResponse(m) == m.body \in {"denial", "readonly"}

\* What cloudOperation hands its caller carries permission.
Hand(s, m) ==
    /\ held' = [held EXCEPT ![s] =
          [sent |-> call[s].intent, intent |-> m.about, at |-> m.at]]
    /\ permits' = [permits EXCEPT ![m.about] = @ + 1]

\* The answer is complete and passes the checks of its operation.
Return(s, m) ==
    /\ Reply(s, m)
    /\ \/ call[s].op = "claim" /\ ValidClaim(s, m)
       \/ call[s].op = "claim" /\ m.body = "denial"
       \/ call[s].op # "claim" /\ ReadonlyResponse(m)
    /\ call' = [call EXCEPT ![s] = NoCall]
    /\ net' = net \ {m}
    /\ IF m.body \in {"receipt", "replay"} THEN Hand(s, m) ELSE UNCHANGED <<held, permits>>
    /\ UNCHANGED <<now, claimedAt, made, starts>>

\* Any other answer throws.
Reject(s, m) ==
    /\ Reply(s, m)
    /\ ~(call[s].op = "claim" /\ (ValidClaim(s, m) \/ m.body = "denial"))
    /\ ~(call[s].op # "claim" /\ ReadonlyResponse(m))
    /\ call' = [call EXCEPT ![s] = NoCall]
    /\ net' = net \ {m}
    /\ UNCHANGED <<now, claimedAt, made, held, permits, starts>>

\* Defect: an uncertain call is sent again.
UncertainRetries(s) ==
    /\ Waiting(s)
    /\ made' = [made EXCEPT ![s] = @ + 1]
    /\ net' = Closed(s) \cup
          {[to |-> s, number |-> made'[s], op |-> call[s].op, intent |-> call[s].intent,
            body |-> "request", about |-> call[s].intent, at |-> Unclaimed]}
    /\ UNCHANGED <<now, claimedAt, call, held, permits, starts>>

\* The deadline or the transport ends the wait: the outcome is uncertain, and the
\* client neither retries nor releases anything.
Uncertain(s) ==
    /\ Waiting(s)
    /\ call' = [call EXCEPT ![s] = NoCall]
    /\ net' = Closed(s)
    /\ UNCHANGED <<now, claimedAt, made, held, permits, starts>>

-----------------------------------------------------------------------------
(* The starter. *)

\* The intent object it passed is its own to change.
Mutate(s) ==
    /\ Waiting(s)
    /\ \E i \in Intent : call' = [call EXCEPT ![s].object = i]
    /\ UNCHANGED <<now, claimedAt, net, made, held, permits, starts>>

\* It rechecks expiry before its sole attempt.
Start(s) ==
    /\ held[s] # NoPermission
    /\ clock(s) < held[s].at + Window
    /\ starts' = [starts EXCEPT ![held[s].intent] = @ + 1]
    /\ held' = [held EXCEPT ![s] = NoPermission]
    /\ UNCHANGED <<now, claimedAt, net, made, call, permits>>

\* It crashes or gives up with its permission unused.
Abandon(s) ==
    /\ Waiting(s) \/ held[s] # NoPermission
    /\ call' = [call EXCEPT ![s] = NoCall]
    /\ held' = [held EXCEPT ![s] = NoPermission]
    /\ net' = Closed(s)
    /\ UNCHANGED <<now, claimedAt, made, permits, starts>>

-----------------------------------------------------------------------------
(* The Worker and time. *)

\* The connection of an abandoned call is closed: what the Worker answers is lost.
Answer(m, body, about, at) ==
    net' = (net \ {m}) \cup
             IF Waiting(m.to) /\ m.number = made[m.to]
             THEN {[m EXCEPT !.body = body, !.about = about, !.at = at]}
             ELSE {}

WinClaim(m) ==
    /\ m.body = "request" /\ m.op = "claim"
    /\ claimedAt[m.intent] = Unclaimed
    /\ claimedAt' = [claimedAt EXCEPT ![m.intent] = now]
    /\ Answer(m, "receipt", m.intent, now)
    /\ UNCHANGED <<now, client>>

\* An intent that is claimed, not reserved or against policy.
DenyClaim(m) ==
    /\ m.body = "request" /\ m.op = "claim"
    /\ Answer(m, "denial", m.intent, Unclaimed)
    /\ UNCHANGED <<now, claimedAt, client>>

\* The receipt of another intent's claim.
Misroute(m) ==
    /\ m.body = "request"
    /\ \E i \in Intent \ {m.intent} :
          claimedAt[i] # Unclaimed /\ Answer(m, "receipt", i, claimedAt[i])
    /\ UNCHANGED <<now, claimedAt, client>>

\* A diagnostic answer, as it should be or with the permission still in it.
Report(m) ==
    /\ m.body = "request" /\ m.op # "claim"
    /\ \/ Answer(m, "readonly", m.intent, claimedAt[m.intent])
       \/ /\ claimedAt[m.intent] # Unclaimed
          /\ \E b \in {"receipt", "replay"} : Answer(m, b, m.intent, claimedAt[m.intent])
    /\ UNCHANGED <<now, claimedAt, client>>

Fail(m) ==
    /\ m.body = "request"
    /\ Answer(m, "malformed", m.intent, Unclaimed)
    /\ UNCHANGED <<now, claimedAt, client>>

\* A waiting call does not outlast its deadline by more than Slack.
Tick ==
    /\ now < MaxTime
    /\ \A s \in Starter : Waiting(s) => now < call[s].sentAt + Timeout + Slack
    /\ now' = now + 1
    /\ UNCHANGED <<claimedAt, net, client>>

-----------------------------------------------------------------------------
Worker(m) ==
    \/ WinClaim(m) \/ DenyClaim(m)
    \/ Misroute(m) \/ Report(m) \/ Fail(m)

Next ==
    \/ \E s \in Starter :
          \/ \E op \in Operation, i \in Intent : Send(s, op, i)
          \/ \E m \in net : Return(s, m) \/ Reject(s, m)
          \/ Uncertain(s) \/ Mutate(s) \/ Start(s) \/ Abandon(s)
    \/ \E m \in net : Worker(m)
    \/ Tick

Spec == Init /\ [][Next]_vars

-----------------------------------------------------------------------------
(* Properties. *)

TypeOK ==
    /\ now \in Time
    /\ claimedAt \in [Intent -> MaybeTime]
    /\ net \subseteq Message
    /\ made \in [Starter -> Nat]
    /\ \A s \in Starter : made[s] =< MaxCalls[s]
    /\ call \in [Starter -> Call \cup {NoCall}]
    /\ held \in [Starter -> Permission \cup {NoPermission}]
    /\ permits \in [Intent -> Nat]
    /\ starts \in [Intent -> Nat]

\* However many starters claim, retry after an uncertain outcome or ask for the
\* status of an intent, at most one of them is ever told it may start it.
SolePermission == \A i \in Intent : permits[i] =< 1

\* A permission is for the identity its call was made with.
PermissionForSentIntent ==
    \A s \in Starter : held[s] # NoPermission => held[s].sent = held[s].intent

\* How far behind the Worker's a clock can be that still passes the checks.
Grace == Timeout + Slack

\* The client implements the promise of StartPermission: with starters whose
\* clocks are wrong by any amount, permission is given inside the Worker's window
\* and no job starts more than one request time after it.
Promise == INSTANCE StartPermission WITH
    Intent <- Intent, Window <- Window, Grace <- Grace,
    now <- now, claimedAt <- claimedAt, permits <- permits, starts <- starts
ImplementsPromise == Promise!Spec
=============================================================================
