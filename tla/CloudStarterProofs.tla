------------------------- MODULE CloudStarterProofs -------------------------
(***************************************************************************)
(* Proofs about CloudStarter for every set of starters and intents, every  *)
(* clock skew and every timing with Timeout + Slack < Window.              *)
(*                                                                         *)
(* The argument follows the one answer that can give permission: the       *)
(* Worker claims an intent once, so at most one winning receipt for it is  *)
(* ever in flight (SoleWinner); while it is, no permission for the intent  *)
(* exists (Winners); and it was written after its call was sent (Winners), *)
(* which bounds its age by the deadline (Deadline).                        *)
(***************************************************************************)
EXTENDS CloudStarter, TLAPS

\* A waiting call is never older than its deadline and the loop's slack.
Deadline ==
    \A s \in Starter : Waiting(s) =>
        call[s].sentAt =< now /\ now =< call[s].sentAt + Timeout + Slack

ClaimsPast == \A i \in Intent : claimedAt[i] =< now

\* Messages belong to calls that were made; one message per call.
Numbers ==
    /\ \A m \in net : m.number =< made[m.to]
    /\ \A m, n \in net : m.to = n.to /\ m.number = n.number => m = n

\* Replies exist only for calls that are waited for.
Replies == \A m \in net : m.body # "request" => Waiting(m.to) /\ m.number = made[m.to]

\* The message of the call a starter waits for says what that call asked.
Current ==
    \A m \in net : Waiting(m.to) /\ m.number = made[m.to]
        => m.intent = call[m.to].intent /\ m.op = call[m.to].op

\* A receipt names a claim the Worker holds.
Receipts ==
    \A m \in net : m.body = "receipt" => m.at # Unclaimed /\ m.at = claimedAt[m.about]

\* The receipt that answers a claim with its own intent.
Winning(m) == m.body = "receipt" /\ m.op = "claim" /\ m.about = m.intent

Winners ==
    \A m \in net : Winning(m) => permits[m.about] = 0 /\ call[m.to].sentAt =< m.at

SoleWinner ==
    \A m, n \in net : Winning(m) /\ Winning(n) /\ m.about = n.about => m = n

Permits ==
    \A i \in Intent :
        /\ permits[i] =< 1
        /\ permits[i] > 0 => claimedAt[i] # Unclaimed
        /\ starts[i] =< permits[i]

\* A held permission is for its claim, unused, and the only one for its intent;
\* its holder's clock is not further behind than a request can last.
Held ==
    \A s \in Starter : held[s] # NoPermission =>
        /\ held[s].sent = held[s].intent
        /\ held[s].at = claimedAt[held[s].intent]
        /\ held[s].at # Unclaimed
        /\ Skew[s] + Timeout + Slack >= 0
        /\ permits[held[s].intent] = 1 /\ starts[held[s].intent] = 0
        /\ \A t \in Starter :
              held[t] # NoPermission /\ held[t].intent = held[s].intent => t = s

IInv ==
    /\ TypeOK /\ Deadline /\ ClaimsPast /\ Numbers /\ Replies /\ Current
    /\ Receipts /\ Winners /\ SoleWinner /\ Permits /\ Held

-----------------------------------------------------------------------------
(* Types. *)

LEMMA MessageFields ==
  ASSUME NEW m \in Message
  PROVE  /\ m.to \in Starter /\ m.number \in Nat /\ m.op \in Operation
         /\ m.intent \in Intent /\ m.body \in Body /\ m.about \in Intent
         /\ m.at \in MaybeTime
  BY DEF Message

LEMMA CallFields ==
  ASSUME NEW c \in Call
  PROVE  /\ c.op \in Operation /\ c.intent \in Intent /\ c.object \in Intent
         /\ c.sentAt \in Nat
  BY DEF Call, Time

LEMMA PermissionFields ==
  ASSUME NEW p \in Permission
  PROVE  p.sent \in Intent /\ p.intent \in Intent /\ p.at \in MaybeTime
  BY DEF Permission

\* What Answer does to the network: the request gives way to at most one reply,
\* which reaches a starter that waits for it.
LEMMA AnswerNet ==
  ASSUME net \subseteq Message, NEW m \in net, NEW body \in Body, NEW about \in Intent,
         NEW at \in MaybeTime, Answer(m, body, about, at)
  PROVE  \E r \in Message :
            /\ r.to = m.to /\ r.number = m.number /\ r.op = m.op /\ r.intent = m.intent
            /\ r.body = body /\ r.about = about /\ r.at = at
            /\ net' \subseteq (net \ {m}) \cup {r}
            /\ r \in net' => r \in net \ {m} \/ (Waiting(m.to) /\ m.number = made[m.to])
<1> DEFINE r == [m EXCEPT !.body = body, !.about = about, !.at = at]
<1>1. m \in Message
  OBVIOUS
<1>2. /\ r \in Message
      /\ r.to = m.to /\ r.number = m.number /\ r.op = m.op /\ r.intent = m.intent
      /\ r.body = body /\ r.about = about /\ r.at = at
  BY <1>1 DEF Message
<1>3. net' = (net \ {m}) \cup IF Waiting(m.to) /\ m.number = made[m.to] THEN {r} ELSE {}
  BY DEF Answer
<1> HIDE DEF r
<1>4. net' \subseteq (net \ {m}) \cup {r}
  BY <1>3
<1>5. r \in net' => r \in net \ {m} \/ (Waiting(m.to) /\ m.number = made[m.to])
  BY <1>3
<1> QED
  BY <1>2, <1>4, <1>5

\* The actions that leave the clients alone and answer m.
LEMMA WorkerAnswers ==
  ASSUME TypeOK, NEW m \in net, Worker(m)
  PROVE  /\ UNCHANGED <<now, client>>
         /\ m.body = "request"
         /\ \E body \in Body, about \in Intent, at \in MaybeTime :
               /\ Answer(m, body, about, at)
               /\ body # "request"
               /\ body = "receipt" => at # Unclaimed /\ at = claimedAt'[about]
               /\ body = "receipt" /\ m.op = "claim" /\ about = m.intent
                     => WinClaim(m) /\ at = now
<1>1. /\ m.intent \in Intent /\ now \in MaybeTime /\ Unclaimed \in MaybeTime
      /\ \A i \in Intent : claimedAt[i] \in MaybeTime
  BY MessageFields DEF TypeOK, MaybeTime, Time
<1>2. CASE WinClaim(m)
  <2>1. Answer(m, "receipt", m.intent, now) /\ claimedAt'[m.intent] = now /\ now # Unclaimed
    BY <1>1, <1>2 DEF WinClaim, TypeOK, Time, Unclaimed
  <2> QED
    BY <1>1, <1>2, <2>1 DEF WinClaim, Body
<1>3. CASE DenyClaim(m)
  BY <1>1, <1>3 DEF DenyClaim, Body
<1>4. CASE Misroute(m)
  <2>1. PICK i \in Intent \ {m.intent} :
           claimedAt[i] # Unclaimed /\ Answer(m, "receipt", i, claimedAt[i])
    BY <1>4 DEF Misroute
  <2> QED
    BY <1>1, <1>4, <2>1 DEF Misroute, Body
<1>5. CASE Report(m)
  BY <1>1, <1>5 DEF Report, Body
<1>6. CASE Fail(m)
  BY <1>1, <1>6 DEF Fail, Body
<1> QED
  BY <1>2, <1>3, <1>4, <1>5, <1>6 DEF Worker

LEMMA InitIInv == Init => IInv
<1> SUFFICES ASSUME Init PROVE IInv
  OBVIOUS
<1> USE TimeAssumption, NoneAssumption DEF Init
<1>1. TypeOK
  BY DEF TypeOK, Time, MaybeTime
<1>2. Deadline /\ ClaimsPast
  BY DEF Deadline, ClaimsPast, Waiting, Unclaimed
<1>3. Numbers /\ Replies /\ Current /\ Receipts /\ Winners /\ SoleWinner
  BY DEF Numbers, Replies, Current, Receipts, Winners, SoleWinner
<1>4. Permits /\ Held
  BY DEF Permits, Held
<1> QED
  BY <1>1, <1>2, <1>3, <1>4 DEF IInv

-----------------------------------------------------------------------------
(* The actions, one lemma each for those that do more than forget. *)

LEMMA SendPreserves ==
  ASSUME IInv, NEW s \in Starter, NEW op \in Operation, NEW i \in Intent, Send(s, op, i)
  PROVE  IInv'
<1> DEFINE c == [op |-> op, intent |-> i, object |-> i, sentAt |-> now]
           q == [to |-> s, number |-> made'[s], op |-> op, intent |-> i,
                 body |-> "request", about |-> i, at |-> Unclaimed]
<1>1. /\ ~Waiting(s) /\ made[s] < MaxCalls[s]
      /\ made' = [made EXCEPT ![s] = @ + 1]
      /\ call' = [call EXCEPT ![s] = c]
      /\ net' = net \cup {q}
      /\ UNCHANGED <<now, claimedAt, held, permits, starts>>
  BY DEF Send
<1>2. TypeOK
  BY DEF IInv
<1>3. made'[s] = made[s] + 1 /\ made'[s] \in Nat /\ made[s] \in Nat /\ MaxCalls[s] \in Nat
  BY <1>1, <1>2, TimeAssumption DEF TypeOK
<1>4. c \in Call /\ c.op = op /\ c.intent = i /\ c.sentAt = now
  BY <1>2 DEF Call, TypeOK
<1>5. /\ q \in Message /\ q.to = s /\ q.number = made'[s] /\ q.op = op
      /\ q.intent = i /\ q.body = "request"
  BY <1>3 DEF Message, Body, MaybeTime
<1> HIDE DEF c, q
<1>6. /\ call'[s] = c /\ Waiting(s)'
      /\ \A t \in Starter \ {s} : call'[t] = call[t] /\ made'[t] = made[t]
      /\ \A t \in Starter \ {s} : Waiting(t)' <=> Waiting(t)
  BY <1>1, <1>2, <1>4, NoneAssumption DEF TypeOK, Waiting
<1>7. \A m \in net : /\ m \in Message /\ m.to \in Starter /\ m.number \in Nat
                     /\ m.number =< made[m.to]
  BY <1>2, MessageFields DEF IInv, Numbers, TypeOK
<1>8. TypeOK'
  <2>1. made' \in [Starter -> Nat] /\ \A t \in Starter : made'[t] =< MaxCalls'[t]
    BY <1>1, <1>2, <1>3, <1>6 DEF TypeOK
  <2>2. call' \in [Starter -> Call \cup {NoCall}] /\ net' \subseteq Message
    BY <1>1, <1>2, <1>4, <1>5 DEF TypeOK
  <2> QED
    BY <1>1, <1>2, <2>1, <2>2 DEF TypeOK
<1>9. Deadline' /\ ClaimsPast'
  BY <1>1, <1>2, <1>4, <1>6, TimeAssumption DEF IInv, Deadline, ClaimsPast, TypeOK, Time
<1>10. Numbers'
  BY <1>1, <1>2, <1>3, <1>5, <1>6, <1>7, TimeAssumption DEF IInv, Numbers, TypeOK
<1>11. Replies'
  BY <1>1, <1>5, <1>6, <1>7 DEF IInv, Replies
<1>12. Current'
  BY <1>1, <1>3, <1>4, <1>5, <1>6, <1>7 DEF IInv, Current
<1>13. Receipts' /\ SoleWinner'
  BY <1>1, <1>5 DEF IInv, Receipts, SoleWinner, Winning
<1>14. Winners'
  BY <1>1, <1>5, <1>6, <1>7 DEF IInv, Winners, Winning, Replies
<1>15. Permits' /\ Held'
  BY <1>1 DEF IInv, Permits, Held
<1> QED
  BY <1>8, <1>9, <1>10, <1>11, <1>12, <1>13, <1>14, <1>15 DEF IInv

\* The Worker's claims only grow.
LEMMA ClaimsStay ==
  ASSUME TypeOK, ClaimsPast, NEW m \in net, Worker(m)
  PROVE  /\ claimedAt' \in [Intent -> MaybeTime]
         /\ \A i \in Intent : claimedAt'[i] =< now
         /\ \A i \in Intent : claimedAt[i] # Unclaimed => claimedAt'[i] = claimedAt[i]
         /\ WinClaim(m) => claimedAt[m.intent] = Unclaimed
<1>1. m.intent \in Intent /\ now \in Nat /\ claimedAt \in [Intent -> MaybeTime]
  BY MessageFields DEF TypeOK, Time
<1>2. CASE WinClaim(m)
  BY <1>1, <1>2 DEF WinClaim, ClaimsPast, MaybeTime, Time
<1>3. CASE ~WinClaim(m)
  <2>1. UNCHANGED claimedAt
    BY <1>3 DEF Worker, DenyClaim, Misroute, Report, Fail
  <2> QED
    BY <1>1, <1>3, <2>1 DEF ClaimsPast
<1> QED
  BY <1>2, <1>3

LEMMA WorkerPreserves ==
  ASSUME IInv, NEW m \in net, Worker(m)
  PROVE  IInv'
<1>1. /\ TypeOK /\ ClaimsPast /\ net \subseteq Message /\ m \in Message
      /\ \A n \in net : n.to \in Starter /\ n.about \in Intent /\ n.intent \in Intent
  BY MessageFields DEF IInv, TypeOK
<1>2. /\ UNCHANGED <<now, made, call, held, permits, starts>>
      /\ m.body = "request"
  BY <1>1, WorkerAnswers DEF client
<1>3. PICK body \in Body, about \in Intent, at \in MaybeTime :
         /\ Answer(m, body, about, at)
         /\ body # "request"
         /\ body = "receipt" => at # Unclaimed /\ at = claimedAt'[about]
         /\ body = "receipt" /\ m.op = "claim" /\ about = m.intent => WinClaim(m) /\ at = now
  BY <1>1, WorkerAnswers
<1>4. PICK r \in Message :
         /\ r.to = m.to /\ r.number = m.number /\ r.op = m.op /\ r.intent = m.intent
         /\ r.body = body /\ r.about = about /\ r.at = at
         /\ net' \subseteq (net \ {m}) \cup {r}
         /\ r \in net' => r \in net \ {m} \/ (Waiting(m.to) /\ m.number = made[m.to])
  BY <1>1, <1>3, AnswerNet
<1>5. /\ claimedAt' \in [Intent -> MaybeTime]
      /\ \A i \in Intent : claimedAt'[i] =< now
      /\ \A i \in Intent : claimedAt[i] # Unclaimed => claimedAt'[i] = claimedAt[i]
      /\ WinClaim(m) => claimedAt[m.intent] = Unclaimed
  BY <1>1, ClaimsStay
<1>6. \A t \in Starter : Waiting(t)' <=> Waiting(t)
  BY <1>2 DEF Waiting
<1>7. r \in net' => Waiting(m.to) /\ m.number = made[m.to]
  <2>1. r \in net \ {m} => FALSE
    BY <1>4 DEF IInv, Numbers
  <2> QED
    BY <1>4, <2>1
<1>8. \A n \in net' : n = r \/ n \in net \ {m}
  BY <1>4
<1>9. TypeOK'
  BY <1>1, <1>2, <1>4, <1>5 DEF TypeOK
<1>10. Deadline' /\ ClaimsPast'
  BY <1>2, <1>5, <1>6 DEF IInv, Deadline, ClaimsPast
<1>11. Numbers'
  BY <1>2, <1>4, <1>8 DEF IInv, Numbers
<1>12. Replies'
  BY <1>1, <1>2, <1>4, <1>6, <1>7, <1>8 DEF IInv, Replies
<1>13. Current'
  BY <1>1, <1>2, <1>4, <1>6, <1>7, <1>8 DEF IInv, Current
<1>14. Receipts'
  BY <1>1, <1>3, <1>4, <1>5, <1>8 DEF IInv, Receipts
<1>15. ASSUME r \in net', Winning(r)
       PROVE  /\ r.about = m.intent /\ claimedAt[r.about] = Unclaimed /\ r.at = now
              /\ Waiting(m.to)
  BY <1>3, <1>4, <1>5, <1>7, <1>15 DEF Winning
<1>16. \A n \in net : Winning(n) => claimedAt[n.about] # Unclaimed
  BY DEF IInv, Receipts, Winning
<1>17. Winners'
  <2>1. ASSUME r \in net', Winning(r) PROVE permits[r.about] = 0 /\ call[r.to].sentAt =< r.at
    <3>1. permits[r.about] \in Nat /\ ~(permits[r.about] > 0)
      BY <1>1, <1>15, <2>1, MessageFields DEF IInv, Permits, TypeOK
    <3>2. call[r.to].sentAt =< now
      BY <1>1, <1>4, <1>15, <2>1 DEF IInv, Deadline
    <3> QED
      BY <1>15, <2>1, <3>1, <3>2
  <2> QED
    BY <1>2, <1>8, <2>1 DEF IInv, Winners, Winning
<1>18. SoleWinner'
  <2>1. ASSUME NEW n \in net', n # r, Winning(n), r \in net', Winning(r) PROVE n.about # r.about
    BY <1>8, <1>15, <1>16, <2>1
  <2> QED
    BY <1>8, <2>1 DEF IInv, SoleWinner, Winning
<1>19. Permits'
  BY <1>2, <1>5 DEF IInv, Permits
<1>20. Held'
  <2>1. \A s \in Starter : held[s] # NoPermission => held[s].intent \in Intent
    BY <1>1, PermissionFields DEF TypeOK
  <2> QED
    BY <1>2, <1>5, <2>1 DEF IInv, Held
<1> QED
  BY <1>9, <1>10, <1>11, <1>12, <1>13, <1>14, <1>17, <1>18, <1>19, <1>20 DEF IInv

\* A starter stops waiting, or drops its permission, and nothing else happens.
LEMMA SettlePreserves ==
  ASSUME IInv, NEW s \in Starter,
         UNCHANGED <<now, claimedAt, made, permits, starts>>,
         call' = [call EXCEPT ![s] = NoCall],
         net' \subseteq net,
         \A m \in net' : m.to = s => m.body = "request",
         held' = held \/ held' = [held EXCEPT ![s] = NoPermission]
  PROVE  IInv'
<1>1. /\ TypeOK
      /\ \A m \in net : m.to \in Starter
  BY MessageFields DEF IInv, TypeOK
<1>2. /\ ~Waiting(s)'
      /\ \A t \in Starter \ {s} : call'[t] = call[t] /\ (Waiting(t)' <=> Waiting(t))
  BY <1>1 DEF TypeOK, Waiting
<1>3. TypeOK'
  BY <1>1 DEF TypeOK
<1>4. Deadline' /\ ClaimsPast'
  BY <1>2 DEF IInv, Deadline, ClaimsPast
<1>5. Numbers' /\ Receipts' /\ SoleWinner'
  BY DEF IInv, Numbers, Receipts, SoleWinner, Winning
<1>6. Replies' /\ Current'
  BY <1>1, <1>2 DEF IInv, Replies, Current
<1>7. Winners'
  BY <1>1, <1>2 DEF IInv, Winners, Winning
<1>8. Permits'
  BY DEF IInv, Permits
<1>9. Held'
  <2>1. \A t \in Starter : held'[t] # NoPermission => held'[t] = held[t] /\ held[t] # NoPermission
    BY <1>1 DEF TypeOK
  <2> QED
    BY <2>1 DEF IInv, Held
<1> QED
  BY <1>3, <1>4, <1>5, <1>6, <1>7, <1>8, <1>9 DEF IInv

\* The one reply to s is the one it consumes.
LEMMA OneReply ==
  ASSUME IInv, NEW s \in Starter, NEW m \in net, Reply(s, m)
  PROVE  \A n \in net \ {m} : n.to = s => n.body = "request"
  BY DEF IInv, Replies, Numbers, Reply

\* A claim that returns permission consumed the winning receipt of its intent,
\* inside the window, by a clock that is hardly behind.
LEMMA ReturnedPermission ==
  ASSUME IInv, NEW s \in Starter, NEW m \in net, Return(s, m), m.body \in {"receipt", "replay"}
  PROVE  /\ Winning(m)
         /\ m.about = call[s].intent /\ m.about \in Intent
         /\ m.at = claimedAt[m.about] /\ m.at # Unclaimed /\ m.at \in Nat
         /\ permits[m.about] = 0 /\ starts[m.about] = 0
         /\ now =< m.at + Timeout + Slack
         /\ Skew[s] + Timeout + Slack >= 0
<1>1. /\ call[s].op = "claim" /\ m.body = "receipt" /\ m.about = call[s].intent
      /\ m.at =< clock(s)
      /\ Waiting(s) /\ m.to = s /\ m.number = made[s]
  BY DEF Return, Reply, ReadonlyResponse, ValidClaim, IsSentIntent, InWindow
<1>2. /\ m \in Message /\ m.about \in Intent /\ m.at \in MaybeTime
      /\ now \in Nat /\ Skew[s] \in Int /\ Timeout \in Nat /\ Slack \in Nat
  BY MessageFields, TimeAssumption DEF IInv, TypeOK, Time
<1>3. Winning(m)
  BY <1>1 DEF IInv, Current, Winning
<1>4. m.at = claimedAt[m.about] /\ m.at # Unclaimed /\ m.at \in Nat
  BY <1>1, <1>2 DEF IInv, Receipts, MaybeTime, Time
<1>5. permits[m.about] = 0 /\ starts[m.about] = 0
  <2>1. permits[m.about] = 0 /\ starts[m.about] =< permits[m.about]
    BY <1>2, <1>3 DEF IInv, Winners, Permits
  <2> QED
    BY <1>2, <2>1 DEF IInv, TypeOK
<1>6. now =< m.at + Timeout + Slack
  <2>1. call[s].sentAt =< m.at /\ now =< call[s].sentAt + Timeout + Slack
    BY <1>1, <1>3 DEF IInv, Winners, Deadline
  <2>2. call[s].sentAt \in Nat
    BY <1>1, CallFields DEF Waiting, IInv, TypeOK
  <2> QED
    BY <1>2, <1>4, <2>1, <2>2
<1>7. Skew[s] + Timeout + Slack >= 0
  BY <1>1, <1>2, <1>4, <1>6 DEF clock
<1> QED
  BY <1>1, <1>2, <1>3, <1>4, <1>5, <1>6, <1>7

LEMMA ReturnPreserves ==
  ASSUME IInv, NEW s \in Starter, NEW m \in net, Return(s, m)
  PROVE  IInv'
<1>1. /\ net' = net \ {m} /\ call' = [call EXCEPT ![s] = NoCall]
      /\ UNCHANGED <<now, claimedAt, made, starts>>
      /\ Reply(s, m)
  BY DEF Return
<1>2. \A n \in net' : n.to = s => n.body = "request"
  BY <1>1, OneReply
<1>3. CASE m.body \notin {"receipt", "replay"}
  BY <1>1, <1>2, <1>3, SettlePreserves DEF Return
<1>4. CASE m.body \in {"receipt", "replay"}
  <2> DEFINE p == [sent |-> call[s].intent, intent |-> m.about, at |-> m.at]
  <2>1. held' = [held EXCEPT ![s] = p] /\ permits' = [permits EXCEPT ![m.about] = @ + 1]
    BY <1>4 DEF Return, Hand
  <2>2. /\ Winning(m)
        /\ m.about = call[s].intent /\ m.about \in Intent
        /\ m.at = claimedAt[m.about] /\ m.at # Unclaimed /\ m.at \in Nat
        /\ permits[m.about] = 0 /\ starts[m.about] = 0
        /\ Skew[s] + Timeout + Slack >= 0
    BY <1>4, ReturnedPermission
  <2>3. p \in Permission /\ p.sent = m.about /\ p.intent = m.about /\ p.at = m.at
    BY <2>2 DEF Permission, MaybeTime, Time
  <2> HIDE DEF p
  <2>4. /\ TypeOK
        /\ \A n \in net : n.to \in Starter /\ n.about \in Intent
    BY MessageFields DEF IInv, TypeOK
  <2>5. /\ ~Waiting(s)'
        /\ \A t \in Starter \ {s} : call'[t] = call[t] /\ (Waiting(t)' <=> Waiting(t))
    BY <1>1, <2>4 DEF TypeOK, Waiting
  <2>6. permits'[m.about] = 1 /\ \A i \in Intent \ {m.about} : permits'[i] = permits[i]
    BY <2>1, <2>2, <2>4 DEF TypeOK
  <2>7. held'[s] = p /\ \A t \in Starter \ {s} : held'[t] = held[t]
    BY <2>1, <2>4 DEF TypeOK
  <2>8. TypeOK'
    <3>1. permits' \in [Intent -> Nat]
      BY <2>1, <2>2, <2>4 DEF TypeOK
    <3>2. held' \in [Starter -> Permission \cup {NoPermission}]
      BY <2>1, <2>3, <2>4 DEF TypeOK
    <3> QED
      BY <1>1, <2>4, <3>1, <3>2 DEF TypeOK
  <2>9. Deadline' /\ ClaimsPast'
    BY <1>1, <2>5 DEF IInv, Deadline, ClaimsPast
  <2>10. Numbers' /\ Receipts' /\ SoleWinner'
    BY <1>1 DEF IInv, Numbers, Receipts, SoleWinner, Winning
  <2>11. Replies' /\ Current'
    BY <1>1, <1>2, <2>4, <2>5 DEF IInv, Replies, Current
  <2>12. Winners'
    <3>1. \A n \in net' : Winning(n) => n.about # m.about /\ n.to # s
      BY <1>1, <1>2, <2>2 DEF IInv, SoleWinner, Winning
    <3> QED
      BY <1>1, <2>4, <2>5, <2>6, <3>1 DEF IInv, Winners, Winning
  <2>13. Permits'
    BY <1>1, <2>2, <2>4, <2>6 DEF IInv, Permits, TypeOK
  <2>14. Held'
    <3>1. \A t \in Starter : held[t] # NoPermission => held[t].intent # m.about /\ held[t].intent \in Intent
      BY <2>2, <2>4, PermissionFields DEF IInv, Held, TypeOK
    <3> QED
      BY <1>1, <2>2, <2>3, <2>6, <2>7, <3>1 DEF IInv, Held
  <2> QED
    BY <2>8, <2>9, <2>10, <2>11, <2>12, <2>13, <2>14 DEF IInv
<1> QED
  BY <1>3, <1>4

LEMMA MutatePreserves ==
  ASSUME IInv, NEW s \in Starter, Mutate(s)
  PROVE  IInv'
<1>1. PICK i \in Intent : call' = [call EXCEPT ![s].object = i]
  BY DEF Mutate
<1>2. TypeOK /\ Waiting(s) /\ UNCHANGED <<now, claimedAt, net, made, held, permits, starts>>
  BY DEF IInv, Mutate
<1>3. call[s] \in Call
  BY <1>2 DEF TypeOK, Waiting
<1>4. /\ [call[s] EXCEPT !.object = i] \in Call
      /\ [call[s] EXCEPT !.object = i].intent = call[s].intent
      /\ [call[s] EXCEPT !.object = i].op = call[s].op
      /\ [call[s] EXCEPT !.object = i].sentAt = call[s].sentAt
  BY <1>3 DEF Call
<1>5. call' = [call EXCEPT ![s] = [call[s] EXCEPT !.object = i]]
  BY <1>1, <1>2 DEF TypeOK
<1>6. /\ call' \in [Starter -> Call \cup {NoCall}]
      /\ \A t \in Starter : Waiting(t)' <=> Waiting(t)
      /\ \A t \in Starter : call'[t].intent = call[t].intent
      /\ \A t \in Starter : call'[t].op = call[t].op
      /\ \A t \in Starter : call'[t].sentAt = call[t].sentAt
  BY <1>2, <1>3, <1>4, <1>5, NoneAssumption DEF TypeOK, Waiting
<1>7. \A m \in net : m.to \in Starter
  BY <1>2, MessageFields DEF TypeOK
<1>8. TypeOK'
  BY <1>2, <1>6 DEF TypeOK
<1>9. Deadline' /\ ClaimsPast' /\ Numbers' /\ Receipts' /\ SoleWinner'
  BY <1>2, <1>6 DEF IInv, Deadline, ClaimsPast, Numbers, Receipts, SoleWinner, Winning
<1>10. Replies' /\ Current' /\ Winners'
  <2>1. Replies'
    <3> SUFFICES ASSUME NEW m \in net, m.body # "request"
                 PROVE  Waiting(m.to)' /\ m.number = made[m.to]
      BY <1>2 DEF Replies
    <3> QED
      BY <1>6, <1>7 DEF IInv, Replies
  <2>2. Current'
    BY <1>2, <1>6, <1>7 DEF IInv, Current
  <2>3. Winners'
    <3> SUFFICES ASSUME NEW m \in net, Winning(m)
                 PROVE  permits[m.about] = 0 /\ call'[m.to].sentAt =< m.at
      BY <1>2 DEF Winners, Winning
    <3> QED
      BY <1>6, <1>7 DEF IInv, Winners
  <2> QED
    BY <2>1, <2>2, <2>3
<1>11. Permits' /\ Held'
  BY <1>2 DEF IInv, Permits, Held
<1> QED
  BY <1>8, <1>9, <1>10, <1>11 DEF IInv

LEMMA StartPreserves ==
  ASSUME IInv, NEW s \in Starter, Start(s)
  PROVE  IInv'
<1>1. /\ TypeOK /\ held[s] # NoPermission
      /\ starts' = [starts EXCEPT ![held[s].intent] = @ + 1]
      /\ held' = [held EXCEPT ![s] = NoPermission]
      /\ UNCHANGED <<now, claimedAt, net, made, call, permits>>
  BY DEF IInv, Start
<1>2. /\ held[s].intent \in Intent
      /\ permits[held[s].intent] = 1 /\ starts[held[s].intent] = 0
  BY <1>1, PermissionFields DEF IInv, Held, TypeOK
<1>3. /\ starts'[held[s].intent] = 1
      /\ \A i \in Intent \ {held[s].intent} : starts'[i] = starts[i]
      /\ starts' \in [Intent -> Nat]
  BY <1>1, <1>2 DEF TypeOK
<1>4. TypeOK'
  BY <1>1, <1>3 DEF TypeOK
<1>5. Deadline' /\ ClaimsPast' /\ Numbers' /\ Receipts' /\ SoleWinner'
  BY <1>1 DEF IInv, Deadline, ClaimsPast, Numbers, Receipts, SoleWinner, Winning, Waiting
<1>6. Replies' /\ Current' /\ Winners'
  BY <1>1 DEF IInv, Replies, Current, Winners, Winning, Waiting
<1>7. Permits'
  BY <1>1, <1>2, <1>3 DEF IInv, Permits
<1>8. Held'
  <2>1. \A t \in Starter : held'[t] # NoPermission =>
           /\ held'[t] = held[t] /\ t # s
           /\ held[t] # NoPermission /\ held[t].intent # held[s].intent
           /\ held[t].intent \in Intent
    BY <1>1, PermissionFields DEF IInv, Held, TypeOK
  <2> QED
    BY <1>1, <1>3, <2>1 DEF IInv, Held
<1> QED
  BY <1>4, <1>5, <1>6, <1>7, <1>8 DEF IInv

LEMMA TickPreserves == IInv /\ Tick => IInv'
<1> SUFFICES ASSUME IInv, Tick PROVE IInv'
  OBVIOUS
<1>1. /\ TypeOK /\ now' = now + 1
      /\ \A s \in Starter : Waiting(s) => now < call[s].sentAt + Timeout + Slack
      /\ UNCHANGED <<claimedAt, net, made, call, held, permits, starts>>
  BY DEF IInv, Tick, client
<1>2. now \in Nat
  BY <1>1 DEF TypeOK, Time
<1>3. TypeOK'
  BY <1>1, <1>2 DEF TypeOK, Time
<1>4. Deadline'
  <2> SUFFICES ASSUME NEW s \in Starter, Waiting(s)
               PROVE  call[s].sentAt =< now + 1 /\ now + 1 =< call[s].sentAt + Timeout + Slack
    BY <1>1 DEF Deadline, Waiting
  <2>1. call[s].sentAt \in Nat
    BY <1>1, CallFields DEF TypeOK, Waiting
  <2> QED
    BY <1>1, <1>2, <2>1, TimeAssumption DEF IInv, Deadline
<1>5. ClaimsPast'
  <2>1. \A i \in Intent : claimedAt[i] \in Int
    BY <1>1 DEF TypeOK, MaybeTime, Time, Unclaimed
  <2> QED
    BY <1>1, <1>2, <2>1 DEF IInv, ClaimsPast
<1>6. Numbers' /\ Receipts' /\ SoleWinner' /\ Replies' /\ Current' /\ Winners'
  BY <1>1 DEF IInv, Numbers, Receipts, SoleWinner, Replies, Current, Winners, Winning, Waiting
<1>7. Permits' /\ Held'
  BY <1>1 DEF IInv, Permits, Held
<1> QED
  BY <1>3, <1>4, <1>5, <1>6, <1>7 DEF IInv

LEMMA StepIInv == IInv /\ [Next]_vars => IInv'
<1> SUFFICES ASSUME IInv, [Next]_vars PROVE IInv'
  OBVIOUS
<1>1. ASSUME NEW s \in Starter, NEW op \in Operation, NEW i \in Intent, Send(s, op, i)
      PROVE  IInv'
  BY <1>1, SendPreserves
<1>2. ASSUME NEW s \in Starter, NEW m \in net, Return(s, m) PROVE IInv'
  BY <1>2, ReturnPreserves
<1>3. ASSUME NEW s \in Starter, NEW m \in net, Reject(s, m) PROVE IInv'
  <2>1. \A n \in net' : n.to = s => n.body = "request"
    BY <1>3, OneReply DEF Reject
  <2> QED
    BY <1>3, <2>1, SettlePreserves DEF Reject
<1>4. ASSUME NEW s \in Starter, Uncertain(s) PROVE IInv'
  BY <1>4, SettlePreserves DEF Uncertain, Closed
<1>5. ASSUME NEW s \in Starter, Mutate(s) PROVE IInv'
  BY <1>5, MutatePreserves
<1>6. ASSUME NEW s \in Starter, Start(s) PROVE IInv'
  BY <1>6, StartPreserves
<1>7. ASSUME NEW s \in Starter, Abandon(s) PROVE IInv'
  BY <1>7, SettlePreserves DEF Abandon, Closed
<1>8. ASSUME NEW m \in net, Worker(m) PROVE IInv'
  BY <1>8, WorkerPreserves
<1>9. CASE Tick
  BY <1>9, TickPreserves
<1>10. CASE UNCHANGED vars
  BY <1>10 DEF vars, client, IInv, TypeOK, Deadline, ClaimsPast, Numbers, Replies, Current,
              Receipts, Winners, SoleWinner, Winning, Permits, Held, Waiting
<1> QED
  BY <1>1, <1>2, <1>3, <1>4, <1>5, <1>6, <1>7, <1>8, <1>9, <1>10 DEF Next

-----------------------------------------------------------------------------
(* What cloudOperation promises. *)

THEOREM Invariance == Spec => []IInv
  BY InitIInv, StepIInv, PTL DEF Spec

\* Types, and one request per call: nothing is sent a second time.
THEOREM TypeCorrect == Spec => []TypeOK
<1>1. IInv => TypeOK
  BY DEF IInv
<1> QED
  BY <1>1, Invariance, PTL

\* At most one starter is ever told that it may start an intent.
THEOREM SolePermissions == Spec => []SolePermission
<1>1. IInv => SolePermission
  BY DEF IInv, Permits, SolePermission
<1> QED
  BY <1>1, Invariance, PTL

\* A permission is for the intent that was sent, whatever its caller did to the
\* intent object while it waited.
THEOREM SentIntents == Spec => []PermissionForSentIntent
<1>1. IInv => PermissionForSentIntent
  BY DEF IInv, Held, PermissionForSentIntent
<1> QED
  BY <1>1, Invariance, PTL

LEMMA PromiseInit == Init => Promise!Init
  BY DEF Init, Promise!Init, Unclaimed, Promise!Unclaimed

\* Every step is a step of the promise, or none.
LEMMA PromiseStep ==
  IInv /\ [Next]_vars => [Promise!Next]_<<now, claimedAt, permits, starts>>
<1> SUFFICES ASSUME IInv, [Next]_vars
             PROVE  [Promise!Next]_<<now, claimedAt, permits, starts>>
  OBVIOUS
<1> USE DEF Promise!Next
<1>1. TypeOK
  BY DEF IInv
<1>2. ASSUME NEW s \in Starter, NEW m \in net, Return(s, m)
      PROVE  [Promise!Next]_<<now, claimedAt, permits, starts>>
  <2>1. CASE m.body \notin {"receipt", "replay"}
    BY <1>2, <2>1 DEF Return
  <2>2. CASE m.body \in {"receipt", "replay"}
    <3>1. /\ m.about \in Intent /\ m.at = claimedAt[m.about] /\ m.at # Unclaimed
          /\ m.at \in Nat /\ permits[m.about] = 0
          /\ now =< m.at + Timeout + Slack
      BY <1>2, <2>2, ReturnedPermission
    <3>2. now < claimedAt[m.about] + Window
      BY <1>1, <3>1, TimeAssumption DEF TypeOK, Time
    <3>3. /\ permits' = [permits EXCEPT ![m.about] = 1]
          /\ UNCHANGED <<now, claimedAt, starts>>
      BY <1>2, <2>2, <3>1 DEF Return, Hand
    <3>4. Promise!Permit(m.about)
      BY <3>1, <3>2, <3>3 DEF Promise!Permit, Unclaimed, Promise!Unclaimed
    <3> QED
      BY <3>1, <3>4
  <2> QED
    BY <2>1, <2>2
<1>3. ASSUME NEW s \in Starter, Start(s)
      PROVE  [Promise!Next]_<<now, claimedAt, permits, starts>>
  <2> DEFINE i == held[s].intent
  <2>1. /\ i \in Intent /\ held[s].at = claimedAt[i] /\ held[s].at # Unclaimed
        /\ permits[i] = 1 /\ starts[i] = 0
        /\ Skew[s] + Timeout + Slack >= 0
        /\ held[s].at \in Nat
    BY <1>1, <1>3, PermissionFields DEF Start, IInv, Held, TypeOK, MaybeTime, Time
  <2>2. now + Skew[s] < held[s].at + Window
    BY <1>3 DEF Start, clock
  <2>3. now < claimedAt[i] + Window + Grace
    BY <1>1, <2>1, <2>2, TimeAssumption DEF TypeOK, Time, Grace
  <2>4. starts' = [starts EXCEPT ![i] = 1] /\ UNCHANGED <<now, claimedAt, permits>>
    BY <1>3, <2>1 DEF Start
  <2>5. Promise!Start(i)
    BY <2>1, <2>3, <2>4 DEF Promise!Start
  <2> QED
    BY <2>1, <2>5
<1>4. ASSUME NEW m \in net, Worker(m)
      PROVE  [Promise!Next]_<<now, claimedAt, permits, starts>>
  <2>1. CASE WinClaim(m)
    <3>1. m.intent \in Intent
      BY <1>1, MessageFields DEF TypeOK
    <3>2. Promise!Claim(m.intent)
      BY <2>1 DEF WinClaim, client, Promise!Claim, Unclaimed, Promise!Unclaimed
    <3> QED
      BY <3>1, <3>2
  <2>2. CASE ~WinClaim(m)
    BY <1>4, <2>2 DEF Worker, DenyClaim, Misroute, Report, Fail, client
  <2> QED
    BY <2>1, <2>2
<1>5. CASE Tick
  BY <1>5 DEF Tick, client, Promise!Tick
<1>6. ASSUME NEW s \in Starter,
             \/ \E op \in Operation, i \in Intent : Send(s, op, i)
             \/ \E m \in net : Reject(s, m)
             \/ Uncertain(s) \/ Mutate(s) \/ Abandon(s)
      PROVE  [Promise!Next]_<<now, claimedAt, permits, starts>>
  BY <1>6 DEF Send, Reject, Uncertain, Mutate, Abandon
<1>7. CASE UNCHANGED vars
  BY <1>7 DEF vars, client
<1> QED
  BY <1>2, <1>3, <1>4, <1>5, <1>6, <1>7 DEF Next

\* cloudOperation and its starters implement StartPermission.
THEOREM Implementation == Spec => ImplementsPromise
  BY Invariance, PromiseInit, PromiseStep, PTL DEF Spec, ImplementsPromise, Promise!Spec

\* A permission is held only where the clock is right by what the checks can tell: not
\* behind by more than a request may last, not ahead by a window.
ClocksAreUsable ==
    \A s \in Starter : held[s] # NoPermission => Skew[s] + Grace >= 0 /\ Skew[s] < Window

\* A starter whose clock is off by more is never given permission, so that a wrong clock
\* costs the job and not the money (validateCloudClaim's claimedAt > now and now >= until).
THEOREM WrongClocksGetNothing == Spec => []ClocksAreUsable
<1>1. Init => ClocksAreUsable
  BY DEF Init, ClocksAreUsable
<1>2. IInv /\ ClocksAreUsable /\ [Next]_vars => ClocksAreUsable'
  <2> SUFFICES ASSUME IInv, ClocksAreUsable, [Next]_vars, NEW t \in Starter,
                      held'[t] # NoPermission
               PROVE  Skew[t] + Grace >= 0 /\ Skew[t] < Window
      BY DEF ClocksAreUsable, Grace
  <2>1. CASE held'[t] = held[t]
    BY <2>1 DEF ClocksAreUsable
  <2>2. ASSUME NEW s \in Starter, NEW m \in net, Return(s, m), held' # held
        PROVE  Skew[t] + Grace >= 0 /\ Skew[t] < Window
    <3>1. m.body \in {"receipt", "replay"}
      BY <2>2 DEF Return
    <3>2. \A u \in Starter \ {s} : held'[u] = held[u]
      BY <2>2, <3>1 DEF Return, Hand, IInv, TypeOK
    <3>3. m.at =< now /\ now + Skew[s] < m.at + Window
      <4>1. m.at =< now
        BY <2>2, <3>1, ReturnedPermission DEF IInv, ClaimsPast
      <4>2. clock(s) < m.at + Window
        BY <2>2, <3>1 DEF Return, ReadonlyResponse, ValidClaim, InWindow
      <4>3. m.at \in Nat /\ now \in Nat
        BY <2>2, <3>1, ReturnedPermission DEF IInv, TypeOK, Time
      <4> QED
        BY <4>1, <4>2, <4>3 DEF clock
    <3>4. /\ Skew[s] \in Int /\ Window \in Nat /\ now \in Nat /\ m.at \in Nat
          /\ Skew[s] + Timeout + Slack >= 0 /\ Timeout \in Nat /\ Slack \in Nat
      BY <2>2, <3>1, ReturnedPermission, TimeAssumption DEF IInv, TypeOK, Time
    <3>5. Skew[s] + Grace >= 0 /\ Skew[s] < Window
      BY <3>3, <3>4 DEF Grace
    <3> QED
      BY <3>2, <3>5 DEF ClocksAreUsable
  <2>3. ASSUME NEW s \in Starter, Start(s) \/ Abandon(s)
        PROVE  held'[t] = held[t]
    BY <2>3 DEF Start, Abandon, IInv, TypeOK
  <2>4. ASSUME held' # held, held'[t] # held[t]
        PROVE  \E s \in Starter : \/ Start(s) \/ Abandon(s)
                                  \/ \E m \in net : Return(s, m)
    BY <2>4 DEF Next, Send, Reject, Uncertain, Mutate, Worker, WinClaim, DenyClaim,
       Misroute, Report, Fail, Tick, vars, client
  <2> QED
    BY <2>1, <2>2, <2>3, <2>4
<1> QED
  BY <1>1, <1>2, Invariance, PTL DEF Spec

-----------------------------------------------------------------------------
(* What StartPermission amounts to. *)

PromiseVars == <<now, claimedAt, permits, starts>>

\* A permission is for a claim, and a start for a permission.
PromiseInv ==
    /\ now \in Nat
    /\ claimedAt \in [Intent -> Int]
    /\ permits \in [Intent -> {0, 1}]
    /\ starts \in [Intent -> {0, 1}]
    /\ \A i \in Intent : /\ permits[i] = 1 => claimedAt[i] # Unclaimed
                         /\ starts[i] = 1 => permits[i] = 1

LEMMA PromiseInvariance == Promise!Spec => []PromiseInv
<1>1. Promise!Init => PromiseInv
  BY DEF Promise!Init, PromiseInv, Promise!Unclaimed
<1>2. PromiseInv /\ [Promise!Next]_PromiseVars => PromiseInv'
  BY DEF PromiseInv, PromiseVars, Promise!Next, Promise!Tick, Promise!Claim,
     Promise!Permit, Promise!Start, Unclaimed, Promise!Unclaimed
<1> QED
  BY <1>1, <1>2, PTL DEF Promise!Spec, PromiseVars

\* An intent is started once, under the permission for its claim, and no later than a
\* deadline after the window of that claim.
StartsOnceInTime ==
    [][\A i \in Intent : starts'[i] # starts[i] =>
          /\ starts[i] = 0 /\ starts'[i] = 1 /\ permits[i] = 1
          /\ claimedAt[i] # Unclaimed /\ now < claimedAt[i] + Window + Grace]_PromiseVars

\* However many starters there are and however wrong their clocks: a paid job is started
\* at most once and in time.  It holds of the abstract specification, and therefore of
\* cloudOperation with the starters that call it.
THEOREM PaidOnce == Spec => StartsOnceInTime
<1> DEFINE Once == \A i \in Intent : starts'[i] # starts[i] =>
                      /\ starts[i] = 0 /\ starts'[i] = 1 /\ permits[i] = 1
                      /\ claimedAt[i] # Unclaimed /\ now < claimedAt[i] + Window + Grace
<1>1. PromiseInv /\ [Promise!Next]_PromiseVars => [Once]_PromiseVars
  <2> SUFFICES ASSUME PromiseInv, Promise!Next PROVE Once
      BY DEF PromiseVars
  <2>1. CASE Promise!Tick
    BY <2>1 DEF Promise!Tick
  <2>2. ASSUME NEW i \in Intent, Promise!Claim(i) \/ Promise!Permit(i) PROVE Once
    BY <2>2 DEF Promise!Claim, Promise!Permit
  <2>3. ASSUME NEW i \in Intent, Promise!Start(i) PROVE Once
    BY <2>3 DEF Promise!Start, PromiseInv
  <2> QED
    BY <2>1, <2>2, <2>3 DEF Promise!Next
<1>2. Promise!Spec => StartsOnceInTime
  <2> HIDE DEF Once
  <2>1. Promise!Spec => [][Once]_PromiseVars
    BY <1>1, PromiseInvariance, PTL DEF Promise!Spec, PromiseVars
  <2> QED
    BY <2>1 DEF StartsOnceInTime, Once
<1> QED
  BY <1>2, Implementation, PTL DEF ImplementsPromise
=============================================================================
