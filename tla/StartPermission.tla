--------------------------- MODULE StartPermission ---------------------------
(***************************************************************************)
(* What the cloud starter's client promises about paid jobs, whatever the   *)
(* network does: an intent is claimed once, permission to start it is given *)
(* at most once and within its window, and it starts at most once, at most  *)
(* Grace after the window.                                                  *)
(***************************************************************************)
EXTENDS Integers

CONSTANTS
    Intent,    \* job identities: repository, run, attempt, job
    Window,    \* time from a claim to start_before
    Grace      \* how far past the window a start can fall

VARIABLES
    now,        \* the Worker's time
    claimedAt,  \* time of each intent's claim, Unclaimed before it
    permits,    \* permissions given for each intent
    starts      \* times each intent was started

Unclaimed == -1

Init ==
    /\ now = 0
    /\ claimedAt = [i \in Intent |-> Unclaimed]
    /\ permits = [i \in Intent |-> 0]
    /\ starts = [i \in Intent |-> 0]

Tick == now' = now + 1 /\ UNCHANGED <<claimedAt, permits, starts>>

Claim(i) ==
    /\ claimedAt[i] = Unclaimed
    /\ claimedAt' = [claimedAt EXCEPT ![i] = now]
    /\ UNCHANGED <<now, permits, starts>>

Permit(i) ==
    /\ claimedAt[i] # Unclaimed
    /\ permits[i] = 0
    /\ now < claimedAt[i] + Window
    /\ permits' = [permits EXCEPT ![i] = 1]
    /\ UNCHANGED <<now, claimedAt, starts>>

Start(i) ==
    /\ permits[i] = 1
    /\ starts[i] = 0
    /\ now < claimedAt[i] + Window + Grace
    /\ starts' = [starts EXCEPT ![i] = 1]
    /\ UNCHANGED <<now, claimedAt, permits>>

Next == Tick \/ \E i \in Intent : Claim(i) \/ Permit(i) \/ Start(i)

Spec == Init /\ [][Next]_<<now, claimedAt, permits, starts>>
=============================================================================
