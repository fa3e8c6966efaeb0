------------------------------ MODULE Transport ------------------------------
(***************************************************************************)
(* One bounded request of ci-admission/index.mjs: requestJson and the      *)
(* reader loop of readBoundedJson.                                         *)
(*                                                                         *)
(* A step is one event of the Node event loop with everything it runs to   *)
(* completion: the timer fires, fetch settles, or the pending read         *)
(* settles.  The peer and fetch are external: they may answer late, never, *)
(* or after the deadline.  `listeners` counts abort listeners installed    *)
(* on the signal, `locked` says a reader holds the body.  The definitions  *)
(* marked "Defect" are no part of the system: the checks put each in the   *)
(* place of the definition after it, to see a property fail.               *)
(***************************************************************************)
EXTENDS Naturals

CONSTANTS
    MaxBytes,    \* MAX_RESPONSE_BYTES
    ChunkSize    \* sizes of the chunks a peer may deliver

ASSUME SizeAssumption == MaxBytes \in Nat /\ ChunkSize \subseteq Nat

VARIABLES
    phase,      \* "fetching", "reading" or "settled"
    timer,      \* the deadline timer: "armed", "fired" or "cleared"
    aborted,    \* controller.signal.aborted
    pending,    \* a read() of the body is outstanding
    size,       \* bytes counted by the loop
    kept,       \* bytes in chunks
    listeners, locked, cancels,
    result,     \* how requestJson settled
    opened,     \* history: a reader was taken on a body
    delivered,  \* history: bytes the peer delivered to the loop
    ended       \* history: the peer ended the body

vars == <<phase, timer, aborted, pending, size, kept, listeners, locked,
          cancels, result, opened, delivered, ended>>

Failure == {"timedOut", "tooLarge", "transport", "badJson"}
Result == {"none", "ok"} \cup Failure

Init ==
    /\ phase = "fetching" /\ timer = "armed" /\ aborted = FALSE
    /\ pending = FALSE /\ size = 0 /\ kept = 0
    /\ listeners = 0 /\ locked = FALSE /\ cancels = 0
    /\ result = "none" /\ opened = FALSE /\ delivered = 0 /\ ended = FALSE

\* requestJson's finally: the timer is cleared on every path.
Settle(r) ==
    /\ phase' = "settled"
    /\ result' = r
    /\ timer' = IF timer = "armed" THEN "cleared" ELSE timer

SettleUncancelled(r) == Settle(r) /\ cancels' = cancels /\ locked' = FALSE

\* The reader's catch and finally: cancel without awaiting it, release the lock.
\* Its `cancelled` flag never matters: the catch runs once.
FailReading(r) == Settle(r) /\ cancels' = cancels + 1 /\ locked' = FALSE

-----------------------------------------------------------------------------
(* fetch *)

\* A response without a body parses as the empty text.
FetchNoBody ==
    /\ phase = "fetching"
    /\ Settle("badJson")
    /\ UNCHANGED <<aborted, pending, size, kept, listeners, locked, cancels,
                   opened, delivered, ended>>

\* A response with a body: a reader is taken and the first readChunk runs.  A
\* response that arrives after the deadline is dropped at once.
FetchBody ==
    /\ phase = "fetching"
    /\ \/ /\ ~aborted
          /\ phase' = "reading"
          /\ locked' = TRUE /\ pending' = TRUE /\ listeners' = listeners + 1
          /\ UNCHANGED <<timer, result, cancels>>
       \/ /\ aborted
          /\ FailReading("timedOut")
          /\ UNCHANGED <<pending, listeners>>
    /\ opened' = TRUE
    /\ UNCHANGED <<aborted, size, kept, delivered, ended>>

FetchRejects ==
    /\ phase = "fetching"
    /\ Settle("transport")
    /\ UNCHANGED <<aborted, pending, size, kept, listeners, locked, cancels,
                   opened, delivered, ended>>

-----------------------------------------------------------------------------
(* the reader loop *)

\* Defect: a chunk's listener outlives its read.
ChunkLeavesListener(n) ==
    /\ phase = "reading" /\ pending
    /\ size + n =< MaxBytes
    /\ delivered' = delivered + n
    /\ size' = size + n
    /\ kept' = kept + n
    /\ listeners' = listeners + 1
    /\ UNCHANGED <<phase, timer, aborted, pending, locked, cancels, result,
                   opened, ended>>

\* Defect: the cap is left to the check of the text.
ReadChunkUncapped(n) ==
    /\ phase = "reading" /\ pending
    /\ delivered' = delivered + n
    /\ size' = size + n
    /\ kept' = kept + n
    /\ UNCHANGED <<phase, timer, aborted, pending, listeners, locked, cancels, result,
                   opened, ended>>

\* A chunk that fits is kept and the next read issued: its listener replaces
\* the one this read removed.
ReadChunk(n) ==
    /\ phase = "reading" /\ pending
    /\ size + n =< MaxBytes
    /\ delivered' = delivered + n
    /\ size' = size + n
    /\ kept' = kept + n
    /\ UNCHANGED <<phase, timer, aborted, pending, listeners, locked, cancels, result,
                   opened, ended>>

\* The cumulative cap: the chunk that exceeds it is not kept and no more is read.
ReadTooMuch(n) ==
    /\ phase = "reading" /\ pending
    /\ size + n > MaxBytes
    /\ delivered' = delivered + n
    /\ size' = size + n
    /\ pending' = FALSE /\ listeners' = listeners - 1
    /\ FailReading("tooLarge")
    /\ UNCHANGED <<aborted, kept, opened, ended>>

\* The end of the body.  The text may fail to parse, as the empty one does, and
\* may exceed the cap once more, because a replacement character takes three bytes; a
\* byte order mark takes three bytes of the body and none of the text.
ReadEnd ==
    /\ phase = "reading" /\ pending
    /\ ended' = TRUE
    /\ pending' = FALSE /\ listeners' = listeners - 1
    /\ \/ kept > 0 /\ kept =< MaxBytes + 3 /\ SettleUncancelled("ok")
       \/ FailReading("badJson")
       \/ 3 * kept > MaxBytes /\ FailReading("tooLarge")
    /\ UNCHANGED <<aborted, size, kept, opened, delivered>>

\* Defect: a failed body is not cancelled.
FailWithoutCancel ==
    /\ phase = "reading" /\ pending
    /\ pending' = FALSE /\ listeners' = listeners - 1
    /\ SettleUncancelled("transport")
    /\ UNCHANGED <<aborted, size, kept, opened, delivered, ended>>

\* Defect: a broken body passes for a complete one.
ErrorTakenAsEnd ==
    /\ phase = "reading" /\ pending
    /\ pending' = FALSE /\ listeners' = listeners - 1
    /\ SettleUncancelled("ok")
    /\ UNCHANGED <<aborted, size, kept, opened, delivered, ended>>

ReadError ==
    /\ phase = "reading" /\ pending
    /\ pending' = FALSE /\ listeners' = listeners - 1
    /\ FailReading("transport")
    /\ UNCHANGED <<aborted, size, kept, opened, delivered, ended>>

\* Defect: a late read settles the request again.
LateReadReported ==
    /\ phase = "settled" /\ pending
    /\ pending' = FALSE
    /\ result' \in {"ok", "transport"}
    /\ UNCHANGED <<phase, timer, aborted, size, kept, listeners, locked, cancels,
                   opened, delivered, ended>>

\* The read that was outstanding when the deadline passed settles: its promise
\* is decided already.
LateRead ==
    /\ phase = "settled" /\ pending
    /\ pending' = FALSE
    /\ UNCHANGED <<phase, timer, aborted, size, kept, listeners, locked, cancels,
                   result, opened, delivered, ended>>

-----------------------------------------------------------------------------
(* the deadline *)

\* While the body is read the abort listener rejects the read itself; before
\* that it is fetch that must react to the signal.
\* Defect: the abort does not interrupt a pending read.
TimerWaitsForPeer ==
    /\ timer = "armed"
    /\ timer' = "fired" /\ aborted' = TRUE
    /\ UNCHANGED <<phase, pending, size, kept, listeners, locked, cancels, result,
                   opened, delivered, ended>>

TimerFires ==
    /\ timer = "armed"
    /\ aborted' = TRUE
    /\ \/ /\ phase = "fetching"
          /\ timer' = "fired"
          /\ UNCHANGED <<phase, result, cancels, locked, listeners>>
       \/ /\ phase = "reading"
          /\ phase' = "settled" /\ result' = "timedOut" /\ timer' = "fired"
          /\ cancels' = cancels + 1 /\ locked' = FALSE
          /\ listeners' = listeners - 1
    /\ UNCHANGED <<pending, size, kept, opened, delivered, ended>>

-----------------------------------------------------------------------------
Next ==
    \/ FetchNoBody \/ FetchBody \/ FetchRejects
    \/ \E n \in ChunkSize : ReadChunk(n) \/ ReadTooMuch(n)
    \/ ReadEnd \/ ReadError \/ LateRead
    \/ TimerFires

Spec == Init /\ [][Next]_vars

-----------------------------------------------------------------------------
TypeOK ==
    /\ phase \in {"fetching", "reading", "settled"}
    /\ timer \in {"armed", "fired", "cleared"}
    /\ aborted \in BOOLEAN /\ pending \in BOOLEAN /\ locked \in BOOLEAN
    /\ opened \in BOOLEAN /\ ended \in BOOLEAN
    /\ size \in Nat /\ kept \in Nat /\ delivered \in Nat
    /\ listeners \in 0..1 /\ cancels \in 0..1
    /\ result \in Result

\* However the peer cuts its answer into chunks, the loop never holds more than
\* the cap.
KeptWithinCap == kept =< MaxBytes

\* A success is the whole body, within the cap: everything delivered is kept, whatever
\* chunks it came in, and the peer had ended it before the deadline.
SuccessIsWhole ==
    result = "ok" => ended /\ kept = delivered /\ delivered =< MaxBytes /\ ~aborted

\* A settled request leaves nothing behind: no armed timer, no abort listener,
\* no lock; and a body whose reading failed was cancelled, once.
SettledIsClean ==
    phase = "settled" =>
        /\ timer # "armed" /\ listeners = 0 /\ ~locked
        /\ cancels = IF opened /\ result # "ok" THEN 1 ELSE 0

\* Whatever still happens to a settled request, its outcome stays.
OutcomeIsFinal == [][phase = "settled" => UNCHANGED <<phase, result, kept, cancels>>]_vars
=============================================================================
