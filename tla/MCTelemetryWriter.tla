------------------------- MODULE MCTelemetryWriter -------------------------
(* Two emitters for TelemetryWriter. *)
EXTENDS TelemetryWriter, TLC

CONSTANTS e1, e2, d1, d2, payload, envelope

Write(d, b, k) == [dir |-> d, base |-> b, kind |-> k]

\* emit-ci-phase writes its payload and envelope to one directory, and appends
\* its line to a file of the same name in another; an emitter beside it shares
\* the envelope and the line's file.
Plans ==
    (e1 :> <<Write(d1, payload, "replace"), Write(d1, envelope, "replace"),
             Write(d2, payload, "append")>>)
    @@ (e2 :> <<Write(d1, envelope, "replace"), Write(d2, payload, "append")>>)
=============================================================================
