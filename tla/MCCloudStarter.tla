--------------------------- MODULE MCCloudStarter ---------------------------
(* A small world for CloudStarter. *)
EXTENDS CloudStarter, TLC

CONSTANTS s1, s2

\* One clock is behind by as much as a request can take, one by more.
ClockSkew == (s1 :> -1) @@ (s2 :> -2)

\* A starter that tries again, and another one.
Calls == (s1 :> 2) @@ (s2 :> 1)

IntentSymmetry == Permutations(Intent)
=============================================================================
