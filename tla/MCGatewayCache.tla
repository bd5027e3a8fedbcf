-------------------------- MODULE MCGatewayCache ----------------------------
(* Small instances of GatewayCache for TLC: three keys against room for two, *)
(* so that admission, eviction and the subject quota all bite.               *)
EXTENDS GatewayCache, TLC

CONSTANTS k1, k2, k3, s1, s2

MCKeys == {k1, k2, k3}
MCSubjects == {s1, s2}

\* k3 plays the empty key in some runs and is not interchangeable.
MCSymmetry == Permutations({k1, k2}) \cup Permutations(MCSubjects)
=============================================================================
