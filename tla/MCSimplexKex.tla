---------------------------- MODULE MCSimplexKex ----------------------------
(***************************************************************************)
(* SimplexKex for TLC: hosts that differ in the key identity, only in the  *)
(* signature key behind the same identity, or only in the configuration.   *)
(***************************************************************************)
EXTENDS SimplexKex

CONSTANTS k1, k2, v1, v2, c1, c2

MCIdentities ==
  {[kid |-> k1, ver |-> v1, cfg |-> c1], [kid |-> k2, ver |-> v2, cfg |-> c1],
   [kid |-> k1, ver |-> v2, cfg |-> c1], [kid |-> k1, ver |-> v1, cfg |-> c2]}
=============================================================================
