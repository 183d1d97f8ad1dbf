---------------------------- MODULE MCDuplexKex -----------------------------
(***************************************************************************)
(* DuplexKex for TLC: listeners that differ in their key, or only in their *)
(* configuration.                                                          *)
(***************************************************************************)
EXTENDS DuplexKex

CONSTANTS k1, k2, v1, v2, c1, c2

MCIdentities ==
  {[kid |-> k1, ver |-> v1, cfg |-> c1], [kid |-> k2, ver |-> v2, cfg |-> c1],
   [kid |-> k1, ver |-> v1, cfg |-> c2]}
=============================================================================
