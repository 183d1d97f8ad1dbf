------------------------------ MODULE MCServer ------------------------------
(***************************************************************************)
(* Module Server for TLC, with all calls of the application.  The peers    *)
(* are interchangeable: no definition tells them apart, and the run with   *)
(* this symmetry checks safety only.                                       *)
(***************************************************************************)
EXTENDS Server, TLC

\* The application makes its calls from one thread.
OneCallAtATime == quit.at \in {"idle", "done"} \/ cast.at = "idle"

PeerSymmetry == Permutations(Peers)
=============================================================================
