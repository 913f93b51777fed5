----------------------------- MODULE MCVpnLinks -----------------------------
(* Instances of VpnLinks for TLC.  The safety run may exchange the request   *)
(* tasks, which differ in nothing; the liveness run does not.                *)
EXTENDS VpnLinks, TLC
Symmetry == Permutations(Tasks)
=============================================================================
