---------------------------- MODULE MCVpnRoutes ----------------------------
(* Instances of VpnRoutes for TLC; see MCVpnRoutes.cfg and VpnRouteLeak.cfg. *)
EXTENDS VpnRoutes
=============================================================================
