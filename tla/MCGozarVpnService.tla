------------------------- MODULE MCGozarVpnService -------------------------
(***************************************************************************)
(* Instances of GozarVpnService for TLC.                                   *)
(***************************************************************************)
EXTENDS GozarVpnService

=============================================================================
