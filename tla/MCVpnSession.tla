---------------------------- MODULE MCVpnSession ----------------------------
(***************************************************************************)
(* Instances of VpnSession for TLC.                                        *)
(***************************************************************************)
EXTENDS VpnSession, TLC

CONSTANTS h1, h2

HandlerSymmetry == Permutations({h1, h2})

=============================================================================
