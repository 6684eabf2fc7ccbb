---------------------------- MODULE MCIkeSession ----------------------------
(***************************************************************************)
(* Instances of IkeSession for TLC.                                        *)
(***************************************************************************)
EXTENDS IkeSession

=============================================================================
