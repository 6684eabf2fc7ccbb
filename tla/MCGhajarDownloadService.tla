----------------------- MODULE MCGhajarDownloadService -----------------------
(***************************************************************************)
(* Instances of GhajarDownloadService for TLC.                             *)
(***************************************************************************)
EXTENDS GhajarDownloadService

(***************************************************************************)
(* Behaviours are followed until they are disturbed: what the properties   *)
(* say of the others is proved in GhajarDownloadServiceProofs.             *)
(***************************************************************************)
Undisturbed == ~disturbed

=============================================================================
