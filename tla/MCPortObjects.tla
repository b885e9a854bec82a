---------------------------- MODULE MCPortObjects ----------------------------
(***************************************************************************)
(* Instances of PortObjects for TLC.                                       *)
(***************************************************************************)
EXTENDS PortObjects, TLC

=============================================================================
