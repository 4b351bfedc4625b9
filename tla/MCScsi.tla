------------------------------- MODULE MCScsi -------------------------------
(* Instances of Scsi for TLC. *)
EXTENDS Scsi
=============================================================================
