------------------------------- MODULE MCCuda -------------------------------
(* Instances of Cuda for TLC. *)
EXTENDS Cuda
=============================================================================
