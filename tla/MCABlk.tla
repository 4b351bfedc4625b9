------------------------------- MODULE MCABlk -------------------------------
(* Instances of ABlk for TLC: small rings, counts about to wrap.         *)
EXTENDS ABlk
=============================================================================
