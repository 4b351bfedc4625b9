---------------------------- MODULE MCMainloop ----------------------------
(* Instances of Mainloop for TLC: two threads, one interrupt line.       *)
EXTENDS Mainloop
===========================================================================
