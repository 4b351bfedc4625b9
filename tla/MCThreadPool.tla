---------------------------- MODULE MCThreadPool ----------------------------
(* Instances of ThreadPool for TLC: two callers, three jobs.               *)
EXTENDS ThreadPool

CONSTANTS main, cpu
=============================================================================
