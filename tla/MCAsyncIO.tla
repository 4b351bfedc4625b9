----------------------------- MODULE MCAsyncIO -----------------------------
(* Instances of AsyncIO: the drivers' descriptors are interchangeable. *)
EXTENDS AsyncIO, TLC

FdSymmetry == Permutations(Fds)
=============================================================================
