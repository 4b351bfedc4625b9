------------------------------ MODULE MCMTable ------------------------------
(* Two addresses that share a cell; the first one is touched by the user    *)
(* and the supervisor, the second one also maps memory that is not RAM.     *)
EXTENDS MTable, TLC

MCAccesses(e, sv, g) == (sv => e.top = 0) /\ (g = NULL => e.top = 1)

Symmetry == Permutations(Pages) \cup Permutations(Slots) \cup Permutations(Pool)
            \cup Permutations(Tables)

\* The reservation is written before it is read in every insertion.
View == <<vsids, segs, lev2, tables, freeTables, heap, alloced, registered,
          present, hashpte, pc, pb, out,
          IF pc \in {"idle", "reserve"} THEN NULL ELSE reservation,
          pc \in {"fix", "store", "insert"} /\ lost>>
=============================================================================
