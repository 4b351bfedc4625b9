---------------------------- MODULE MCTimerQueue ----------------------------
(* Instances of TimerQueue: user slots are interchangeable. *)
EXTENDS TimerQueue, TLC

SlotSymmetry == Permutations(Slots)

\* A timer whose time has passed fires or is taken off the queue.  It does not
\* hold: see Blocked.
DueAlwaysFires ==
  \A t \in Slots, m \in 0..MaxNow :
    (t \in Active /\ mark[t] = m /\ m < now) ~> (t \notin Active \/ mark[t] # m)
=============================================================================
