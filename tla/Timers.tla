------------------------------- MODULE Timers -------------------------------
(***************************************************************************)
(* What the timer interface of include/timer.h promises its clients: a     *)
(* timer fires once for every time it was armed, never before its time,    *)
(* timers fire in the order of their times, and the id of a timer that is  *)
(* gone never names another one.  There is no queue here, only the set of  *)
(* armed timers; TimerQueue implements this.                               *)
(***************************************************************************)
EXTENDS Integers

CONSTANTS Ids                   \* timer ids a client can hold

VARIABLES now,                  \* the timebase
          armed,                \* armed id -> time it is due
          gone,                 \* ids that were freed
          calling               \* the id whose handler runs

vars == <<now, armed, gone, calling>>

Init == now = 0 /\ armed = [i \in {} |-> 0] /\ gone = {} /\ calling = {}

\* A one-shot timer is gone with its call, a periodic one when it is freed.
MayGo(i) == gone' \in {gone, gone \cup {i}}

\* usec_timer, tick_timer, set_ptimer, resume_ptimer
Arm(i, m) ==
  /\ m >= now /\ i \notin gone
  /\ armed' = [j \in DOMAIN armed \cup {i} |-> IF j = i THEN m ELSE armed[j]]
  /\ UNCHANGED <<now, gone, calling>>

\* cancel_timer, pause_ptimer, free_ptimer
Disarm(i) ==
  /\ i \in DOMAIN armed
  /\ armed' = [j \in DOMAIN armed \ {i} |-> armed[j]]
  /\ MayGo(i) /\ UNCHANGED <<now, calling>>

\* The handler of i is called; again says when it is due again, if it is.
Fire(i, again) ==
  /\ calling = {} /\ calling' = {i}
  /\ i \in DOMAIN armed
  /\ armed[i] <= now /\ \A j \in DOMAIN armed : armed[i] <= armed[j]
  /\ \A m \in again : m > now
  /\ armed' = [j \in IF again = {} THEN DOMAIN armed \ {i} ELSE DOMAIN armed |->
                 IF j = i THEN CHOOSE m \in again : TRUE ELSE armed[j]]
  /\ (IF again = {} THEN MayGo(i) ELSE UNCHANGED gone)
  /\ UNCHANGED now

Return == calling # {} /\ calling' = {} /\ UNCHANGED <<now, armed, gone>>

\* free_ptimer of a timer that is not armed
Release(i) ==
  /\ i \notin DOMAIN armed
  /\ gone' = gone \cup {i} /\ UNCHANGED <<now, armed, calling>>

Tick == now' = now + 1 /\ UNCHANGED <<armed, gone, calling>>

\* The debugger stopped the machine for add ticks: timers do not notice.
Freeze(add) ==
  /\ now' = now + add
  /\ armed' = [j \in DOMAIN armed |-> armed[j] + add]
  /\ UNCHANGED <<gone, calling>>

\* The times a step mentions are those of the next state.
Next ==
  \/ \E i \in Ids : \/ i \in DOMAIN armed' /\ Arm(i, armed'[i])
                    \/ Disarm(i) \/ Release(i)
                    \/ Fire(i, {})
                    \/ i \in DOMAIN armed' /\ Fire(i, {armed'[i]})
  \/ Return \/ Tick
  \/ Freeze(now' - now)

Spec == Init /\ [][Next]_vars
=============================================================================
