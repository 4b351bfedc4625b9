---------------------------- MODULE Sound_proofs ----------------------------
(***************************************************************************)
(* The safety of the sound device, for every ring, buffer and set of modes. *)
(* The invariant is split: what the calls under way say about ss.started   *)
(* and ss.thread_running (Control), what the thread's place says about     *)
(* them and the lock (Thread), and on top of these the device, the         *)
(* interrupt and the choice of an engine.  A lemma shows that every step   *)
(* keeps one part.                                                         *)
(***************************************************************************)
EXTENDS Sound, TLAPS

\* the calls the main thread may still have to make
Scripts == {<<>>, <<"stop">>, <<"start">>, <<"cleanup">>, <<"write">>, <<"stop", "start">>,
            <<"stop", "cleanup">>, <<"write", "stop">>, <<"start", "stop">>,
            <<BoingMode, "start", "stop">>, <<"ring">>}
           \cup {<<m>> : m \in Modes} \cup {<<m, "ring">> : m \in Modes}

\* the places at which the audio thread holds ss.lock
Held == {"ring", "check", "copied", "go", "exit", "closed", "fault"}

\* ss.started and ss.thread_running differ only inside a stop or a start, and
\* while a stopped thread drains.
Control ==
  /\ todo \in Scripts /\ at \in 0..2
  /\ started \in BOOLEAN /\ running \in -1..2
  /\ at # 0 => Call("stop") \/ Call("start") \/ Call("write")
  /\ (started /\ ~(Call("start") /\ at # 0)) => running > 0
  /\ (Call("stop") /\ at # 0) => ~started /\ running > 0
  /\ (Call("start") /\ at # 0) => started /\ running <= 0
  /\ running > 0 => started \/ (Call("stop") /\ at = 1)
  /\ Call("write") => started
  /\ down => todo = <<>> /\ ~started

\* ss.lock is the thread's at its locked places, and a thread that has seen
\* the stop still finds ss.thread_running negative.
Thread ==
  /\ apc \in Held \cup {"none", "start", "written", "writing"}
  /\ lock = IF apc \in Held THEN "audio" ELSE NULL
  /\ running = 0 <=> apc = "none"
  /\ apc \in {"exit", "closed"} => running = -1

\* The output is open while the thread plays, unless nosound_open refused the
\* mode, and not when there is none.
Device ==
  /\ dev \in {"closed", "open"}
  /\ ops = "nosound" => dev = "closed"
  /\ Playing => dev = "open" \/ ops = "nosound" \/ mode \notin NosoundModes
  /\ apc \in {"none", "closed"} => dev = "closed"
  /\ down => apc = "none"

\* The OS X driver never writes, so dbuf_go stays clear once it has a thread.
Quiet ==
  /\ irq \in BOOLEAN /\ go \in BOOLEAN
  /\ kind = "osx" => ~Call("write") /\ (apc # "none" => ~go)
  /\ QuietAfterStop

\* the calls that set the ring up
Ringing == {<<"ring">>} \cup {<<m, "ring">> : m \in Modes}

\* The ring engine has a ring; the Mac OS driver never sets one up.
Engine ==
  /\ apc \in {"ring", "written"} => ringbuf
  /\ todo \in Ringing => kind = "osx"
  /\ kind = "classic" => ~ringbuf

\* what is left to do of the startup sound, up to its start
Booting == {<<BoingMode, "start", "stop">>, <<"start", "stop">>}

\* the calls that are made before an OS X driver has set the ring up
Settled == {<<>>, <<"stop">>, <<"cleanup">>, <<"stop", "cleanup">>, <<"ring">>}
           \cup Booting \cup {<<m, "ring">> : m \in Modes}

\* The startup sound is started in no other mode than its own.  Before the OS X
\* driver has set the ring up there is no other thread, and while that thread
\* lives set_mode leaves the mode alone.
Waits ==
  /\ TakenOver => mode = BoingMode
  /\ todo \in Booting => mode \in {BoingMode, NULL}
  /\ (Call("start") /\ at # 0) => mode # NULL
  /\ (kind = "osx" /\ ~ringbuf) =>
       todo \in Settled /\ (apc # "none" => mode = BoingMode)

\* first element and rest of the short sequences that todo ranges over
LEMMA Tuples ==
  /\ \A a : Tail(<<a>>) = <<>> /\ <<a>>[1] = a /\ <<a>> # <<>>
  /\ \A a, b : Tail(<<a, b>>) = <<b>> /\ <<a, b>>[1] = a /\ <<a, b>> # <<>>
  /\ \A a, b, c : Tail(<<a, b, c>>) = <<b, c>> /\ <<a, b, c>>[1] = a /\ <<a, b, c>> # <<>>
OBVIOUS

\* What is left to do after stop_sound, and after each of the other calls.
LEMMA StopTail ==
  ASSUME todo \in Scripts, Call("stop")
  PROVE  Tail(todo) \in {<<>>, <<"start">>, <<"cleanup">>}
<1>1. todo \in {<<"stop">>, <<"stop", "start">>, <<"stop", "cleanup">>}
  BY SoundAssumption, Tuples DEF Scripts, Call, SoundAssumption
<1> QED BY <1>1, Tuples, ZenonT(40)

\* A step of stop_sound leaves no osip_sound_write to do.
LEMMA StopNoWrite ==
  ASSUME todo \in Scripts, Call("stop"), todo' = todo \/ todo' = Tail(todo)
  PROVE  ~Call("write")'
<1>1. CASE todo' = todo
  BY <1>1 DEF Call
<1>2. CASE todo' = Tail(todo)
  <2>1. todo' \in {<<>>, <<"start">>, <<"cleanup">>}
    BY <1>2, StopTail
  <2> QED BY <2>1, Tuples DEF Call
<1> QED BY <1>1, <1>2

\* after start_sound
LEMMA StartTail ==
  ASSUME todo \in Scripts, Call("start")
  PROVE  Tail(todo) \in {<<>>, <<"stop">>}
<1>1. todo \in {<<"start">>, <<"start", "stop">>}
  BY SoundAssumption, Tuples DEF Scripts, Call, SoundAssumption
<1> QED BY <1>1, Tuples, Zenon

\* A step of start_sound leaves no osip_sound_write to do.
LEMMA StartNoWrite ==
  ASSUME todo \in Scripts, Call("start"), todo' = todo \/ todo' = Tail(todo)
  PROVE  ~Call("write")' /\ ~Call("stop")
<1>1. CASE todo' = todo
  BY <1>1 DEF Call
<1>2. CASE todo' = Tail(todo)
  <2>1. todo' \in {<<>>, <<"stop">>}
    BY <1>2, StartTail
  <2> QED BY <2>1, Tuples DEF Call
<1> QED BY <1>1, <1>2

\* after osip_sound_write
LEMMA WriteTail ==
  ASSUME todo \in Scripts, Call("write")
  PROVE  Tail(todo) \in {<<>>, <<"stop">>}
<1>1. todo \in {<<"write">>, <<"write", "stop">>}
  BY SoundAssumption, Tuples DEF Scripts, Call, SoundAssumption
<1> QED BY <1>1, Tuples, Zenon

\* after osi_sound_cleanup
LEMMA CleanupTail ==
  ASSUME todo \in Scripts, Call("cleanup")
  PROVE  Tail(todo) = <<>>
<1>1. todo = <<"cleanup">>
  BY SoundAssumption, Tuples DEF Scripts, Call, SoundAssumption
<1> QED BY <1>1, Tuples

\* after set_mode
LEMMA ModeTail ==
  ASSUME todo \in Scripts, NEW m \in Modes \cup {BoingMode}, Call(m)
  PROVE  \/ Tail(todo) = <<>> \/ (todo \in Ringing /\ Tail(todo) = <<"ring">>)
         \/ todo \in Booting /\ Tail(todo) = <<"start", "stop">> /\ m = BoingMode
<1>1. CASE todo = <<BoingMode, "start", "stop">>
  BY <1>1, Tuples DEF Booting, Call
<1>2. CASE \E n \in Modes : todo = <<n>> \/ todo = <<n, "ring">>
  BY <1>2, Tuples, Zenon DEF Ringing
<1>3. \/ todo = <<BoingMode, "start", "stop">>
      \/ \E n \in Modes : todo = <<n>> \/ todo = <<n, "ring">>
  BY SoundAssumption, Tuples DEF Scripts, Call, SoundAssumption
<1> QED BY <1>1, <1>2, <1>3

\* after kSoundSetupRing
LEMMA RingTail ==
  ASSUME todo \in Scripts, Call("ring")
  PROVE  Tail(todo) = <<>>
<1>1. todo = <<"ring">>
  BY SoundAssumption, Tuples DEF Scripts, Call, SoundAssumption
<1> QED BY <1>1, Tuples

\* The call that sets the ring up is one of those that do.
LEMMA RingCall ==
  ASSUME todo \in Scripts, Call("ring")
  PROVE  todo \in Ringing
BY SoundAssumption, Tuples DEF Scripts, Ringing, Call, SoundAssumption

\* The other scripts do not set the ring up.
LEMMA NoRing ==
  \A s \in {<<>>, <<"stop">>, <<"start">>, <<"cleanup">>, <<"write">>, <<"stop", "start">>,
            <<"stop", "cleanup">>, <<"write", "stop">>, <<"start", "stop">>} : s \notin Ringing
BY SoundAssumption, Tuples DEF Ringing, SoundAssumption

\* The other scripts do not start the startup sound.
LEMMA NoBoot ==
  /\ \A s \in {<<>>, <<"stop">>, <<"start">>, <<"cleanup">>, <<"write">>, <<"stop", "start">>,
               <<"stop", "cleanup">>, <<"write", "stop">>, <<"ring">>} : s \notin Booting
  /\ \A m \in Modes : <<m>> \notin Booting /\ <<m, "ring">> \notin Booting
<1>1. /\ <<"start">> # <<"start", "stop">>
      /\ BoingMode \notin {"stop", "start", "cleanup", "write", "ring"}
      /\ \A m \in Modes : m # "start"
  BY SoundAssumption, Tuples DEF SoundAssumption
<1>2. \A m \in Modes : <<m>> # <<BoingMode, "start", "stop">>
                      /\ <<m, "ring">> # <<BoingMode, "start", "stop">>
  OBVIOUS
<1> QED BY <1>1, <1>2, Tuples DEF Booting

\* the calls that may follow one another before the ring is set up
LEMMA SettledHas ==
  /\ {<<>>, <<"stop">>, <<"cleanup">>, <<"stop", "cleanup">>, <<"ring">>,
      <<"start", "stop">>} \subseteq Settled
  /\ \A m \in Modes : <<m, "ring">> \in Settled
BY Zenon DEF Settled, Booting

\* A start_sound that comes before the ring is that of the startup sound.
LEMMA StartBoots ==
  ASSUME todo \in Settled, Call("start")
  PROVE  todo = <<"start", "stop">> /\ todo \in Booting
BY SoundAssumption, Tuples DEF Settled, Booting, Call, SoundAssumption

\* after a set_mode that comes before the ring
LEMMA SettledMode ==
  ASSUME todo \in Settled, NEW m \in Modes \cup {BoingMode}, Call(m)
  PROVE  Tail(todo) \in {<<"ring">>, <<"start", "stop">>}
<1>1. CASE todo = <<BoingMode, "start", "stop">>
  BY <1>1, Tuples
<1>2. CASE \E n \in Modes : todo = <<n, "ring">>
  BY <1>2, Tuples
<1>3. \/ todo = <<BoingMode, "start", "stop">>
      \/ \E n \in Modes : todo = <<n, "ring">>
  BY SoundAssumption, Tuples DEF Settled, Booting, Call, SoundAssumption
<1> QED BY <1>1, <1>2, <1>3

\* after a stop_sound that comes before the ring
LEMMA SettledTail ==
  ASSUME todo \in Settled, Call("stop")
  PROVE  Tail(todo) \in {<<>>, <<"cleanup">>}
<1>1. todo \in {<<"stop">>, <<"stop", "cleanup">>}
  BY SoundAssumption, Tuples DEF Settled, Booting, Call, SoundAssumption
<1> QED BY <1>1, Tuples, Zenon

-----------------------------------------------------------------------------
\* Every step keeps the agreement of ss.started, ss.thread_running and the calls.
LEMMA CallsKept ==
  ASSUME Control, Thread, [Next]_vars PROVE Control'
<1> USE DEF Control, Thread, Held, Call, Free, audio, device, dbuf
<1>1. CASE SetFormat
  BY <1>1, SoundAssumption, Tuples DEF SetFormat, Idle, Does, GuestUnchanged, SoundAssumption,
     Scripts
<1>2. CASE SetupRing
  <2>1. todo' = <<>> /\ at' = 0 /\ UNCHANGED <<started, running, down>>
    BY <1>2, RingTail DEF SetupRing, Done
  <2>2. todo' \in Scripts
    BY <2>1, Zenon DEF Scripts
  <2>3. ~Call("start") /\ ~Call("stop") /\ todo # <<>>
    BY <1>2 DEF SetupRing
  <2> QED BY <2>1, <2>2, <2>3
<1>3. CASE StartStop
  <2>1. todo' \in {<<"stop", "start">>, <<"stop">>, <<"start">>} /\ at' = 0
    BY <1>3 DEF StartStop, Does
  <2>2. todo' \in Scripts /\ ~Call("write")'
    BY <2>1, Tuples DEF Scripts
  <2>3. UNCHANGED <<started, running, lock, apc, down>> /\ ~down
    BY <1>3 DEF StartStop, Idle, GuestUnchanged
  <2>4. ~(Call("stop") /\ at # 0) /\ ~(Call("start") /\ at # 0) /\ ~(Call("write") /\ at # 0)
    BY <1>3 DEF StartStop, Idle
  <2> QED BY <2>1, <2>2, <2>3, <2>4
<1>4. CASE ResumePause
  BY <1>4 DEF ResumePause, Idle, GuestUnchanged
<1>5. CASE Interrupt
  BY <1>5, Tuples DEF Interrupt, Idle, Does, GuestUnchanged, Scripts
<1>6. CASE Shutdown
  BY <1>6, Tuples DEF Shutdown, Idle, Does, GuestUnchanged, Scripts
<1>7. CASE stop_sound
  <2> USE Tuples DEF Scripts
  <2>1. CASE at = 0 /\ ~started
    <3>a. todo' = Tail(todo) /\ at' = 0
      BY <1>7, <2>1 DEF stop_sound, Done
    <3>b. todo \in Scripts /\ Call("stop")
      BY <1>7, Zenon DEF stop_sound
    <3>1. todo' \in {<<>>, <<"start">>, <<"cleanup">>} /\ at' = 0
      BY <3>a, <3>b, StopTail, Zenon
    <3> QED BY <1>7, <2>1, <3>1 DEF stop_sound
  <2>2. CASE at = 0 /\ started
    <3>1. todo' = todo /\ at' = 1 /\ started' = FALSE /\ running' = running /\ down' = down
      BY <1>7, <2>2 DEF stop_sound
    <3>2. running > 0 /\ Call("stop") /\ todo # <<>> /\ ~down
      BY <1>7, <2>2 DEF stop_sound
    <3>3. ~Call("start") /\ ~Call("write")
      BY <3>2
    <3>a. todo' \in Scripts /\ started' \in BOOLEAN /\ running' \in -1..2
      BY <3>1, Zenon
    <3>b. at' \in 0..2
      BY <3>1
    <3>4. todo' \in Scripts /\ at' \in 0..2 /\ started' \in BOOLEAN /\ running' \in -1..2
      BY <3>a, <3>b, Zenon
    <3>5. Call("stop")' /\ ~Call("start")' /\ ~Call("write")' /\ running' > 0 /\ ~down'
      BY <3>1, <3>2, <3>3
    <3> QED BY <3>1, <3>4, <3>5
  <2>3. CASE at = 1
    <3>a. todo' = Tail(todo) /\ at' = 0
      BY <1>7, <2>3 DEF stop_sound, Done
    <3>b. todo \in Scripts /\ Call("stop")
      BY <1>7, Zenon DEF stop_sound
    <3>1. todo' \in {<<>>, <<"start">>, <<"cleanup">>} /\ at' = 0
      BY <3>a, <3>b, StopTail, Zenon
    <3> QED BY <1>7, <2>3, <3>1 DEF stop_sound
  <2> QED BY <1>7, <2>1, <2>2, <2>3 DEF stop_sound
<1>8. CASE start_sound
  <2> USE Tuples DEF Scripts
  <2>1. CASE at = 0 /\ (started \/ mode = NULL)
    <3>a. todo' = Tail(todo) /\ at' = 0
      BY <1>8, <2>1 DEF start_sound, Done
    <3>b. todo \in Scripts /\ Call("start")
      BY <1>8, Zenon DEF start_sound
    <3>1. todo' \in {<<>>, <<"stop">>} /\ at' = 0
      BY <3>a, <3>b, StartTail, Zenon
    <3> QED BY <1>8, <2>1, <3>1 DEF start_sound
  <2>2. CASE at = 0 /\ ~(started \/ mode = NULL)
    <3>1. todo' = todo /\ at' = 1 /\ started' /\ running' = running /\ down' = down
      BY <1>8, <2>2 DEF start_sound
    <3>2. running <= 0 /\ Call("start") /\ todo # <<>> /\ ~down
      BY <1>8, <2>2 DEF start_sound
    <3>3. ~Call("stop") /\ ~Call("write")
      BY <3>2
    <3> QED BY <1>8, <2>2, <3>1, <3>2, <3>3 DEF start_sound
  <2>3. CASE at = 1
    <3>a. todo' = Tail(todo) /\ at' = 0
      BY <1>8, <2>3 DEF start_sound, Done
    <3>b. todo \in Scripts /\ Call("start")
      BY <1>8, Zenon DEF start_sound
    <3>1. todo' \in {<<>>, <<"stop">>} /\ at' = 0
      BY <3>a, <3>b, StartTail, Zenon
    <3>2. started' = started /\ started /\ running' \in {1, 2} /\ down' = down
      BY <1>8, <2>3 DEF start_sound, TakesOver
    <3> QED BY <1>8, <2>3, <3>1, <3>2 DEF start_sound
  <2> QED BY <1>8, <2>1, <2>2, <2>3 DEF start_sound
<1>9. CASE osi_sound_cleanup
  BY <1>9, CleanupTail DEF osi_sound_cleanup, Done, Stopped, Scripts
<1>10. CASE osip_sound_write
  <2> USE Tuples DEF Scripts
  <2>1. CASE at = 2
    <3>a. todo' = Tail(todo) /\ at' = 0
      BY <1>10, <2>1 DEF osip_sound_write, Done
    <3>b. todo \in Scripts /\ Call("write")
      BY <1>10, Zenon DEF osip_sound_write
    <3>1. todo' \in {<<>>, <<"stop">>} /\ at' = 0
      BY <3>a, <3>b, WriteTail, Zenon
    <3> QED BY <1>10, <2>1, <3>1 DEF osip_sound_write
  <2>2. CASE at # 2
    BY <1>10, <2>2 DEF osip_sound_write
  <2> QED BY <2>1, <2>2
<1>11. ASSUME NEW m \in Modes \cup {BoingMode}, set_mode(m) PROVE Control'
  <2>1. todo' = Tail(todo) /\ at' = 0 /\ Call(m)
    BY <1>11 DEF set_mode, Done
  <2>2. todo' \in {<<>>, <<"ring">>, <<"start", "stop">>}
    BY <2>1, ModeTail, Zenon
  <2>3. started' = started /\ running' = running /\ down' = down
    BY <1>11 DEF set_mode
  <2>4. ~Call("stop") /\ ~Call("start") /\ todo # <<>>
    BY <2>1, SoundAssumption, Zenon DEF SoundAssumption
  <2>5. ~Call("write")' /\ todo' \in Scripts
    BY <2>2, Tuples DEF Scripts
  <2> QED BY <2>1, <2>3, <2>4, <2>5
<1>12. CASE audio_thread
  BY <1>12 DEF audio_thread, MainUnchanged
<1>13. CASE RingWrite
  BY <1>13 DEF RingWrite, MainUnchanged
<1>14. CASE RingNext
  BY <1>14 DEF RingNext, Restarted, StoppedMeanwhile, LastFrag, MainUnchanged
<1>15. CASE DbufCheck
  BY <1>15 DEF DbufCheck, Leaves, Portion, Min, DbufUnchanged, MainUnchanged
<1>16. CASE DbufAdvance
  BY <1>16 DEF DbufAdvance, DbufUnchanged, MainUnchanged
<1>17. CASE DbufGo
  BY <1>17 DEF DbufGo, DbufUnchanged, MainUnchanged
<1>18. CASE DbufWritten
  BY <1>18 DEF DbufWritten, DbufUnchanged, MainUnchanged
<1>19. CASE AudioClose
  BY <1>19 DEF AudioClose, Close, MainUnchanged
<1>20. CASE AudioExit
  BY <1>20 DEF AudioExit, MainUnchanged
<1>21. CASE UNCHANGED vars
  BY <1>21 DEF vars
<1>22. CASE InitHardware
  BY <1>22, SoundAssumption, Tuples DEF InitHardware, Idle, Does, GuestUnchanged,
     SoundAssumption, Scripts
<1> QED BY <1>1, <1>2, <1>3, <1>4, <1>5, <1>6, <1>7, <1>8, <1>9, <1>10, <1>11, <1>12, <1>13,
   <1>14, <1>15, <1>16, <1>17, <1>18, <1>19, <1>20, <1>21, <1>22, Zenon
   DEF Next, Guest, Main, Audio

\* Every step keeps the agreement of the thread, the lock and ss.thread_running.
LEMMA ThreadsKept ==
  ASSUME Control, Thread, [Next]_vars PROVE Thread'
<1> USE DEF Control, Thread, Held, Call, Free, audio, device, dbuf
<1>1. CASE SetFormat
  BY <1>1 DEF SetFormat, Idle, Does, GuestUnchanged
<1>2. CASE SetupRing
  BY <1>2, RingTail DEF SetupRing, Done
<1>3. CASE StartStop
  BY <1>3 DEF StartStop, Idle, Does, GuestUnchanged
<1>4. CASE ResumePause
  BY <1>4 DEF ResumePause, Idle, GuestUnchanged
<1>5. CASE Interrupt
  BY <1>5 DEF Interrupt, Idle, Does, GuestUnchanged
<1>6. CASE Shutdown
  BY <1>6 DEF Shutdown, Idle, Does, GuestUnchanged
<1>7. CASE stop_sound
  BY <1>7, StopTail DEF stop_sound, Done
<1>8. CASE start_sound
  BY <1>8, SoundAssumption DEF start_sound, Done, TakesOver, Open, SoundAssumption
<1>9. CASE osi_sound_cleanup
  BY <1>9, CleanupTail DEF osi_sound_cleanup, Done, Stopped
<1>10. CASE osip_sound_write
  BY <1>10, WriteTail DEF osip_sound_write, Done
<1>11. ASSUME NEW m \in Modes \cup {BoingMode}, set_mode(m) PROVE Thread'
  BY <1>11, ModeTail DEF set_mode, Done, SameMode
<1>12. CASE audio_thread
  BY <1>12 DEF audio_thread, MainUnchanged
<1>13. CASE RingWrite
  BY <1>13 DEF RingWrite, MainUnchanged
<1>14. CASE RingNext
  BY <1>14 DEF RingNext, Restarted, StoppedMeanwhile, LastFrag, MainUnchanged
<1>15. CASE DbufCheck
  BY <1>15 DEF DbufCheck, Leaves, Portion, Min, DbufUnchanged, MainUnchanged
<1>16. CASE DbufAdvance
  BY <1>16 DEF DbufAdvance, DbufUnchanged, MainUnchanged
<1>17. CASE DbufGo
  BY <1>17 DEF DbufGo, DbufUnchanged, MainUnchanged
<1>18. CASE DbufWritten
  BY <1>18 DEF DbufWritten, DbufUnchanged, MainUnchanged
<1>19. CASE AudioClose
  BY <1>19 DEF AudioClose, Close, MainUnchanged
<1>20. CASE AudioExit
  BY <1>20 DEF AudioExit, MainUnchanged
<1>21. CASE UNCHANGED vars
  BY <1>21 DEF vars
<1>22. CASE InitHardware
  BY <1>22 DEF InitHardware, Idle, Does, GuestUnchanged
<1> QED BY <1>1, <1>2, <1>3, <1>4, <1>5, <1>6, <1>7, <1>8, <1>9, <1>10, <1>11, <1>12, <1>13,
   <1>14, <1>15, <1>16, <1>17, <1>18, <1>19, <1>20, <1>21, <1>22, Zenon
   DEF Next, Guest, Main, Audio

\* Every step keeps the output open exactly for a playing thread.
LEMMA DevicesKept ==
  ASSUME Control, Thread, Device, [Next]_vars PROVE Device'
<1> USE DEF Control, Thread, Device, Held, Call, Free, Playing, audio, device, dbuf
<1>1. CASE SetFormat
  BY <1>1 DEF SetFormat, Idle, Does, GuestUnchanged
<1>2. CASE SetupRing
  BY <1>2, RingTail DEF SetupRing, Done
<1>3. CASE StartStop
  BY <1>3 DEF StartStop, Idle, Does, GuestUnchanged
<1>4. CASE ResumePause
  BY <1>4 DEF ResumePause, Idle, GuestUnchanged
<1>5. CASE Interrupt
  BY <1>5 DEF Interrupt, Idle, Does, GuestUnchanged
<1>6. CASE Shutdown
  BY <1>6 DEF Shutdown, Idle, Does, GuestUnchanged
<1>7. CASE stop_sound
  BY <1>7, StopTail DEF stop_sound, Done
<1>8. CASE start_sound
  BY <1>8, StartTail DEF start_sound, Done, TakesOver, Open
<1>9. CASE osi_sound_cleanup
  BY <1>9, CleanupTail DEF osi_sound_cleanup, Done, Stopped
<1>10. CASE osip_sound_write
  BY <1>10, WriteTail DEF osip_sound_write, Done
<1>11. ASSUME NEW m \in Modes \cup {BoingMode}, set_mode(m) PROVE Device'
  <2>1. UNCHANGED <<device, audio, running, down>>
    BY <1>11 DEF set_mode
  <2>2. mode' = mode \/ (~started /\ running >= 0)
    BY <1>11 DEF set_mode, Stopped
  <2>3. ~Call("stop")
    BY <1>11, SoundAssumption DEF set_mode, SoundAssumption
  <2>4. mode' = mode \/ apc = "none"
    BY <2>2, <2>3
  <2> QED BY <2>1, <2>4
<1>12. CASE audio_thread
  BY <1>12 DEF audio_thread, MainUnchanged
<1>13. CASE RingWrite
  BY <1>13 DEF RingWrite, MainUnchanged
<1>14. CASE RingNext
  BY <1>14 DEF RingNext, Restarted, StoppedMeanwhile, LastFrag, MainUnchanged
<1>15. CASE DbufCheck
  BY <1>15 DEF DbufCheck, Leaves, Portion, Min, DbufUnchanged, MainUnchanged
<1>16. CASE DbufAdvance
  BY <1>16 DEF DbufAdvance, DbufUnchanged, MainUnchanged
<1>17. CASE DbufGo
  BY <1>17 DEF DbufGo, DbufUnchanged, MainUnchanged
<1>18. CASE DbufWritten
  BY <1>18 DEF DbufWritten, DbufUnchanged, MainUnchanged
<1>19. CASE AudioClose
  BY <1>19 DEF AudioClose, Close, MainUnchanged
<1>20. CASE AudioExit
  BY <1>20 DEF AudioExit, MainUnchanged
<1>21. CASE UNCHANGED vars
  BY <1>21 DEF vars
<1>22. CASE InitHardware
  BY <1>22 DEF InitHardware, Idle, Does, GuestUnchanged
<1> QED BY <1>1, <1>2, <1>3, <1>4, <1>5, <1>6, <1>7, <1>8, <1>9, <1>10, <1>11, <1>12, <1>13,
   <1>14, <1>15, <1>16, <1>17, <1>18, <1>19, <1>20, <1>21, <1>22, Zenon
   DEF Next, Guest, Main, Audio

\* Every step keeps ringind at 0 for a sound that is about to start.
LEMMA FirstsKept ==
  ASSUME Control, Thread, RestartFromFirst, [Next]_vars PROVE RestartFromFirst'
<1> USE DEF Control, Thread, RestartFromFirst, Held, Call, Free, audio, device, dbuf
<1>1. CASE SetFormat
  BY <1>1 DEF SetFormat, Idle, Does, GuestUnchanged
<1>2. CASE SetupRing
  BY <1>2, RingTail DEF SetupRing, Done
<1>3. CASE StartStop
  BY <1>3 DEF StartStop, Idle, Does, GuestUnchanged
<1>4. CASE ResumePause
  BY <1>4 DEF ResumePause, Idle, GuestUnchanged
<1>5. CASE Interrupt
  BY <1>5 DEF Interrupt, Idle, Does, GuestUnchanged
<1>6. CASE Shutdown
  BY <1>6 DEF Shutdown, Idle, Does, GuestUnchanged
<1>7. CASE stop_sound
  BY <1>7, StopTail DEF stop_sound, Done
<1>8. CASE start_sound
  BY <1>8, StartTail DEF start_sound, Done, TakesOver, Open
<1>9. CASE osi_sound_cleanup
  BY <1>9, CleanupTail DEF osi_sound_cleanup, Done, Stopped
<1>10. CASE osip_sound_write
  BY <1>10, WriteTail DEF osip_sound_write, Done
<1>11. ASSUME NEW m \in Modes \cup {BoingMode}, set_mode(m) PROVE RestartFromFirst'
  BY <1>11, ModeTail DEF set_mode, Done, SameMode
<1>12. CASE audio_thread
  BY <1>12 DEF audio_thread, MainUnchanged
<1>13. CASE RingWrite
  BY <1>13 DEF RingWrite, MainUnchanged
<1>14. CASE RingNext
  BY <1>14 DEF RingNext, Restarted, StoppedMeanwhile, LastFrag, MainUnchanged
<1>15. CASE DbufCheck
  BY <1>15 DEF DbufCheck, Leaves, Portion, Min, DbufUnchanged, MainUnchanged
<1>16. CASE DbufAdvance
  BY <1>16 DEF DbufAdvance, DbufUnchanged, MainUnchanged
<1>17. CASE DbufGo
  BY <1>17 DEF DbufGo, DbufUnchanged, MainUnchanged
<1>18. CASE DbufWritten
  BY <1>18 DEF DbufWritten, DbufUnchanged, MainUnchanged
<1>19. CASE AudioClose
  BY <1>19 DEF AudioClose, Close, MainUnchanged
<1>20. CASE AudioExit
  BY <1>20 DEF AudioExit, MainUnchanged
<1>21. CASE UNCHANGED vars
  BY <1>21 DEF vars
<1>22. CASE InitHardware
  BY <1>22 DEF InitHardware, Idle, Does, GuestUnchanged
<1> QED BY <1>1, <1>2, <1>3, <1>4, <1>5, <1>6, <1>7, <1>8, <1>9, <1>10, <1>11, <1>12, <1>13,
   <1>14, <1>15, <1>16, <1>17, <1>18, <1>19, <1>20, <1>21, <1>22, Zenon
   DEF Next, Guest, Main, Audio

\* Every step keeps the interrupt low for a stopped ring.
LEMMA QuietsKept ==
  ASSUME Control, Thread, Quiet, [Next]_vars PROVE Quiet'
<1> USE DEF Control, Thread, Quiet, Held, Call, Free, QuietAfterStop, audio, device, dbuf
<1>1. CASE SetFormat
  BY <1>1, SoundAssumption, Tuples DEF SetFormat, Idle, Does, GuestUnchanged, SoundAssumption
<1>2. CASE SetupRing
  BY <1>2, RingTail DEF SetupRing, Done
<1>3. CASE StartStop
  BY <1>3 DEF StartStop, Idle, Does, GuestUnchanged
<1>4. CASE ResumePause
  BY <1>4 DEF ResumePause, Idle, GuestUnchanged
<1>5. CASE Interrupt
  BY <1>5, Zenon DEF Interrupt, Idle, Does, GuestUnchanged
<1>6. CASE Shutdown
  BY <1>6 DEF Shutdown, Idle, Does, GuestUnchanged
<1>7. CASE stop_sound
  <2>1. todo' = todo \/ todo' = Tail(todo)
    BY <1>7 DEF stop_sound, Done
  <2>2. ~Call("write")'
    <3>1. todo \in Scripts /\ Call("stop")
      BY <1>7, Zenon DEF stop_sound
    <3> QED BY <2>1, <3>1, StopNoWrite, Zenon
  <2>3. go' = go /\ apc' = apc /\ kind' = kind
    BY <1>7 DEF stop_sound
  <2>4. irq' \in BOOLEAN /\ (kind = "osx" /\ irq' => started' \/ (Call("stop") /\ at = 1)')
    <3>1. CASE at = 0 /\ ~started
      <4>1. irq' = irq
        BY <1>7, <3>1 DEF stop_sound
      <4>2. ~(kind = "osx" /\ irq)
        BY <3>1
      <4> QED BY <4>1, <4>2
    <3>2. CASE at = 0 /\ started
      BY <1>7, <3>2 DEF stop_sound
    <3>3. CASE at = 1
      <4>1. irq' = FALSE
        BY <1>7, <3>3 DEF stop_sound
      <4> QED BY <4>1, Zenon
    <3> QED BY <1>7, <3>1, <3>2, <3>3 DEF stop_sound
  <2> QED BY <2>2, <2>3, <2>4, Zenon
<1>8. CASE start_sound
  <2>1. todo' = todo \/ todo' = Tail(todo)
    BY <1>8 DEF start_sound, Done
  <2>2. ~Call("write")' /\ ~Call("stop")
    <3>1. todo \in Scripts /\ Call("start")
      BY <1>8, Zenon DEF start_sound
    <3> QED BY <2>1, <3>1, StartNoWrite, Zenon
  <2>3. irq' = irq /\ kind' = kind /\ (started => started')
    BY <1>8 DEF start_sound
  <2>4. go' \in BOOLEAN /\ (kind = "osx" /\ apc' # "none" => ~go')
    <3>1. (go' = go /\ apc' = apc) \/ go' = FALSE
      BY <1>8, Zenon DEF start_sound
    <3>2. go \in BOOLEAN /\ (kind = "osx" /\ apc # "none" => ~go)
      OBVIOUS
    <3>3. CASE go' = go /\ apc' = apc
      BY <3>2, <3>3
    <3>4. CASE go' = FALSE
      BY <3>4, Zenon
    <3> QED BY <3>1, <3>3, <3>4, Zenon
  <2> QED BY <2>2, <2>3, <2>4, Zenon
<1>9. CASE osi_sound_cleanup
  BY <1>9, CleanupTail DEF osi_sound_cleanup, Done, Stopped
<1>10. CASE osip_sound_write
  BY <1>10, WriteTail, Zenon DEF osip_sound_write, Done
<1>11. ASSUME NEW m \in Modes \cup {BoingMode}, set_mode(m) PROVE Quiet'
  <2>1. UNCHANGED <<started, irq, go, apc, kind>>
    BY <1>11 DEF set_mode
  <2>2. todo' = Tail(todo) /\ Call(m) /\ todo \in Scripts
    BY <1>11, Zenon DEF set_mode, Done
  <2>3. ~Call("write")'
    <3>1. todo' \in {<<>>, <<"ring">>, <<"start", "stop">>}
      BY <2>2, ModeTail, Zenon
    <3> QED BY <3>1, Tuples
  <2>4. ~Call("stop")
    BY <2>2, SoundAssumption DEF SoundAssumption
  <2> QED BY <2>1, <2>3, <2>4
<1>12. CASE audio_thread
  BY <1>12 DEF audio_thread, MainUnchanged
<1>13. CASE RingWrite
  BY <1>13 DEF RingWrite, MainUnchanged
<1>14. CASE RingNext
  <2>1. go' = go /\ kind' = kind /\ started' = started /\ todo' = todo /\ at' = at
    BY <1>14 DEF RingNext, MainUnchanged
  <2>2. irq' \in BOOLEAN /\ apc # "none"
    BY <1>14, Zenon DEF RingNext, Restarted, StoppedMeanwhile
  <2>3. irq' = irq \/ running > 0
    BY <1>14 DEF RingNext, Restarted, StoppedMeanwhile
  <2> QED BY <2>1, <2>2, <2>3, Zenon
<1>15. CASE DbufCheck
  BY <1>15 DEF DbufCheck, Leaves, Portion, Min, DbufUnchanged, MainUnchanged
<1>16. CASE DbufAdvance
  BY <1>16 DEF DbufAdvance, DbufUnchanged, MainUnchanged
<1>17. CASE DbufGo
  BY <1>17, Zenon DEF DbufGo, DbufUnchanged, MainUnchanged
<1>18. CASE DbufWritten
  BY <1>18 DEF DbufWritten, DbufUnchanged, MainUnchanged
<1>19. CASE AudioClose
  BY <1>19 DEF AudioClose, Close, MainUnchanged
<1>20. CASE AudioExit
  BY <1>20 DEF AudioExit, MainUnchanged
<1>21. CASE UNCHANGED vars
  BY <1>21 DEF vars
<1>22. CASE InitHardware
  BY <1>22, SoundAssumption, Tuples DEF InitHardware, Idle, Does, GuestUnchanged,
     SoundAssumption
<1> QED BY <1>1, <1>2, <1>3, <1>4, <1>5, <1>6, <1>7, <1>8, <1>9, <1>10, <1>11, <1>12, <1>13,
   <1>14, <1>15, <1>16, <1>17, <1>18, <1>19, <1>20, <1>21, <1>22, Zenon
   DEF Next, Guest, Main, Audio

\* Every step keeps the ring engine to a guest with a ring.
LEMMA EnginesKept ==
  ASSUME Control, Thread, Engine, [Next]_vars PROVE Engine'
<1> USE NoRing DEF Control, Thread, Engine, Held, Call, Free, audio, device, dbuf
<1>1. CASE SetFormat
  BY <1>1, SoundAssumption, Tuples DEF Ringing, SoundAssumption, SetFormat, Idle, Does, GuestUnchanged
<1>2. CASE SetupRing
  BY <1>2, RingTail, RingCall DEF SetupRing, Done
<1>3. CASE StartStop
  BY <1>3 DEF StartStop, Idle, Does, GuestUnchanged
<1>4. CASE ResumePause
  BY <1>4 DEF ResumePause, Idle, GuestUnchanged
<1>5. CASE Interrupt
  BY <1>5 DEF Interrupt, Idle, Does, GuestUnchanged
<1>6. CASE Shutdown
  BY <1>6 DEF Shutdown, Idle, Does, GuestUnchanged
<1>7. CASE stop_sound
  <2>1. todo' = todo \/ todo' \in {<<>>, <<"start">>, <<"cleanup">>}
    BY <1>7, StopTail, Zenon DEF stop_sound, Done
  <2> QED BY <1>7, <2>1, Zenon DEF stop_sound
<1>8. CASE start_sound
  <2>1. todo' = todo \/ todo' \in {<<>>, <<"stop">>}
    BY <1>8, StartTail, Zenon DEF start_sound, Done
  <2>2. (apc' = apc \/ apc' = "start") /\ UNCHANGED <<ringbuf, kind>>
    BY <1>8, Zenon DEF start_sound
  <2> QED BY <2>1, <2>2
<1>9. CASE osi_sound_cleanup
  BY <1>9, CleanupTail, Zenon DEF osi_sound_cleanup, Done, Stopped
<1>10. CASE osip_sound_write
  <2>1. todo' = todo \/ todo' \in {<<>>, <<"stop">>}
    BY <1>10, WriteTail, Zenon DEF osip_sound_write, Done
  <2> QED BY <1>10, <2>1, Zenon DEF osip_sound_write
<1>11. ASSUME NEW m \in Modes \cup {BoingMode}, set_mode(m) PROVE Engine'
  <2>1. todo' \in Ringing => todo \in Ringing
    BY <1>11, ModeTail, Zenon DEF set_mode, Done
  <2> QED BY <1>11, <2>1, Zenon DEF set_mode
<1>12. CASE audio_thread
  BY <1>12 DEF audio_thread, MainUnchanged
<1>13. CASE RingWrite
  BY <1>13 DEF RingWrite, MainUnchanged
<1>14. CASE RingNext
  BY <1>14 DEF RingNext, Restarted, StoppedMeanwhile, LastFrag, MainUnchanged
<1>15. CASE DbufCheck
  BY <1>15 DEF DbufCheck, Leaves, Portion, Min, DbufUnchanged, MainUnchanged
<1>16. CASE DbufAdvance
  BY <1>16 DEF DbufAdvance, DbufUnchanged, MainUnchanged
<1>17. CASE DbufGo
  BY <1>17 DEF DbufGo, DbufUnchanged, MainUnchanged
<1>18. CASE DbufWritten
  BY <1>18 DEF DbufWritten, DbufUnchanged, MainUnchanged
<1>19. CASE AudioClose
  BY <1>19 DEF AudioClose, Close, MainUnchanged
<1>20. CASE AudioExit
  BY <1>20 DEF AudioExit, MainUnchanged
<1>21. CASE UNCHANGED vars
  BY <1>21 DEF vars
<1>22. CASE InitHardware
  BY <1>22 DEF InitHardware, Idle, Does, GuestUnchanged
<1> QED BY <1>1, <1>2, <1>3, <1>4, <1>5, <1>6, <1>7, <1>8, <1>9, <1>10, <1>11, <1>12, <1>13,
   <1>14, <1>15, <1>16, <1>17, <1>18, <1>19, <1>20, <1>21, <1>22, Zenon
   DEF Next, Guest, Main, Audio

\* Every step keeps the double buffer empty once its engine has left.
LEMMA DrainsKept ==
  ASSUME Control, Thread, Engine, DrainedAtClose, [Next]_vars PROVE DrainedAtClose'
<1> USE DEF Control, Thread, Engine, DrainedAtClose, Held, Call, Free, audio, device, dbuf
<1>1. CASE SetFormat
  BY <1>1 DEF SetFormat, Idle, Does, GuestUnchanged
<1>2. CASE SetupRing
  BY <1>2, RingTail DEF SetupRing, Done
<1>3. CASE StartStop
  BY <1>3 DEF StartStop, Idle, Does, GuestUnchanged
<1>4. CASE ResumePause
  BY <1>4 DEF ResumePause, Idle, GuestUnchanged
<1>5. CASE Interrupt
  BY <1>5 DEF Interrupt, Idle, Does, GuestUnchanged
<1>6. CASE Shutdown
  BY <1>6 DEF Shutdown, Idle, Does, GuestUnchanged
<1>7. CASE stop_sound
  BY <1>7, StopTail DEF stop_sound, Done
<1>8. CASE start_sound
  BY <1>8, StartTail DEF start_sound, Done, TakesOver, Open
<1>9. CASE osi_sound_cleanup
  BY <1>9, CleanupTail DEF osi_sound_cleanup, Done, Stopped
<1>10. CASE osip_sound_write
  BY <1>10, WriteTail DEF osip_sound_write, Done
<1>11. ASSUME NEW m \in Modes \cup {BoingMode}, set_mode(m) PROVE DrainedAtClose'
  BY <1>11, ModeTail DEF set_mode, Done, SameMode
<1>12. CASE audio_thread
  BY <1>12 DEF audio_thread, MainUnchanged
<1>13. CASE RingWrite
  BY <1>13 DEF RingWrite, MainUnchanged
<1>14. CASE RingNext
  BY <1>14 DEF RingNext, Restarted, StoppedMeanwhile, LastFrag, MainUnchanged
<1>15. CASE DbufCheck
  BY <1>15 DEF DbufCheck, Leaves, Portion, Min, DbufUnchanged, MainUnchanged
<1>16. CASE DbufAdvance
  BY <1>16 DEF DbufAdvance, DbufUnchanged, MainUnchanged
<1>17. CASE DbufGo
  BY <1>17 DEF DbufGo, DbufUnchanged, MainUnchanged
<1>18. CASE DbufWritten
  BY <1>18 DEF DbufWritten, DbufUnchanged, MainUnchanged
<1>19. CASE AudioClose
  BY <1>19 DEF AudioClose, Close, MainUnchanged
<1>20. CASE AudioExit
  BY <1>20 DEF AudioExit, MainUnchanged
<1>21. CASE UNCHANGED vars
  BY <1>21 DEF vars
<1>22. CASE InitHardware
  BY <1>22 DEF InitHardware, Idle, Does, GuestUnchanged
<1> QED BY <1>1, <1>2, <1>3, <1>4, <1>5, <1>6, <1>7, <1>8, <1>9, <1>10, <1>11, <1>12, <1>13,
   <1>14, <1>15, <1>16, <1>17, <1>18, <1>19, <1>20, <1>21, <1>22, Zenon
   DEF Next, Guest, Main, Audio

\* A step of the thread leaves the calls and the mode alone, and only a new
\* thread without a ring comes to play the double buffer.
LEMMA AudioWaits ==
  ASSUME Audio
  PROVE  /\ todo' = todo /\ at' = at /\ kind' = kind /\ ringbuf' = ringbuf /\ mode' = mode
         /\ apc # "none"
         /\ (apc' \in Dbuf /\ ringbuf) => apc \in Dbuf
<1> USE DEF Dbuf, audio, device, dbuf
<1>12. CASE audio_thread
  BY <1>12 DEF audio_thread, MainUnchanged
<1>13. CASE RingWrite
  BY <1>13 DEF RingWrite, MainUnchanged
<1>14. CASE RingNext
  BY <1>14 DEF RingNext, Restarted, StoppedMeanwhile, LastFrag, MainUnchanged
<1>15. CASE DbufCheck
  BY <1>15 DEF DbufCheck, Leaves, Portion, Min, DbufUnchanged, MainUnchanged
<1>16. CASE DbufAdvance
  BY <1>16 DEF DbufAdvance, DbufUnchanged, MainUnchanged
<1>17. CASE DbufGo
  BY <1>17 DEF DbufGo, DbufUnchanged, MainUnchanged
<1>18. CASE DbufWritten
  BY <1>18 DEF DbufWritten, DbufUnchanged, MainUnchanged
<1>19. CASE AudioClose
  BY <1>19 DEF AudioClose, Close, MainUnchanged
<1>20. CASE AudioExit
  BY <1>20 DEF AudioExit, MainUnchanged
<1> QED BY <1>12, <1>13, <1>14, <1>15, <1>16, <1>17, <1>18, <1>19, <1>20, Zenon DEF Audio

\* Every step keeps the double buffer engine away from a ring, unless the
\* mode is the startup sound's so that set_mode does not have to wait.
LEMMA WaitsKept ==
  ASSUME Control, Thread, Engine, Waits, [Next]_vars PROVE Waits'
<1> USE DEF Control, Thread, Engine, Waits, TakenOver, Dbuf, Call, Free, audio, device, dbuf
<1>1. CASE SetFormat
  <2>1. PICK m \in Modes : todo' = <<m>> /\ at' = 0
    BY <1>1 DEF SetFormat, Does
  <2>2. UNCHANGED <<apc, kind, ringbuf, mode>> /\ (kind = "osx" => ringbuf)
    BY <1>1 DEF SetFormat, GuestUnchanged
  <2>3. todo' \notin Booting
    BY <2>1, NoBoot, Zenon
  <2> QED BY <2>1, <2>2, <2>3, Zenon
<1>2. CASE SetupRing
  <2>1. todo' = <<>> /\ at' = 0
    BY <1>2, RingTail, Zenon DEF SetupRing, Done
  <2>2. ringbuf' /\ UNCHANGED <<mode, apc, kind>>
    BY <1>2 DEF SetupRing
  <2>3. kind = "osx"
    BY <1>2, RingCall, Zenon DEF SetupRing
  <2> QED BY <2>1, <2>2, <2>3, NoBoot, Zenon
<1>3. CASE StartStop
  <2>1. todo' \in {<<"stop", "start">>, <<"stop">>, <<"start">>} /\ at' = 0
    BY <1>3 DEF StartStop, Does
  <2>2. UNCHANGED <<apc, kind, ringbuf, mode>> /\ (kind = "osx" => ringbuf)
    BY <1>3 DEF StartStop, GuestUnchanged
  <2> QED BY <2>1, <2>2, NoBoot, Zenon
<1>4. CASE ResumePause
  BY <1>4 DEF ResumePause, Idle, GuestUnchanged
<1>5. CASE Interrupt
  <2>1. \/ todo' = todo /\ at' = at
        \/ kind = "classic" /\ at' = 0
           /\ todo' \in {<<"write">>, <<"write", "stop">>, <<"stop">>}
    BY <1>5 DEF Interrupt, Does
  <2>2. UNCHANGED <<apc, kind, ringbuf, mode>>
    BY <1>5 DEF Interrupt, GuestUnchanged
  <2>3. kind = "classic" => kind # "osx"
    OBVIOUS
  <2> QED BY <2>1, <2>2, <2>3, NoBoot, Zenon
<1>6. CASE Shutdown
  <2>1. todo' = <<"stop", "cleanup">> /\ at' = 0
    BY <1>6 DEF Shutdown, Does
  <2>2. UNCHANGED <<apc, kind, ringbuf, mode>>
    BY <1>6 DEF Shutdown, GuestUnchanged
  <2> QED BY <2>1, <2>2, NoBoot, SettledHas, Zenon
<1>7. CASE stop_sound
  <2>1. UNCHANGED <<apc, kind, ringbuf, mode>>
    BY <1>7 DEF stop_sound
  <2>2. /\ todo \in Scripts /\ Call("stop")
        /\ todo' = todo \/ (todo' = Tail(todo) /\ at' = 0)
    BY <1>7, Zenon DEF stop_sound, Done
  <2>3. todo \in Settled => todo' \in Settled
    <3>1. SUFFICES ASSUME todo \in Settled PROVE Tail(todo) \in Settled
      BY <2>2, Zenon
    <3>2. Tail(todo) \in {<<>>, <<"cleanup">>}
      BY <2>2, <3>1, SettledTail, Zenon
    <3> QED BY <3>2, SettledHas, Zenon
  <2>4. todo' \in Booting => todo \in Booting
    BY <2>2, StopTail, NoBoot, Zenon
  <2>5. ~(Call("start") /\ at # 0)'
    BY <2>2
  <2> QED BY <2>1, <2>3, <2>4, <2>5, Zenon
<1>8. CASE start_sound
  <2>1. Call("start") /\ ringbuf' = ringbuf /\ mode' = mode /\ kind' = kind
    BY <1>8 DEF start_sound
  <2>2. \/ apc' = apc /\ (at' # 0 => mode # NULL)
        \/ apc' = "start" /\ at = 1 /\ at' = 0
    BY <1>8 DEF start_sound, Done
  <2>3. todo' = todo \/ todo' \in {<<>>, <<"stop">>}
    BY <1>8, StartTail, Zenon DEF start_sound, Done
  <2>4. todo' \in Booting => todo \in Booting
    BY <2>3, NoBoot, Zenon
  <2>5. todo \in Settled => todo' \in Settled /\ (at = 1 => mode = BoingMode)
    <3>1. todo \in Settled => todo' \in Settled
      BY <2>3, SettledHas, Zenon
    <3>2. at = 1 => mode # NULL
      BY <2>1
    <3>3. todo \in Settled => todo \in Booting
      BY <2>1, StartBoots, Zenon
    <3> QED BY <3>1, <3>2, <3>3, Zenon
  <2>6. apc' \in Dbuf => apc' = apc
    BY <2>2
  <2>7. TakenOver' => mode' = BoingMode
    BY <2>1, <2>6, Zenon
  <2>8. (Call("start") /\ at # 0)' => mode' # NULL
    BY <2>1, <2>2
  <2>9. (kind = "osx" /\ ~ringbuf) => (apc' # "none" => mode = BoingMode)
    BY <2>2, <2>5, Zenon
  <2> QED BY <2>1, <2>4, <2>5, <2>7, <2>8, <2>9, Zenon
<1>9. CASE osi_sound_cleanup
  <2>1. todo' = <<>> /\ at' = 0
    BY <1>9, CleanupTail, Zenon DEF osi_sound_cleanup, Done
  <2>2. UNCHANGED <<apc, kind, ringbuf, mode>>
    BY <1>9 DEF osi_sound_cleanup
  <2> QED BY <2>1, <2>2, NoBoot, SettledHas, Zenon
<1>10. CASE osip_sound_write
  <2>1. UNCHANGED <<apc, kind, ringbuf, mode>> /\ Call("write")
    BY <1>10 DEF osip_sound_write
  <2>2. todo' = todo \/ (todo' \in {<<>>, <<"stop">>} /\ at' = 0)
    BY <1>10, WriteTail, ZenonT(30) DEF osip_sound_write, Done
  <2>3. (todo' \in Booting => todo \in Booting) /\ (todo \in Settled => todo' \in Settled)
    BY <2>2, NoBoot, SettledHas, Zenon
  <2>4. ~(Call("start") /\ at # 0)'
    BY <2>1, <2>2
  <2> QED BY <2>1, <2>3, <2>4, Zenon
<1>11. ASSUME NEW m \in Modes \cup {BoingMode}, set_mode(m) PROVE Waits'
  <2>1. todo' = Tail(todo) /\ at' = 0 /\ apc' = apc /\ kind' = kind /\ ringbuf' = ringbuf
    BY <1>11, Zenon DEF set_mode, Done
  <2>2. todo \in Scripts /\ Call(m) /\ ~Call("start") /\ ~Call("stop")
    <3>1. m # "start" /\ m # "stop"
      BY SoundAssumption, Zenon DEF SoundAssumption
    <3> QED BY <1>11, <3>1, Zenon DEF set_mode
  <2>3. mode' = mode \/ (mode' = m /\ ~started /\ running >= 0)
    BY <1>11 DEF set_mode, Stopped
  <2>4. mode' = mode \/ (mode' = m /\ apc = "none")
    <3>1. ~started /\ running >= 0 => running = 0
      BY <2>2
    <3> QED BY <2>3, <3>1
  <2>5. todo' \in Booting => todo \in Booting /\ m = BoingMode
    BY <2>1, <2>2, ModeTail, NoBoot, Zenon
  <2>6. todo \in Settled => todo' \in Settled
    <3>1. todo \in Settled => todo' \in {<<"ring">>, <<"start", "stop">>}
      BY <2>1, <2>2, SettledMode, Zenon
    <3> QED BY <3>1, SettledHas, Zenon
  <2>7. TakenOver' => mode' = BoingMode
    BY <2>1, <2>4
  <2>8. todo' \in Booting => mode' \in {BoingMode, NULL}
    BY <2>4, <2>5, Zenon
  <2>9. (kind = "osx" /\ ~ringbuf) => (apc # "none" => mode' = BoingMode)
    BY <2>4, Zenon
  <2> QED BY <2>1, <2>6, <2>7, <2>8, <2>9, Zenon
<1>12. CASE Audio
  <2>1. todo' = todo /\ at' = at /\ kind' = kind /\ ringbuf' = ringbuf /\ mode' = mode
    BY <1>12, AudioWaits, Zenon
  <2>2. apc # "none" /\ (TakenOver' => TakenOver)
    BY <1>12, AudioWaits
  <2>3. TakenOver' => mode' = BoingMode
    BY <2>1, <2>2, Zenon
  <2>4. todo' \in Booting => mode' \in {BoingMode, NULL}
    BY <2>1, Zenon
  <2>5. (Call("start") /\ at # 0)' => mode' # NULL
    BY <2>1
  <2>6. (kind' = "osx" /\ ~ringbuf') =>
          todo' \in Settled /\ (apc' # "none" => mode' = BoingMode)
    BY <2>1, <2>2, Zenon
  <2> QED BY <2>3, <2>4, <2>5, <2>6, Zenon
<1>21. CASE UNCHANGED vars
  BY <1>21 DEF vars
<1>22. CASE InitHardware
  <2>1. PICK m \in Modes : todo' = <<m, "ring">> /\ at' = 0
    BY <1>22 DEF InitHardware, Does
  <2>2. UNCHANGED <<apc, kind, ringbuf, mode>>
    BY <1>22 DEF InitHardware, GuestUnchanged
  <2>3. todo' \in Settled /\ todo' \notin Booting
    BY <2>1, NoBoot, SettledHas, Zenon
  <2>4. ~(Call("start") /\ at # 0)'
    BY <2>1
  <2> QED BY <2>2, <2>3, <2>4, Zenon
<1> QED BY <1>1, <1>2, <1>3, <1>4, <1>5, <1>6, <1>7, <1>8, <1>9, <1>10, <1>11, <1>12,
   <1>21, <1>22, Zenon DEF Next, Guest, Main

-----------------------------------------------------------------------------
\* the inductive invariant
SInv == /\ Control /\ Thread /\ Device /\ Quiet /\ Engine
        /\ RestartFromFirst /\ DrainedAtClose

\* The state osi_sound_init leaves satisfies the invariant.
LEMMA InitHolds == Init => SInv
<1> USE SoundAssumption, Tuples
     DEF SoundAssumption, Init
<1>1. ASSUME Init PROVE Control
  <2>1. todo \in Scripts /\ ~Call("stop") /\ ~Call("start") /\ ~Call("write")
    <3>1. CASE todo = <<>>
      BY <3>1 DEF Scripts, Call
    <3>2. CASE todo = <<BoingMode, "start", "stop">>
      BY <3>2 DEF Scripts, Call
    <3> QED BY <1>1, <3>1, <3>2
  <2>2. at = 0 /\ at \in 0..2 /\ running \in -1..2 /\ ~(running > 0)
    BY <1>1
  <2>3. started \in BOOLEAN /\ ~started /\ ~down
    BY <1>1, Zenon
  <2> QED BY <2>1, <2>2, <2>3, Zenon DEF Control
<1>2. ASSUME Init PROVE Thread /\ Device
  BY <1>2 DEF Thread, Device, Held, Playing
<1>3. ASSUME Init PROVE Quiet
  BY <1>3, Zenon DEF Quiet, QuietAfterStop, Call
<1>4. ASSUME Init PROVE Engine /\ RestartFromFirst /\ DrainedAtClose
  <2>1. todo \notin Ringing
    BY <1>4, SoundAssumption, Tuples DEF Ringing, SoundAssumption
  <2> QED BY <1>4, <2>1 DEF Engine, RestartFromFirst, DrainedAtClose
<1> QED BY <1>1, <1>2, <1>3, <1>4, Zenon DEF SInv

\* The invariant holds in every reachable state.
THEOREM Invariance == Spec => []SInv
<1>1. SInv /\ [Next]_vars => SInv'
  BY CallsKept, ThreadsKept, DevicesKept, QuietsKept, EnginesKept, FirstsKept, DrainsKept, Zenon
     DEF SInv
<1> QED BY <1>1, InitHolds, PTL DEF Spec

\* There is one audio thread exactly while ss.thread_running is not 0, and
\* start_sound's takeover of a thread on its way out leaves it with an output.
THEOREM ThreadIsAlone == Spec => []OneThread
<1>1. SInv => OneThread
  BY DEF SInv, Thread, Device, OneThread
<1> QED BY <1>1, Invariance, PTL

\* osi_sound_cleanup's unlocked wait is enough: no thread and no open device
\* is left when the driver is torn down.
THEOREM CleanupIsQuiet == Spec => []CleanupQuiet
<1>1. SInv => CleanupQuiet
  BY DEF SInv, Device, CleanupQuiet
<1> QED BY <1>1, Invariance, PTL

\* dbuf_engine leaves only when all that was handed to it is played.
THEOREM AllIsPlayed == Spec => []DrainedAtClose
<1>1. SInv => DrainedAtClose
  BY DEF SInv
<1> QED BY <1>1, Invariance, PTL

\* After stop_sound the ring engine never raises the interrupt again.
THEOREM StopIsQuiet == Spec => []QuietAfterStop
<1>1. SInv => QuietAfterStop
  BY DEF SInv, Quiet
<1> QED BY <1>1, Invariance, PTL

\* A quick stop and start plays from the first fragment.
THEOREM RestartsAtFirst == Spec => []RestartFromFirst
<1>1. SInv => RestartFromFirst
  BY DEF SInv
<1> QED BY <1>1, Invariance, PTL

\* The engine fits the guest's driver, unless the guest's mode is that of the
\* startup sound: for any other mode set_mode waits for the thread to end.
THEOREM EngineIsFit == Spec => []EngineFits
<1>1. Init => Waits
  BY SoundAssumption DEF SoundAssumption, Init, Waits, TakenOver, Settled, Booting
<1>2. SInv /\ Waits /\ [Next]_vars => Waits'
  BY WaitsKept, Zenon DEF SInv
<1>3. SInv /\ Waits => EngineFits
  BY DEF SInv, Engine, Waits, EngineFits
<1> QED BY <1>1, <1>2, <1>3, Invariance, PTL DEF Spec

-----------------------------------------------------------------------------
\* the fields that no call or engine leaves its range of, whatever is written
Fields ==
  /\ mode \in Modes \cup {BoingMode, NULL} /\ ringbuf \in BOOLEAN
  /\ ringind \in 0..(RingFrags - 1)
  /\ ops \in {"driver", "nosound"} /\ old \in {"driver", "nosound"}
  /\ kind \in Kinds /\ down \in BOOLEAN

\* What the engine subtracts from the size of the buffer is at most a double
\* buffer, and a buffer that is not empty.
Buffers ==
  /\ srcsize \in (1 - DbufSize)..BoingSize \cup (1 - DbufSize)..DbufSize
  /\ size \in 0..DbufSize
  /\ apc = "copied" => srcsize >= 1

\* The next fragment is one of the ring.
LEMMA RingWraps ==
  ASSUME NEW n \in Nat \ {0}, NEW i \in 0..(n - 1)
  PROVE  (i + 1) % n \in 0..(n - 1)
OBVIOUS

\* Every step keeps the ranges of the fields.
LEMMA FieldsKept ==
  ASSUME Fields, [Next]_vars PROVE Fields'
<1> USE DEF Fields, audio, device, dbuf
<1>1. CASE SetFormat
  BY <1>1 DEF SetFormat, GuestUnchanged
<1>2. CASE SetupRing
  BY <1>2 DEF SetupRing
<1>3. CASE StartStop
  BY <1>3 DEF StartStop, GuestUnchanged
<1>4. CASE ResumePause
  BY <1>4 DEF ResumePause, GuestUnchanged
<1>5. CASE Interrupt
  BY <1>5 DEF Interrupt, GuestUnchanged
<1>6. CASE Shutdown
  BY <1>6 DEF Shutdown, GuestUnchanged
<1>7. CASE stop_sound
  BY <1>7 DEF stop_sound
<1>8. CASE start_sound
  <2>1. ringind' = 0 \/ ringind' = ringind
    BY <1>8, Zenon DEF start_sound
  <2>2. 0 \in 0..(RingFrags - 1)
    BY SoundAssumption DEF SoundAssumption
  <2>3. ops' \in {"driver", "nosound"} /\ old' \in {"driver", "nosound"}
    BY <1>8, Zenon DEF start_sound, Open
  <2>4. UNCHANGED <<mode, ringbuf, kind, down>>
    BY <1>8, Zenon DEF start_sound
  <2> QED BY <2>1, <2>2, <2>3, <2>4
<1>9. CASE osi_sound_cleanup
  BY <1>9 DEF osi_sound_cleanup
<1>10. CASE osip_sound_write
  BY <1>10 DEF osip_sound_write
<1>11. ASSUME NEW m \in Modes \cup {BoingMode}, set_mode(m) PROVE Fields'
  BY <1>11 DEF set_mode
<1>12. CASE audio_thread
  BY <1>12 DEF audio_thread, MainUnchanged
<1>13. CASE RingWrite
  BY <1>13 DEF RingWrite, MainUnchanged
<1>14. CASE RingNext
  <2>1. ringind' \in {ringind, (ringind + 1) % RingFrags}
    BY <1>14 DEF RingNext
  <2>2. RingFrags \in Nat \ {0}
    BY SoundAssumption DEF SoundAssumption
  <2>3. ringind' \in 0..(RingFrags - 1)
    BY <2>1, <2>2, RingWraps
  <2> QED BY <1>14, <2>3 DEF RingNext, MainUnchanged
<1>15. CASE DbufCheck
  BY <1>15 DEF DbufCheck, DbufUnchanged, MainUnchanged
<1>16. CASE DbufAdvance
  BY <1>16 DEF DbufAdvance, DbufUnchanged, MainUnchanged
<1>17. CASE DbufGo
  BY <1>17 DEF DbufGo, DbufUnchanged, MainUnchanged
<1>18. CASE DbufWritten
  BY <1>18 DEF DbufWritten, DbufUnchanged, MainUnchanged
<1>19. CASE AudioClose
  BY <1>19 DEF AudioClose, Close, MainUnchanged
<1>20. CASE AudioExit
  BY <1>20 DEF AudioExit, MainUnchanged
<1>21. CASE UNCHANGED vars
  BY <1>21 DEF vars
<1>22. CASE InitHardware
  BY <1>22 DEF InitHardware, Idle, Does, GuestUnchanged
<1> QED
BY Zenon, <1>1, <1>2, <1>3, <1>4, <1>5, <1>6, <1>7, <1>8, <1>9, <1>10, <1>11, <1>12,
     <1>13, <1>14, <1>15, <1>16, <1>17, <1>18, <1>19, <1>20, <1>21, <1>22 DEF Next,
     Guest, Main, Audio

\* Every step keeps the range of the double buffer's size: a write that comes
\* between the copy and the subtraction is not empty.
LEMMA BuffersKept ==
  ASSUME Buffers, [Next]_vars PROVE Buffers'
<1> USE DEF Buffers, audio, device, dbuf
<1> DbufSize \in Nat \ {0} /\ BoingSize \in Nat /\ ShortSizes \subseteq 1..DbufSize
  BY SoundAssumption DEF SoundAssumption
<1>1. CASE SetFormat
  BY <1>1 DEF SetFormat, GuestUnchanged
<1>2. CASE SetupRing
  BY <1>2 DEF SetupRing
<1>3. CASE StartStop
  BY <1>3 DEF StartStop, GuestUnchanged
<1>4. CASE ResumePause
  BY <1>4 DEF ResumePause, GuestUnchanged
<1>5. CASE Interrupt
  BY <1>5 DEF Interrupt, GuestUnchanged
<1>6. CASE Shutdown
  BY <1>6 DEF Shutdown, GuestUnchanged
<1>7. CASE stop_sound
  BY <1>7 DEF stop_sound
<1>8. CASE start_sound
  <2>1. UNCHANGED <<srcsize, size>> /\ (apc' = apc \/ apc' = "start")
    BY <1>8 DEF start_sound
  <2> QED BY <2>1
<1>9. CASE osi_sound_cleanup
  BY <1>9 DEF osi_sound_cleanup
<1>10. CASE osip_sound_write
  <2>1. \/ srcsize' = srcsize \/ srcsize' = DbufSize \/ srcsize' \in ShortSizes
    BY <1>10, Zenon DEF osip_sound_write
  <2>2. UNCHANGED <<apc, size>>
    BY <1>10 DEF osip_sound_write
  <2>3. DbufSize \in 1..DbufSize /\ \A n \in 1..DbufSize : n \in (1 - DbufSize)..DbufSize /\ n >= 1
    OBVIOUS
  <2>4. srcsize' = srcsize \/ (srcsize' \in (1 - DbufSize)..DbufSize /\ srcsize' >= 1)
    BY <2>1, <2>3, Zenon
  <2> QED BY <2>2, <2>4, Zenon
<1>11. ASSUME NEW m \in Modes \cup {BoingMode}, set_mode(m) PROVE Buffers'
  BY <1>11 DEF set_mode
<1>12. CASE audio_thread
  BY <1>12 DEF audio_thread, MainUnchanged
<1>13. CASE RingWrite
  BY <1>13 DEF RingWrite, MainUnchanged
<1>14. CASE RingNext
  BY <1>14 DEF RingNext, MainUnchanged
<1>15. CASE DbufCheck
  <2>1. srcsize' = srcsize
    BY <1>15 DEF DbufCheck
  <2>2. \/ apc' = "exit" /\ size' = size
        \/ apc' = "go" /\ size' = DbufSize
        \/ apc' = "fault" /\ size' = size
        \/ apc' = "copied" /\ size' = Min(srcsize, DbufSize) /\ srcsize >= 1
    BY <1>15 DEF DbufCheck, Portion, Leaves
  <2> QED BY <2>1, <2>2 DEF Min
<1>16. CASE DbufAdvance
  BY <1>16 DEF DbufAdvance
<1>17. CASE DbufGo
  BY <1>17 DEF DbufGo
<1>18. CASE DbufWritten
  BY <1>18 DEF DbufWritten
<1>19. CASE AudioClose
  BY <1>19 DEF AudioClose
<1>20. CASE AudioExit
  BY <1>20 DEF AudioExit
<1>21. CASE UNCHANGED vars
  BY <1>21 DEF vars
<1>22. CASE InitHardware
  BY <1>22 DEF InitHardware, Idle, Does, GuestUnchanged
<1> QED
BY Zenon, <1>1, <1>2, <1>3, <1>4, <1>5, <1>6, <1>7, <1>8, <1>9, <1>10, <1>11, <1>12,
     <1>13, <1>14, <1>15, <1>16, <1>17, <1>18, <1>19, <1>20, <1>21, <1>22 DEF Next,
     Guest, Main, Audio

\* short tuples are sequences
LEMMA TuplesTyped ==
  ASSUME NEW S, NEW a \in S, NEW b \in S, NEW c \in S
  PROVE  /\ <<>> \in Seq(S) /\ Len(<<>>) = 0
         /\ <<a>> \in Seq(S) /\ Len(<<a>>) = 1
         /\ <<a, b>> \in Seq(S) /\ Len(<<a, b>>) = 2
         /\ <<a, b, c>> \in Seq(S) /\ Len(<<a, b, c>>) = 3
OBVIOUS

\* The scripts of the main thread are short sequences of calls.
LEMMA ScriptsTyped ==
  ASSUME NEW s \in Scripts
  PROVE  s \in Seq(Calls) /\ Len(s) <= 3
<1> /\ "stop" \in Calls /\ "start" \in Calls /\ "write" \in Calls /\ "ring" \in Calls
    /\ "cleanup" \in Calls /\ BoingMode \in Calls /\ Modes \subseteq Calls
  BY DEF Calls
<1>1. CASE s \in {<<>>, <<"stop">>, <<"start">>, <<"cleanup">>, <<"write">>, <<"ring">>}
  <2>1. s \in Seq(Calls) /\ Len(s) \in {0, 1}
    BY <1>1, TuplesTyped, Zenon
  <2> QED BY <2>1
<1>2. CASE s \in {<<"stop", "start">>, <<"stop", "cleanup">>, <<"write", "stop">>,
                  <<"start", "stop">>}
  <2>1. s \in Seq(Calls) /\ Len(s) = 2
    BY <1>2, TuplesTyped, Zenon
  <2> QED BY <2>1
<1>3. CASE s = <<BoingMode, "start", "stop">>
  <2>1. s \in Seq(Calls) /\ Len(s) = 3
    BY <1>3, TuplesTyped, Zenon
  <2> QED BY <2>1
<1>4. ASSUME NEW n \in Modes, s = <<n>> PROVE s \in Seq(Calls) /\ Len(s) <= 3
  <2>1. s \in Seq(Calls) /\ Len(s) = 1
    BY <1>4, TuplesTyped
  <2> QED BY <2>1
<1>5. ASSUME NEW n \in Modes, s = <<n, "ring">> PROVE s \in Seq(Calls) /\ Len(s) <= 3
  <2>1. s \in Seq(Calls) /\ Len(s) = 2
    BY <1>5, TuplesTyped
  <2> QED BY <2>1
<1> QED BY <1>1, <1>2, <1>3, <1>4, <1>5 DEF Scripts

\* The audio thread is intact, whatever the guest's driver asks for and writes:
\* every field keeps its range, there is one thread, which starts at the first
\* fragment and is gone after osi_sound_cleanup, its output is open unless
\* nosound_open refuses the mode, and its engine is that of the buffer in use
\* unless the mode is the startup sound's.
THEOREM ThreadStaysIntact == Spec => []ThreadIntact
<1>1. Init => Fields /\ Buffers
  <2> SUFFICES ASSUME Init PROVE Fields /\ Buffers
    OBVIOUS
  <2>1. /\ 0 \in 0..(RingFrags - 1) /\ 0 \in 0..DbufSize
        /\ 0 \in (1 - DbufSize)..BoingSize /\ BoingSize \in (1 - DbufSize)..BoingSize
    BY SoundAssumption DEF SoundAssumption
  <2> QED BY <2>1, Zenon DEF Init, Fields, Buffers
<1>2. Fields /\ Buffers /\ [Next]_vars => Fields' /\ Buffers'
  BY FieldsKept, BuffersKept
<1>3. SInv /\ Fields /\ Buffers => TypeOK
  <2> SUFFICES ASSUME SInv, Fields, Buffers PROVE TypeOK
    OBVIOUS
  <2>1. todo \in Seq(Calls) /\ Len(todo) <= 3
    BY ScriptsTyped DEF SInv, Control
  <2>2. started \in BOOLEAN /\ running \in -1..2 /\ at \in 0..2
    BY DEF SInv, Control
  <2>3. dev \in {"closed", "open"} /\ go \in BOOLEAN
    BY DEF SInv, Device, Quiet
  <2>4. /\ lock \in {NULL, "audio"}
        /\ apc \in {"none", "start", "ring", "written", "check", "copied", "go",
                    "writing", "exit", "closed", "fault"}
    BY DEF SInv, Thread, Held
  <2> QED BY <2>1, <2>2, <2>3, <2>4 DEF Fields, Buffers, TypeOK
<1>4. Spec => []TypeOK
  BY <1>1, <1>2, <1>3, Invariance, PTL DEF Spec
<1>5. Spec => []EngineFits
  BY EngineIsFit
<1>6. TypeOK /\ OneThread /\ EngineFits /\ RestartFromFirst /\ CleanupQuiet
        => ThreadIntact
  BY DEF ThreadIntact
<1> QED BY <1>4, <1>5, <1>6, ThreadIsAlone, RestartsAtFirst, CleanupIsQuiet, PTL
=============================================================================
