-------------------------------- MODULE Sound --------------------------------
(***************************************************************************)
(* drivers/sound/sound.c: the OSI sound device.  The main thread makes the *)
(* guest's OSI calls; an audio thread plays either the ring buffer of the  *)
(* OS X driver or the double buffer of the Mac OS driver.  Stopping is     *)
(* asynchronous: the thread drains and closes the device by itself, and a  *)
(* start that comes first takes the running thread over.                   *)
(*                                                                         *)
(* ss.lock is explicit.  Several fields are written without it, so what    *)
(* the engines do under the lock is cut where those fields are read.       *)
(* Sizes are in units of a fragment.  Volume and timestamps are left out.       *)
(***************************************************************************)
EXTENDS Integers, Sequences

CONSTANTS
  Kinds,          \* drivers the guest may have: "osx", "classic"
  Modes,          \* format and rate pairs the guest asks for
  NosoundModes,   \* the ones nosound_query accepts
  BoingMode,      \* the mode of the startup sound
  Boing,          \* startboing.enabled
  BoingSize,      \* length of the startup sound
  DbufSize,       \* ss.dbufsize
  ShortSizes,     \* lengths of the Mac OS driver's last buffer before a stop
  RingFrags,      \* ss.ringfrags
  MayFail,        \* the device may be busy when it is queried or opened
  NULL

ASSUME SoundAssumption ==
  /\ Kinds \subseteq {"osx", "classic"} /\ {Boing, MayFail} \subseteq BOOLEAN
  /\ {BoingSize, DbufSize, RingFrags} \subseteq Nat \ {0}
  /\ ShortSizes \subseteq 1..DbufSize /\ NosoundModes \subseteq Modes \cup {BoingMode}
  /\ NULL # "audio" /\ NULL \notin Modes \cup {BoingMode}
  /\ {"stop", "start", "ring", "write", "cleanup"} \cap (Modes \cup {BoingMode}) = {}

VARIABLES
  started, running,              \* ss.started, ss.thread_running
  mode,           \* lastformat and lastrate
  ringbuf, ringind,              \* a ring is set up; last fragment played
  srcsize, go,    \* dbuf_srcsize, dbuf_go
  irq,            \* the interrupt line
  ops, old, dev,  \* ss.ops, nosound.old_ops; state of the output device
  lock,           \* holder of ss.lock
  todo,           \* calls the main thread is about to make, first one under way;
                  \* a mode stands for set_mode
  at,             \* place in the call under way
  apc, size,      \* audio thread, and how much it has copied
  kind,           \* the guest's driver
  down            \* osi_sound_cleanup has run

audio == <<apc, size>>
device == <<ops, old, dev>>
dbuf == <<srcsize, go>>
vars == <<started, running, mode, ringbuf, ringind, dbuf, irq, device,
          lock, todo, at, audio, kind, down>>

Min(a, b) == IF a < b THEN a ELSE b

-----------------------------------------------------------------------------
(* The main thread.  A call ends with Done; LOCK takes the lock if it is   *)
(* free, and the locked part of a call is one step.                        *)

Call(c) == todo # <<>> /\ todo[1] = c
Done == todo' = Tail(todo) /\ at' = 0
Free == lock = NULL

stop_sound ==
  /\ Call("stop")
  /\ \/ at = 0 /\ ~started /\ Done /\ UNCHANGED <<started, running, irq>>
     \/ at = 0 /\ started /\ started' = FALSE /\ at' = 1
        /\ UNCHANGED <<running, irq, todo>>
     \/ at = 1 /\ Free /\ running' = -1 /\ irq' = FALSE /\ Done /\ UNCHANGED started
  /\ UNCHANGED <<mode, ringbuf, ringind, dbuf, device, lock, audio, kind, down>>

\* ops->open, or nosound_open if the device is not available; when that
\* refuses the mode as well, nothing has been opened and nobody notices
Open ==
  \/ ops = "driver" /\ dev' = "open" /\ UNCHANGED <<ops, old>>
  \/ /\ ops = "nosound" \/ MayFail
     /\ IF mode \in NosoundModes THEN old' = ops /\ ops' = "nosound" /\ UNCHANGED dev
        ELSE UNCHANGED device

\* A thread that is on its way out is not taken over.
TakesOver_Playing == running > 0

\* "jump start already running thread"
TakesOver == running # 0

start_sound ==
  /\ Call("start")
  /\ \/ at = 0 /\ (started \/ mode = NULL) /\ Done
        /\ UNCHANGED <<started, running, ringind, go, device, apc>>
     \/ at = 0 /\ ~started /\ mode # NULL /\ started' = TRUE /\ at' = 1
        /\ UNCHANGED <<running, ringind, go, device, apc, todo>>
     \/ /\ at = 1 /\ Free /\ Done
        /\ ringind' = 0 /\ go' = FALSE /\ UNCHANGED started
        /\ IF TakesOver THEN running' = 2 /\ UNCHANGED <<device, apc>>
           ELSE running' = 1 /\ Open /\ apc' = "start"
  /\ UNCHANGED <<mode, ringbuf, srcsize, irq, lock, size, kind, down>>

\* The end of the thread is not waited for.
Stopped_Any == ~started

\* wait_sound_stopped returns 0
Stopped == ~started /\ running >= 0

\* "optimize away the evil wait_sound_stopped()"
SameMode(m) == mode = m

\* what ops->query may say of a mode
Accepted(m) == IF ops = "nosound" THEN {m \in NosoundModes} ELSE {TRUE, ~MayFail}

\* The wait is skipped for the same mode; a mode that is refused is not set.
set_mode(m) ==
  /\ Call(m) /\ Done
  /\ \/ (SameMode(m) \/ started) /\ UNCHANGED mode
     \/ /\ ~SameMode(m) /\ Stopped
        /\ \E ok \in Accepted(m) : mode' = IF ok THEN m ELSE mode
  /\ UNCHANGED <<started, running, ringbuf, ringind, dbuf, irq, device,
                 lock, audio, kind, down>>

\* kSoundSetupRing
SetupRing ==
  /\ Call("ring") /\ Done
  /\ ringbuf' = TRUE
  /\ UNCHANGED <<started, running, mode, ringind, dbuf, irq, device, lock, audio,
                 kind, down>>

\* wait_sound_stopped and ops->cleanup
osi_sound_cleanup ==
  /\ Call("cleanup") /\ Stopped
  /\ Done /\ down' = TRUE
  /\ UNCHANGED <<started, running, mode, ringbuf, ringind, dbuf, irq,
                 device, lock, audio, kind>>

\* osip_sound_write: the check and the buffer, its size, dbuf_go, without the
\* lock; a buffer is whole unless a stop follows
osip_sound_write ==
  /\ Call("write")
  /\ \/ at = 0 /\ at' = 1 /\ UNCHANGED <<srcsize, go, todo>>
     \/ /\ at = 1 /\ at' = 2 /\ UNCHANGED <<go, todo>>
        /\ srcsize' \in IF Tail(todo) = <<>> THEN {DbufSize} ELSE ShortSizes
     \/ at = 2 /\ go' = TRUE /\ Done /\ UNCHANGED srcsize
  /\ UNCHANGED <<started, running, mode, ringbuf, ringind, irq, device,
                 lock, audio, kind, down>>

-----------------------------------------------------------------------------
(* The guest's drivers.                                                    *)

\* A thread that copies a negative length takes the process down.
Alive == apc # "fault"

Idle == todo = <<>> /\ ~down /\ Alive
Does(calls) == todo' = calls /\ at' = 0
GuestUnchanged == UNCHANGED <<started, running, mode, ringind, device,
                              lock, audio, kind, down>>

\* MolAudioEngine::initHardware: the mode, then the ring, whatever set_mode says
InitHardware ==
  /\ Idle /\ kind = "osx" /\ ~ringbuf
  /\ \E m \in Modes : Does(<<m, "ring">>)
  /\ UNCHANGED <<ringbuf, dbuf, irq>> /\ GuestUnchanged

\* SetupHardware of the Mac OS driver, performFormatChange of the OS X one
SetFormat ==
  /\ Idle /\ (kind = "osx" => ringbuf)
  /\ \E m \in Modes : Does(<<m>>)
  /\ UNCHANGED <<ringbuf, dbuf, irq>> /\ GuestUnchanged

\* the OS X driver stops before it starts
StartStop ==
  /\ Idle /\ (kind = "osx" => ringbuf)
  /\ Does(<<"stop", "start">>) \/ Does(<<"stop">>)
     \/ (kind = "classic" /\ Does(<<"start">>))
  /\ UNCHANGED <<ringbuf, dbuf, irq>> /\ GuestUnchanged

\* resume_sound and pause_sound, of the Mac OS driver
ResumePause ==
  /\ Idle /\ kind = "classic" /\ started
  /\ go' \in BOOLEAN
  /\ UNCHANGED <<ringbuf, srcsize, irq, todo, at>> /\ GuestUnchanged

\* osip_sound_irq_ack; the Mac OS driver then writes its next buffer, and
\* stops if that is short or there is none
Interrupt ==
  /\ Idle /\ irq
  /\ irq' = FALSE
  /\ IF kind = "classic" /\ started
     THEN Does(<<"write">>) \/ Does(<<"write", "stop">>) \/ Does(<<"stop">>)
     ELSE UNCHANGED <<todo, at>>
  /\ UNCHANGED <<ringbuf, dbuf>> /\ GuestUnchanged

Shutdown ==
  /\ Idle /\ Does(<<"stop", "cleanup">>)
  /\ UNCHANGED <<ringbuf, dbuf, irq>> /\ GuestUnchanged

-----------------------------------------------------------------------------
(* The audio thread.                                                       *)

MainUnchanged == UNCHANGED <<started, mode, ringbuf, todo, at, kind, down>>

\* LOCK, and the choice of an engine
audio_thread ==
  /\ apc = "start" /\ Free
  /\ apc' = IF ringbuf THEN "ring" ELSE "check"
  /\ lock' = "audio"
  /\ UNCHANGED <<running, ringind, dbuf, irq, device, size>> /\ MainUnchanged

\* one fragment: UNLOCK and the write, or the end of the loop
RingWrite ==
  /\ apc = "ring"
  /\ IF running > 0 THEN apc' = "written" /\ lock' = NULL
     ELSE apc' = "exit" /\ UNCHANGED lock
  /\ UNCHANGED <<running, ringind, dbuf, irq, device, size>> /\ MainUnchanged

\* A quick stop and start is not noticed.
Restarted_Ignored == FALSE

\* "handle quick start-stop-start cycles"
Restarted == running > 1

\* A stop during the write goes unnoticed.
StoppedMeanwhile_Ignored == FALSE

StoppedMeanwhile == running <= 0

\* The interrupt never comes.
LastFrag_Beyond == ringind + 1 > RingFrags

LastFrag == ringind + 1 = RingFrags

\* LOCK, and on to the next fragment; the interrupt is raised at the end
RingNext ==
  /\ apc = "written" /\ Free /\ lock' = "audio"
  /\ CASE Restarted ->
            running' = 1 /\ apc' = "ring" /\ UNCHANGED <<ringind, irq>>
       [] ~Restarted /\ StoppedMeanwhile ->
            apc' = "exit" /\ UNCHANGED <<running, ringind, irq>>
       [] OTHER ->
            /\ ringind' = (ringind + 1) % RingFrags
            /\ irq' = (irq \/ LastFrag)
            /\ apc' = "ring" /\ UNCHANGED running
  /\ UNCHANGED <<dbuf, device, size>> /\ MainUnchanged

DbufUnchanged == UNCHANGED <<running, ringind, device>> /\ MainUnchanged

\* A thread that was stopped leaves at once, or only once it is idle.
Leaves_AtOnce == running < 0
Leaves_Idle == srcsize = 0 /\ running = 0

\* the end of dbuf_engine: nothing left to play
Leaves == srcsize = 0 /\ running < 0

\* The engine always takes a whole double buffer.
Portion_Whole == DbufSize

Portion == Min(srcsize, DbufSize)

\* dbuf_srcsize decides between the end, an underrun and the next buffer; a
\* memcpy of a negative length is beyond the process's memory
DbufCheck ==
  /\ apc = "check"
  /\ CASE Leaves -> apc' = "exit" /\ UNCHANGED size
       [] ~Leaves /\ srcsize = 0 -> apc' = "go" /\ size' = DbufSize
       [] ~Leaves /\ srcsize < 0 -> apc' = "fault" /\ UNCHANGED size
       [] OTHER -> apc' = "copied" /\ size' = Portion
  /\ UNCHANGED <<dbuf, irq, lock>> /\ DbufUnchanged

\* after the memcpy
DbufAdvance ==
  /\ apc = "copied" /\ apc' = "go"
  /\ srcsize' = srcsize - size
  /\ UNCHANGED <<go, irq, lock, size>> /\ DbufUnchanged

\* the interrupt, and UNLOCK for the write
DbufGo ==
  /\ apc = "go" /\ apc' = "writing"
  /\ irq' = (irq \/ go) /\ go' = FALSE
  /\ lock' = NULL
  /\ UNCHANGED <<srcsize, size>> /\ DbufUnchanged

DbufWritten ==
  /\ apc = "writing" /\ Free
  /\ apc' = "check" /\ lock' = "audio" /\ size' = 0
  /\ UNCHANGED <<dbuf, irq>> /\ DbufUnchanged

\* nosound_close gives the device driver back
Close ==
  IF ops = "nosound" THEN ops' = old /\ UNCHANGED <<old, dev>>
  ELSE dev' = "closed" /\ UNCHANGED <<ops, old>>

\* the rest of audio_thread, which keeps the lock to the end
AudioClose ==
  /\ apc = "exit" /\ apc' = "closed" /\ Close
  /\ UNCHANGED <<running, lock, ringind, dbuf, irq, size>> /\ MainUnchanged

AudioExit ==
  /\ apc = "closed" /\ apc' = "none"
  /\ running' = 0 /\ lock' = NULL
  /\ UNCHANGED <<device, ringind, dbuf, irq, size>> /\ MainUnchanged

-----------------------------------------------------------------------------
\* osi_sound_init up to the calls startboing makes, which are still to come
Init ==
  /\ kind \in Kinds
  /\ started = FALSE /\ running = 0 /\ mode = NULL
  /\ ringbuf = FALSE /\ ringind = 0
  /\ srcsize = (IF Boing THEN BoingSize ELSE 0) /\ go = Boing
  /\ irq = FALSE /\ ops \in {"driver", "nosound"} /\ old = "driver" /\ dev = "closed"
  /\ lock = NULL /\ at = 0 /\ apc = "none" /\ size = 0 /\ down = FALSE
  /\ todo = IF Boing THEN <<BoingMode, "start", "stop">> ELSE <<>>

Guest == InitHardware \/ SetFormat \/ StartStop \/ ResumePause \/ Interrupt \/ Shutdown

Main == /\ Alive
        /\ \/ stop_sound \/ start_sound \/ osi_sound_cleanup \/ osip_sound_write
           \/ SetupRing
           \/ \E m \in Modes \cup {BoingMode} : set_mode(m)

Audio == \/ audio_thread \/ RingWrite \/ RingNext \/ DbufCheck \/ DbufAdvance
         \/ DbufGo \/ DbufWritten \/ AudioClose \/ AudioExit

Next == Guest \/ Main \/ Audio

Spec == Init /\ [][Next]_vars

\* Calls end and the audio thread plays; neither is kept out of the lock.
Fairness == SF_vars(Main) /\ SF_vars(Audio)
FairSpec == Spec /\ Fairness

-----------------------------------------------------------------------------
(* Properties.                                                             *)

Calls == {"stop", "start", "ring", "write", "cleanup"} \cup Modes \cup {BoingMode}

\* Every variable has its type; in particular ringind stays within the ring.
\* dbuf_srcsize can get negative: a last, short buffer can be stored between
\* the copy of the one before it and the subtraction (236-239).
TypeOK ==
  /\ started \in BOOLEAN /\ running \in -1..2
  /\ mode \in Modes \cup {BoingMode, NULL}
  /\ ringbuf \in BOOLEAN /\ ringind \in 0..(RingFrags - 1)
  /\ go \in BOOLEAN
  /\ srcsize \in (1 - DbufSize)..BoingSize \cup (1 - DbufSize)..DbufSize
  /\ ops \in {"driver", "nosound"} /\ old \in {"driver", "nosound"}
  /\ dev \in {"closed", "open"} /\ lock \in {NULL, "audio"}
  /\ todo \in Seq(Calls) /\ Len(todo) <= 3 /\ at \in 0..2
  /\ apc \in {"none", "start", "ring", "written", "check", "copied", "go", "writing",
               "exit", "closed", "fault"}
  /\ size \in 0..DbufSize
  /\ kind \in Kinds /\ down \in BOOLEAN

Playing == apc \notin {"none", "exit", "closed"}

\* There is one audio thread exactly while ss.thread_running is not 0, and
\* it has an output for itself: a start that meets a thread on its way out
\* neither opens the device twice nor is left with a closed one.  Only in a
\* mode that nosound_open refuses, like 48000 Hz, does a thread play on a
\* driver that is not open: start_sound ignores the refusal (369).
OneThread ==
  /\ running = 0 <=> apc = "none"
  /\ Playing => dev = "open" \/ ops = "nosound" \/ mode \notin NosoundModes
  /\ apc \in {"none", "closed"} => dev = "closed"

\* osi_sound_cleanup tears the output driver down only when the audio thread
\* is through with it, although it reads ss.thread_running without the lock.
CleanupQuiet == down => apc = "none" /\ dev = "closed"

\* All that was handed to the double buffer before a stop is played before
\* the device is closed: the startup sound, and the guest's last buffer.
DrainedAtClose == (apc \in {"exit", "closed"} /\ ~ringbuf) => srcsize = 0

Dbuf == {"check", "copied", "go", "writing"}

\* the OS X driver has a thread that plays the double buffer
TakenOver == ringbuf /\ apc \in Dbuf

\* A thread plays the ring only if the guest has set one up, and the double
\* buffer only if it has not: set_mode has waited for the thread of the
\* startup sound.  The one exception is a guest whose mode is that of the
\* startup sound, for which the wait is skipped (309).
EngineFits ==
  /\ apc \in {"ring", "written"} => ringbuf
  /\ TakenOver => mode = BoingMode

\* The OS X driver gets no interrupt of a stopped sound: stop_sound lowers
\* the line and the ring engine does not raise it again.
QuietAfterStop ==
  (kind = "osx" /\ irq) => started \/ (Call("stop") /\ at = 1)

\* A sound starts with the first fragment, also if the thread that plays it
\* was in the middle of the ring when it was stopped and started again.
RestartFromFirst == (running = 2 \/ apc = "start") => ringind = 0

\* A stopped thread comes to an end unless it is started again, so that the
\* waits of set_mode and of the cleanup end; or it takes the process down.
StopEnds == (running = -1) ~> (running # -1 \/ ~Alive)

\* A ring that is started interrupts the guest at its end, or is stopped,
\* unless the start has taken over the thread of the startup sound: that one
\* goes on with the double buffer (EngineFits says when this can happen).
RingInterrupts ==
  (kind = "osx" /\ started /\ running > 0) ~> (irq \/ ~started \/ TakenOver)

\* A buffer is written only after the previous one is played: the interrupt
\* asks for the next buffer (490: "warning: ss.dbuf_srcsize != 0").
WriteFindsEmpty ==
  [][(Call("write") /\ at = 0 /\ at' = 1) => srcsize = 0]_vars

\* The audio thread is intact: one at a time, with the engine of the buffer in
\* use, at the first fragment after a restart, and gone after the cleanup.
ThreadIntact == TypeOK /\ OneThread /\ EngineFits /\ RestartFromFirst /\ CleanupQuiet
=============================================================================
