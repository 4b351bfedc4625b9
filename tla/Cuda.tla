-------------------------------- MODULE Cuda --------------------------------
(***************************************************************************)
(* drivers/via-cuda.c and drivers/adb.c: the VIA's shift register, the     *)
(* CUDA microcontroller behind it, and the ADB keyboard and mouse it       *)
(* polls.  The guest moves bytes with the lines TIP and TACK of register B *)
(* and learns from TREQ that the CUDA has something to send; every byte    *)
(* ends with a shift register interrupt, which a timer delivers.           *)
(*                                                                         *)
(* Packets are reduced to their effect on this protocol.  The guest is     *)
(* either a driver that keeps to the protocol or one that does anything.   *)
(* The VIA's two timers, power down and the saving of sessions are left    *)
(* out.  Keys may come from the main thread or from the VNC thread; of the *)
(* latter only the gap between queueing a key and announcing it is shown.  *)
(***************************************************************************)
EXTENDS Integers

CONSTANTS
  VIA_BUFFER_LEN,
  KEY_BUF_SIZE,
  ReplyLen,       \* bytes of a reply or of an ADB event, its type included
  MaxMotion,      \* mouse packets a motion fills
  MaxEvents,      \* bound: keys, motions and seconds
  MaxTimers,      \* bound: timers of a kind that are queued
  VncThreads,     \* whether keys come from the VNC thread
  Guests          \* "driver", "wild"

ASSUME CudaAssumption ==
  /\ ReplyLen \in 2..VIA_BUFFER_LEN /\ VIA_BUFFER_LEN \in Nat
  /\ KEY_BUF_SIZE \in Nat \ {0, 1} /\ MaxMotion \in Nat \ {0}
  /\ MaxEvents \in Nat /\ MaxTimers \in Nat /\ VncThreads \subseteq BOOLEAN
  /\ Guests \subseteq {"driver", "wild"}

VARIABLES
  m,              \* the machine: via, cuda and the ADB devices
  startReply,     \* cuda_start_reply timers queued
  oneSecTimers,   \* cuda_one_sec_timer timers queued
  vncThread,      \* keys come from the VNC thread
  vnc,            \* it is between queueing a key and telling the CUDA
  guest, phase,   \* the guest's kind, its driver's state
  events,         \* events so far
  exited          \* cuda_handshake has called exit

vars == <<m, startReply, oneSecTimers, vncThread, vnc, guest, phase, events, exited>>

\* tack, tip, treq: the lines.  outCount, outReq: bytes sent and to be sent.
\* fill: the message is to be made up when the guest fetches it.  inCount:
\* bytes received.  keys: the key ring; motion: packets the mouse has moved.
Machine == [tack : {0, 1}, tip : {0, 1}, treq : {0, 1},
            outCount : 0..VIA_BUFFER_LEN, outReq : 0..VIA_BUFFER_LEN, fill : BOOLEAN,
            inCount : 0..VIA_BUFFER_LEN, autopoll : BOOLEAN,
            onesec : BOOLEAN, pending : 0..MaxEvents,
            keys : 0..(KEY_BUF_SIZE - 1), motion : 0..MaxMotion,
            kbdReq : BOOLEAN, mouseReq : BOOLEAN,
            srActive : BOOLEAN, srInt : BOOLEAN]

Smaller(a, b) == IF a < b THEN a ELSE b

-----------------------------------------------------------------------------
(* ADB devices.                                                            *)

\* The last key leaves the service request behind.
Serviced_Kept(s, n) == s.kbdReq

Serviced(s, n) == s.kbdReq /\ s.keys > n

\* kbd_read_reg( 0 ): two keys at most
ReadKbd(s) ==
  LET n == Smaller(s.keys, 2)
  IN  [s EXCEPT !.keys = @ - n, !.kbdReq = Serviced(s, n)]

\* mouse_read_reg( 0 )
ReadMouse(s) ==
  IF s.motion <= 1 THEN [s EXCEPT !.motion = 0, !.mouseReq = FALSE]
  ELSE [s EXCEPT !.motion = @ - 1]

adb_mes_avail(s) == s.mouseReq \/ s.kbdReq

\* via_cuda_reply and via_cuda_set_reply_buffer
Reply(s, len) ==
  [s EXCEPT !.outReq = IF s.outCount # 0 THEN VIA_BUFFER_LEN ELSE len]

\* the reply to the register 0 that was read: nothing if there was no data
ReplyData(s, data) == Reply(s, IF data > 0 THEN ReplyLen ELSE 0)

\* the mouse comes first in the list of devices
adb_poll(s) ==
  CASE s.mouseReq -> ReplyData(ReadMouse(s), s.motion)
    [] ~s.mouseReq /\ s.kbdReq -> ReplyData(ReadKbd(s), s.keys)
    [] OTHER -> s

-----------------------------------------------------------------------------
(* The VIA's shift register and the CUDA.                                  *)

\* via_dummy_shift, via_shift_in and via_shift_out: via_sr_int_post
Shift(s) == [s EXCEPT !.srActive = TRUE]

cuda_msg_avail(s) == s.outReq # 0

Packets == {"autopoll_on", "autopoll_off", "onesec_on", "onesec_off",
            "read_kbd", "read_mouse", "other"}

\* cuda_packet and adb_packet
HandlePacket(s, p) ==
  CASE p = "autopoll_on" -> Reply([s EXCEPT !.autopoll = TRUE], ReplyLen)
    [] p = "autopoll_off" -> Reply([s EXCEPT !.autopoll = FALSE], ReplyLen)
    [] p = "onesec_on" -> Reply([s EXCEPT !.onesec = TRUE], ReplyLen)
    [] p = "onesec_off" -> Reply([s EXCEPT !.onesec = FALSE], ReplyLen)
    [] p = "read_kbd" -> ReplyData(ReadKbd(s), s.keys)
    [] p = "read_mouse" -> ReplyData(ReadMouse(s), s.motion)
    [] OTHER -> Reply(s, ReplyLen)

cuda_incoming(s, p) ==
  IF s.inCount < 2 THEN [s EXCEPT !.outCount = 0]
  ELSE [HandlePacket([s EXCEPT !.outCount = 0], p) EXCEPT !.inCount = 0]

\* The counts of the packet that ends are kept.
Restart_Out(s) == [s EXCEPT !.inCount = 0]
Restart_In(s) == [s EXCEPT !.outCount = 0]

Restart(s) == [s EXCEPT !.outCount = 0, !.inCount = 0]

\* "Perhaps all messages should be flushed ... they are only delayed"
Forget(s) == [s EXCEPT !.fill = FALSE]

\* cuda_handshake with TIP high: the end of a packet or a sync
HandshakeHigh(s, tack, p) ==
  LET i == IF s.inCount # 0 THEN cuda_incoming(Forget(s), p) ELSE Forget(s)
      r == [Restart(i) EXCEPT !.treq = tack, !.outReq = IF tack = 0 THEN 0 ELSE @]
  IN  IF tack = 1 /\ cuda_msg_avail(r) THEN r ELSE Shift(r)

\* makes up the message that was announced
FillOut(s) ==
  LET f == [s EXCEPT !.fill = FALSE]
  IN  IF cuda_msg_avail(f) THEN f
      ELSE IF f.onesec /\ f.pending > 0 THEN Reply([f EXCEPT !.pending = @ - 1], 1)
      ELSE IF f.autopoll THEN adb_poll(f) ELSE f

\* A byte is always stored.
InByte_Any(s) == s.inCount + 1

InByte(s) == Smaller(s.inCount + 1, VIA_BUFFER_LEN)

\* cuda_handshake with TIP low: one byte, in the direction TREQ tells
HandshakeLow(s) ==
  IF s.treq = 1
  THEN Shift([s EXCEPT !.inCount = InByte(s)])
  ELSE LET f == IF s.fill THEN FillOut(s) ELSE s
           n == f.outCount + 1
       IN  Shift(IF n >= f.outReq
                 THEN [f EXCEPT !.outCount = 0, !.outReq = 0, !.treq = 1]
                 ELSE [f EXCEPT !.outCount = n])

cuda_handshake(s, tack, tip, p) ==
  IF s.tack = tack /\ s.tip = tip THEN s
  ELSE LET l == [s EXCEPT !.tack = tack, !.tip = tip]
       IN  IF tip = 1 THEN HandshakeHigh(l, tack, p) ELSE HandshakeLow(l)

\* a message is announced
Announce(s) == Shift([s EXCEPT !.fill = TRUE, !.treq = 0])

\* The announcement does not look whether there is a message.
Idle_Any(s) == s.treq = 1 /\ s.tip = 1 /\ ~cuda_msg_avail(s) /\ s.autopoll

Idle(s) == Idle_Any(s) /\ adb_mes_avail(s)

\* Nothing is announced between two packets.
cuda_sr_idle_Not(s) == s

cuda_sr_idle(s) == IF Idle(s) THEN Announce(s) ELSE s

adb_service_request(s) ==
  IF /\ s.autopoll \/ s.onesec
     /\ s.tip = 1 /\ s.tack = 1 /\ ~cuda_msg_avail(s)
  THEN Announce(s) ELSE s

\* via_io_read( SR )
ReadSR(s) == cuda_sr_idle([s EXCEPT !.srInt = FALSE])

\* via_io_write( SR )
WriteSR(s) == [s EXCEPT !.srInt = FALSE]

-----------------------------------------------------------------------------
(* Timers.                                                                 *)

via_sr_int ==
  /\ ~exited /\ m.srActive
  /\ m' = [m EXCEPT !.srActive = FALSE, !.srInt = TRUE]
  /\ UNCHANGED <<startReply, oneSecTimers, vnc, guest, vncThread, phase, events, exited>>

cuda_start_reply ==
  /\ ~exited /\ startReply > 0 /\ startReply' = startReply - 1
  /\ m' = IF cuda_msg_avail(m) /\ m.treq = 1 /\ m.tip = 1
          THEN Shift([m EXCEPT !.treq = 0]) ELSE m
  /\ UNCHANGED <<oneSecTimers, vnc, guest, vncThread, phase, events, exited>>

cuda_one_sec_timer ==
  /\ ~exited /\ oneSecTimers > 0 /\ events < MaxEvents
  /\ events' = events + 1
  /\ IF m.onesec
     THEN m' = adb_service_request([m EXCEPT !.pending = @ + 1]) /\ UNCHANGED oneSecTimers
     ELSE oneSecTimers' = oneSecTimers - 1 /\ UNCHANGED m
  /\ UNCHANGED <<startReply, vnc, guest, vncThread, phase, exited>>

-----------------------------------------------------------------------------
(* Input.                                                                  *)

\* adb_key up to the call of adb_service_request; the ring holds one key less
\* than its size
QueueKey(s) ==
  IF s.keys + 1 < KEY_BUF_SIZE THEN [s EXCEPT !.keys = @ + 1, !.kbdReq = TRUE] ELSE s

TellCuda(s) == IF s.autopoll THEN adb_service_request(s) ELSE s

adb_key ==
  /\ ~exited /\ ~vnc /\ events < MaxEvents /\ events' = events + 1
  /\ IF vncThread THEN m' = QueueKey(m) /\ vnc' = TRUE
     ELSE m' = TellCuda(QueueKey(m)) /\ UNCHANGED vnc
  /\ UNCHANGED <<startReply, oneSecTimers, guest, vncThread, phase, exited>>

\* the rest of adb_key, in the VNC thread
AdbKeyTell ==
  /\ ~exited /\ vnc /\ vnc' = FALSE /\ m' = TellCuda(m)
  /\ UNCHANGED <<startReply, oneSecTimers, guest, vncThread, phase, events, exited>>

\* motions add up or cancel out, but the mouse stays dirty
adb_mouse_event ==
  /\ ~exited /\ events < MaxEvents /\ events' = events + 1
  /\ \E n \in 1..MaxMotion : m' = TellCuda([m EXCEPT !.motion = n, !.mouseReq = TRUE])
  /\ UNCHANGED <<startReply, oneSecTimers, vnc, guest, vncThread, phase, exited>>

-----------------------------------------------------------------------------
(* The guest.                                                              *)

\* the byte that is fetched was announced, and there is none
NoMessage(s) == s.treq = 0 /\ s.fill /\ ~cuda_msg_avail(FillOut(s))

\* via_io_write( B ): cuda_handshake, the timers that it starts, and its exit
\* with "Message supposed to be available"
WriteB(tack, tip) ==
  LET changed == ~(m.tack = tack /\ m.tip = tip)
      packet == changed /\ tip = 1 /\ m.inCount >= 2
  IN  IF changed /\ tip = 0 /\ NoMessage(m)
      THEN exited' = TRUE /\ UNCHANGED <<m, startReply, oneSecTimers>>
      ELSE \E p \in IF packet THEN Packets ELSE {"other"} :
             /\ m' = cuda_handshake(m, tack, tip, p)
             /\ oneSecTimers' = oneSecTimers + (IF p = "onesec_on" THEN 1 ELSE 0)
             /\ startReply' = startReply +
                  (IF changed /\ tip = 1 /\ tack = 1 /\ cuda_msg_avail(m') THEN 1 ELSE 0)
             /\ oneSecTimers' <= MaxTimers /\ startReply' <= MaxTimers
             /\ UNCHANGED exited

WildGuest ==
  /\ ~exited /\ guest = "wild"
  /\ \/ \E tack, tip \in {0, 1} : WriteB(tack, tip)
     \/ m' = ReadSR(m) /\ UNCHANGED <<startReply, oneSecTimers, exited>>
     \/ m' = WriteSR(m) /\ UNCHANGED <<startReply, oneSecTimers, exited>>
  /\ UNCHANGED <<vnc, guest, vncThread, phase, events>>

\* The driver answers the interrupt: it looks at TREQ, then accesses SR
\* and goes on to the write of B that its state calls for.  A command that
\* lost to a message is sent again after the message.
DriverIrq ==
  /\ ~exited /\ guest = "driver" /\ m.srInt
  /\ \/ phase \in {"idle", "lost", "awaiting", "reading", "done", "second"}
        /\ m' = ReadSR(m)
        /\ phase' = CASE phase \in {"idle", "lost"} -> IF m.treq = 0 THEN "fetch" ELSE phase
                      [] phase = "awaiting" -> "fetch"
                      [] phase = "reading" -> IF m.treq = 0 THEN "next" ELSE "finish"
                      [] phase = "done" -> IF m.treq = 0 THEN "fetch" ELSE "idle"
                      [] phase = "second" -> "end"
     \/ phase = "first" /\ m.treq = 0 /\ m' = ReadSR(m) /\ phase' = "collision"
     \/ phase = "first" /\ m.treq = 1 /\ m' = WriteSR(m) /\ phase' = "send"
  /\ UNCHANGED <<startReply, oneSecTimers, vnc, guest, vncThread, events, exited>>

\* It has a command and TREQ is high.
DriverStart ==
  /\ ~exited /\ guest = "driver" /\ phase = "idle" /\ m.treq = 1
  /\ m' = WriteSR(m) /\ phase' = "start"
  /\ UNCHANGED <<startReply, oneSecTimers, vnc, guest, vncThread, events, exited>>

DriverWrite ==
  /\ ~exited /\ guest = "driver"
  /\ \/ phase = "boot" /\ phase' = "idle" /\ WriteB(1, 1)
     \/ phase = "start" /\ phase' = "first" /\ WriteB(m.tack, 0)
     \/ phase = "send" /\ phase' = "second" /\ WriteB(1 - m.tack, 0)
     \/ phase = "collision" /\ phase' = "lost" /\ WriteB(1, 1)
     \/ phase = "end" /\ phase' = "awaiting" /\ WriteB(1, 1)
     \/ phase = "fetch" /\ phase' = "reading" /\ WriteB(m.tack, 0)
     \/ phase = "next" /\ phase' = "reading" /\ WriteB(1 - m.tack, 0)
     \/ phase = "finish" /\ phase' = "done" /\ WriteB(1, 1)
  /\ UNCHANGED <<vnc, guest, vncThread, events>>

-----------------------------------------------------------------------------
\* via_cuda_init: the structures are zero
Init ==
  /\ m = [tack |-> 0, tip |-> 0, treq |-> 0, outCount |-> 0, outReq |-> 0,
          fill |-> FALSE, inCount |-> 0, autopoll |-> FALSE, onesec |-> FALSE,
          pending |-> 0, keys |-> 0, motion |-> 0, kbdReq |-> FALSE,
          mouseReq |-> FALSE, srActive |-> FALSE, srInt |-> FALSE]
  /\ startReply = 0 /\ oneSecTimers = 0 /\ vnc = FALSE
  /\ guest \in Guests /\ vncThread \in VncThreads /\ phase = "boot" /\ events = 0
  /\ exited = FALSE

Driver == DriverIrq \/ DriverWrite

Next == \/ via_sr_int \/ cuda_start_reply \/ cuda_one_sec_timer
        \/ adb_key \/ AdbKeyTell \/ adb_mouse_event
        \/ WildGuest \/ DriverStart \/ Driver

Spec == Init /\ [][Next]_vars

\* Timers expire, and a driver answers interrupts.
Fairness == WF_vars(via_sr_int) /\ WF_vars(cuda_start_reply) /\ WF_vars(Driver)

FairSpec == Spec /\ Fairness

-----------------------------------------------------------------------------
(* Properties.                                                             *)

\* Every variable has its type: no count leaves its buffer.
TypeOK ==
  /\ m \in Machine
  /\ vncThread \in VncThreads /\ {vnc, exited} \subseteq BOOLEAN /\ {oneSecTimers, startReply} \subseteq 0..MaxTimers
  /\ guest \in Guests /\ events \in 0..MaxEvents
  /\ phase \in {"boot", "idle", "lost", "start", "first", "send", "second", "end", "awaiting",
                 "fetch", "reading", "next", "finish", "done", "collision"}

\* Whenever the CUDA has announced a message it finds one to send, whatever
\* the guest does in between: MOL does not exit on the guest (517-522,
\* "Message supposed to be available").
MessageAvailable == ~exited

\* So it is as long as input comes from the main thread.
NeverExits == ~vncThread => MessageAvailable

\* A device asks for service exactly while it has data, so adb_poll never
\* reports "ADB service request -- BUT NO DATA!" (450, "this is a programming
\* error in adb device driver") and no key is left lying in the ring.
ServiceHasData ==
  ~vncThread => (m.kbdReq <=> m.keys > 0) /\ (m.mouseReq <=> m.motion > 0)

\* A reply is never put into the buffer while another one is being sent from
\* it (622, 639: "via_cuda_reply: error").
ReplyBufferFree == [][m'.outReq > m.outReq => m'.outReq # VIA_BUFFER_LEN]_vars

\* A driver that keeps to the protocol gets its commands through: what it
\* has sent when it raises TIP is what the CUDA has received, also if an
\* event collided with the command.  Not so with one-second packets: they
\* are one byte long, and a collision with one looks like a byte sent.
CommandIntact == (phase = "end" /\ ~m.onesec) => m.inCount = 2

\* A key is fetched by a driver that answers interrupts, unless it turns
\* autopolling off: TREQ and the interrupt that announces it are not lost.
KeysFetched == (guest = "driver" /\ ~vncThread /\ m.autopoll /\ m.keys > 0)
                 ~> (m.keys = 0 \/ ~m.autopoll)

\* Packets are intact: counts stay within the buffers, a device that asks for
\* service has data, and commands arrive as they were sent.
PacketsIntact == TypeOK /\ ServiceHasData /\ CommandIntact
=============================================================================
