---------------------------- MODULE Cuda_proofs ----------------------------
(***************************************************************************)
(* The CUDA protocol for every guest: MOL does not exit for want of a      *)
(* message it has announced.  The announcement (fill) is a promise that a  *)
(* later step keeps, so the invariant says that what it promises exists    *)
(* until it is fetched; the lemmas say what the operators of the model     *)
(* keep of it, from the devices up to cuda_handshake.                      *)
(***************************************************************************)
EXTENDS Cuda, TLAPS

\* A device asks for service exactly while it has data.
Serv(s) == (s.kbdReq <=> s.keys > 0) /\ (s.mouseReq <=> s.motion > 0)

\* FillOut would find a message.
Has(s) == \/ s.outReq # 0
          \/ s.onesec /\ s.pending > 0
          \/ s.autopoll /\ adb_mes_avail(s)

\* The bytes sent are of the message that is being sent.
Sent(s) == s.outCount = 0 \/ s.outCount < s.outReq

\* A state of the machine, and what holds in it besides its type.
Valid(s) == s \in Machine /\ Serv(s) /\ Sent(s)

\* A message that is still to be made up is announced, and there is one.
Announced(s) == s.fill => s.treq = 0 /\ Has(s)

\* t is a valid state after s.
Moves(s, t) ==
  /\ Valid(t) /\ t.pending <= s.pending
  /\ Announced(s) => Announced(t)
  /\ t.outReq > s.outReq => t.outReq \in {1, ReplyLen}

\* s and t differ only in the lines TIP and TACK, in what the guest has sent
\* and in the shift register.
Same(s, t) ==
  /\ t.pending = s.pending /\ t.outReq = s.outReq /\ t.outCount = s.outCount
  /\ t.fill = s.fill /\ t.treq = s.treq /\ t.onesec = s.onesec /\ t.autopoll = s.autopoll
  /\ t.kbdReq = s.kbdReq /\ t.keys = s.keys
  /\ t.mouseReq = s.mouseReq /\ t.motion = s.motion

\* t is a state of the machine in which no byte and no announcement has moved
\* since s.
Keeps(s, t) ==
  /\ t \in Machine /\ Serv(t)
  /\ t.fill = s.fill /\ t.treq = s.treq /\ t.outCount = s.outCount
  /\ t.pending = s.pending /\ t.tip = s.tip /\ t.inCount = s.inCount

-----------------------------------------------------------------------------
\* Two such steps are one.
LEMMA KeepsOn ==
  ASSUME NEW s, NEW r, NEW t, Keeps(s, r), Keeps(r, t)
  PROVE  Keeps(s, t)
BY Zenon DEF Keeps

\* Reading the keyboard clears its request exactly with the last key.
LEMMA ReadKbdKeeps ==
  ASSUME NEW s \in Machine, Serv(s)
  PROVE  Keeps(s, ReadKbd(s)) /\ ReadKbd(s).outReq = s.outReq
<1> DEFINE n == Smaller(s.keys, 2)
           k == s.keys - n
           q == Serviced(s, n)
<1>1. s.keys \in 0..(KEY_BUF_SIZE - 1) /\ s.kbdReq \in BOOLEAN
  BY DEF Machine
<1>2. n \in Nat /\ n <= s.keys /\ k \in 0..(KEY_BUF_SIZE - 1)
  BY <1>1, CudaAssumption DEF CudaAssumption, Smaller
<1>3. q \in BOOLEAN /\ (q <=> k > 0)
  <2>1. q \in BOOLEAN /\ (q <=> s.kbdReq /\ s.keys > n)
    BY DEF Serviced
  <2>2. s.keys > n => s.keys > 0
    BY <1>1, <1>2
  <2>3. s.keys > n <=> k > 0
    BY <1>1, <1>2
  <2> QED BY <2>1, <2>2, <2>3 DEF Serv
<1>4. ReadKbd(s) = [s EXCEPT !.keys = k, !.kbdReq = q]
  BY DEF ReadKbd
<1> HIDE DEF n, k, q
<1> QED BY <1>2, <1>3, <1>4, ZenonT(40) DEF Machine, Serv, Keeps

\* Reading the mouse clears its request exactly with the last packet.
LEMMA ReadMouseKeeps ==
  ASSUME NEW s \in Machine, Serv(s)
  PROVE  Keeps(s, ReadMouse(s)) /\ ReadMouse(s).outReq = s.outReq
<1>1. s.motion \in 0..MaxMotion /\ s.mouseReq \in BOOLEAN /\ MaxMotion \in Nat
  BY CudaAssumption DEF Machine, CudaAssumption
<1> DEFINE k == IF s.motion <= 1 THEN 0 ELSE s.motion - 1
           q == IF s.motion <= 1 THEN FALSE ELSE s.mouseReq
<1>2. k \in 0..MaxMotion /\ q \in BOOLEAN /\ (q <=> k > 0)
  <2>1. k \in 0..MaxMotion
    BY <1>1
  <2>2. q \in BOOLEAN
    BY <1>1, Zenon
  <2>3. q <=> k > 0
    BY <1>1 DEF Serv
  <2> QED BY <2>1, <2>2, <2>3, Zenon
<1>3. ReadMouse(s) = [s EXCEPT !.motion = k, !.mouseReq = q]
  BY Zenon DEF ReadMouse, Machine
<1> HIDE DEF k, q
<1> QED BY <1>2, <1>3, ZenonT(40) DEF Machine, Serv, Keeps

\* A reply to an idle buffer is put there as it is.
LEMMA ReplyKeeps ==
  ASSUME NEW s \in Machine, Serv(s), s.outCount = 0, NEW len \in 0..VIA_BUFFER_LEN
  PROVE  Keeps(s, Reply(s, len)) /\ Reply(s, len).outReq = len
BY CudaAssumption DEF CudaAssumption, Machine, Serv, Reply, Keeps

\* A reply with the data that was read is empty only if there was none.
LEMMA ReplyDataKeeps ==
  ASSUME NEW s \in Machine, Serv(s), s.outCount = 0, NEW data \in Nat
  PROVE  /\ Keeps(s, ReplyData(s, data))
         /\ ReplyData(s, data).outReq = IF data > 0 THEN ReplyLen ELSE 0
<1> DEFINE len == IF data > 0 THEN ReplyLen ELSE 0
<1>1. len \in 0..VIA_BUFFER_LEN
  BY CudaAssumption DEF CudaAssumption
<1>2. ReplyData(s, data) = Reply(s, len)
  BY DEF ReplyData
<1> HIDE DEF len
<1>3. Keeps(s, Reply(s, len)) /\ Reply(s, len).outReq = len
  BY <1>1, ReplyKeeps, Zenon
<1> QED BY <1>2, <1>3, Zenon DEF len

\* the reply to a read of the keyboard
LEMMA ReadKbdReply ==
  ASSUME NEW s \in Machine, Serv(s), s.outCount = 0
  PROVE  LET t == ReplyData(ReadKbd(s), s.keys)
         IN  Keeps(s, t) /\ t.outReq = IF s.keys > 0 THEN ReplyLen ELSE 0
<1>1. s.keys \in Nat
  BY CudaAssumption DEF CudaAssumption, Machine
<1> DEFINE r == ReadKbd(s)
<1>2. Keeps(s, r)
  BY ReadKbdKeeps, Zenon
<1> HIDE DEF r
<1>3. r \in Machine /\ Serv(r) /\ r.outCount = 0
  BY <1>2, Zenon DEF Keeps
<1>4. Keeps(r, ReplyData(r, s.keys))
      /\ ReplyData(r, s.keys).outReq = IF s.keys > 0 THEN ReplyLen ELSE 0
  BY <1>1, <1>3, ReplyDataKeeps, Zenon
<1>5. Keeps(s, ReplyData(r, s.keys))
  BY <1>2, <1>4, KeepsOn, Zenon
<1> QED BY <1>4, <1>5, Zenon DEF r

\* the reply to a read of the mouse
LEMMA ReadMouseReply ==
  ASSUME NEW s \in Machine, Serv(s), s.outCount = 0
  PROVE  LET t == ReplyData(ReadMouse(s), s.motion)
         IN  Keeps(s, t) /\ t.outReq = IF s.motion > 0 THEN ReplyLen ELSE 0
<1>1. s.motion \in Nat
  BY CudaAssumption DEF CudaAssumption, Machine
<1> DEFINE r == ReadMouse(s)
<1>2. Keeps(s, r)
  BY ReadMouseKeeps, Zenon
<1> HIDE DEF r
<1>3. r \in Machine /\ Serv(r) /\ r.outCount = 0
  BY <1>2, Zenon DEF Keeps
<1>4. Keeps(r, ReplyData(r, s.motion))
      /\ ReplyData(r, s.motion).outReq = IF s.motion > 0 THEN ReplyLen ELSE 0
  BY <1>1, <1>3, ReplyDataKeeps, Zenon
<1>5. Keeps(s, ReplyData(r, s.motion))
  BY <1>2, <1>4, KeepsOn, Zenon
<1> QED BY <1>4, <1>5, Zenon DEF r

-----------------------------------------------------------------------------
\* The lines and the shift register have no part in the invariant.
LEMMA SameMoves ==
  ASSUME NEW s, Valid(s), NEW t \in Machine, Same(s, t)
  PROVE  Moves(s, t) /\ Serv(t) /\ (Announced(s) <=> Announced(t))
<1>1. s.pending \in Nat /\ s.outReq \in Nat
  BY CudaAssumption DEF Valid, Machine, CudaAssumption
<1> QED BY <1>1 DEF Moves, Valid, Serv, Sent, Announced, Has, adb_mes_avail, Same

\* adb_poll finds data whenever a device asks for service.
LEMMA PollKeeps ==
  ASSUME NEW s \in Machine, Serv(s), s.outCount = 0, s.outReq = 0
  PROVE  /\ Keeps(s, adb_poll(s)) /\ adb_poll(s).outReq \in {0, ReplyLen}
         /\ adb_mes_avail(s) => adb_poll(s).outReq = ReplyLen
<1>1. CASE s.mouseReq
  <2>1. s.motion > 0
    BY <1>1 DEF Serv
  <2>2. adb_poll(s) = ReplyData(ReadMouse(s), s.motion)
    BY <1>1 DEF adb_poll
  <2> QED BY <2>1, <2>2, ReadMouseReply
<1>2. CASE ~s.mouseReq /\ s.kbdReq
  <2>1. s.keys > 0
    BY <1>2 DEF Serv
  <2>2. adb_poll(s) = ReplyData(ReadKbd(s), s.keys)
    BY <1>2 DEF adb_poll
  <2> QED BY <2>1, <2>2, ReadKbdReply
<1>3. CASE ~s.mouseReq /\ ~s.kbdReq
  <2>1. adb_poll(s) = s
    BY <1>3 DEF adb_poll
  <2> QED BY <1>3, <2>1 DEF adb_mes_avail, Keeps
<1> QED BY <1>1, <1>2, <1>3, Zenon

\* the reply to a packet that sets a mode, or does nothing
LEMMA ModeReply ==
  ASSUME NEW s \in Machine, Serv(s), s.outCount = 0, NEW b \in BOOLEAN,
         NEW r, r = [s EXCEPT !.autopoll = b] \/ r = [s EXCEPT !.onesec = b] \/ r = s
  PROVE  Keeps(s, Reply(r, ReplyLen)) /\ Reply(r, ReplyLen).outReq = ReplyLen
<1>1. Keeps(s, r)
  BY DEF Keeps, Machine, Serv
<1>2. r \in Machine /\ Serv(r) /\ r.outCount = 0 /\ ReplyLen \in 0..VIA_BUFFER_LEN
  BY <1>1, CudaAssumption DEF Keeps, CudaAssumption
<1>3. Keeps(r, Reply(r, ReplyLen)) /\ Reply(r, ReplyLen).outReq = ReplyLen
  BY <1>2, ReplyKeeps, Zenon
<1> QED BY <1>1, <1>3, KeepsOn, Zenon

\* Every packet is answered from an idle buffer.
LEMMA PacketKeeps ==
  ASSUME NEW s \in Machine, Serv(s), s.outCount = 0, NEW p \in Packets
  PROVE  /\ Keeps(s, HandlePacket(s, p))
         /\ HandlePacket(s, p).outReq \in {0, ReplyLen}
<1>1. CASE p = "autopoll_on"
  BY <1>1, ModeReply, Zenon DEF HandlePacket
<1>2. CASE p = "autopoll_off"
  BY <1>2, ModeReply, Zenon DEF HandlePacket
<1>3. CASE p = "onesec_on"
  BY <1>3, ModeReply, Zenon DEF HandlePacket
<1>4. CASE p = "onesec_off"
  BY <1>4, ModeReply, Zenon DEF HandlePacket
<1>5. CASE p = "read_kbd"
  BY <1>5, ReadKbdReply DEF HandlePacket
<1>6. CASE p = "read_mouse"
  BY <1>6, ReadMouseReply DEF HandlePacket
<1>7. CASE p = "other"
  BY <1>7, ModeReply, Zenon DEF HandlePacket
<1> QED BY <1>1, <1>2, <1>3, <1>4, <1>5, <1>6, <1>7, Zenon DEF Packets

\* FillOut makes up a message whenever there is something to tell.
LEMMA FillOutFinds ==
  ASSUME NEW s, Valid(s), s.fill
  PROVE  LET t == FillOut(s) IN
         /\ t \in Machine /\ Serv(t) /\ Sent(t) /\ ~t.fill /\ t.treq = s.treq
         /\ t.pending <= s.pending /\ t.outReq \in {0, 1, ReplyLen, s.outReq}
         /\ t.tip = s.tip /\ t.inCount = s.inCount /\ t.outCount = s.outCount
         /\ Has(s) => t.outReq # 0
<1> DEFINE f == [s EXCEPT !.fill = FALSE]
<1>1. f \in Machine /\ Serv(f) /\ ~f.fill /\ f.treq = s.treq /\ f.pending = s.pending
      /\ f.outReq = s.outReq /\ f.outCount = s.outCount /\ f.onesec = s.onesec
      /\ f.autopoll = s.autopoll /\ (adb_mes_avail(f) <=> adb_mes_avail(s))
      /\ f.tip = s.tip /\ f.inCount = s.inCount
  BY Zenon DEF Valid, Machine, Serv, adb_mes_avail
<1>2. s.pending \in Nat /\ s.outReq \in Nat /\ s.outCount \in Nat /\ ReplyLen \in Nat \ {0}
      /\ s.onesec \in BOOLEAN /\ s.autopoll \in BOOLEAN
  BY CudaAssumption DEF Valid, Machine, CudaAssumption
<1>3. CASE s.outReq # 0
  <2>1. FillOut(s) = f
    BY <1>1, <1>3 DEF FillOut, cuda_msg_avail
  <2> HIDE DEF f
  <2> QED BY <1>1, <1>2, <1>3, <2>1 DEF Valid, Sent
<1>4. CASE s.outReq = 0
  <2>1. s.outCount = 0
    BY <1>2, <1>4 DEF Valid, Sent
  <2>2. CASE s.onesec /\ s.pending > 0
    <3> DEFINE r == [f EXCEPT !.pending = f.pending - 1]
    <3>a. ~cuda_msg_avail(f) /\ f.onesec /\ f.pending > 0
      BY <1>1, <1>4, <2>2 DEF cuda_msg_avail
    <3>1. FillOut(s) = Reply(r, 1)
      BY <3>a, Zenon DEF FillOut
    <3>b. f.pending - 1 \in 0..MaxEvents
      BY <1>1, <1>2, <2>2, CudaAssumption DEF Machine, CudaAssumption
    <3> HIDE DEF f
    <3>c. r \in Machine
      BY <1>1, <3>b DEF Machine
    <3>2. r \in Machine /\ Serv(r) /\ r.outCount = 0 /\ r.fill = f.fill /\ r.treq = f.treq
          /\ r.pending = s.pending - 1 /\ r.tip = f.tip /\ r.inCount = f.inCount
      BY <1>1, <2>1, <3>c DEF Machine, Serv
    <3>3. 1 \in 0..VIA_BUFFER_LEN
      BY CudaAssumption DEF CudaAssumption
    <3> HIDE DEF f, r
    <3>4. Keeps(r, Reply(r, 1)) /\ Reply(r, 1).outReq = 1
      BY <3>2, <3>3, ReplyKeeps, Zenon
    <3> QED BY <1>1, <1>2, <2>1, <3>1, <3>2, <3>4 DEF Keeps, Sent
  <2>3. CASE ~(s.onesec /\ s.pending > 0) /\ s.autopoll
    <3>1. FillOut(s) = adb_poll(f)
      BY <1>1, <1>4, <2>3 DEF FillOut, cuda_msg_avail
    <3> HIDE DEF f
    <3>2. /\ Keeps(f, adb_poll(f)) /\ adb_poll(f).outReq \in {0, ReplyLen}
          /\ adb_mes_avail(f) => adb_poll(f).outReq = ReplyLen
      BY <1>1, <1>4, <2>1, PollKeeps, Zenon
    <3> QED BY <1>1, <1>2, <1>4, <2>1, <2>3, <3>1, <3>2 DEF Keeps, Sent, Has
  <2>4. CASE ~(s.onesec /\ s.pending > 0) /\ ~s.autopoll
    <3>1. FillOut(s) = f
      BY <1>1, <1>4, <2>4 DEF FillOut, cuda_msg_avail
    <3> HIDE DEF f
    <3> QED BY <1>1, <1>2, <1>4, <2>1, <2>4, <3>1 DEF Sent, Has
  <2> QED BY <1>2, <2>2, <2>3, <2>4
<1> QED BY <1>3, <1>4

\* The end of a packet withdraws the announcement and starts over.
LEMMA HighMoves ==
  ASSUME NEW s, Valid(s), NEW tack \in {0, 1}, NEW p \in Packets
  PROVE  LET t == HandshakeHigh(s, tack, p) IN
         /\ Moves(s, t)
         /\ t.tip = s.tip /\ t.treq = tack /\ t.inCount = 0 /\ t.outCount = 0
         /\ t.outReq \in {0, ReplyLen, s.outReq}
<1> DEFINE f == Forget(s)
           z == [f EXCEPT !.outCount = 0]
           i == IF s.inCount # 0 THEN cuda_incoming(f, p) ELSE f
<1>1. f \in Machine /\ Serv(f) /\ ~f.fill /\ f.pending = s.pending /\ f.outReq = s.outReq
      /\ f.inCount = s.inCount /\ f.tip = s.tip
  BY Zenon DEF Valid, Machine, Serv, Forget
<1>2. z \in Machine /\ Serv(z) /\ ~z.fill /\ z.pending = s.pending /\ z.outReq = s.outReq
      /\ z.outCount = 0 /\ z.tip = s.tip
  <2> HIDE DEF f
  <2> QED BY <1>1, CudaAssumption DEF Machine, Serv, CudaAssumption
<1>3. i \in Machine /\ Serv(i) /\ ~i.fill /\ i.pending = s.pending
      /\ i.outReq \in {0, ReplyLen, s.outReq} /\ i.tip = s.tip
  <2>1. CASE s.inCount = 0
    BY <1>1, <2>1
  <2>2. CASE s.inCount # 0 /\ f.inCount < 2
    <3>1. i = z
      BY <2>2 DEF cuda_incoming
    <3> QED BY <1>2, <3>1, Zenon
  <2>3. CASE s.inCount # 0 /\ ~(f.inCount < 2)
    <3> DEFINE h == HandlePacket(z, p)
    <3>1. i = [h EXCEPT !.inCount = 0]
      BY <2>3 DEF cuda_incoming
    <3> HIDE DEF z, f
    <3>2. Keeps(z, h) /\ h.outReq \in {0, ReplyLen}
      BY <1>2, PacketKeeps, Zenon
    <3> HIDE DEF h, i
    <3> QED BY <1>2, <3>1, <3>2, CudaAssumption DEF Machine, Serv, Keeps, CudaAssumption
  <2> QED BY <2>1, <2>2, <2>3, Zenon
<1> HIDE DEF f, z, i
<1> DEFINE r == [Restart(i) EXCEPT !.treq = tack, !.outReq = IF tack = 0 THEN 0 ELSE @]
           t == IF tack = 1 /\ cuda_msg_avail(r) THEN r ELSE Shift(r)
<1>4. HandshakeHigh(s, tack, p) = t
  BY Zenon DEF HandshakeHigh, i, f
<1>5. r \in Machine /\ Serv(r) /\ ~r.fill /\ r.pending = s.pending /\ r.outCount = 0
      /\ (r.outReq = 0 \/ r.outReq = i.outReq) /\ r.tip = s.tip /\ r.treq = tack /\ r.inCount = 0
  <2> DEFINE q == IF tack = 0 THEN 0 ELSE i.outReq
  <2>1. r = [i EXCEPT !.outCount = 0, !.inCount = 0, !.treq = tack, !.outReq = q]
    BY <1>3 DEF Restart, Machine
  <2>2. q \in 0..VIA_BUFFER_LEN /\ 0 \in 0..VIA_BUFFER_LEN /\ (q = 0 \/ q = i.outReq)
    BY <1>3, CudaAssumption DEF CudaAssumption, Machine
  <2> HIDE DEF r, q
  <2>3. r \in Machine
    BY <1>3, <2>1, <2>2, Zenon DEF Machine
  <2> QED BY <1>3, <2>1, <2>2, <2>3 DEF Machine, Serv
<1>6. t \in Machine /\ Serv(t) /\ ~t.fill /\ t.pending = s.pending /\ t.outCount = 0
      /\ (t.outReq = 0 \/ t.outReq = i.outReq) /\ t.tip = s.tip /\ t.treq = tack /\ t.inCount = 0
  <2> HIDE DEF r
  <2>1. CASE t = r
    BY <1>5, <2>1, Zenon
  <2>2. CASE t = [r EXCEPT !.srActive = TRUE]
    <3> HIDE DEF t
    <3>1. t \in Machine
      BY <1>5, <2>2, Zenon DEF Machine
    <3>2. Serv(t) /\ t.fill = r.fill /\ t.pending = r.pending
      BY <1>5, <2>2 DEF Machine, Serv
    <3>3. /\ t.outCount = r.outCount /\ t.outReq = r.outReq /\ t.tip = r.tip
          /\ t.treq = r.treq /\ t.inCount = r.inCount
      BY <1>5, <2>2 DEF Machine
    <3> QED BY <1>5, <3>1, <3>2, <3>3, Zenon
  <2> QED BY <2>1, <2>2, Zenon DEF Shift
<1>7. s.pending \in Nat /\ s.outReq \in Nat
  BY CudaAssumption DEF Valid, Machine, CudaAssumption
<1> HIDE DEF r, t
<1>8. t.outReq > s.outReq => t.outReq \in {1, ReplyLen}
  BY <1>3, <1>6, <1>7
<1>9. t.pending <= s.pending
  BY <1>6, <1>7
<1>10. Moves(s, t)
  BY <1>6, <1>8, <1>9, Zenon DEF Moves, Valid, Sent, Announced
<1>11. t.outReq \in {0, ReplyLen, s.outReq}
  BY <1>3, <1>6, Zenon
<1> QED BY <1>4, <1>6, <1>10, <1>11, Zenon

\* A byte that is moved makes up the announced message first.
LEMMA LowMoves ==
  ASSUME NEW s, Valid(s)
  PROVE  Moves(s, HandshakeLow(s))
<1>1. s \in Machine /\ s.pending \in Nat /\ s.outReq \in 0..VIA_BUFFER_LEN
      /\ s.outCount \in 0..VIA_BUFFER_LEN /\ s.inCount \in 0..VIA_BUFFER_LEN
      /\ VIA_BUFFER_LEN \in Nat \ {0} /\ s.treq \in {0, 1} /\ s.fill \in BOOLEAN
  BY CudaAssumption DEF Valid, Machine, CudaAssumption
<1>2. CASE s.treq = 1
  <2> DEFINE t == [s EXCEPT !.inCount = InByte(s), !.srActive = TRUE]
  <2>1. HandshakeLow(s) = t
    BY <1>1, <1>2 DEF HandshakeLow, Shift, Machine
  <2>2. InByte(s) \in 0..VIA_BUFFER_LEN
    BY <1>1 DEF InByte, Smaller
  <2>a. t \in Machine
    BY <1>1, <2>2, Zenon DEF Machine
  <2>b. Same(s, t)
    BY <1>1 DEF Machine, Same
  <2> HIDE DEF t
  <2> QED BY <2>1, <2>a, <2>b, SameMoves, Zenon
<1>3. CASE s.treq = 0
  <2> DEFINE f == IF s.fill THEN FillOut(s) ELSE s
             n == f.outCount + 1
             e == [f EXCEPT !.outCount = 0, !.outReq = 0, !.treq = 1]
             c == [f EXCEPT !.outCount = n]
             t == Shift(IF n >= f.outReq THEN e ELSE c)
  <2>1. HandshakeLow(s) = t
    BY <1>3 DEF HandshakeLow
  <2>2. f \in Machine /\ Serv(f) /\ Sent(f) /\ ~f.fill /\ f.pending <= s.pending
        /\ f.outReq \in {0, 1, ReplyLen, s.outReq}
    <3>1. CASE s.fill
      BY <3>1, FillOutFinds, Zenon
    <3>2. CASE ~s.fill
      BY <1>1, <3>2 DEF Valid
    <3> QED BY <3>1, <3>2, Zenon
  <2> HIDE DEF f
  <2>3. t \in Machine /\ Serv(t) /\ ~t.fill /\ t.pending = f.pending
        /\ (t.outReq = 0 \/ t.outReq = f.outReq) /\ Sent(t)
    <3>1. f.outCount \in 0..VIA_BUFFER_LEN /\ f.outReq \in 0..VIA_BUFFER_LEN
      BY <2>2 DEF Machine
    <3>2. CASE n >= f.outReq
      <4>1. t = Shift(e)
        BY <3>2
      <4>2. e \in Machine
        <5>1. 0 \in 0..VIA_BUFFER_LEN
          BY <1>1
        <5> QED BY <2>2, <5>1, Zenon DEF Machine
      <4>3. Serv(e) /\ ~e.fill /\ e.pending = f.pending /\ e.outReq = 0 /\ e.outCount = 0
        BY <2>2 DEF Machine, Serv
      <4> HIDE DEF t, e
      <4>4. t \in Machine
        BY <4>1, <4>2, Zenon DEF Machine, Shift
      <4> QED BY <4>1, <4>2, <4>3, <4>4 DEF Machine, Serv, Sent, Shift
    <3>3. CASE ~(n >= f.outReq)
      <4>1. t = Shift(c) /\ n \in 0..VIA_BUFFER_LEN /\ n < f.outReq
        BY <1>1, <3>1, <3>3
      <4> HIDE DEF n
      <4> QED BY <1>1, <2>2, <4>1, ZenonT(40) DEF Machine, Serv, Sent, Shift
    <3> QED BY <3>2, <3>3, Zenon
  <2> HIDE DEF t
  <2>4. t.outReq > s.outReq => t.outReq \in {1, ReplyLen}
    BY <1>1, <2>2, <2>3
  <2> QED BY <2>1, <2>2, <2>3, <2>4, Zenon DEF Moves, Valid, Announced
<1> QED BY <1>1, <1>2, <1>3

\* cuda_handshake keeps the machine valid, whatever the guest writes.
LEMMA HandshakeMoves ==
  ASSUME NEW s, Valid(s), NEW tack \in {0, 1}, NEW tip \in {0, 1}, NEW p \in Packets
  PROVE  Moves(s, cuda_handshake(s, tack, tip, p))
<1>1. s \in Machine /\ s.pending \in Nat /\ s.outReq \in Nat
  BY CudaAssumption DEF Valid, Machine, CudaAssumption
<1>2. Moves(s, s)
  BY <1>1 DEF Moves
<1> DEFINE l == [s EXCEPT !.tack = tack, !.tip = tip]
<1>3. Valid(l) /\ l.pending = s.pending /\ l.outReq = s.outReq /\ (Announced(s) => Announced(l))
  <2>1. l \in Machine
    BY <1>1, Zenon DEF Machine
  <2>2. Same(s, l)
    BY <1>1 DEF Machine, Same
  <2> HIDE DEF l
  <2> QED BY <2>1, <2>2, SameMoves, Zenon DEF Moves, Same
<1>4. cuda_handshake(s, tack, tip, p) \in {s, HandshakeHigh(l, tack, p), HandshakeLow(l)}
  BY DEF cuda_handshake
<1> HIDE DEF l
<1>5. ASSUME NEW t, Moves(l, t) PROVE Moves(s, t)
  BY <1>3, <1>5, Zenon DEF Moves
<1>6. Moves(l, HandshakeHigh(l, tack, p)) /\ Moves(l, HandshakeLow(l))
  BY <1>3, HighMoves, LowMoves, Zenon
<1> QED BY <1>2, <1>4, <1>5, <1>6, Zenon

\* An announcement is sound if there is something to tell.
LEMMA Announces ==
  ASSUME NEW s, Valid(s)
  PROVE  /\ Valid(Announce(s)) /\ Announce(s).pending = s.pending
         /\ Announce(s).outReq = s.outReq
         /\ Has(s) => Announced(Announce(s))
<1> DEFINE t == [s EXCEPT !.fill = TRUE, !.treq = 0, !.srActive = TRUE]
<1>1. s \in Machine
  BY DEF Valid
<1>2. Announce(s) = t
  BY <1>1 DEF Announce, Shift, Machine
<1>3. t \in Machine
  BY <1>1, Zenon DEF Machine
<1>4. t.pending = s.pending /\ t.outReq = s.outReq /\ t.outCount = s.outCount
      /\ t.treq = 0 /\ t.onesec = s.onesec
      /\ t.autopoll = s.autopoll /\ t.kbdReq = s.kbdReq /\ t.keys = s.keys
      /\ t.mouseReq = s.mouseReq /\ t.motion = s.motion
  BY <1>1 DEF Machine
<1> HIDE DEF t
<1> QED BY <1>2, <1>3, <1>4 DEF Valid, Serv, Sent, Announced, Has, adb_mes_avail

\* Accesses to the shift register announce only what a device has.
LEMMA ReadSRMoves ==
  ASSUME NEW s, Valid(s)
  PROVE  Moves(s, ReadSR(s)) /\ Moves(s, WriteSR(s))
<1>1. s \in Machine /\ s.pending \in Nat /\ s.outReq \in Nat
  BY CudaAssumption DEF Valid, Machine, CudaAssumption
<1> DEFINE w == [s EXCEPT !.srInt = FALSE]
<1>2. w \in Machine
  BY <1>1, Zenon DEF Machine
<1>3. Same(s, w)
  BY <1>1 DEF Machine, Same
<1>4. WriteSR(s) = w /\ ReadSR(s) = cuda_sr_idle(w)
  BY DEF WriteSR, ReadSR
<1> HIDE DEF w
<1>5. Valid(w) /\ (Announced(s) => Announced(w)) /\ Moves(s, w)
  BY <1>2, <1>3, SameMoves, Zenon DEF Moves
<1>6. Moves(s, cuda_sr_idle(w))
  <2>1. CASE Idle(w)
    <3>1. cuda_sr_idle(w) = Announce(w) /\ Has(w)
      BY <2>1 DEF cuda_sr_idle, Idle, Idle_Any, Has
    <3>2. /\ Valid(Announce(w)) /\ Announce(w).pending = w.pending
          /\ Announce(w).outReq = w.outReq /\ Announced(Announce(w))
      BY <1>5, <3>1, Announces, Zenon
    <3> QED BY <1>1, <1>3, <3>1, <3>2 DEF Moves, Same
  <2>2. CASE ~Idle(w)
    BY <1>5, <2>2, Zenon DEF cuda_sr_idle
  <2> QED BY <2>1, <2>2, Zenon
<1> QED BY <1>4, <1>5, <1>6, Zenon

\* A service request is sound if there is something to tell.
LEMMA RequestMoves ==
  ASSUME NEW s, Valid(s)
  PROVE  /\ Valid(adb_service_request(s)) /\ adb_service_request(s).pending = s.pending
         /\ adb_service_request(s).outReq = s.outReq
         /\ (Announced(s) /\ Has(s) => Announced(adb_service_request(s)))
<1>1. adb_service_request(s) = s \/ adb_service_request(s) = Announce(s)
  BY Zenon DEF adb_service_request
<1> QED BY <1>1, Announces

-----------------------------------------------------------------------------
\* the inductive invariant
CInv ==
  /\ TypeOK /\ Serv(m) /\ Sent(m) /\ m.pending <= events
  /\ ~vncThread => ~vnc /\ Announced(m) /\ ~exited

\* what a step makes of the machine
Step ==
  /\ Valid(m') /\ m'.pending <= events'
  /\ (~vncThread /\ ~vnc /\ Announced(m)) => Announced(m')
  /\ m'.outReq > m.outReq => m'.outReq \in {1, ReplyLen}

\* An operation of the guest is such a step.
LEMMA MovesStep ==
  ASSUME CInv, Moves(m, m'), events' = events
  PROVE  Step
<1>1. m.pending \in Nat /\ m'.pending \in Nat /\ events \in Nat
  BY CudaAssumption DEF CInv, TypeOK, Moves, Valid, Machine, CudaAssumption
<1> QED BY <1>1 DEF CInv, Moves, Step

\* So is a step that moves no message.
LEMMA SameStep ==
  ASSUME CInv, m' \in Machine, Same(m, m'), events' = events
  PROVE  Step
<1>1. Valid(m)
  BY DEF CInv, TypeOK, Valid
<1>2. Moves(m, m')
  BY <1>1, SameMoves, Zenon
<1> QED BY <1>2, MovesStep, Zenon

\* So is a write of register B.
LEMMA WriteBStep ==
  ASSUME CInv, NEW tack \in {0, 1}, NEW tip \in {0, 1}, WriteB(tack, tip), events' = events
  PROVE  Step
<1>1. Valid(m)
  BY DEF CInv, TypeOK, Valid
<1>2. CASE m' = m
  <2>1. m' \in Machine /\ Same(m, m')
    BY <1>1, <1>2 DEF Valid, Same
  <2> QED BY <2>1, SameStep, Zenon
<1>3. CASE \E p \in Packets : m' = cuda_handshake(m, tack, tip, p)
  <2>1. Moves(m, m')
    BY <1>1, <1>3, HandshakeMoves, Zenon
  <2> QED BY <2>1, MovesStep, Zenon
<1> QED BY <1>2, <1>3 DEF WriteB, Packets

\* So is input that a device reports while it has data.
LEMMA TellStep ==
  ASSUME CInv, NEW s, Valid(s), s.pending = m.pending, s.outReq = m.outReq,
         events' \in {events, events + 1},
         m' = TellCuda(s), (Announced(m) /\ ~vncThread /\ ~vnc) => Announced(s),
         s.autopoll /\ ~vncThread /\ ~vnc => Has(s)
  PROVE  Step
<1>1. m.pending \in Nat /\ m.outReq \in Nat /\ events \in Nat
  BY CudaAssumption DEF CInv, TypeOK, Machine, CudaAssumption
<1>2. CASE m' = s
  BY <1>1, <1>2 DEF Step, CInv
<1>3. CASE s.autopoll /\ m' = adb_service_request(s)
  <2>1. /\ Valid(m') /\ m'.pending = s.pending /\ m'.outReq = s.outReq
        /\ (Announced(s) /\ Has(s) => Announced(m'))
    BY <1>3, RequestMoves, Zenon
  <2> QED BY <1>1, <1>3, <2>1 DEF Step, CInv
<1> QED BY <1>2, <1>3, Zenon DEF TellCuda

\* Every action leaves a valid machine and breaks no announcement.
LEMMA NextStep ==
  ASSUME CInv, [Next]_vars
  PROVE  Step
<1>1. Valid(m) /\ m \in Machine /\ m.pending \in Nat /\ m.outReq \in Nat /\ events \in 0..MaxEvents
      /\ MaxEvents \in Nat
  BY CudaAssumption DEF CInv, TypeOK, Valid, Machine, CudaAssumption
<1>2. CASE via_sr_int
  <2>1. m' = [m EXCEPT !.srActive = FALSE, !.srInt = TRUE] /\ events' = events
    BY <1>2 DEF via_sr_int
  <2>2. m' \in Machine /\ Same(m, m')
    BY <1>1, <2>1, Zenon DEF Machine, Same
  <2> QED BY <2>1, <2>2, SameStep, Zenon
<1>3. CASE cuda_start_reply
  <2> DEFINE t == [m EXCEPT !.treq = 0, !.srActive = TRUE]
  <2>1. events' = events /\ (m' = m \/ (m' = t /\ cuda_msg_avail(m)))
    BY <1>1, <1>3 DEF cuda_start_reply, Shift, Machine
  <2>2. Moves(m, m)
    BY <1>1 DEF Moves
  <2>3. ASSUME cuda_msg_avail(m) PROVE Moves(m, t)
    <3>1. t \in Machine
      BY <1>1, Zenon DEF Machine
    <3>2. /\ t.pending = m.pending /\ t.outReq = m.outReq /\ t.outCount = m.outCount
          /\ t.treq = 0 /\ t.kbdReq = m.kbdReq /\ t.keys = m.keys
          /\ t.mouseReq = m.mouseReq /\ t.motion = m.motion
      BY <1>1 DEF Machine
    <3> HIDE DEF t
    <3> QED BY <1>1, <2>3, <3>1, <3>2 DEF Moves, Valid, Serv, Sent, Announced, Has,
       cuda_msg_avail
  <2> HIDE DEF t
  <2>4. Moves(m, m')
    BY <2>1, <2>2, <2>3, Zenon
  <2> QED BY <2>1, <2>4, MovesStep, Zenon
<1>4. CASE cuda_one_sec_timer
  <2>1. CASE m.onesec
    <3> DEFINE t == [m EXCEPT !.pending = m.pending + 1]
    <3>1. m' = adb_service_request(t) /\ events' = events + 1 /\ events < MaxEvents
      BY <1>4, <2>1 DEF cuda_one_sec_timer
    <3>2. m.pending + 1 \in 0..MaxEvents
      BY <1>1, <3>1 DEF CInv
    <3>3. t \in Machine
      BY <1>1, <3>2 DEF Machine
    <3>4. /\ t.pending = m.pending + 1 /\ t.outReq = m.outReq /\ t.outCount = m.outCount
          /\ t.treq = m.treq /\ t.fill = m.fill /\ t.kbdReq = m.kbdReq /\ t.keys = m.keys
          /\ t.mouseReq = m.mouseReq /\ t.motion = m.motion /\ t.onesec
      BY <1>1, <2>1 DEF Machine
    <3> HIDE DEF t
    <3>5. Valid(t) /\ Has(t) /\ (Announced(m) => Announced(t))
      BY <1>1, <3>3, <3>4 DEF Valid, Serv, Sent, Announced, Has
    <3>6. /\ Valid(m') /\ m'.pending = t.pending /\ m'.outReq = t.outReq
          /\ (Announced(t) => Announced(m'))
      BY <3>1, <3>5, RequestMoves, Zenon
    <3> QED BY <1>1, <3>1, <3>4, <3>5, <3>6 DEF Step, CInv
  <2>2. CASE ~m.onesec
    <3>1. m' = m /\ events' = events + 1
      BY <1>4, <2>2 DEF cuda_one_sec_timer
    <3> QED BY <1>1, <3>1 DEF Step, CInv
  <2> QED BY <2>1, <2>2, Zenon
<1>5. CASE adb_key
  <2> DEFINE s == QueueKey(m)
  <2>1. events' = events + 1 /\ (m' = TellCuda(s) \/ (vncThread /\ m' = s))
    BY <1>5, Zenon DEF adb_key
  <2>2. s \in Machine /\ Serv(s) /\ s.kbdReq
    <3>1. m.keys \in 0..(KEY_BUF_SIZE - 1) /\ KEY_BUF_SIZE \in Nat \ {0, 1} /\ Serv(m)
      BY <1>1, CudaAssumption DEF Machine, CudaAssumption, CInv
    <3>2. CASE m.keys + 1 < KEY_BUF_SIZE
      <4>1. s = [m EXCEPT !.keys = m.keys + 1, !.kbdReq = TRUE]
            /\ m.keys + 1 \in 0..(KEY_BUF_SIZE - 1) /\ m.keys + 1 > 0
        BY <3>1, <3>2 DEF QueueKey
      <4> HIDE DEF s
      <4> QED BY <1>1, <3>1, <4>1, Zenon DEF Machine, Serv
    <3>3. CASE ~(m.keys + 1 < KEY_BUF_SIZE)
      <4>1. s = m /\ m.keys > 0
        BY <3>1, <3>3 DEF QueueKey
      <4> HIDE DEF s
      <4> QED BY <1>1, <3>1, <4>1 DEF Serv
    <3> QED BY <3>2, <3>3, Zenon
  <2>3. /\ s.pending = m.pending /\ s.outReq = m.outReq /\ s.outCount = m.outCount
        /\ s.treq = m.treq /\ s.fill = m.fill /\ s.onesec = m.onesec /\ s.autopoll = m.autopoll
        /\ s.mouseReq = m.mouseReq
    BY <1>1 DEF Machine, QueueKey
  <2> HIDE DEF s
  <2>4. Valid(s) /\ (Announced(m) => Announced(s)) /\ (s.autopoll => Has(s))
    BY <1>1, <2>2, <2>3 DEF Valid, Sent, Announced, Has, adb_mes_avail
  <2>5. CASE m' = TellCuda(s)
    BY <2>1, <2>3, <2>4, <2>5, TellStep, Zenon
  <2>6. CASE vncThread /\ m' = s
    BY <1>1, <2>1, <2>3, <2>4, <2>6 DEF Step, CInv
  <2> QED BY <2>1, <2>5, <2>6, Zenon
<1>6. CASE AdbKeyTell
  <2>1. m' = TellCuda(m) /\ vnc /\ events' = events
    BY <1>6 DEF AdbKeyTell
  <2> QED BY <1>1, <2>1, TellStep, Zenon
<1>7. CASE adb_mouse_event
  <2>1. PICK n \in 1..MaxMotion : m' = TellCuda([m EXCEPT !.motion = n, !.mouseReq = TRUE])
    BY <1>7, Zenon DEF adb_mouse_event
  <2> DEFINE s == [m EXCEPT !.motion = n, !.mouseReq = TRUE]
  <2>2. n \in 0..MaxMotion /\ n > 0 /\ events' = events + 1
    BY <1>7, CudaAssumption DEF adb_mouse_event, CudaAssumption
  <2>3. s \in Machine
    BY <1>1, <2>2, Zenon DEF Machine
  <2>4. /\ s.pending = m.pending /\ s.outReq = m.outReq /\ s.outCount = m.outCount
        /\ s.treq = m.treq /\ s.fill = m.fill /\ s.onesec = m.onesec /\ s.autopoll = m.autopoll
        /\ s.kbdReq = m.kbdReq /\ s.keys = m.keys /\ s.mouseReq /\ s.motion = n
    BY <1>1 DEF Machine
  <2>5. m' = TellCuda(s)
    BY <2>1
  <2> HIDE DEF s
  <2>6. Valid(s) /\ (Announced(m) => Announced(s)) /\ (s.autopoll => Has(s))
    BY <1>1, <2>2, <2>3, <2>4 DEF Valid, Serv, Sent, Announced, Has, adb_mes_avail
  <2> QED BY <2>2, <2>4, <2>5, <2>6, TellStep, Zenon
<1>8. CASE WildGuest
  <2>1. events' = events
    BY <1>8 DEF WildGuest
  <2>2. CASE \E tack, tip \in {0, 1} : WriteB(tack, tip)
    BY <2>1, <2>2, WriteBStep, Zenon
  <2>3. CASE m' = ReadSR(m) \/ m' = WriteSR(m)
    BY <1>1, <2>1, <2>3, ReadSRMoves, MovesStep, Zenon
  <2> QED BY <1>8, <2>2, <2>3, Zenon DEF WildGuest
<1>9. CASE DriverStart
  <2>1. events' = events /\ m' = WriteSR(m)
    BY <1>9 DEF DriverStart
  <2> QED BY <1>1, <2>1, ReadSRMoves, MovesStep, Zenon
<1>10. CASE DriverIrq
  <2>1. events' = events /\ (m' = ReadSR(m) \/ m' = WriteSR(m))
    BY <1>10, Zenon DEF DriverIrq
  <2> QED BY <1>1, <2>1, ReadSRMoves, MovesStep, Zenon
<1>11. CASE DriverWrite
  <2>1. events' = events
    BY <1>11 DEF DriverWrite
  <2>2. m.tack \in {0, 1} /\ 1 - m.tack \in {0, 1} /\ 1 \in {0, 1} /\ 0 \in {0, 1}
    BY <1>1 DEF Machine
  <2>3. \E tack, tip \in {0, 1} : WriteB(tack, tip)
    BY <1>11, <2>2, Zenon DEF DriverWrite
  <2> QED BY <2>1, <2>3, WriteBStep, Zenon
<1>12. CASE UNCHANGED vars
  <2>1. m' = m /\ events' = events
    BY <1>12 DEF vars
  <2> QED BY <1>1, <2>1 DEF Step, CInv
<1> QED BY <1>2, <1>3, <1>4, <1>5, <1>6, <1>7, <1>8, <1>9, <1>10, <1>11, <1>12, Zenon DEF Next,
   Driver

\* The variables around the machine keep their types.
Around ==
  /\ vncThread \in VncThreads /\ {vnc, exited} \subseteq BOOLEAN
  /\ {oneSecTimers, startReply} \subseteq 0..MaxTimers
  /\ guest \in Guests /\ events \in 0..MaxEvents
  /\ phase \in {"boot", "idle", "lost", "start", "first", "send", "second", "end", "awaiting",
                 "fetch", "reading", "next", "finish", "done", "collision"}

\* A write of B makes MOL exit only if keys come from the VNC thread.
LEMMA WriteBAround ==
  ASSUME CInv, NEW tack \in {0, 1}, NEW tip \in {0, 1}, WriteB(tack, tip)
  PROVE  /\ oneSecTimers' \in 0..MaxTimers /\ startReply' \in 0..MaxTimers
         /\ exited' \in BOOLEAN /\ (~vncThread => exited' = exited)
<1>1. oneSecTimers \in 0..MaxTimers /\ startReply \in 0..MaxTimers /\ exited \in BOOLEAN
      /\ MaxTimers \in Nat /\ Valid(m)
  BY CudaAssumption DEF CInv, TypeOK, Valid, CudaAssumption
<1> DEFINE changed == ~(m.tack = tack /\ m.tip = tip)
<1>2. CASE changed /\ tip = 0 /\ NoMessage(m)
  <2>1. exited' = TRUE /\ oneSecTimers' = oneSecTimers /\ startReply' = startReply
    BY <1>2, Zenon DEF WriteB
  <2>2. m.fill /\ FillOut(m).outReq = 0
    BY <1>2 DEF NoMessage, cuda_msg_avail
  <2>3. vncThread
    BY <1>1, <2>2, FillOutFinds, Zenon DEF CInv, Announced
  <2> QED BY <1>1, <2>1, <2>3, Zenon
<1>3. CASE ~(changed /\ tip = 0 /\ NoMessage(m))
  <2>1. PICK a \in {0, 1}, b \in {0, 1} :
          /\ oneSecTimers' = oneSecTimers + a /\ startReply' = startReply + b
          /\ oneSecTimers' <= MaxTimers /\ startReply' <= MaxTimers /\ exited' = exited
    BY <1>3 DEF WriteB
  <2> QED BY <1>1, <2>1
<1> QED BY <1>2, <1>3, Zenon

\* Every action keeps the types of the variables around the machine.
LEMMA NextAround ==
  ASSUME CInv, [Next]_vars
  PROVE  Around' /\ (~vncThread => ~vnc' /\ exited' = exited) /\ vncThread' = vncThread
<1> USE CudaAssumption DEF CudaAssumption, CInv, TypeOK, Around
<1>1. CASE via_sr_int
  BY <1>1 DEF via_sr_int
<1>2. CASE cuda_start_reply
  BY <1>2 DEF cuda_start_reply
<1>3. CASE cuda_one_sec_timer
  BY <1>3 DEF cuda_one_sec_timer
<1>4. CASE adb_key
  <2>1. UNCHANGED <<startReply, oneSecTimers, guest, vncThread, phase, exited>>
        /\ events' \in 0..MaxEvents
    BY <1>4 DEF adb_key
  <2>2. vnc' \in BOOLEAN /\ (~vncThread => ~vnc')
    <3>1. (vncThread /\ vnc' = TRUE) \/ (~vncThread /\ vnc' = vnc)
      BY <1>4, Zenon DEF adb_key
    <3>2. CASE vncThread /\ vnc' = TRUE
      BY <3>2, Zenon
    <3>3. CASE ~vncThread /\ vnc' = vnc
      <4>1. vnc \in BOOLEAN /\ ~vnc
        BY <3>3
      <4> QED BY <3>3, <4>1, Zenon
    <3> QED BY <3>1, <3>2, <3>3, Zenon
  <2> QED BY <2>1, <2>2
<1>5. CASE AdbKeyTell
  BY <1>5, Zenon DEF AdbKeyTell
<1>6. CASE adb_mouse_event
  BY <1>6 DEF adb_mouse_event
<1>7. CASE WildGuest
  <2>1. UNCHANGED <<vnc, guest, vncThread, phase, events>>
    BY <1>7 DEF WildGuest
  <2>2. CASE \E tack, tip \in {0, 1} : WriteB(tack, tip)
    <3>1. /\ oneSecTimers' \in 0..MaxTimers /\ startReply' \in 0..MaxTimers
          /\ exited' \in BOOLEAN /\ (~vncThread => exited' = exited)
      BY <2>2, WriteBAround, Zenon
    <3> QED BY <2>1, <3>1
  <2>3. CASE UNCHANGED <<startReply, oneSecTimers, exited>>
    BY <2>1, <2>3
  <2> QED BY <1>7, <2>2, <2>3, Zenon DEF WildGuest
<1>8. CASE DriverStart
  BY <1>8 DEF DriverStart
<1>9. CASE DriverIrq
  <2>1. UNCHANGED <<startReply, oneSecTimers, vnc, guest, vncThread, events, exited>>
    BY <1>9 DEF DriverIrq
  <2>2. phase' \in {"lost", "idle", "fetch", "next", "finish", "end", "collision", "send"}
    BY <1>9 DEF DriverIrq
  <2> QED BY <2>1, <2>2
<1>10. CASE DriverWrite
  <2>1. UNCHANGED <<vnc, guest, vncThread, events>>
        /\ phase' \in {"idle", "first", "second", "lost", "awaiting", "reading", "done"}
    BY <1>10 DEF DriverWrite
  <2>2. m.tack \in {0, 1} /\ 1 - m.tack \in {0, 1} /\ 1 \in {0, 1} /\ 0 \in {0, 1}
    BY DEF Machine
  <2>3. \E tack, tip \in {0, 1} : WriteB(tack, tip)
    BY <1>10, <2>2, Zenon DEF DriverWrite
  <2>4. /\ oneSecTimers' \in 0..MaxTimers /\ startReply' \in 0..MaxTimers
        /\ exited' \in BOOLEAN /\ (~vncThread => exited' = exited)
    BY <2>3, WriteBAround, Zenon
  <2> QED BY <2>1, <2>4
<1>11. CASE UNCHANGED vars
  BY <1>11 DEF vars
<1> QED BY <1>1, <1>2, <1>3, <1>4, <1>5, <1>6, <1>7, <1>8, <1>9, <1>10, <1>11, Zenon DEF Next,
   Driver

\* The zeroed structures satisfy the invariant.
LEMMA InitCInv == Init => CInv
<1> SUFFICES ASSUME Init PROVE CInv
  OBVIOUS
<1>1. m \in Machine
  <2>1. 0 \in 0..VIA_BUFFER_LEN /\ 0 \in 0..MaxEvents /\ 0 \in 0..(KEY_BUF_SIZE - 1)
        /\ 0 \in 0..MaxMotion
    BY CudaAssumption DEF CudaAssumption
  <2> QED BY <2>1 DEF Init, Machine
<1>2. TypeOK
  <2>1. vncThread \in VncThreads /\ {vnc, exited} \subseteq BOOLEAN /\ guest \in Guests
    BY Zenon DEF Init
  <2>2. {oneSecTimers, startReply} \subseteq 0..MaxTimers /\ events \in 0..MaxEvents
    BY CudaAssumption DEF Init, CudaAssumption
  <2>3. phase = "boot"
    BY DEF Init
  <2> QED BY <1>1, <2>1, <2>2, <2>3, Zenon DEF TypeOK
<1> QED BY <1>2 DEF Init, CInv, Serv, Sent, Announced

\* The invariant holds in every reachable state.
THEOREM Invariance == Spec => []CInv
<1>1. CInv /\ [Next]_vars => CInv'
  <2> SUFFICES ASSUME CInv, [Next]_vars PROVE CInv'
    OBVIOUS
  <2>1. Step
    BY NextStep, Zenon
  <2>2. Around' /\ (~vncThread => ~vnc' /\ exited' = exited) /\ vncThread' = vncThread
    BY NextAround, Zenon
  <2>3. TypeOK'
    BY <2>1, <2>2, Zenon DEF Step, Valid, Around, TypeOK
  <2> QED BY <2>1, <2>2, <2>3 DEF Step, Valid, CInv
<1> QED BY <1>1, InitCInv, PTL DEF Spec

\* No count of via-cuda.c or adb.c leaves its buffer, whatever the guest does.
THEOREM Typed == Spec => []TypeOK
<1>1. CInv => TypeOK
  BY DEF CInv
<1> QED BY <1>1, Invariance, PTL

\* With input from the main thread only, cuda_handshake never exits with
\* "Message supposed to be available", whatever bytes and lines the guest sends.
THEOREM DoesNotExit == Spec => []NeverExits
<1>1. CInv => NeverExits
  BY DEF CInv, NeverExits, MessageAvailable
<1> QED BY <1>1, Invariance, PTL

\* A device asks for service exactly while it has data ("BUT NO DATA" in
\* adb_poll is unreachable).
THEOREM RequestsHaveData == Spec => []ServiceHasData
<1>1. CInv => ServiceHasData
  BY DEF CInv, Serv, ServiceHasData, TypeOK, Machine
<1> QED BY <1>1, Invariance, PTL

\* No reply is put into a buffer that is being sent from, if replies are
\* shorter than the buffer so that the model tells the collision.
THEOREM RepliesDoNotMeet ==
  ASSUME ReplyLen < VIA_BUFFER_LEN
  PROVE  Spec => ReplyBufferFree
<1>1. CInv /\ [Next]_vars => [m'.outReq > m.outReq => m'.outReq # VIA_BUFFER_LEN]_vars
  <2> SUFFICES ASSUME CInv, [Next]_vars, m'.outReq > m.outReq
               PROVE  m'.outReq # VIA_BUFFER_LEN
    OBVIOUS
  <2>1. m'.outReq \in {1, ReplyLen}
    BY NextStep DEF Step
  <2> QED BY <2>1, CudaAssumption DEF CudaAssumption
<1> QED BY <1>1, Invariance, PTL DEF Spec, ReplyBufferFree

-----------------------------------------------------------------------------
(* The driver's commands.                                                  *)

\* phases of the driver between two packets, and within one
Between == {"idle", "lost", "start", "awaiting", "fetch", "done"}
Within == {"boot", "first", "send", "second", "end", "reading", "next", "finish",
           "collision"}

\* Between two packets TIP is high, the counts are zero, and TREQ is
\* low only for a message that exists or was announced.
Rested(s) ==
  /\ s.tip = 1 /\ s.inCount = 0 /\ s.outCount = 0
  /\ s.treq = 0 => s.fill \/ s.outReq # 0

\* The driver of a command has sent as many bytes as its phase says, unless a
\* one-second packet took the place of the first.
Sending ==
  /\ phase \in Within => m.tip = 0
  /\ phase \in Between => Rested(m)
  /\ phase = "first" /\ m.treq = 1 /\ ~m.onesec => m.inCount = 1
  /\ phase = "send" => m.treq = 1 /\ (~m.onesec => m.inCount = 1)
  /\ phase \in {"second", "end"} /\ ~m.onesec => m.inCount = 2

\* No message of one byte waits: such a packet is sent whole with one handshake.
DInv ==
  /\ m.outReq # 1
  /\ guest = "wild" => phase = "boot"
  /\ exited => phase # "end"
  /\ guest = "driver" /\ ~exited => Sending

\* t is s after anything but a handshake: TREQ may have been lowered, for a
\* message, while TIP was high.
Quietly(s, t) ==
  /\ t.tip = s.tip /\ t.inCount = s.inCount
  /\ t.outCount = s.outCount /\ t.onesec = s.onesec /\ t.outReq = s.outReq
  /\ \/ t.treq = s.treq /\ t.fill = s.fill
     \/ s.tip = 1 /\ t.treq = 0 /\ (t.fill \/ s.outReq # 0)

LEMMA QuietlyOn ==
  ASSUME NEW s, NEW r, NEW t, Quietly(s, r), Quietly(r, t)
  PROVE  Quietly(s, t)
BY Zenon DEF Quietly

LEMMA AnnounceQuietly ==
  ASSUME NEW s \in Machine, s.tip = 1
  PROVE  Quietly(s, Announce(s))
<1> DEFINE t == [s EXCEPT !.fill = TRUE, !.treq = 0, !.srActive = TRUE]
<1>1. Announce(s) = t
  BY DEF Announce, Shift, Machine
<1>2. t.tip = s.tip /\ t.inCount = s.inCount
      /\ t.outCount = s.outCount /\ t.onesec = s.onesec /\ t.outReq = s.outReq
      /\ t.treq = 0 /\ t.fill
  BY DEF Machine
<1> HIDE DEF t
<1> QED BY <1>1, <1>2 DEF Quietly

\* Accesses to the shift register and requests for service are no handshakes.
LEMMA OpsQuietly ==
  ASSUME NEW s \in Machine
  PROVE  /\ Quietly(s, s) /\ Quietly(s, WriteSR(s)) /\ Quietly(s, ReadSR(s))
         /\ Quietly(s, adb_service_request(s)) /\ Quietly(s, TellCuda(s))
<1>1. Quietly(s, s)
  BY DEF Quietly
<1> DEFINE w == [s EXCEPT !.srInt = FALSE]
<1>2. w \in Machine /\ Quietly(s, w) /\ WriteSR(s) = w /\ ReadSR(s) = cuda_sr_idle(w)
  BY Zenon DEF Machine, Quietly, WriteSR, ReadSR
<1> HIDE DEF w
<1>3. Quietly(w, cuda_sr_idle(w))
  <2>1. CASE Idle(w)
    <3>1. w.tip = 1 /\ cuda_sr_idle(w) = Announce(w)
      BY <2>1 DEF Idle, Idle_Any, cuda_sr_idle
    <3> QED BY <1>2, <3>1, AnnounceQuietly
  <2>2. CASE ~Idle(w)
    <3>1. cuda_sr_idle(w) = w
      BY <2>2 DEF cuda_sr_idle
    <3> QED BY <3>1 DEF Quietly
  <2> QED BY <2>1, <2>2
<1>4. Quietly(s, ReadSR(s))
  BY <1>2, <1>3, QuietlyOn
<1>5. Quietly(s, adb_service_request(s))
  <2>1. adb_service_request(s) = s \/ (s.tip = 1 /\ adb_service_request(s) = Announce(s))
    BY DEF adb_service_request
  <2> QED BY <1>1, <2>1, AnnounceQuietly
<1>6. Quietly(s, TellCuda(s))
  BY <1>1, <1>5 DEF TellCuda
<1> QED BY <1>1, <1>2, <1>4, <1>5, <1>6

\* Making up a message leaves the modes alone, and only a one-second packet
\* is one byte long.
LEMMA FillOutModes ==
  ASSUME NEW s, Valid(s), s.fill
  PROVE  LET t == FillOut(s) IN
         t.onesec = s.onesec /\ (~s.onesec => t.outReq \in {0, ReplyLen, s.outReq})
<1> DEFINE f == [s EXCEPT !.fill = FALSE]
<1>1. f \in Machine /\ Serv(f) /\ f.outReq = s.outReq /\ f.outCount = s.outCount
      /\ f.onesec = s.onesec
  BY Zenon DEF Valid, Machine, Serv
<1>2. s.outReq \in Nat /\ s.outCount \in Nat
  BY CudaAssumption DEF Valid, Machine, CudaAssumption
<1> HIDE DEF f
<1>3. CASE FillOut(s) = f
  BY <1>1, <1>3
<1>4. CASE f.onesec /\ FillOut(s) = Reply([f EXCEPT !.pending = f.pending - 1], 1)
  <2>1. FillOut(s).onesec = f.onesec
    BY <1>1, <1>4, Zenon DEF Machine, Reply
  <2> QED BY <1>1, <1>4, <2>1, Zenon
<1>5. CASE FillOut(s) = adb_poll(f) /\ f.outReq = 0
  <2>1. f.outCount = 0
    BY <1>1, <1>2, <1>5 DEF Valid, Sent
  <2>2. adb_poll(f).outReq \in {0, ReplyLen}
    BY <1>1, <1>5, <2>1, PollKeeps, Zenon
  <2>3. adb_poll(f).onesec = f.onesec
    <3>1. \A d : ReplyData(ReadMouse(f), d).onesec = f.onesec
      BY <1>1 DEF Machine, ReplyData, Reply, ReadMouse
    <3>2. \A d : ReplyData(ReadKbd(f), d).onesec = f.onesec
      BY <1>1 DEF Machine, ReplyData, Reply, ReadKbd
    <3> QED BY <3>1, <3>2 DEF adb_poll
  <2> QED BY <1>1, <1>5, <2>2, <2>3
<1> QED BY <1>3, <1>4, <1>5, Zenon DEF FillOut, cuda_msg_avail, f

\* The missing message does not depend on the lines.
LEMMA MissingSame ==
  ASSUME NEW s, Valid(s), NEW t, Valid(t), Same(s, t), NoMessage(t)
  PROVE  NoMessage(s)
<1>1. t.treq = 0 /\ t.fill /\ FillOut(t).outReq = 0
  BY Zenon DEF NoMessage, cuda_msg_avail
<1>2. ~Has(t)
  BY <1>1, FillOutFinds, Zenon
<1>3. s.treq = 0 /\ s.fill /\ ~Has(s)
  BY <1>1, <1>2 DEF Same, Has, adb_mes_avail
<1> DEFINE f == [s EXCEPT !.fill = FALSE]
<1>4. f.outReq = s.outReq /\ f.onesec = s.onesec /\ f.pending = s.pending
      /\ f.autopoll = s.autopoll /\ f.kbdReq = s.kbdReq /\ f.mouseReq = s.mouseReq
  BY DEF Valid, Machine
<1>a. FillOut(s) = IF cuda_msg_avail(f) THEN f
                   ELSE IF f.onesec /\ f.pending > 0
                   THEN Reply([f EXCEPT !.pending = f.pending - 1], 1)
                   ELSE IF f.autopoll THEN adb_poll(f) ELSE f
  BY Zenon DEF FillOut
<1> HIDE DEF f
<1>5. f.outReq = 0 /\ ~(f.onesec /\ f.pending > 0) /\ ~(f.autopoll /\ (f.mouseReq \/ f.kbdReq))
  BY <1>3, <1>4 DEF Has, adb_mes_avail
<1>6. f.autopoll => adb_poll(f) = f
  BY <1>5 DEF adb_poll
<1>7. FillOut(s) = f
  BY <1>a, <1>5, <1>6 DEF cuda_msg_avail
<1> QED BY <1>3, <1>5, <1>7 DEF NoMessage, cuda_msg_avail

\* A byte that the guest sends is counted; a byte that it fetches is not the
\* last one unless the message was a one-second packet or had been begun.
LEMMA LowByte ==
  ASSUME NEW s, Valid(s)
  PROVE  LET t == HandshakeLow(s) IN
         /\ t.tip = s.tip /\ t.onesec = s.onesec
         /\ s.treq = 1 => t.treq = 1 /\ t.inCount = InByte(s) /\ t.outReq = s.outReq
         /\ s.treq = 0 => t.outReq # 1
         /\ (/\ s.treq = 0 /\ s.outCount = 0 /\ ~s.onesec /\ s.outReq # 1
             /\ (s.fill \/ s.outReq # 0) /\ ~NoMessage(s)) => t.treq = 0
<1>1. s \in Machine /\ s.outReq \in Nat /\ s.outCount \in Nat /\ s.treq \in {0, 1}
      /\ ReplyLen \in Nat /\ ReplyLen >= 2
  BY CudaAssumption DEF Valid, Machine, CudaAssumption
<1>2. CASE s.treq = 1
  <2> DEFINE t == [s EXCEPT !.inCount = InByte(s), !.srActive = TRUE]
  <2>1. HandshakeLow(s) = t
    BY <1>1, <1>2 DEF HandshakeLow, Shift, Machine
  <2>2. t.tip = s.tip /\ t.onesec = s.onesec /\ t.treq = s.treq
        /\ t.inCount = InByte(s) /\ t.outReq = s.outReq
    BY <1>1 DEF Machine
  <2> HIDE DEF t
  <2> QED BY <1>2, <2>1, <2>2
<1>3. CASE s.treq = 0
  <2> DEFINE f == IF s.fill THEN FillOut(s) ELSE s
             n == f.outCount + 1
             e == [f EXCEPT !.outCount = 0, !.outReq = 0, !.treq = 1]
             c == [f EXCEPT !.outCount = n]
             t == Shift(IF n >= f.outReq THEN e ELSE c)
  <2>1. HandshakeLow(s) = t
    BY <1>3 DEF HandshakeLow
  <2>2. f \in Machine /\ f.tip = s.tip /\ f.onesec = s.onesec /\ f.treq = 0
        /\ f.outCount = s.outCount
        /\ (~s.onesec => f.outReq \in {0, ReplyLen, s.outReq})
        /\ (s.fill /\ ~NoMessage(s) => f.outReq # 0) /\ (~s.fill => f.outReq = s.outReq)
    <3>1. CASE s.fill
      BY <1>3, <3>1, FillOutFinds, FillOutModes, Zenon DEF NoMessage, cuda_msg_avail
    <3>2. CASE ~s.fill
      BY <1>1, <1>3, <3>2
    <3> QED BY <3>1, <3>2, Zenon
  <2> HIDE DEF f
  <2>3. f.outReq \in Nat
    BY <2>2, CudaAssumption DEF Machine, CudaAssumption
  <2>4. CASE n >= f.outReq
    <3>1. t.tip = f.tip /\ t.onesec = f.onesec /\ t.outReq = 0
      BY <2>2, <2>4 DEF Shift, Machine
    <3>2. s.outCount = 0 => f.outReq <= 1
      BY <2>2, <2>3, <2>4
    <3> HIDE DEF t
    <3> QED BY <1>1, <1>3, <2>1, <2>2, <2>3, <3>1, <3>2
  <2>5. CASE ~(n >= f.outReq)
    <3>1. t.tip = f.tip /\ t.onesec = f.onesec /\ t.outReq = f.outReq /\ t.treq = f.treq
      BY <2>2, <2>5 DEF Shift, Machine
    <3>2. f.outReq # 1
      BY <1>1, <2>2, <2>3, <2>5
    <3> HIDE DEF t
    <3> QED BY <1>3, <2>1, <2>2, <3>1, <3>2
  <2> QED BY <2>4, <2>5, Zenon
<1> QED BY <1>1, <1>2, <1>3

-----------------------------------------------------------------------------
\* What DInv knows of the machine, for a driver.
LEMMA Machines ==
  ASSUME CInv
  PROVE  m \in Machine /\ Valid(m) /\ m.treq \in {0, 1} /\ m.tack \in {0, 1} /\ m.tip \in {0, 1}
BY DEF CInv, TypeOK, Valid, Machine

\* Only the lines change at first.
LEMMA LinesSame ==
  ASSUME NEW s, Valid(s), NEW tack \in {0, 1}, NEW tip \in {0, 1}
  PROVE  LET l == [s EXCEPT !.tack = tack, !.tip = tip]
         IN  Valid(l) /\ Same(s, l) /\ l.tip = tip /\ l.inCount = s.inCount
<1> DEFINE l == [s EXCEPT !.tack = tack, !.tip = tip]
<1>1. s \in Machine
  BY DEF Valid
<1>2. l \in Machine
  BY <1>1, Zenon DEF Machine
<1>3. Same(s, l) /\ l.tip = tip /\ l.inCount = s.inCount
  BY <1>1 DEF Machine, Same
<1> HIDE DEF l
<1>4. Valid(l)
  BY <1>2, <1>3, SameMoves, Zenon DEF Moves
<1> QED BY <1>3, <1>4, Zenon DEF l

\* TIP rises: the packet ends, and everything is as between two packets.
LEMMA WriteHigh ==
  ASSUME CInv, DInv, m.tip = 0, WriteB(1, 1)
  PROVE  Rested(m') /\ m'.outReq # 1 /\ exited' = exited
<1>1. m \in Machine /\ Valid(m)
  BY Machines, Zenon
<1> DEFINE l == [m EXCEPT !.tack = 1, !.tip = 1]
<1>2. exited' = exited /\ \E p \in Packets : m' = HandshakeHigh(l, 1, p)
  BY DEF WriteB, cuda_handshake, Packets
<1>3. 1 \in {0, 1}
  OBVIOUS
<1>5. Valid(l) /\ l.outReq = m.outReq /\ l.tip = 1
  <2>1. Valid(l) /\ Same(m, l) /\ l.tip = 1
    BY <1>1, <1>3, LinesSame, Zenon
  <2> QED BY <2>1, Zenon DEF Same
<1> HIDE DEF l
<1>6. PICK p \in Packets : m' = HandshakeHigh(l, 1, p)
  BY <1>2, Zenon
<1>7. /\ m'.tip = 1 /\ m'.treq = 1 /\ m'.inCount = 0 /\ m'.outCount = 0
      /\ m'.outReq \in {0, ReplyLen, m.outReq}
  <2> DEFINE t == HandshakeHigh(l, 1, p)
  <2>2. t.tip = l.tip /\ t.treq = 1 /\ t.inCount = 0 /\ t.outCount = 0
        /\ t.outReq \in {0, ReplyLen, l.outReq}
    BY <1>3, <1>5, HighMoves
  <2> HIDE DEF t
  <2>3. m' = t
    BY <1>6 DEF t
  <2> QED BY <1>5, <2>2, <2>3, Zenon
<1>8. m'.outReq # 1
  BY <1>7, CudaAssumption DEF DInv, CudaAssumption
<1> QED BY <1>2, <1>7, <1>8 DEF Rested

\* TIP falls or TACK changes while TIP is low: one byte moves.
LEMMA WriteLow ==
  ASSUME CInv, DInv, NEW tack \in {0, 1}, ~(m.tack = tack /\ m.tip = 0), WriteB(tack, 0)
  PROVE  \/ exited' /\ m' = m
         \/ /\ exited' = exited /\ m'.tip = 0 /\ m'.onesec = m.onesec /\ m'.outReq # 1
            /\ m.treq = 1 => m'.treq = 1 /\ m'.inCount = InByte(m)
            /\ (/\ m.treq = 0 /\ m.outCount = 0 /\ ~m.onesec
                /\ (m.fill \/ m.outReq # 0)) => m'.treq = 0
<1>1. m \in Machine /\ Valid(m) /\ m.treq \in {0, 1}
  BY Machines, Zenon
<1> DEFINE l == [m EXCEPT !.tack = tack, !.tip = 0]
<1>2. CASE NoMessage(m)
  BY <1>2 DEF WriteB
<1>3. CASE ~NoMessage(m)
  <2>1. exited' = exited /\ m' = HandshakeLow(l)
    BY <1>3 DEF WriteB, cuda_handshake
  <2>2. 0 \in {0, 1}
    OBVIOUS
  <2>3. Valid(l) /\ Same(m, l) /\ l.tip = 0 /\ l.inCount = m.inCount
    BY <1>1, <2>2, LinesSame, Zenon
  <2> HIDE DEF l
  <2>5. ~NoMessage(l)
    BY <1>1, <1>3, <2>3, MissingSame, Zenon
  <2>6. /\ m'.tip = 0 /\ m'.onesec = m.onesec
        /\ m.treq = 1 => m'.treq = 1 /\ m'.inCount = InByte(l) /\ m'.outReq = m.outReq
        /\ m.treq = 0 => m'.outReq # 1
        /\ (/\ m.treq = 0 /\ m.outCount = 0 /\ ~m.onesec /\ m.outReq # 1
            /\ (m.fill \/ m.outReq # 0)) => m'.treq = 0
    <3> DEFINE t == HandshakeLow(l)
    <3>1. /\ t.tip = l.tip /\ t.onesec = l.onesec
          /\ l.treq = 1 => t.treq = 1 /\ t.inCount = InByte(l) /\ t.outReq = l.outReq
          /\ l.treq = 0 => t.outReq # 1
          /\ (/\ l.treq = 0 /\ l.outCount = 0 /\ ~l.onesec /\ l.outReq # 1
              /\ (l.fill \/ l.outReq # 0)) => t.treq = 0
      BY <2>3, <2>5, LowByte, Zenon
    <3>2. m' = t
      BY <2>1, Zenon
    <3> HIDE DEF t
    <3> QED BY <2>3, <3>1, <3>2, Zenon DEF Same
  <2>7. InByte(l) = InByte(m)
    BY <2>3 DEF InByte
  <2>8. m.outReq # 1
    BY DEF DInv
  <2> QED BY <1>1, <2>1, <2>6, <2>7, <2>8
<1> QED BY <1>2, <1>3

\* Whatever is no handshake leaves a command alone.
LEMMA QuietKeeps ==
  ASSUME CInv, DInv, Quietly(m, m'), UNCHANGED <<guest, phase, exited>>
  PROVE  DInv'
<1>1. m'.outReq # 1 /\ (guest' = "wild" => phase' = "boot") /\ (exited' => phase' # "end")
  BY DEF DInv, Quietly
<1>2. ASSUME guest = "driver", ~exited PROVE Sending'
  <2>1. Sending
    BY <1>2 DEF DInv
  <2>2. m.tip \in {0, 1}
    BY Machines, Zenon
  <2>3. (phase \in Within => m.tip = 0)' /\ (phase \in Between => Rested(m))'
    BY <2>1, Zenon DEF Sending, Quietly, Rested
  <2>4. phase \in {"first", "send", "second", "end"} => phase \in Within
    BY DEF Within
  <2>5. phase \in {"first", "send", "second", "end"} => m'.treq = m.treq
    BY <2>1, <2>4 DEF Sending, Quietly
  <2> QED BY <2>1, <2>3, <2>5 DEF Sending, Quietly
<1> QED BY <1>1, <1>2, Zenon DEF DInv

\* The driver's interrupt handler looks at TREQ and goes on to its next phase.
LEMMA IrqKeeps ==
  ASSUME CInv, DInv, DriverIrq \/ DriverStart
  PROVE  DInv'
<1>1. m \in Machine /\ m.treq \in {0, 1} /\ m.tip \in {0, 1}
  BY Machines, Zenon
<1>2. ~exited /\ guest = "driver" /\ UNCHANGED <<guest, exited>> /\ Sending /\ m.outReq # 1
  BY DEF DriverIrq, DriverStart, DInv
<1>3. Quietly(m, m')
  BY <1>1, OpsQuietly, Zenon DEF DriverIrq, DriverStart
<1>4. m'.outReq # 1
  BY <1>2, <1>3 DEF Quietly
<1>5. Sending'
  <2>1. CASE phase \in Between /\ phase' \in Between
    <3>1. Rested(m)
      BY <1>2, <2>1 DEF Sending
    <3>2. Rested(m')
      BY <1>3, <3>1, Zenon DEF Quietly, Rested
    <3> QED BY <2>1, <3>2 DEF Sending, Between, Within
  <2>2. CASE phase \in Within /\ phase' \in {"next", "finish", "collision"}
    <3>1. m'.tip = 0
      BY <1>2, <1>3, <2>2 DEF Sending, Quietly
    <3> QED BY <2>2, <3>1 DEF Sending, Between
  <2>3. CASE phase = "first" /\ m.treq = 1 /\ phase' = "send"
    <3>1. m.tip = 0 /\ (~m.onesec => m.inCount = 1)
      BY <1>2, <2>3 DEF Sending, Within
    <3>2. m'.tip = 0 /\ m'.treq = 1 /\ (~m'.onesec => m'.inCount = 1)
      BY <1>3, <2>3, <3>1 DEF Quietly
    <3> QED BY <2>3, <3>2 DEF Sending, Between
  <2>4. CASE phase = "second" /\ phase' = "end"
    <3>1. m.tip = 0 /\ (~m.onesec => m.inCount = 2)
      BY <1>2, <2>4 DEF Sending, Within
    <3>2. m'.tip = 0 /\ (~m'.onesec => m'.inCount = 2)
      BY <1>3, <3>1 DEF Quietly
    <3> QED BY <2>4, <3>2 DEF Sending, Between
  <2> QED BY <2>1, <2>2, <2>3, <2>4 DEF DriverIrq, DriverStart, Between, Within
<1> QED BY <1>2, <1>4, <1>5 DEF DInv

\* The driver's writes of register B move the bytes its phases stand for.
LEMMA WriteKeeps ==
  ASSUME CInv, DInv, DriverWrite
  PROVE  DInv'
<1>1. m.tack \in {0, 1} /\ m.treq \in {0, 1} /\ m.tip \in {0, 1} /\ 1 - m.tack \in {0, 1}
      /\ 1 - m.tack # m.tack
  BY Machines
<1>2. ~exited /\ guest = "driver" /\ UNCHANGED guest /\ Sending
  BY DEF DriverWrite, DInv
<1>3. CASE /\ phase \in {"boot", "collision", "end", "finish"} /\ WriteB(1, 1)
           /\ phase' \in {"idle", "lost", "awaiting", "done"}
  <2>1. m.tip = 0
    BY <1>2, <1>3 DEF Sending, Within
  <2>2. Rested(m') /\ m'.outReq # 1 /\ exited' = exited
    BY <1>3, <2>1, WriteHigh, Zenon
  <2>3. Sending'
    BY <1>3, <2>2 DEF Sending, Between, Within
  <2> QED BY <1>2, <1>3, <2>2, <2>3 DEF DInv
<1>4. CASE phase \in {"fetch", "next"} /\ phase' = "reading"
  <2>1. (WriteB(m.tack, 0) /\ m.tip = 1) \/ WriteB(1 - m.tack, 0)
    BY <1>2, <1>4 DEF DriverWrite, Sending, Between, Rested
  <2>2. \/ exited' /\ m' = m
        \/ exited' = exited /\ m'.tip = 0 /\ m'.outReq # 1
    BY <1>1, <2>1, WriteLow
  <2>3. m'.outReq # 1
    BY <2>2 DEF DInv
  <2>4. ~exited' => Sending'
    BY <1>4, <2>2 DEF Sending, Between
  <2> QED BY <1>2, <1>4, <2>3, <2>4 DEF DInv
<1>5. CASE phase = "start" /\ phase' = "first" /\ WriteB(m.tack, 0)
  <2>1. Rested(m) /\ m.tip = 1
    BY <1>2, <1>5 DEF Sending, Between, Rested
  <2>2. \/ exited' /\ m' = m
        \/ /\ exited' = exited /\ m'.tip = 0 /\ m'.onesec = m.onesec /\ m'.outReq # 1
           /\ m.treq = 1 => m'.treq = 1 /\ m'.inCount = InByte(m)
           /\ (/\ m.treq = 0 /\ m.outCount = 0 /\ ~m.onesec
               /\ (m.fill \/ m.outReq # 0)) => m'.treq = 0
    BY <1>1, <1>5, <2>1, WriteLow
  <2>3. InByte(m) = 1
    BY <2>1, CudaAssumption DEF InByte, Smaller, Rested, CudaAssumption
  <2>4. m'.outReq # 1
    BY <2>2 DEF DInv
  <2>5. ASSUME ~exited' PROVE Sending'
    <3>1. m'.tip = 0 /\ (m'.treq = 1 /\ ~m'.onesec => m'.inCount = 1)
      BY <1>1, <2>1, <2>2, <2>3, <2>5 DEF Rested
    <3> QED BY <1>5, <3>1 DEF Sending, Between
  <2> QED BY <1>2, <1>5, <2>4, <2>5 DEF DInv
<1>6. CASE phase = "send" /\ phase' = "second" /\ WriteB(1 - m.tack, 0)
  <2>1. m.treq = 1 /\ (~m.onesec => m.inCount = 1)
    BY <1>2, <1>6 DEF Sending
  <2>2. \/ exited' /\ m' = m
        \/ /\ exited' = exited /\ m'.tip = 0 /\ m'.onesec = m.onesec /\ m'.outReq # 1
           /\ m'.inCount = InByte(m)
    BY <1>1, <1>6, <2>1, WriteLow
  <2>3. m.inCount = 1 => InByte(m) = 2
    BY CudaAssumption DEF InByte, Smaller, CudaAssumption
  <2>4. m'.outReq # 1
    BY <2>2 DEF DInv
  <2>5. ASSUME ~exited' PROVE Sending'
    <3>1. m'.tip = 0 /\ (~m'.onesec => m'.inCount = 2)
      BY <2>1, <2>2, <2>3, <2>5
    <3> QED BY <1>6, <3>1 DEF Sending, Between
  <2> QED BY <1>2, <1>6, <2>4, <2>5 DEF DInv
<1> QED BY <1>3, <1>4, <1>5, <1>6, Zenon DEF DriverWrite

\* Timers and input are no handshakes.
LEMMA TimersQuietly ==
  ASSUME CInv, via_sr_int \/ cuda_start_reply \/ cuda_one_sec_timer
  PROVE  Quietly(m, m') /\ UNCHANGED <<guest, phase, exited>>
<1>1. m \in Machine /\ m.treq \in {0, 1}
  BY Machines, Zenon
<1>2. UNCHANGED <<guest, phase, exited>>
  BY DEF via_sr_int, cuda_start_reply, cuda_one_sec_timer
<1>3. CASE via_sr_int
  <2>1. m' = [m EXCEPT !.srActive = FALSE, !.srInt = TRUE]
    BY <1>3 DEF via_sr_int
  <2> QED BY <1>1, <1>2, <2>1 DEF Machine, Quietly
<1>4. CASE cuda_start_reply
  <2>1. \/ m' = m
        \/ /\ m.outReq # 0 /\ m.tip = 1
           /\ m' = [m EXCEPT !.treq = 0, !.srActive = TRUE]
    BY <1>1, <1>4 DEF cuda_start_reply, cuda_msg_avail, Shift, Machine
  <2>2. CASE m' = m
    BY <1>2, <2>2 DEF Quietly
  <2>3. CASE m.outReq # 0 /\ m.tip = 1 /\ m' = [m EXCEPT !.treq = 0, !.srActive = TRUE]
    BY <1>1, <1>2, <2>3 DEF Machine, Quietly
  <2> QED BY <2>1, <2>2, <2>3, Zenon
<1>5. CASE cuda_one_sec_timer
  <2> DEFINE a == [m EXCEPT !.pending = @ + 1]
  <2>1. m' = m \/ m' = adb_service_request(a)
    BY <1>5 DEF cuda_one_sec_timer
  <2>2. events < MaxEvents /\ m.pending <= events /\ m.pending \in Nat /\ events \in Nat
        /\ MaxEvents \in Nat
    BY <1>1, <1>5, CudaAssumption DEF cuda_one_sec_timer, CInv, TypeOK, Machine, CudaAssumption
  <2>3. m.pending + 1 \in 0..MaxEvents
    BY <2>2
  <2>4. a \in Machine
    BY <1>1, <2>3 DEF Machine
  <2>5. Quietly(m, a) /\ Quietly(m, m)
    BY <1>1 DEF Machine, Quietly
  <2> HIDE DEF a
  <2>6. Quietly(a, adb_service_request(a))
    BY <2>4, OpsQuietly, Zenon
  <2>7. Quietly(m, adb_service_request(a))
    BY <2>5, <2>6, QuietlyOn, Zenon
  <2> QED BY <1>2, <2>1, <2>5, <2>7
<1> QED BY <1>3, <1>4, <1>5, Zenon

LEMMA InputQuietly ==
  ASSUME CInv, adb_key \/ AdbKeyTell \/ adb_mouse_event
  PROVE  Quietly(m, m') /\ UNCHANGED <<guest, phase, exited>>
<1>1. m \in Machine
  BY Machines, Zenon
<1>2. UNCHANGED <<guest, phase, exited>>
  BY Zenon DEF adb_key, AdbKeyTell, adb_mouse_event
<1>3. ASSUME NEW a, a \in Machine, Quietly(m, a), m' = a \/ m' = TellCuda(a)
      PROVE  Quietly(m, m')
  <2>1. Quietly(a, TellCuda(a))
    BY <1>3, OpsQuietly, Zenon
  <2>2. Quietly(m, TellCuda(a))
    BY <1>3, <2>1, QuietlyOn, Zenon
  <2> QED BY <1>3, <2>2
<1>4. CASE adb_key
  <2> DEFINE a == QueueKey(m)
  <2>1. m' = a \/ m' = TellCuda(a)
    BY <1>4 DEF adb_key
  <2>2. m.keys + 1 < KEY_BUF_SIZE => m.keys + 1 \in 0..(KEY_BUF_SIZE - 1)
    BY <1>1, CudaAssumption DEF Machine, CudaAssumption
  <2>b. \/ a = m
        \/ m.keys + 1 < KEY_BUF_SIZE /\ a = [m EXCEPT !.keys = m.keys + 1, !.kbdReq = TRUE]
    BY Zenon DEF QueueKey
  <2> HIDE DEF a
  <2>3. a \in Machine
    <3>1. ASSUME NEW k \in 0..(KEY_BUF_SIZE - 1)
          PROVE  [m EXCEPT !.keys = k, !.kbdReq = TRUE] \in Machine
      BY <1>1, <3>1, Zenon DEF Machine
    <3> QED BY <1>1, <2>2, <2>b, <3>1, Zenon
  <2>4. Quietly(m, a)
    <3>1. CASE a = [m EXCEPT !.keys = m.keys + 1, !.kbdReq = TRUE]
      BY <1>1, <3>1 DEF Quietly, Machine
    <3>2. CASE a = m
      BY <3>2 DEF Quietly
    <3> QED BY <2>b, <3>1, <3>2
  <2> HIDE DEF a
  <2> QED BY <1>2, <1>3, <2>1, <2>3, <2>4
<1>5. CASE AdbKeyTell
  <2>1. m' = TellCuda(m) /\ Quietly(m, m)
    BY <1>5 DEF AdbKeyTell, Quietly
  <2> QED BY <1>1, <1>2, <1>3, <2>1
<1>6. CASE adb_mouse_event
  <2>1. PICK n \in 1..MaxMotion : m' = TellCuda([m EXCEPT !.motion = n, !.mouseReq = TRUE])
    BY <1>6, Zenon DEF adb_mouse_event
  <2> DEFINE a == [m EXCEPT !.motion = n, !.mouseReq = TRUE]
  <2>2. n \in 0..MaxMotion
    BY CudaAssumption DEF CudaAssumption
  <2>3. a \in Machine
    BY <1>1, <2>2, Zenon DEF Machine
  <2>4. Quietly(m, a)
    BY <1>1 DEF Quietly, Machine
  <2>5. m' = TellCuda(a)
    BY <2>1
  <2> HIDE DEF a
  <2> QED BY <1>2, <1>3, <2>3, <2>4, <2>5
<1> QED BY <1>4, <1>5, <1>6, Zenon

\* A guest without a protocol leaves no message of one byte behind either.
LEMMA WildKeeps ==
  ASSUME CInv, DInv, WildGuest
  PROVE  DInv'
<1>1. m \in Machine /\ Valid(m)
  BY Machines, Zenon
<1>2. guest = "wild" /\ guest' = "wild" /\ phase = "boot" /\ phase' = "boot"
  BY DEF WildGuest, DInv
<1>3. ASSUME Quietly(m, m') PROVE m'.outReq # 1
  BY <1>3 DEF DInv, Quietly
<1>4. CASE m' = ReadSR(m) \/ m' = WriteSR(m)
  BY <1>1, <1>2, <1>3, <1>4, OpsQuietly DEF DInv
<1>5. CASE \E tack, tip \in {0, 1} : WriteB(tack, tip)
  <2>1. PICK tack \in {0, 1}, tip \in {0, 1} : WriteB(tack, tip)
    BY <1>5, Zenon
  <2>2. CASE m' = m
    BY <1>2, <2>2 DEF DInv
  <2> DEFINE l == [m EXCEPT !.tack = tack, !.tip = tip]
  <2>3. CASE \E p \in Packets : m' = HandshakeHigh(l, tack, p)
    <3>a. Valid(l) /\ Same(m, l)
      BY <1>1, LinesSame, Zenon
    <3> HIDE DEF l
    <3>1. Valid(l) /\ l.outReq = m.outReq
      BY <3>a, Zenon DEF Same
    <3>b. PICK p \in Packets : m' = HandshakeHigh(l, tack, p)
      BY <2>3, Zenon
    <3>c. HandshakeHigh(l, tack, p).outReq \in {0, ReplyLen, l.outReq}
      BY <3>1, HighMoves, Zenon
    <3>2. m'.outReq \in {0, ReplyLen, m.outReq}
      BY <3>1, <3>b, <3>c, Zenon
    <3>3. m'.outReq # 1
      BY <3>2, CudaAssumption DEF DInv, CudaAssumption
    <3> QED BY <1>2, <3>3 DEF DInv
  <2>4. CASE m' = HandshakeLow(l)
    <3>a. Valid(l) /\ Same(m, l)
      BY <1>1, LinesSame, Zenon
    <3> HIDE DEF l
    <3>1. Valid(l) /\ l.outReq = m.outReq
      BY <3>a, Zenon DEF Same
    <3>2. l.treq \in {0, 1}
      BY <3>1 DEF Valid, Machine
    <3>3. /\ l.treq = 1 => m'.outReq = l.outReq
          /\ l.treq = 0 => m'.outReq # 1
      BY <2>4, <3>1, LowByte, Zenon
    <3>4. m'.outReq # 1
      BY <3>1, <3>2, <3>3 DEF DInv
    <3> QED BY <1>2, <3>4 DEF DInv
  <2>5. \/ m' = m \/ m' = HandshakeLow(l)
        \/ \E p \in Packets : m' = HandshakeHigh(l, tack, p)
    BY <2>1 DEF WriteB, cuda_handshake, Packets
  <2> QED BY <2>2, <2>3, <2>4, <2>5, Zenon
<1> QED BY <1>4, <1>5, Zenon DEF WildGuest

\* The invariant of the driver's commands.
THEOREM CommandInvariance == Spec => []DInv
<1>1. Init => DInv
  <2> SUFFICES ASSUME Init PROVE DInv
    OBVIOUS
  <2>1. m.outReq = 0 /\ m.tip = 0 /\ phase = "boot" /\ ~exited
    BY DEF Init
  <2>2. Sending
    BY <2>1 DEF Sending, Between
  <2> QED BY <2>1, <2>2 DEF DInv
<1>2. CInv /\ DInv /\ [Next]_vars => DInv'
  <2> SUFFICES ASSUME CInv, DInv, [Next]_vars PROVE DInv'
    OBVIOUS
  <2>1. CASE via_sr_int \/ cuda_start_reply \/ cuda_one_sec_timer
    BY <2>1, TimersQuietly, QuietKeeps, Zenon
  <2>2. CASE adb_key \/ AdbKeyTell \/ adb_mouse_event
    BY <2>2, InputQuietly, QuietKeeps, Zenon
  <2>3. CASE WildGuest
    BY <2>3, WildKeeps, Zenon
  <2>4. CASE DriverIrq \/ DriverStart
    BY <2>4, IrqKeeps, Zenon
  <2>5. CASE DriverWrite
    BY <2>5, WriteKeeps, Zenon
  <2>6. CASE UNCHANGED vars
    <3>1. m' = m /\ UNCHANGED <<guest, phase, exited>>
      BY <2>6 DEF vars
    <3>2. Quietly(m, m')
      BY <3>1 DEF Quietly
    <3> QED BY <3>1, <3>2, QuietKeeps, Zenon
  <2> QED BY <2>1, <2>2, <2>3, <2>4, <2>5, <2>6, Zenon DEF Next, Driver
<1> QED BY <1>1, <1>2, Invariance, PTL DEF Spec

\* Counts stay within the buffers, a device that asks for service has data,
\* and the command of a driver that keeps to the protocol has both its bytes
\* when TIP ends it, also after a collision with an event, unless one-second
\* packets are on.
THEOREM PacketsStayIntact == Spec => []PacketsIntact
<1>1. CInv /\ DInv => PacketsIntact
  <2> SUFFICES ASSUME CInv, DInv PROVE PacketsIntact
    OBVIOUS
  <2>1. TypeOK
    BY DEF CInv
  <2>2. ServiceHasData
    BY DEF CInv, Serv, ServiceHasData
  <2>3. ASSUME phase = "end", ~m.onesec PROVE m.inCount = 2
    <3>1. guest = "driver" /\ ~exited
      BY <2>1, <2>3, CudaAssumption DEF DInv, TypeOK, CudaAssumption
    <3> QED BY <2>3, <3>1 DEF DInv, Sending
  <2> QED BY <2>1, <2>2, <2>3 DEF PacketsIntact, CommandIntact
<1> QED BY <1>1, Invariance, CommandInvariance, PTL
=============================================================================
