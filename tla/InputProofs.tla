---------------------------- MODULE InputProofs ----------------------------
(***************************************************************************)
(* Theorems about what is made of what arrives: of the packets of the      *)
(* mouse, the keys and the ARP packets, for any movements, buttons and     *)
(* keys and a table of any size; of messages, for queues of any capacity   *)
(* and any set of tasks; and of the keys typed into a text, for lines of   *)
(* any number and width.                                                   *)
(***************************************************************************)
EXTENDS Ps2Mouse, Ps2Keyboard, ArpTable, MsgQueue, TextEditor, Notes, SequenceLemmas

----------------------------------------------------------------------------
(* The bits and bytes of a packet. *)

Signed(b, first, mask) == SignExtend(b, Bit(first, mask))

(* A movement comes back from its byte and its sign bit. *)
Carries(b, first, mask, d) ==
  d \in -256 .. 255 /\ b = d % 256 /\ (Bit(first, mask) <=> d < 0)

LEMMA SignComesBack ==
  ASSUME NEW d, NEW b, NEW first, NEW mask, Carries(b, first, mask, d)
  PROVE  Signed(b, first, mask) = d
<1>0. d \in -256 .. 255 /\ b = d % 256 /\ (Bit(first, mask) <=> d < 0)
  BY DEF Carries
<1>1. (d < 0 => b - 256 = d) /\ (~(d < 0) => b = d)
  BY <1>0
<1>2. CASE d < 0
  <2>1. Signed(b, first, mask) = b - 256
    BY <1>0, <1>2, Zenon DEF Signed, SignExtend
  <2> QED BY <1>1, <1>2, <2>1
<1>3. CASE ~(d < 0)
  <2>1. Signed(b, first, mask) = b
    BY <1>0, <1>3, Zenon DEF Signed, SignExtend
  <2> QED BY <1>1, <1>3, <2>1
<1> QED BY <1>2, <1>3

(* The first byte: buttons, a bit that is always set, and two signs. *)
LEMMA FirstByte ==
  ASSUME NEW b \in 0 .. 7, NEW x \in {0, 16}, NEW y \in {0, 32}
  PROVE  /\ b + 8 + x + y \in Int
         /\ Bit(b + 8 + x + y, 8)
         /\ Bit(b + 8 + x + y, 16) <=> x = 16
         /\ Bit(b + 8 + x + y, 32) <=> y = 32
         /\ (b + 8 + x + y) % 8 = b
BY DEF Bit

(* Acceleration keeps the direction and slows nothing down. *)
LEMMA Accelerated ==
  ASSUME NEW d \in Int
  PROVE  /\ apply_acceleration(d) \in Int
         /\ d > 0 => apply_acceleration(d) >= d
         /\ d < 0 => apply_acceleration(d) <= d
         /\ d = 0 => apply_acceleration(d) = 0
<1> DEFINE size == IF d < 0 THEN -d ELSE d
<1>1. size \in Nat
  OBVIOUS
<1>2. PICK f \in {1, 2, 4, 6} : apply_acceleration(d) = d * f
  BY <1>1 DEF apply_acceleration
<1> QED BY <1>2

----------------------------------------------------------------------------
(* The mouse. *)

MouseTypeOK ==
  /\ mouse_cycle \in 0 .. 2
  /\ mouse_byte \in [0 .. 2 -> Int]
  /\ move[1] \in -256 .. 255 /\ move[2] \in -256 .. 255
  /\ button \in 0 .. 7
  /\ sent \in 0 .. 3
  /\ whole \in BOOLEAN /\ inPhase \in BOOLEAN

(* Of a whole packet that began in phase, the bytes that have come are in  *)
(* their places; at its end it has been reported.                          *)
InStep ==
  whole /\ inPhase =>
    /\ mouse_cycle = IF sent = 3 THEN 0 ELSE sent
    /\ sent \in {1, 2} => mouse_byte[0] = PacketByte(0)
    /\ sent = 2 => mouse_byte[1] = PacketByte(1)
    /\ sent = 3 => report = << apply_acceleration(move[1]), apply_acceleration(-move[2]), button >>

(* A whole packet with plain movements, wherever in its cycle the handler  *)
(* was when it began: after two bytes it is not in the middle, after three *)
(* it is in phase.                                                         *)
Resyncs ==
  whole /\ ~Bit(PacketByte(1), 8) =>
    /\ sent = 2 => mouse_cycle # 1
    /\ sent = 3 /\ ~Bit(PacketByte(2), 8) => mouse_cycle = 0

MouseInv == MouseTypeOK /\ InStep /\ Resyncs

(* The bytes of the packet that is being sent. *)
LEMMA PacketBytes ==
  ASSUME MouseTypeOK
  PROVE  /\ PacketByte(0) \in Int /\ Bit(PacketByte(0), 8)
         /\ Bit(PacketByte(0), 16) <=> move[1] < 0
         /\ Bit(PacketByte(0), 32) <=> move[2] < 0
         /\ PacketByte(0) % 8 = button
         /\ PacketByte(1) = move[1] % 256 /\ PacketByte(1) \in Int
         /\ PacketByte(2) = move[2] % 256 /\ PacketByte(2) \in Int
<1> DEFINE x == IF move[1] < 0 THEN 16 ELSE 0
           y == IF move[2] < 0 THEN 32 ELSE 0
<1>1. /\ x \in {0, 16} /\ y \in {0, 32} /\ button \in 0 .. 7
      /\ x = 16 <=> move[1] < 0
      /\ y = 32 <=> move[2] < 0
      /\ move[1] \in Int /\ move[2] \in Int
  BY DEF MouseTypeOK
<1>2. PacketByte(0) = button + 8 + x + y
  BY DEF PacketByte
<1>3. PacketByte(1) = move[1] % 256 /\ PacketByte(2) = move[2] % 256
  BY DEF PacketByte
<1>4. PacketByte(1) \in Int /\ PacketByte(2) \in Int
  BY <1>1, <1>3
<1> HIDE DEF x, y
<1> QED BY <1>1, <1>2, <1>3, <1>4, FirstByte

LEMMA MouseInitial == MouseInit => MouseInv
<1> SUFFICES ASSUME MouseInit PROVE MouseInv
  OBVIOUS
<1>1. mouse_byte \in [0 .. 2 -> Int] /\ mouse_cycle \in 0 .. 2
  BY DEF MouseInit
<1>2. MouseTypeOK
  <2>1. move = <<0, 0>> /\ button = 0 /\ sent = 3 /\ whole = FALSE /\ inPhase = FALSE
    BY DEF MouseInit
  <2>2. move[1] \in -256 .. 255 /\ move[2] \in -256 .. 255
    BY <2>1
  <2>3. button \in 0 .. 7 /\ sent \in 0 .. 3
    BY <2>1
  <2>4. whole \in BOOLEAN /\ inPhase \in BOOLEAN
    BY <2>1, Zenon
  <2> QED BY <1>1, <2>2, <2>3, <2>4, Zenon DEF MouseTypeOK
<1> QED BY <1>2 DEF MouseInit, MouseInv, InStep, Resyncs

(* A byte of a packet: taken, or skipped at the start of the cycle. *)
LEMMA ByteKeeps ==
  ASSUME MouseInv, MouseByte
  PROVE  MouseInv'
<1> DEFINE data == PacketByte(sent)
<1>1. /\ sent \in 0 .. 2 /\ sent' = sent + 1 /\ mouse_interrupt(data)
      /\ UNCHANGED <<move, button, whole, inPhase>>
      /\ MouseTypeOK
  <2>1. MouseTypeOK /\ sent \in 0 .. 3
    BY DEF MouseInv, MouseTypeOK
  <2>2. /\ sent < 3 /\ sent' = sent + 1 /\ mouse_interrupt(data)
        /\ UNCHANGED <<move, button, whole, inPhase>>
    BY DEF MouseByte
  <2> HIDE DEF data
  <2> QED BY <2>1, <2>2
<1>2. data \in Int /\ \A k \in 0 .. 2 : PacketByte(k)' = PacketByte(k)
  BY <1>1, PacketBytes DEF PacketByte
<1>3. sent = 0 => ~Skip(data)
  BY PacketBytes, <1>1 DEF Skip
<1> DEFINE bytes == [mouse_byte EXCEPT ![mouse_cycle] = data]
<1>4. CASE Skip(data)
  <2>1. UNCHANGED <<mouse_cycle, mouse_byte>> /\ mouse_cycle = 0 /\ ~Bit(data, 8) /\ sent # 0
    BY <1>1, <1>3, <1>4 DEF mouse_interrupt, Skip
  <2>2. MouseTypeOK'
    <3>1. sent' \in 0 .. 3
      BY <1>1
    <3> QED BY <1>1, <2>1, <3>1, Zenon DEF MouseTypeOK
  <2>3. InStep'
    BY <1>1, <2>1 DEF InStep, MouseInv
  <2>4. Resyncs'
    BY <1>1, <2>1 DEF Resyncs
  <2> QED BY <2>2, <2>3, <2>4 DEF MouseInv
<1>5. CASE ~Skip(data)
  <2>1. /\ mouse_byte' = bytes /\ mouse_cycle' = (mouse_cycle + 1) % 3
        /\ mouse_cycle = 2 => report' =
             << apply_acceleration(SignExtend(bytes[1], Bit(bytes[0], 16))),
                apply_acceleration(-SignExtend(bytes[2], Bit(bytes[0], 32))),
                bytes[0] % 8 >>
    BY <1>1, <1>5 DEF mouse_interrupt, MouseTypeOK
  <2>2. /\ mouse_cycle = 0 => mouse_cycle' = 1
        /\ mouse_cycle = 1 => mouse_cycle' = 2
        /\ mouse_cycle = 2 => mouse_cycle' = 0
        /\ mouse_cycle \in {0, 1, 2}
    BY <1>1, <2>1 DEF MouseTypeOK
  <2>3. /\ \A k \in 0 .. 2 : mouse_byte'[k] = IF k = mouse_cycle THEN data ELSE mouse_byte[k]
        /\ mouse_byte' \in [0 .. 2 -> Int]
    BY <1>1, <1>2, <2>1 DEF MouseTypeOK
  <2>4. MouseTypeOK'
    <3>1. sent' \in 0 .. 3 /\ mouse_cycle' \in 0 .. 2
      BY <1>1, <2>2
    <3> QED BY <1>1, <2>3, <3>1, Zenon DEF MouseTypeOK
  <2>5. Resyncs'
    <3>1. sent = 1 /\ ~Bit(PacketByte(1), 8) => mouse_cycle # 0
      BY <1>5 DEF Skip
    <3>2. sent = 2 /\ ~Bit(PacketByte(2), 8) => mouse_cycle # 0
      BY <1>5 DEF Skip
    <3>3. sent = 2 /\ whole /\ ~Bit(PacketByte(1), 8) => mouse_cycle # 1
      BY DEF MouseInv, Resyncs
    <3> QED BY <1>1, <1>2, <2>2, <3>1, <3>2, <3>3 DEF Resyncs
  <2>6. InStep'
    <3> SUFFICES ASSUME whole, inPhase PROVE InStep'
      BY <1>1 DEF InStep
    <3>1. /\ mouse_cycle = sent
          /\ sent \in {1, 2} => mouse_byte[0] = PacketByte(0)
          /\ sent = 2 => mouse_byte[1] = PacketByte(1)
      BY <1>1 DEF MouseInv, InStep
    <3>2. CASE sent \in {0, 1}
      <4>1. mouse_cycle' = sent' /\ sent' \in {1, 2}
        BY <1>1, <2>2, <3>1, <3>2
      <4>2. mouse_byte'[0] = PacketByte(0) /\ (sent' = 2 => mouse_byte'[1] = PacketByte(1))
        BY <1>1, <2>3, <3>1, <3>2
      <4> QED BY <1>2, <4>1, <4>2 DEF InStep
    <3>3. CASE sent = 2
      <4>1. mouse_cycle = 2 /\ mouse_cycle' = 0 /\ sent' = 3
        BY <1>1, <2>2, <3>1, <3>3
      <4>2. bytes[0] = PacketByte(0) /\ bytes[1] = PacketByte(1) /\ bytes[2] = PacketByte(2)
        BY <2>1, <2>3, <3>1, <3>3
      <4>3. /\ move[1] \in -256 .. 255 /\ move[2] \in -256 .. 255
            /\ bytes[1] = move[1] % 256 /\ bytes[2] = move[2] % 256
            /\ bytes[0] % 8 = button
        BY <1>1, <4>2, PacketBytes DEF MouseTypeOK
      <4>4. /\ Bit(bytes[0], 16) <=> move[1] < 0
            /\ Bit(bytes[0], 32) <=> move[2] < 0
        BY <1>1, <4>2, PacketBytes
      <4>5. SignExtend(bytes[1], Bit(bytes[0], 16)) = move[1]
        <5> DEFINE b == bytes[1]
                   d == move[1]
                   first == bytes[0]
        <5>1. Carries(b, first, 16, d)
          BY <4>3, <4>4 DEF Carries
        <5> HIDE DEF b, d, first
        <5>2. Signed(b, first, 16) = d
          BY <5>1, SignComesBack
        <5> QED BY <5>2 DEF b, d, first, Signed
      <4>6. SignExtend(bytes[2], Bit(bytes[0], 32)) = move[2]
        <5> DEFINE b == bytes[2]
                   d == move[2]
                   first == bytes[0]
        <5>1. Carries(b, first, 32, d)
          BY <4>3, <4>4 DEF Carries
        <5> HIDE DEF b, d, first
        <5>2. Signed(b, first, 32) = d
          BY <5>1, SignComesBack
        <5> QED BY <5>2 DEF b, d, first, Signed
      <4>7. report' = << apply_acceleration(move[1]), apply_acceleration(-move[2]), button >>
        BY <2>1, <4>1, <4>3, <4>5, <4>6
      <4> QED BY <1>1, <4>1, <4>7 DEF InStep
    <3> QED BY <1>1, <3>2, <3>3
  <2> QED BY <2>4, <2>5, <2>6 DEF MouseInv
<1> QED BY <1>4, <1>5

LEMMA MouseInvHolds == MouseSpec => []MouseInv
<1>1. MouseInv /\ [MouseNext]_mouseVars => MouseInv'
  <2> SUFFICES ASSUME MouseInv, [MouseNext]_mouseVars PROVE MouseInv'
    OBVIOUS
  <2>1. CASE StartPacket
    <3>1. MouseTypeOK'
      <4>1. MouseTypeOK
        BY DEF MouseInv
      <4>2. move'[1] \in -256 .. 255 /\ move'[2] \in -256 .. 255 /\ button' \in 0 .. 7
        BY <2>1, MouseAssumption DEF StartPacket
      <4>3. /\ sent' = 0 /\ mouse_cycle' = mouse_cycle /\ mouse_byte' = mouse_byte
            /\ whole' = TRUE /\ inPhase' = (mouse_cycle = 0)
        BY <2>1, Zenon DEF StartPacket
      <4>4. sent' \in 0 .. 3 /\ whole' \in BOOLEAN /\ inPhase' \in BOOLEAN
        BY <4>3
      <4> QED BY <4>1, <4>2, <4>3, <4>4, Zenon DEF MouseTypeOK
    <3>2. sent' = 0 /\ (inPhase' => mouse_cycle' = 0)
      BY <2>1 DEF StartPacket
    <3> QED BY <3>1, <3>2 DEF MouseInv, InStep, Resyncs
  <2>2. CASE MouseByte
    BY <2>2, ByteKeeps
  <2>3. CASE LoseMouseByte
    <3>1. MouseTypeOK'
      <4>1. sent \in 0 .. 3 /\ sent < 3 /\ sent' = sent + 1
        BY <2>3 DEF LoseMouseByte, MouseInv, MouseTypeOK
      <4>2. sent' \in 0 .. 3
        BY <4>1
      <4> QED BY <2>3, <4>2 DEF LoseMouseByte, MouseInv, MouseTypeOK
    <3> QED BY <2>3, <3>1 DEF LoseMouseByte, MouseInv, InStep, Resyncs
  <2>4. CASE UNCHANGED mouseVars
    BY <2>4 DEF mouseVars, MouseInv, MouseTypeOK, InStep, Resyncs, PacketByte
  <2> QED BY <2>1, <2>2, <2>3, <2>4 DEF MouseNext
<1> QED BY <1>1, MouseInitial, PTL DEF MouseSpec

(* Whatever packets came before and whatever bytes of them were lost, one  *)
(* that arrives whole while the handler is in phase is reported with its   *)
(* last byte: its buttons, the direction of its movement, and at least its *)
(* length, for each of the 2^18 movements a packet can hold                *)
(* (mouse.c:89-138).                                                       *)
THEOREM WholePacketIsReported == MouseSpec => []WholePacketReported
<1>1. MouseInv => WholePacketReported
  <2> SUFFICES ASSUME MouseInv, sent = 3, whole, inPhase
               PROVE  /\ report # <<>> /\ mouse_cycle = 0
                      /\ report[3] = button
                      /\ Sign(report[1]) = Sign(move[1]) /\ Sign(report[2]) = -Sign(move[2])
                      /\ report[1] * Sign(move[1]) >= move[1] * Sign(move[1])
                      /\ -report[2] * Sign(move[2]) >= move[2] * Sign(move[2])
    BY DEF WholePacketReported
  <2> DEFINE x == move[1]
             y == move[2]
             ax == apply_acceleration(x)
             ay == apply_acceleration(-y)
  <2>1. mouse_cycle = 0 /\ report = <<ax, ay, button>> /\ x \in Int /\ y \in Int
    BY DEF MouseInv, MouseTypeOK, InStep
  <2> HIDE DEF ax, ay
  <2>2. /\ report # <<>> /\ report[1] = ax /\ report[2] = ay /\ report[3] = button
    BY <2>1
  <2>3. /\ ax \in Int /\ (x > 0 => ax >= x) /\ (x < 0 => ax <= x) /\ (x = 0 => ax = 0)
    BY <2>1, Accelerated DEF ax
  <2>4. /\ ay \in Int /\ (-y > 0 => ay >= -y) /\ (-y < 0 => ay <= -y) /\ (-y = 0 => ay = 0)
    <3> DEFINE z == -y
    <3>1. z \in Int
      BY <2>1
    <3> HIDE DEF z
    <3>2. /\ apply_acceleration(z) \in Int /\ (z > 0 => apply_acceleration(z) >= z)
          /\ (z < 0 => apply_acceleration(z) <= z) /\ (z = 0 => apply_acceleration(z) = 0)
      BY <3>1, Accelerated
    <3> QED BY <3>2 DEF ay, z
  <2> HIDE DEF x, y
  <2>5. Sign(ax) = Sign(x) /\ ax * Sign(x) >= x * Sign(x)
    BY <2>1, <2>3 DEF Sign
  <2>6. Sign(ay) = -Sign(y) /\ -ay * Sign(y) >= y * Sign(y)
    BY <2>1, <2>4 DEF Sign
  <2> QED BY <2>1, <2>2, <2>5, <2>6 DEF x, y
<1> QED BY <1>1, MouseInvHolds, PTL

(* However many bytes were lost and wherever in its cycle the handler was, *)
(* one whole packet whose movements have bit 3 clear brings it in phase:   *)
(* the skipped bytes are those that cannot begin a packet                  *)
(* (mouse.c:107-117).                                                      *)
THEOREM PlainPacketResyncs == MouseSpec => []ResyncAfterPlainPacket
<1>1. MouseInv => ResyncAfterPlainPacket
  BY DEF MouseInv, Resyncs, ResyncAfterPlainPacket
<1> QED BY <1>1, MouseInvHolds, PTL

----------------------------------------------------------------------------
(* The keyboard. *)

ModifierOf(code) == {m \in DOMAIN ModifierCode : code \in ModifierCode[m]}
ModifierKey(k) == {m \in DOMAIN KeysOf : k \in KeysOf[m]}

(* The flags after one byte, and after those still on their way. *)
AfterByte(f, byte) ==
  IF byte = Prefix \/ ModifierOf(byte % 128) = {} THEN f
  ELSE IF byte >= 128 THEN f \ ModifierOf(byte % 128) ELSE f \cup ModifierOf(byte % 128)

AfterBytes(f, w) ==
  IF Len(w) = 0 THEN f
  ELSE IF Len(w) = 1 THEN AfterByte(f, w[1])
  ELSE IF Len(w) = 2 THEN AfterByte(AfterByte(f, w[1]), w[2])
  ELSE AfterByte(AfterByte(AfterByte(f, w[1]), w[2]), w[3])

(* A key's code is one byte with at most one prefix, and names a modifier  *)
(* exactly if the key is one.                                              *)
LEMMA CodeOfKey ==
  ASSUME NEW k \in DOMAIN KeyCode
  PROVE  \E c \in 0 .. 95 :
           /\ KeyCode[k] = <<c>> \/ KeyCode[k] = <<Prefix, c>>
           /\ ModifierOf(c) = ModifierKey(k)
           /\ ModifierOf(c) = {} \/ \E m \in DOMAIN ModifierCode : ModifierOf(c) = {m}
<1> DEFINE P(c) == /\ KeyCode[k] = <<c>> \/ KeyCode[k] = <<Prefix, c>>
                   /\ ModifierOf(c) = ModifierKey(k)
                   /\ ModifierOf(c) = {} \/ \E m \in DOMAIN ModifierCode : ModifierOf(c) = {m}
<1>1. /\ DOMAIN ModifierCode = {"shift", "gui", "ctrl", "alt"}
      /\ ModifierCode["shift"] = {42, 54} /\ ModifierCode["gui"] = {91, 92}
      /\ ModifierCode["ctrl"] = {29} /\ ModifierCode["alt"] = {56}
  BY DEF ModifierCode
<1>2. /\ ModifierOf(42) = {"shift"} /\ ModifierOf(54) = {"shift"}
      /\ ModifierOf(29) = {"ctrl"} /\ ModifierOf(56) = {"alt"} /\ ModifierOf(91) = {"gui"}
      /\ ModifierOf(58) = {} /\ ModifierOf(30) = {} /\ ModifierOf(72) = {}
  BY <1>1 DEF ModifierOf
<1>3. /\ DOMAIN KeysOf = {"shift", "gui", "ctrl", "alt"}
      /\ KeysOf["shift"] = {"LeftShift", "RightShift"} /\ KeysOf["gui"] = {"Gui"}
      /\ KeysOf["ctrl"] = {"LeftCtrl", "RightCtrl"} /\ KeysOf["alt"] = {"LeftAlt", "RightAlt"}
  BY DEF KeysOf
<1>4. k \in {"LeftShift", "RightShift", "LeftCtrl", "RightCtrl", "LeftAlt", "RightAlt",
             "Gui", "CapsLock", "A", "Up"}
  BY DEF KeyCode
<1>5. CASE k = "LeftShift"
  <2>1. P(42)
    <3>1. KeyCode[k] = <<42>>
      BY <1>5 DEF KeyCode
    <3>2. ModifierKey(k) = {"shift"}
      BY <1>3, <1>5 DEF ModifierKey
    <3> QED BY <1>1, <1>2, <3>1, <3>2
  <2> QED BY <2>1
<1>6. CASE k = "RightShift"
  <2>1. P(54)
    <3>1. KeyCode[k] = <<54>>
      BY <1>6 DEF KeyCode
    <3>2. ModifierKey(k) = {"shift"}
      BY <1>3, <1>6 DEF ModifierKey
    <3> QED BY <1>1, <1>2, <3>1, <3>2
  <2> QED BY <2>1
<1>7. CASE k = "LeftCtrl" \/ k = "RightCtrl"
  <2>1. P(29)
    <3>1. KeyCode[k] = <<29>> \/ KeyCode[k] = <<Prefix, 29>>
      BY <1>7 DEF KeyCode
    <3>2. ModifierKey(k) = {"ctrl"}
      BY <1>3, <1>7 DEF ModifierKey
    <3> QED BY <1>1, <1>2, <3>1, <3>2
  <2> QED BY <2>1
<1>8. CASE k = "LeftAlt" \/ k = "RightAlt"
  <2>1. P(56)
    <3>1. KeyCode[k] = <<56>> \/ KeyCode[k] = <<Prefix, 56>>
      BY <1>8 DEF KeyCode
    <3>2. ModifierKey(k) = {"alt"}
      BY <1>3, <1>8 DEF ModifierKey
    <3> QED BY <1>1, <1>2, <3>1, <3>2
  <2> QED BY <2>1
<1>9. CASE k = "Gui"
  <2>1. P(91)
    <3>1. KeyCode[k] = <<Prefix, 91>>
      BY <1>9 DEF KeyCode
    <3>2. ModifierKey(k) = {"gui"}
      BY <1>3, <1>9 DEF ModifierKey
    <3> QED BY <1>1, <1>2, <3>1, <3>2
  <2> QED BY <2>1
<1>10. CASE k \in {"CapsLock", "A", "Up"}
  <2>1. ModifierKey(k) = {}
    BY <1>3, <1>10 DEF ModifierKey
  <2>2. PICK c \in {58, 30, 72} : KeyCode[k] = <<c>> \/ KeyCode[k] = <<Prefix, c>>
    BY <1>10 DEF KeyCode
  <2>3. P(c)
    BY <1>2, <2>1, <2>2
  <2> QED BY <2>2, <2>3
<1> QED BY <1>4, <1>5, <1>6, <1>7, <1>8, <1>9, <1>10

(* What a key's press and its release make of the flags, once taken. *)
LEMMA KeyEffect ==
  ASSUME NEW k \in DOMAIN KeyCode, NEW f
  PROVE  /\ AfterBytes(f, KeyCode[k]) = f \cup ModifierKey(k)
         /\ AfterBytes(f, Released(KeyCode[k])) = f \ ModifierKey(k)
         /\ KeyCode[k] \in Seq(Int) /\ Len(KeyCode[k]) \in {1, 2}
         /\ Released(KeyCode[k]) \in Seq(Int) /\ Len(Released(KeyCode[k])) \in {1, 2}
<1>1. PICK c \in 0 .. 95 :
        /\ KeyCode[k] = <<c>> \/ KeyCode[k] = <<Prefix, c>>
        /\ ModifierOf(c) = ModifierKey(k)
  BY CodeOfKey
<1>2. /\ c % 128 = c /\ (c + 128) % 128 = c /\ ~(c >= 128) /\ c + 128 >= 128
      /\ c # Prefix /\ c + 128 # Prefix /\ Prefix \in Int /\ c \in Int /\ c + 128 \in Int
  BY DEF Prefix
<1>3. /\ AfterByte(f, Prefix) = f
      /\ AfterByte(f, c) = f \cup ModifierKey(k)
      /\ AfterByte(f, c + 128) = f \ ModifierKey(k)
  BY <1>1, <1>2 DEF AfterByte
<1>4. CASE KeyCode[k] = <<c>>
  <2>1. Released(KeyCode[k]) = <<c + 128>>
    BY <1>2, <1>4 DEF Released
  <2>2. /\ AfterBytes(f, <<c>>) = AfterByte(f, c)
        /\ AfterBytes(f, <<c + 128>>) = AfterByte(f, c + 128)
    BY DEF AfterBytes
  <2>3. <<c>> \in Seq(Int) /\ <<c + 128>> \in Seq(Int) /\ Len(<<c>>) = 1 /\ Len(<<c + 128>>) = 1
    BY <1>2
  <2> QED BY <1>3, <1>4, <2>1, <2>2, <2>3
<1>5. CASE KeyCode[k] = <<Prefix, c>>
  <2>1. Released(KeyCode[k]) = <<Prefix, c + 128>>
    BY <1>2, <1>5 DEF Released
  <2>2. /\ AfterBytes(f, <<Prefix, c>>) = AfterByte(AfterByte(f, Prefix), c)
        /\ AfterBytes(f, <<Prefix, c + 128>>) = AfterByte(AfterByte(f, Prefix), c + 128)
    BY DEF AfterBytes
  <2>3. /\ <<Prefix, c>> \in Seq(Int) /\ <<Prefix, c + 128>> \in Seq(Int)
        /\ Len(<<Prefix, c>>) = 2 /\ Len(<<Prefix, c + 128>>) = 2
    BY <1>2
  <2> QED BY <1>3, <1>5, <2>1, <2>2, <2>3
<1> QED BY <1>1, <1>4, <1>5

(* No code names two modifiers. *)
LEMMA OneModifier ==
  ASSUME NEW code \in Int
  PROVE  ModifierOf(code) = {} \/ \E m : ModifierOf(code) = {m}
<1>1. /\ DOMAIN ModifierCode = {"shift", "gui", "ctrl", "alt"}
      /\ ModifierCode["shift"] = {42, 54} /\ ModifierCode["gui"] = {91, 92}
      /\ ModifierCode["ctrl"] = {29} /\ ModifierCode["alt"] = {56}
  BY DEF ModifierCode
<1>2. ASSUME NEW m \in ModifierOf(code), NEW n \in ModifierOf(code) PROVE m = n
  BY <1>1 DEF ModifierOf
<1> QED BY <1>2

(* The handler does to the flags what the byte says. *)
LEMMA InterruptTakesByte ==
  ASSUME NEW byte \in Int, keyboard_interrupt(byte)
  PROVE  flags' = AfterByte(flags, byte)
<1> DEFINE code == byte % 128
           modifier == ModifierOf(code)
<1>1. modifier = {m \in DOMAIN ModifierCode : code \in ModifierCode[m]}
  BY DEF ModifierOf
<1>2. code \in Int
  OBVIOUS
<1>3. modifier = {} \/ modifier = {CHOOSE m \in modifier : TRUE}
  BY <1>2, OneModifier
<1>4. CASE byte = Prefix
  BY <1>4 DEF keyboard_interrupt, AfterByte
<1>5. CASE byte # Prefix
  <2>1. flags' = IF modifier = {} THEN flags
                 ELSE IF byte >= 128 THEN flags \ {CHOOSE m \in modifier : TRUE}
                                     ELSE flags \cup {CHOOSE m \in modifier : TRUE}
    BY <1>1, <1>5 DEF keyboard_interrupt, WithFlag
  <2> QED BY <1>3, <1>5, <2>1 DEF AfterByte
<1> QED BY <1>4, <1>5

(* Small facts that the two lemmas on sequences of bytes need. *)
LEMMA BelowTwo ==
  ASSUME NEW n \in Nat, n < 2
  PROVE  n = 0 \/ n = 1
OBVIOUS

LEMMA FewBytes ==
  ASSUME NEW n, n = 0 \/ n = 1, NEW l \in {1, 2}, NEW k, k = n + l
  PROVE  k \in 1 .. 3
OBVIOUS

LEMMA BytesOfTail ==
  ASSUME NEW S, NEW w \in Seq(S), w # <<>>
  PROVE  /\ Head(w) = w[1]
         /\ Len(Tail(w)) = Len(w) - 1
         /\ Len(w) = 2 => Tail(w)[1] = w[2]
         /\ Len(w) = 3 => Tail(w)[1] = w[2] /\ Tail(w)[2] = w[3]
<1>1. Head(w) = w[1]
  OBVIOUS
<1>2. Len(Tail(w)) = Len(w) - 1 /\ \A i \in 1 .. Len(Tail(w)) : Tail(w)[i] = w[i + 1]
  BY HeadTailProperties
<1>3. 2 - 1 = 1 /\ 3 - 1 = 2 /\ 1 + 1 = 2 /\ 2 + 1 = 3
  OBVIOUS
<1>4. 1 \in 1 .. 1 /\ 1 \in 1 .. 2 /\ 2 \in 1 .. 2
  OBVIOUS
<1>5. ASSUME Len(w) = 2 PROVE Tail(w)[1] = w[2]
  BY <1>2, <1>3, <1>4, <1>5, Zenon
<1>6. ASSUME Len(w) = 3 PROVE Tail(w)[1] = w[2] /\ Tail(w)[2] = w[3]
  BY <1>2, <1>3, <1>4, <1>6, Zenon
<1> QED BY <1>1, <1>2, <1>5, <1>6

(* Taking the first byte, and putting a key's code behind at most one byte. *)
LEMMA TakeByte ==
  ASSUME NEW f, NEW w \in Seq(Int), Len(w) \in 1 .. 3
  PROVE  AfterBytes(AfterByte(f, Head(w)), Tail(w)) = AfterBytes(f, w)
<1>1. w # <<>>
  <2>1. Len(<<>>) \notin 1 .. 3
    OBVIOUS
  <2> QED BY <2>1
<1>2. Head(w) = w[1] /\ Len(Tail(w)) = Len(w) - 1
  BY <1>1, BytesOfTail
<1>3. /\ Len(w) = 2 => Tail(w)[1] = w[2]
      /\ Len(w) = 3 => Tail(w)[1] = w[2] /\ Tail(w)[2] = w[3]
  BY <1>1, BytesOfTail
<1>4. CASE Len(w) = 1
  <2>1. Len(Tail(w)) = 0
    BY <1>2, <1>4
  <2> QED BY <1>2, <1>4, <2>1 DEF AfterBytes
<1>5. CASE Len(w) = 2
  <2>1. Len(Tail(w)) = 1
    BY <1>2, <1>5
  <2>2. AfterBytes(AfterByte(f, Head(w)), Tail(w)) = AfterByte(AfterByte(f, Head(w)), Tail(w)[1])
    BY <2>1 DEF AfterBytes
  <2>3. AfterBytes(f, w) = AfterByte(AfterByte(f, w[1]), w[2])
    BY <1>5 DEF AfterBytes
  <2>4. Tail(w)[1] = w[2] /\ Head(w) = w[1]
    BY <1>2, <1>3, <1>5
  <2> QED BY <2>2, <2>3, <2>4, Zenon
<1>6. CASE Len(w) = 3
  <2>1. Len(Tail(w)) = 2
    BY <1>2, <1>6
  <2>2. AfterBytes(AfterByte(f, Head(w)), Tail(w))
        = AfterByte(AfterByte(AfterByte(f, Head(w)), Tail(w)[1]), Tail(w)[2])
    BY <2>1 DEF AfterBytes
  <2>3. AfterBytes(f, w) = AfterByte(AfterByte(AfterByte(f, w[1]), w[2]), w[3])
    BY <1>6 DEF AfterBytes
  <2>4. Tail(w)[1] = w[2] /\ Tail(w)[2] = w[3] /\ Head(w) = w[1]
    BY <1>2, <1>3, <1>6
  <2> QED BY <2>2, <2>3, <2>4, Zenon
<1> QED BY <1>4, <1>5, <1>6

LEMMA PutCode ==
  ASSUME NEW f, NEW w \in Seq(Int), Len(w) < 2, NEW c \in Seq(Int), Len(c) \in {1, 2}
  PROVE  /\ w \o c \in Seq(Int) /\ Len(w \o c) \in 1 .. 3
         /\ AfterBytes(f, w \o c) = AfterBytes(AfterBytes(f, w), c)
<1> DEFINE u == w \o c
<1>1. u \in Seq(Int) /\ Len(u) = Len(w) + Len(c)
  BY ConcatProperties
<1>2. /\ \A i \in 1 .. Len(w) + Len(c) : i <= Len(w) => u[i] = w[i]
      /\ \A i \in 1 .. Len(w) + Len(c) : ~(i <= Len(w)) => u[i] = c[i - Len(w)]
  BY ConcatProperties
<1>3. Len(w) \in Nat
  BY LenProperties
<1>4. Len(w) = 0 \/ Len(w) = 1
  BY <1>3, BelowTwo
<1>5. Len(u) \in 1 .. 3
  BY <1>1, <1>4, FewBytes
<1>6. CASE Len(w) = 0
  <2>1. w = <<>>
    BY <1>6, EmptySeq
  <2>2. u = c
    BY <2>1, ConcatEmptySeq
  <2>3. AfterBytes(f, w) = f
    BY <1>6 DEF AfterBytes
  <2> QED BY <1>1, <1>5, <2>2, <2>3
<1>7. CASE Len(w) = 1
  <2>1. u[1] = w[1] /\ u[2] = c[1]
    <3>1. /\ 1 \in 1 .. 1 + 1 /\ 1 \in 1 .. 1 + 2 /\ 2 \in 1 .. 1 + 1 /\ 2 \in 1 .. 1 + 2
          /\ 1 <= 1 /\ ~(2 <= 1) /\ 2 - 1 = 1
      OBVIOUS
    <3>2. CASE Len(c) = 1
      BY <1>2, <1>7, <3>1, <3>2, Zenon
    <3>3. CASE Len(c) = 2
      BY <1>2, <1>7, <3>1, <3>3, Zenon
    <3> QED BY <3>2, <3>3
  <2>2. AfterBytes(f, w) = AfterByte(f, w[1])
    BY <1>7 DEF AfterBytes
  <2> HIDE DEF u
  <2>3. CASE Len(c) = 1
    <3>1. Len(u) = 2
      BY <1>1, <1>7, <2>3
    <3>2. AfterBytes(f, u) = AfterByte(AfterByte(f, u[1]), u[2])
      BY <3>1 DEF AfterBytes
    <3>3. AfterBytes(AfterBytes(f, w), c) = AfterByte(AfterBytes(f, w), c[1])
      BY <2>3 DEF AfterBytes
    <3> QED BY <1>1, <1>5, <2>1, <2>2, <3>2, <3>3 DEF u
  <2>4. CASE Len(c) = 2
    <3>1. Len(u) = 3
      BY <1>1, <1>7, <2>4
    <3>2. u[3] = c[2]
      <4>1. 3 \in 1 .. Len(w) + Len(c) /\ ~(3 <= Len(w)) /\ 3 - Len(w) = 2
        BY <1>7, <2>4
      <4> QED BY <1>2, <4>1 DEF u
    <3>3. AfterBytes(f, u) = AfterByte(AfterByte(AfterByte(f, u[1]), u[2]), u[3])
      BY <3>1 DEF AfterBytes
    <3>4. AfterBytes(AfterBytes(f, w), c) = AfterByte(AfterByte(AfterBytes(f, w), c[1]), c[2])
      BY <2>4 DEF AfterBytes
    <3> QED BY <1>1, <1>5, <2>1, <2>2, <3>2, <3>3, <3>4 DEF u
  <2> QED BY <2>3, <2>4
<1> QED BY <1>4, <1>6, <1>7

(* The flags as they will be once the bytes on their way have been taken   *)
(* say which keys are down.  A modifier both of whose keys are down is in  *)
(* both.                                                                   *)
KeysInv ==
  /\ wire \in Seq(Int) /\ Len(wire) \in 0 .. 3
  /\ \A m \in DOMAIN KeysOf :
       /\ m \in AfterBytes(flags, wire) => KeysOf[m] \cap down # {}
       /\ KeysOf[m] \cap down # {} /\ m \notin both => m \in AfterBytes(flags, wire)
       /\ KeysOf[m] \subseteq down /\ Cardinality(KeysOf[m]) = 2 => m \in both

(* A modifier has one key or two. *)
LEMMA KeysOfModifier ==
  ASSUME NEW m \in DOMAIN KeysOf
  PROVE  /\ KeysOf[m] # {}
         /\ \A k, l \in KeysOf[m] : k # l => KeysOf[m] = {k, l} /\ Cardinality(KeysOf[m]) = 2
<1>1. /\ DOMAIN KeysOf = {"shift", "gui", "ctrl", "alt"}
      /\ KeysOf["shift"] = {"LeftShift", "RightShift"} /\ KeysOf["gui"] = {"Gui"}
      /\ KeysOf["ctrl"] = {"LeftCtrl", "RightCtrl"} /\ KeysOf["alt"] = {"LeftAlt", "RightAlt"}
  BY DEF KeysOf
<1>2. KeysOf[m] # {} /\ \A k, l \in KeysOf[m] : k # l => KeysOf[m] = {k, l}
  BY <1>1
<1>3. ASSUME NEW k, NEW l, k # l PROVE Cardinality({k, l}) = 2
  <2>1. IsFiniteSet({k}) /\ Cardinality({k}) = 1
    BY FS_Singleton
  <2>2. Cardinality({k} \cup {l}) = Cardinality({k}) + 1
    BY <1>3, <2>1, FS_AddElement
  <2>3. {k} \cup {l} = {k, l}
    OBVIOUS
  <2> QED BY <2>1, <2>2, <2>3
<1>4. ASSUME NEW k \in KeysOf[m], NEW l \in KeysOf[m], k # l
      PROVE  KeysOf[m] = {k, l} /\ Cardinality(KeysOf[m]) = 2
  <2>1. KeysOf[m] = {k, l}
    BY <1>2, <1>4
  <2>2. Cardinality({k, l}) = 2
    BY <1>3, <1>4
  <2> QED BY <2>1, <2>2
<1> QED BY <1>2, <1>4

LEMMA KeysInitial == KeysInit => KeysInv
<1> SUFFICES ASSUME KeysInit PROVE KeysInv
  OBVIOUS
<1>1. wire = <<>> /\ flags = {} /\ down = {} /\ AfterBytes(flags, wire) = {}
  BY DEF KeysInit, AfterBytes
<1> QED BY <1>1, KeysOfModifier DEF KeysInv

(* A press adds the key's modifier to the flags to come, a release takes it away *)
(* and an interrupt only brings them nearer.                              *)
LEMMA PressKeeps ==
  ASSUME KeysInv, NEW k \in Keys, Press(k)
  PROVE  KeysInv'
<1> DEFINE later == AfterBytes(flags, wire)
<1>1. k \in DOMAIN KeyCode
  BY KeysAssumption
<1>2. /\ Len(wire) < 2 /\ wire' = wire \o KeyCode[k] /\ down' = down \cup {k} /\ flags' = flags
      /\ both' = both \cup {m \in DOMAIN KeysOf : KeysOf[m] \subseteq down' /\ Cardinality(KeysOf[m]) = 2}
  BY DEF Press
<1>3. /\ wire' \in Seq(Int) /\ Len(wire') \in 1 .. 3
      /\ AfterBytes(flags, wire') = later \cup ModifierKey(k)
  <2>1. wire \in Seq(Int)
    BY DEF KeysInv
  <2>2. KeyCode[k] \in Seq(Int) /\ Len(KeyCode[k]) \in {1, 2}
    BY <1>1, KeyEffect
  <2>3. AfterBytes(later, KeyCode[k]) = later \cup ModifierKey(k)
    BY <1>1, KeyEffect
  <2>4. wire \o KeyCode[k] \in Seq(Int) /\ Len(wire \o KeyCode[k]) \in 1 .. 3
    BY <1>2, <2>1, <2>2, PutCode
  <2>5. AfterBytes(flags, wire \o KeyCode[k]) = AfterBytes(later, KeyCode[k])
    BY <1>2, <2>1, <2>2, PutCode
  <2> QED BY <1>2, <2>3, <2>4, <2>5
<1>4. Len(wire') \in 0 .. 3
  BY <1>3
<1>5. AfterBytes(flags, wire)' = later \cup ModifierKey(k)
  BY <1>2, <1>3
<1> HIDE DEF later
<1>6. ASSUME NEW m \in DOMAIN KeysOf
      PROVE  /\ m \in AfterBytes(flags, wire)' => KeysOf[m] \cap down' # {}
             /\ KeysOf[m] \cap down' # {} /\ m \notin both' => m \in AfterBytes(flags, wire)'
             /\ KeysOf[m] \subseteq down' /\ Cardinality(KeysOf[m]) = 2 => m \in both'
  <2>1. /\ m \in later => KeysOf[m] \cap down # {}
        /\ KeysOf[m] \cap down # {} /\ m \notin both => m \in later
    BY DEF KeysInv, later
  <2>2. m \in ModifierKey(k) <=> k \in KeysOf[m]
    BY DEF ModifierKey
  <2> QED BY <1>2, <1>5, <2>1, <2>2
<1> QED BY <1>3, <1>4, <1>6 DEF KeysInv

LEMMA ReleaseKeeps ==
  ASSUME KeysInv, NEW k \in Keys, Release(k)
  PROVE  KeysInv'
<1> DEFINE later == AfterBytes(flags, wire)
<1>1. k \in DOMAIN KeyCode
  BY KeysAssumption
<1>2. /\ Len(wire) < 2 /\ wire' = wire \o Released(KeyCode[k]) /\ down' = down \ {k} /\ k \in down
      /\ both' = both \ {m \in DOMAIN KeysOf : KeysOf[m] \cap down' = {}} /\ flags' = flags
  BY DEF Release
<1>3. /\ wire' \in Seq(Int) /\ Len(wire') \in 1 .. 3
      /\ AfterBytes(flags, wire') = later \ ModifierKey(k)
  <2>1. wire \in Seq(Int)
    BY DEF KeysInv
  <2>2. Released(KeyCode[k]) \in Seq(Int) /\ Len(Released(KeyCode[k])) \in {1, 2}
    BY <1>1, KeyEffect
  <2>3. AfterBytes(later, Released(KeyCode[k])) = later \ ModifierKey(k)
    BY <1>1, KeyEffect
  <2>4. /\ wire \o Released(KeyCode[k]) \in Seq(Int)
        /\ Len(wire \o Released(KeyCode[k])) \in 1 .. 3
    BY <1>2, <2>1, <2>2, PutCode
  <2>5. AfterBytes(flags, wire \o Released(KeyCode[k])) = AfterBytes(later, Released(KeyCode[k]))
    BY <1>2, <2>1, <2>2, PutCode
  <2> QED BY <1>2, <2>3, <2>4, <2>5
<1>4. Len(wire') \in 0 .. 3
  BY <1>3
<1>5. AfterBytes(flags, wire)' = later \ ModifierKey(k)
  BY <1>2, <1>3
<1> HIDE DEF later
<1>6. ASSUME NEW m \in DOMAIN KeysOf
      PROVE  /\ m \in AfterBytes(flags, wire)' => KeysOf[m] \cap down' # {}
             /\ KeysOf[m] \cap down' # {} /\ m \notin both' => m \in AfterBytes(flags, wire)'
             /\ KeysOf[m] \subseteq down' /\ Cardinality(KeysOf[m]) = 2 => m \in both'
  <2>1. /\ m \in later => KeysOf[m] \cap down # {}
        /\ KeysOf[m] \cap down # {} /\ m \notin both => m \in later
        /\ KeysOf[m] \subseteq down /\ Cardinality(KeysOf[m]) = 2 => m \in both
    BY DEF KeysInv, later
  <2>2. m \in ModifierKey(k) <=> k \in KeysOf[m]
    BY DEF ModifierKey
  <2>3. KeysOf[m] # {}
    BY KeysOfModifier
  <2>4. CASE k \notin KeysOf[m]
    BY <1>2, <1>5, <2>1, <2>2, <2>3, <2>4
  <2>5. CASE k \in KeysOf[m]
    <3>1. KeysOf[m] \cap down' # {} => m \in both'
      <4> SUFFICES ASSUME NEW l \in KeysOf[m], l \in down' PROVE m \in both'
        OBVIOUS
      <4>1. l # k /\ l \in down
        BY <1>2
      <4>2. KeysOf[m] = {k, l} /\ Cardinality(KeysOf[m]) = 2
        BY <2>5, <4>1, KeysOfModifier
      <4>3. KeysOf[m] \subseteq down
        BY <1>2, <4>1, <4>2
      <4> QED BY <1>2, <2>1, <4>2, <4>3
    <3> QED BY <1>2, <1>5, <2>2, <2>5, <3>1
  <2> QED BY <2>4, <2>5
<1> QED BY <1>3, <1>4, <1>6 DEF KeysInv

LEMMA InterruptKeeps ==
  ASSUME KeysInv, KeyByte
  PROVE  KeysInv'
<1>1. /\ wire \in Seq(Int) /\ wire # <<>> /\ keyboard_interrupt(Head(wire)) /\ wire' = Tail(wire)
      /\ down' = down /\ both' = both /\ Len(wire) \in 0 .. 3
  BY DEF KeysInv, KeyByte
<1>2. Head(wire) \in Int /\ Tail(wire) \in Seq(Int) /\ Len(Tail(wire)) = Len(wire) - 1
  BY <1>1, HeadTailProperties
<1>3. Len(wire) \in 1 .. 3
  <2>1. Len(wire) # 0
    BY <1>1, EmptySeq
  <2> QED BY <1>1, <2>1
<1>4. Len(wire') \in 0 .. 3
  BY <1>1, <1>2, <1>3, SMTT(30)
<1>5. flags' = AfterByte(flags, Head(wire))
  BY <1>1, <1>2, InterruptTakesByte
<1>6. AfterBytes(AfterByte(flags, Head(wire)), Tail(wire)) = AfterBytes(flags, wire)
  BY <1>1, <1>3, TakeByte
<1>7. AfterBytes(flags, wire)' = AfterBytes(flags, wire)
  BY <1>1, <1>5, <1>6
<1> QED BY <1>1, <1>2, <1>4, <1>7 DEF KeysInv

(* ModifiersFollowKeys for any set of keys: once the interrupt handler has *)
(* taken every byte, a modifier's flag is set only if one of its keys is   *)
(* down, and it is set if one is unless both have been down together       *)
(* (keyboard.c:113-178).                                                   *)
THEOREM ModifiersFollow == KeysSpec => []ModifiersFollowKeys
<1>1. KeysInit => KeysInv
  BY KeysInitial
<1>2. KeysInv /\ [KeysNext]_keyVars => KeysInv'
  <2> SUFFICES ASSUME KeysInv, [KeysNext]_keyVars PROVE KeysInv'
    OBVIOUS
  <2>1. CASE KeyByte
    BY <2>1, InterruptKeeps
  <2>2. ASSUME NEW k \in Keys, Press(k) PROVE KeysInv'
    BY <2>2, PressKeeps
  <2>3. ASSUME NEW k \in Keys, Release(k) PROVE KeysInv'
    BY <2>3, ReleaseKeeps
  <2>4. CASE UNCHANGED keyVars
    <3>1. flags' = flags /\ wire' = wire /\ down' = down /\ both' = both
      BY <2>4 DEF keyVars
    <3>2. AfterBytes(flags, wire)' = AfterBytes(flags, wire)
      BY <3>1
    <3> QED BY <3>1, <3>2 DEF KeysInv
  <2> QED BY <2>1, <2>2, <2>3, <2>4 DEF KeysNext
<1>3. KeysInv => ModifiersFollowKeys
  <2> SUFFICES ASSUME KeysInv, wire = <<>>
               PROVE  \A m \in DOMAIN KeysOf :
                        /\ m \in flags => KeysOf[m] \cap down # {}
                        /\ KeysOf[m] \cap down # {} /\ m \notin both => m \in flags
    BY DEF ModifiersFollowKeys
  <2>1. AfterBytes(flags, wire) = flags
    BY DEF AfterBytes
  <2> QED BY <2>1 DEF KeysInv
<1> QED BY <1>1, <1>2, <1>3, PTL DEF KeysSpec

----------------------------------------------------------------------------
(* The ARP table answers with what it heard last, and forgets in the order *)
(* of hearing.                                                             *)

Entry == [ip : Ip \cup {0}, mac : Mac \cup {Unheard}, timestamp : Nat, valid : BOOLEAN]

ArpTypes ==
  /\ arp_table \in [Slots -> Entry]
  /\ arpTicks \in Nat
  /\ heard \in [Ip -> [mac : Mac \cup {Unheard}, at : Nat]]

(* A valid entry says what was heard last of its address; no address has   *)
(* two entries; one without an entry was not heard of after any other.     *)
Current(s) ==
  arp_table[s].valid =>
    LET i == arp_table[s].ip
    IN  /\ i \in Ip
        /\ arp_table[s].mac = heard[i].mac /\ heard[i].mac # Unheard
        /\ arp_table[s].timestamp = heard[i].at

Single ==
  \A s, t \in Slots :
    arp_table[s].valid /\ arp_table[t].valid /\ arp_table[s].ip = arp_table[t].ip => s = t

NotInFuture == \A i \in Ip : heard[i].at <= arpTicks

Forgotten(i) == \A s \in Slots : arp_table[s].valid /\ arp_table[s].timestamp >= heard[i].at
InOrder == \A i \in Ip : heard[i].mac = Unheard \/ Holding(i) # {} \/ Forgotten(i)

ArpInv ==
  /\ ArpTypes
  /\ \A s \in Slots : Current(s)
  /\ Single /\ NotInFuture /\ InOrder

----------------------------------------------------------------------------
(* The choice of an entry. *)
LEMMA FirstIsThere ==
  ASSUME NEW S \in SUBSET Slots, S # {}
  PROVE  First(S) \in S
<1>1. \E s \in S : \A t \in S : s <= t
  BY LeastElement DEF Slots
<1> QED BY <1>1 DEF First

(* The entry that an address goes to: where it has one it is that one;     *)
(* otherwise, in a full table, none is older.                              *)
LEMMA SlotForFits ==
  ASSUME ArpTypes, NEW i \in Ip
  PROVE  /\ SlotFor(i) \in Slots
         /\ Holding(i) # {} => SlotFor(i) \in Holding(i)
         /\ Holding(i) = {} /\ arp_table[SlotFor(i)].valid =>
              \A t \in Slots : /\ arp_table[t].valid
                               /\ arp_table[SlotFor(i)].timestamp <= arp_table[t].timestamp
<1> DEFINE empty  == {s \in Slots : ~arp_table[s].valid}
           oldest == {s \in Slots : \A t \in Slots :
                        arp_table[s].timestamp <= arp_table[t].timestamp}
           times  == {arp_table[s].timestamp : s \in Slots}
<1>1. SlotFor(i) = IF Holding(i) # {} THEN First(Holding(i))
                   ELSE IF empty # {} THEN First(empty) ELSE First(oldest)
  BY DEF SlotFor
<1>2. oldest # {}
  <2>1. times \in SUBSET Nat /\ times # {}
    BY ArpAssumption DEF ArpTypes, Entry, Slots
  <2>2. PICK x \in times : \A y \in times : x <= y
    BY <2>1, LeastElement
  <2> QED BY <2>2
<1>3. /\ Holding(i) # {} => First(Holding(i)) \in Holding(i)
      /\ empty # {} => First(empty) \in empty
      /\ First(oldest) \in oldest
  BY <1>2, FirstIsThere DEF Holding
<1> HIDE DEF First
<1> QED BY <1>1, <1>3 DEF Holding

LEMMA ArpInitial == ArpInit => ArpInv
BY ArpAssumption DEF ArpInit, ArpInv, ArpTypes, Entry, Current, Single, NotInFuture, InOrder, Slots

(* A packet: the entry it goes to is overwritten, the others stay.         *)
LEMMA PacketInv ==
  ASSUME ArpInv, NEW i \in Ip, NEW m \in Mac, arp_handle_packet(i, m)
  PROVE  ArpInv'
<1> DEFINE e == [ip |-> i, mac |-> m, timestamp |-> arpTicks, valid |-> TRUE]
<1> ArpTypes
  BY DEF ArpInv
<1>1. PICK k \in Slots :
        /\ k = SlotFor(i)
        /\ Holding(i) # {} => k \in Holding(i)
        /\ Holding(i) = {} /\ arp_table[k].valid =>
             \A t \in Slots : /\ arp_table[t].valid
                              /\ arp_table[k].timestamp <= arp_table[t].timestamp
  BY SlotForFits
<1>2. /\ arp_table' = [arp_table EXCEPT ![k] = e]
      /\ heard' = [heard EXCEPT ![i] = [mac |-> m, at |-> arpTicks]]
      /\ arpTicks' = arpTicks
  BY <1>1 DEF arp_handle_packet, arp_update_table
<1>3. /\ arp_table'[k] = e
      /\ \A s \in Slots \ {k} : arp_table'[s] = arp_table[s]
      /\ heard'[i] = [mac |-> m, at |-> arpTicks]
      /\ \A j \in Ip \ {i} : heard'[j] = heard[j]
  BY <1>1, <1>2 DEF ArpTypes
<1>4. ArpTypes'
  <2>1. e \in Entry
    BY DEF Entry, ArpTypes
  <2> QED BY <1>1, <1>2, <2>1 DEF ArpTypes
<1>5. \A s \in Slots \ {k} : arp_table[s].valid => arp_table[s].ip # i
  BY <1>1 DEF ArpInv, Single, Holding
<1>6. (\A s \in Slots : Current(s))'
  <2>1. ASSUME NEW s \in Slots \ {k} PROVE Current(s)'
    BY <1>3, <1>5 DEF ArpInv, Current
  <2>2. Current(k)'
    BY <1>3, ArpAssumption DEF Current
  <2> QED BY <2>1, <2>2
<1>7. Single'
  BY <1>3, <1>5 DEF ArpInv, Single
<1>8. NotInFuture'
  BY <1>2, <1>3 DEF ArpInv, NotInFuture, ArpTypes
<1>9. InOrder'
  <2> SUFFICES ASSUME NEW j \in Ip, heard'[j].mac # Unheard, Holding(j)' = {}
               PROVE  Forgotten(j)'
    BY DEF InOrder
  <2>1. j # i
    BY <1>1, <1>3 DEF Holding
  <2>2. heard'[j] = heard[j]
    BY <1>3, <2>1
  <2>3. \A s \in Slots \ {k} : ~(arp_table[s].valid /\ arp_table[s].ip = j)
    BY <1>3 DEF Holding
  <2>4. arpTicks >= heard[j].at
    BY DEF ArpInv, NotInFuture, ArpTypes
  <2>5. \A s \in Slots \ {k} : arp_table[s].valid /\ arp_table[s].timestamp >= heard[j].at
    <3>1. CASE Holding(j) = {}
      BY <3>1, <2>2 DEF ArpInv, InOrder, Forgotten
    <3>2. CASE Holding(j) # {}
      <4>1. arp_table[k].valid /\ arp_table[k].ip = j
        BY <2>3, <3>2 DEF Holding
      <4>2. Holding(i) = {}
        BY <1>1, <2>1, <4>1 DEF Holding
      <4>3. arp_table[k].timestamp = heard[j].at
        BY <1>1, <4>1 DEF ArpInv, Current
      <4> QED BY <1>1, <4>1, <4>2, <4>3
    <3> QED BY <3>1, <3>2
  <2> QED BY <1>3, <2>2, <2>4, <2>5 DEF Forgotten
<1> QED BY <1>4, <1>6, <1>7, <1>8, <1>9 DEF ArpInv

LEMMA ArpStepInv == ArpInv /\ [ArpNext]_arpVars => ArpInv'
<1> SUFFICES ASSUME ArpInv, [ArpNext]_arpVars PROVE ArpInv'
  OBVIOUS
<1>1. ASSUME NEW i \in Ip, NEW m \in Mac, arp_handle_packet(i, m) PROVE ArpInv'
  BY <1>1, PacketInv
<1>2. CASE ArpTick
  <2>1. arpTicks' = arpTicks + 1 /\ arp_table' = arp_table /\ heard' = heard
    BY <1>2 DEF ArpTick
  <2>2. ArpTypes' /\ NotInFuture'
    BY <2>1 DEF ArpInv, ArpTypes, NotInFuture
  <2>3. (\A s \in Slots : Current(s))' /\ Single' /\ InOrder'
    BY <2>1 DEF ArpInv, Current, Single, InOrder, Holding, Forgotten
  <2> QED BY <2>2, <2>3 DEF ArpInv
<1>3. CASE UNCHANGED arpVars
  BY <1>3 DEF arpVars, ArpInv, ArpTypes, Current, Single, NotInFuture, InOrder, Holding, Forgotten
<1> QED BY <1>1, <1>2, <1>3 DEF ArpNext

LEMMA ArpInvIsEnough == ArpInv => LatestAnswerKept
<1> SUFFICES ASSUME ArpInv, NEW i \in Ip
             PROVE  \/ arp_lookup(i) = heard[i].mac
                    \/ arp_lookup(i) = Unheard /\ Forgotten(i)
  BY DEF LatestAnswerKept, Forgotten
<1>1. CASE Holding(i) = {}
  <2>1. arp_lookup(i) = Unheard
    BY <1>1 DEF arp_lookup
  <2> QED BY <1>1, <2>1 DEF ArpInv, InOrder
<1>2. CASE Holding(i) # {}
  <2>1. First(Holding(i)) \in Holding(i)
    BY <1>2, FirstIsThere DEF Holding
  <2>2. arp_lookup(i) = arp_table[First(Holding(i))].mac
    BY <1>2 DEF arp_lookup
  <2> HIDE DEF First
  <2> QED BY <2>1, <2>2 DEF ArpInv, Current, Holding
<1> QED BY <1>1, <1>2

(* arp_lookup answers with the MAC address last claimed for an IP address, *)
(* and an address heard of is unknown only when the table is full of       *)
(* addresses heard of no earlier (arp.c:40-77).                            *)
THEOREM AnswersAreLatest == ArpSpec => []LatestAnswerKept
<1>1. ArpSpec => []ArpInv
  BY ArpInitial, ArpStepInv, PTL DEF ArpSpec
<1> QED BY <1>1, ArpInvIsEnough, PTL

----------------------------------------------------------------------------
(* Messages. *)

LEMMA SuccInIndex ==
  \A i \in Index : Succ(i) \in Index
BY MsgQueueAssumption DEF Index, Succ

LEMMA InitTypeOK == MsgInit => MsgTypeOK
BY MsgQueueAssumption DEF MsgInit, MsgTypeOK, Index

(* A successful call keeps the ring's indices and its count in range: a    *)
(* send only happens below capacity, a receive only above zero.            *)
LEMMA SuccessTypeOK ==
  ASSUME MsgTypeOK, NEW t \in Caller, Success(t)
  PROVE  MsgTypeOK'
<1>1. /\ buffer' \in [Index -> Message] /\ head' \in Index /\ tail' \in Index
      /\ count' \in 0 .. Capacity /\ msg' \in [Caller -> Message]
  <2>1. CASE t \in Sender
    <3>1. Put(t) /\ count < Capacity /\ msg[t] \in Message
      BY <2>1, MsgQueueAssumption DEF Success, Blocked, MsgTypeOK
    <3> QED BY <3>1, SuccInIndex, MsgQueueAssumption DEF Put, MsgTypeOK
  <2>2. CASE t \notin Sender
    <3>1. Get(t) /\ count # 0 /\ buffer[head] \in Message
      BY <2>2 DEF Success, Blocked, MsgTypeOK
    <3> QED BY <3>1, SuccInIndex, MsgQueueAssumption DEF Get, MsgTypeOK
  <2> QED BY <2>1, <2>2
<1>2. /\ place' \in [Caller -> {"idle", "try", "wait", "retry"}]
      /\ blocking' \in [Caller -> BOOLEAN] /\ overtaken' \in [Caller -> BOOLEAN]
  <2>1. place' \in [Caller -> {"idle", "try", "wait", "retry"}]
        /\ blocking' \in [Caller -> BOOLEAN]
    BY DEF Success, Finish, MsgTypeOK
  <2>2. overtaken' \in [Caller -> BOOLEAN]
    BY DEF Success, MsgTypeOK
  <2> QED BY <2>1, <2>2
<1> QED BY <1>1, <1>2 DEF MsgTypeOK

LEMMA StepTypeOK == MsgTypeOK /\ [MsgNext]_msgVars => MsgTypeOK'
<1> SUFFICES ASSUME MsgTypeOK, [MsgNext]_msgVars PROVE MsgTypeOK'
  OBVIOUS
<1>1. ASSUME NEW s \in Sender, Prepare(s) PROVE MsgTypeOK'
  BY <1>1 DEF MsgTypeOK, Prepare, ring, Caller
<1>2. ASSUME NEW t \in Caller, Call(t) PROVE MsgTypeOK'
  BY <1>2 DEF MsgTypeOK, Call, ring
<1>3. ASSUME NEW t \in Caller, Success(t) PROVE MsgTypeOK'
  BY <1>3, SuccessTypeOK
<1>4. ASSUME NEW t \in Caller, WouldBlock(t) PROVE MsgTypeOK'
  BY <1>4 DEF MsgTypeOK, WouldBlock, Finish, ring
<1>5. ASSUME NEW t \in Caller, StartWaiting(t) PROVE MsgTypeOK'
  BY <1>5 DEF MsgTypeOK, StartWaiting, ring
<1>6. ASSUME NEW t \in Caller, EndWaiting(t) PROVE MsgTypeOK'
  BY <1>6 DEF MsgTypeOK, EndWaiting, ring
<1>7. CASE UNCHANGED msgVars
  BY <1>7 DEF MsgTypeOK, msgVars
<1> QED BY <1>1, <1>2, <1>3, <1>4, <1>5, <1>6, <1>7 DEF MsgNext, InCall

(* The state of a message queue has its declared types: head and tail stay *)
(* inside the buffer and count never exceeds the capacity (ipc.c:57-112).  *)
THEOREM MessagesTypeCorrect == MsgSpec => []MsgTypeOK
<1>1. MsgInit => MsgTypeOK
  BY InitTypeOK
<1>2. MsgTypeOK /\ [MsgNext]_msgVars => MsgTypeOK'
  BY StepTypeOK
<1> QED BY <1>1, <1>2, PTL DEF MsgSpec

----------------------------------------------------------------------------
(* The only step that can block a task that has ended its wait is a        *)
(* success on its own side, and that step marks it as overtaken.           *)
LEMMA SuccessOvertakes ==
  ASSUME MsgTypeOK, FailsOnlyOvertaken, NEW t \in Caller, Success(t)
  PROVE  FailsOnlyOvertaken'
<1> SUFFICES ASSUME NEW u \in Caller, place'[u] = "retry", Blocked(u)'
             PROVE  overtaken'[u]
  BY DEF FailsOnlyOvertaken
<1>1. u # t /\ place[u] = "retry"
  BY DEF Success, Finish, MsgTypeOK
<1>2. overtaken'[u] = (overtaken[u] \/ u \in OwnSide(t))
  BY <1>1 DEF Success
<1>3. CASE u \in OwnSide(t)
  BY <1>2, <1>3
<1>4. CASE u \notin OwnSide(t)
  <2>1. CASE t \in Sender
    <3>1. u \notin Sender /\ count' = count + 1 /\ count \in Nat
      BY <1>4, <2>1 DEF Success, Put, MsgTypeOK, OwnSide
    <3> QED BY <3>1, <1>1, <1>2 DEF Blocked
  <2>2. CASE t \notin Sender
    <3>1. u \in Sender /\ count' = count - 1 /\ count \in Nat
      BY <1>4, <2>2 DEF Success, Get, MsgTypeOK, OwnSide, Caller
    <3>2. Blocked(u)
      BY <3>1, MsgQueueAssumption DEF Blocked
    <3> QED BY <1>1, <1>2, <3>2 DEF FailsOnlyOvertaken
  <2> QED BY <2>1, <2>2
<1> QED BY <1>3, <1>4

LEMMA StepOvertaken ==
  MsgTypeOK /\ FailsOnlyOvertaken /\ [MsgNext]_msgVars => FailsOnlyOvertaken'
<1> SUFFICES ASSUME MsgTypeOK, FailsOnlyOvertaken, [MsgNext]_msgVars
             PROVE  FailsOnlyOvertaken'
  OBVIOUS
<1>1. ASSUME NEW s \in Sender, Prepare(s) PROVE FailsOnlyOvertaken'
  BY <1>1 DEF FailsOnlyOvertaken, Prepare, ring, Blocked
<1>2. ASSUME NEW t \in Caller, Call(t) PROVE FailsOnlyOvertaken'
  BY <1>2 DEF FailsOnlyOvertaken, Call, ring, MsgTypeOK, Blocked
<1>3. ASSUME NEW t \in Caller, Success(t) PROVE FailsOnlyOvertaken'
  BY <1>3, SuccessOvertakes
<1>4. ASSUME NEW t \in Caller, WouldBlock(t) PROVE FailsOnlyOvertaken'
  BY <1>4 DEF FailsOnlyOvertaken, WouldBlock, Finish, ring, MsgTypeOK, Blocked
<1>5. ASSUME NEW t \in Caller, StartWaiting(t) PROVE FailsOnlyOvertaken'
  BY <1>5 DEF FailsOnlyOvertaken, StartWaiting, ring, MsgTypeOK, Blocked
<1>6. ASSUME NEW t \in Caller, EndWaiting(t) PROVE FailsOnlyOvertaken'
  BY <1>6 DEF FailsOnlyOvertaken, EndWaiting, ring, MsgTypeOK, Blocked
<1>7. CASE UNCHANGED msgVars
  BY <1>7 DEF FailsOnlyOvertaken, msgVars, Blocked
<1> QED BY <1>1, <1>2, <1>3, <1>4, <1>5, <1>6, <1>7 DEF MsgNext, InCall

(* A blocking call that waited fails only when another task of its side    *)
(* got in between its wait and its second attempt (ipc.c:63-73, 92-102).   *)
THEOREM BlockingFailsOnlyOvertaken == MsgSpec => []FailsOnlyOvertaken
<1>1. MsgInit => FailsOnlyOvertaken
  BY DEF MsgInit, FailsOnlyOvertaken
<1>2. MsgTypeOK /\ FailsOnlyOvertaken /\ [MsgNext]_msgVars => FailsOnlyOvertaken'
  BY StepOvertaken
<1> QED BY <1>1, <1>2, MessagesTypeCorrect, PTL DEF MsgSpec

----------------------------------------------------------------------------
(* The ring as a sequence: count messages from head on, and tail is the    *)
(* place behind the last of them.                                          *)
Contents == RingRun(buffer, head, count, Capacity)

TailBehindLast ==
  /\ count < Capacity => tail = RingPlace(head, count + 1, Capacity)
  /\ count = Capacity => tail = head

LEMMA RingFacts ==
  ASSUME MsgTypeOK
  PROVE  /\ Capacity \in Nat \ {0} /\ head \in 0 .. Capacity - 1 /\ tail \in 0 .. Capacity - 1
         /\ buffer \in [0 .. Capacity - 1 -> Message] /\ count \in 0 .. Capacity
         /\ \A i : Succ(i) = After(i, Capacity)
BY MsgQueueAssumption DEF MsgTypeOK, Index, Succ, After, Turn

(* A send moves tail on, past the new last message. *)
LEMMA PutBehindLast ==
  ASSUME MsgTypeOK, TailBehindLast, NEW s \in Sender, Put(s), count < Capacity
  PROVE  TailBehindLast'
<1> DEFINE n == Capacity
           d == count + 1
<1>1. /\ n \in Nat \ {0} /\ head \in 0 .. n - 1 /\ count \in 0 .. n
      /\ tail' = After(tail, n) /\ count' = d /\ head' = head
  BY RingFacts DEF Put
<1>2. tail = RingPlace(head, d, n)
  BY DEF TailBehindLast
<1>3. d \in 1 .. n /\ count < n
  BY <1>1
<1> HIDE DEF n, d
<1>4. ASSUME d < n PROVE tail' = RingPlace(head, d + 1, n)
  <2>1. d \in 1 .. n - 1
    BY <1>1, <1>3, <1>4
  <2> QED BY <1>1, <1>2, <2>1, PlacesAre
<1>5. d = n => tail' = head
  BY <1>1, <1>2, RingCloses
<1> QED BY <1>1, <1>4, <1>5 DEF TailBehindLast, n

(* A receive moves head on, over the first message. *)
LEMMA GetBehindLast ==
  ASSUME MsgTypeOK, TailBehindLast, NEW r \in Receiver, Get(r), count # 0
  PROVE  TailBehindLast'
<1> DEFINE n == Capacity
           d == count
           c == count - 1
<1>1. /\ n \in Nat \ {0} /\ head \in 0 .. n - 1 /\ d \in 1 .. n
      /\ tail' = tail /\ count' = c /\ head' = After(head, n)
  BY RingFacts DEF Get
<1>2. /\ d < n => tail = RingPlace(head, d + 1, n)
      /\ d = n => tail = head
  BY DEF TailBehindLast
<1>3. c \in 0 .. n - 1 /\ c + 1 = d
  BY <1>1
<1> HIDE DEF n, d, c
<1>4. tail = RingPlace(After(head, n), d, n)
  <2>1. CASE d < n
    <3>1. d \in 1 .. n - 1
      BY <1>1, <2>1
    <3> QED BY <1>1, <1>2, <2>1, <3>1, PlacesAre
  <2>2. CASE d = n
    BY <1>1, <1>2, <2>2, RingCloses
  <2>3. d < n \/ d = n
    BY <1>1
  <2> QED BY <2>1, <2>2, <2>3
<1>5. tail' = RingPlace(head', c + 1, n) /\ c < n
  BY <1>1, <1>3, <1>4
<1> QED BY <1>1, <1>5 DEF TailBehindLast, n

(* No other step moves the ring. *)
LEMMA RestLeaves ==
  ASSUME NEW t, \/ Call(t) \/ WouldBlock(t) \/ StartWaiting(t) \/ EndWaiting(t)
                \/ Prepare(t) \/ UNCHANGED msgVars
  PROVE  UNCHANGED ring
BY DEF Call, WouldBlock, StartWaiting, EndWaiting, Prepare, ring, msgVars

LEMMA TailStaysBehind == MsgSpec => []TailBehindLast
<1>1. MsgInit => TailBehindLast
  <2> SUFFICES ASSUME MsgInit PROVE TailBehindLast
    OBVIOUS
  <2>1. Capacity \in Nat \ {0} /\ 0 \in 0 .. Capacity - 1
    BY MsgQueueAssumption
  <2>2. RingPlace(0, 1, Capacity) = 0
    BY <2>1, PlacesAre
  <2>3. 0 + 1 = 1
    OBVIOUS
  <2> QED BY <2>1, <2>2, <2>3 DEF MsgInit, TailBehindLast
<1>2. MsgTypeOK /\ TailBehindLast /\ [MsgNext]_msgVars => TailBehindLast'
  <2> SUFFICES ASSUME MsgTypeOK, TailBehindLast, [MsgNext]_msgVars
               PROVE  TailBehindLast'
    OBVIOUS
  <2>1. ASSUME NEW t \in Caller, Success(t) PROVE TailBehindLast'
    <3>1. CASE t \in Sender
      <4>1. count < Capacity /\ Put(t)
        BY <2>1, <3>1, MsgQueueAssumption DEF Success, Blocked, MsgTypeOK
      <4> QED BY <3>1, <4>1, PutBehindLast
    <3>2. CASE t \notin Sender
      <4>1. count # 0 /\ Get(t) /\ t \in Receiver
        BY <2>1, <3>2 DEF Success, Blocked, Caller
      <4> QED BY <4>1, GetBehindLast
    <3> QED BY <3>1, <3>2
  <2>2. ASSUME UNCHANGED ring PROVE TailBehindLast'
    BY <2>2 DEF ring, TailBehindLast
  <2> QED BY <2>1, <2>2, RestLeaves DEF MsgNext, InCall
<1> QED BY <1>1, <1>2, MessagesTypeCorrect, PTL DEF MsgSpec

----------------------------------------------------------------------------
(* What the refinement maps the queue to, before and after a step. *)
Mapped == [i \in 1 .. count |-> buffer[(head + i - 1) % Capacity]]

LEMMA MappedIs == Mapped = Contents /\ Mapped' = Contents'
<1>1. Mapped = Contents
  BY DEF Mapped, Contents, RingRun, RingPlace, Turn
<1>2. Mapped' = Contents'
  BY DEF Mapped, Contents, RingRun, RingPlace, Turn
<1> QED BY <1>1, <1>2

LEMMA ContentsIs ==
  ASSUME MsgTypeOK
  PROVE  Contents \in Seq(Message) /\ Len(Contents) = count
<1>1. Contents \in Seq(Message)
  BY RingFacts, RingRunIs DEF Contents
<1>2. count \in Nat
  BY DEF MsgTypeOK
<1>3. Len(Contents) = count
  BY <1>2, RingRunLen DEF Contents
<1> QED BY <1>1, <1>3

(* A successful send appends the sender's message. *)
LEMMA SendPuts ==
  ASSUME MsgTypeOK, TailBehindLast, NEW s \in Sender, Success(s)
  PROVE  Fifo!Put(s)
<1> DEFINE n == Capacity
           d == count
           e == msg[s]
<1>1. /\ n \in Nat \ {0} /\ head \in 0 .. n - 1 /\ d \in 0 .. n - 1
      /\ buffer \in [0 .. n - 1 -> Message] /\ e \in Message /\ d < n
  BY RingFacts DEF Success, Blocked, MsgTypeOK, Caller
<1>2. buffer' = [buffer EXCEPT ![tail] = e] /\ count' = d + 1 /\ head' = head /\ msg' = msg
  BY DEF Success, Put
<1>3. tail = RingPlace(head, d + 1, n)
  BY <1>1 DEF TailBehindLast
<1> HIDE DEF n, d, e
<1>4. RunAppends(buffer, head, d, n, e)
  BY <1>1, RunAppend
<1>5. RingRun(buffer', head', count', n) = Append(RingRun(buffer, head, d, n), e)
  BY <1>2, <1>3, <1>4 DEF RunAppends
<1>6. Contents' = Append(Contents, e)
  BY <1>5 DEF Contents, n, d
<1>7. Len(Contents) < n
  BY <1>1, ContentsIs DEF d
<1>8. Mapped' = Append(Mapped, e) /\ Len(Mapped) < n
  BY <1>6, <1>7, MappedIs
<1>9. [i \in Sender |-> msg[i]]' = [i \in Sender |-> msg[i]]
      /\ [i \in Receiver |-> msg[i]]' = [i \in Receiver |-> msg[i]]
  BY <1>2
<1> QED BY <1>8, <1>9 DEF Fifo!Put, Mapped, n, e

(* A successful receive takes the oldest message. *)
LEMMA ReceiveGets ==
  ASSUME MsgTypeOK, NEW r \in Receiver, Success(r)
  PROVE  Fifo!Get(r)
<1> DEFINE n == Capacity
           d == count
<1>1. r \notin Sender /\ r \in Caller
  BY MsgQueueAssumption DEF Caller
<1>2. /\ n \in Nat \ {0} /\ head \in 0 .. n - 1 /\ d \in 1 .. n
      /\ buffer \in [0 .. n - 1 -> Message]
  BY <1>1, RingFacts DEF Success, Blocked
<1>3. /\ msg' = [msg EXCEPT ![r] = buffer[head]] /\ head' = After(head, n)
      /\ count' = d - 1 /\ buffer' = buffer
  BY <1>1, RingFacts DEF Success, Get
<1> HIDE DEF n, d
<1>4. /\ RingRun(buffer, head, d, n) # <<>>
      /\ Head(RingRun(buffer, head, d, n)) = buffer[head]
      /\ RingRun(buffer, After(head, n), d - 1, n) = Tail(RingRun(buffer, head, d, n))
  BY <1>2, RunTail
<1>5. Contents # <<>> /\ Head(Contents) = buffer[head] /\ Contents' = Tail(Contents)
  BY <1>3, <1>4 DEF Contents, n, d
<1>6. [i \in Receiver |-> msg[i]]' = [[i \in Receiver |-> msg[i]] EXCEPT ![r] = buffer[head]]
  BY <1>1, <1>3 DEF MsgTypeOK, Caller
<1>7. [i \in Sender |-> msg[i]]' = [i \in Sender |-> msg[i]]
  BY <1>1, <1>3 DEF MsgTypeOK, Caller
<1>8. Mapped # <<>> /\ Head(Mapped) = buffer[head] /\ Mapped' = Tail(Mapped)
  BY <1>5, MappedIs
<1> QED BY <1>6, <1>7, <1>8 DEF Fifo!Get, Mapped

(* No interleaving of senders and receivers, blocking or not, loses,       *)
(* repeats, reorders or alters a message: the ring under its lock is a     *)
(* bounded FIFO (ipc.c:57-112).                                            *)
THEOREM QueueImplementsFifo == MsgSpec => ImplementsFifo
<1>1. MsgInit => Fifo!FifoInit
  <2> SUFFICES ASSUME MsgInit PROVE Fifo!FifoInit
    OBVIOUS
  <2>1. Contents \in Seq(Message) /\ Len(Contents) = 0
    BY InitTypeOK, ContentsIs DEF MsgInit
  <2>2. Contents = <<>>
    BY <2>1
  <2>3. [i \in Sender |-> msg[i]] \in [Sender -> Message]
        /\ [i \in Receiver |-> msg[i]] \in [Receiver -> Message]
    BY DEF MsgInit, Caller
  <2> QED BY <2>2, <2>3, MappedIs DEF Fifo!FifoInit, Mapped
<1>2. MsgTypeOK /\ TailBehindLast /\ [MsgNext]_msgVars
        => [Fifo!FifoNext]_(Fifo!absVars)
  <2> SUFFICES ASSUME MsgTypeOK, TailBehindLast, [MsgNext]_msgVars
               PROVE  [Fifo!FifoNext]_(Fifo!absVars)
    OBVIOUS
  <2>1. ASSUME NEW t \in Caller, Success(t) PROVE Fifo!FifoNext
    BY <2>1, SendPuts, ReceiveGets DEF Fifo!FifoNext, Caller
  <2>2. ASSUME NEW s \in Sender, Prepare(s) PROVE Fifo!FifoNext
    <3>1. PICK m \in Message : msg' = [msg EXCEPT ![s] = m]
      BY <2>2 DEF Prepare
    <3>2. Mapped' = Mapped
      BY <2>2 DEF Prepare, ring, Mapped
    <3>3. [i \in Sender |-> msg[i]]' = [[i \in Sender |-> msg[i]] EXCEPT ![s] = m]
      BY <3>1 DEF MsgTypeOK, Caller
    <3>4. [i \in Receiver |-> msg[i]]' = [i \in Receiver |-> msg[i]]
      BY <3>1, MsgQueueAssumption DEF MsgTypeOK, Caller
    <3>5. Fifo!Offer(s, m)
      BY <3>2, <3>3, <3>4 DEF Fifo!Offer, Mapped
    <3> QED BY <3>5 DEF Fifo!FifoNext
  <2>3. ASSUME UNCHANGED <<ring, msg>> PROVE UNCHANGED Fifo!absVars
    <3>1. Mapped' = Mapped /\ msg' = msg
      BY <2>3 DEF ring, Mapped
    <3> QED BY <3>1 DEF Fifo!absVars, Mapped
  <2>4. ASSUME NEW t, \/ Call(t) \/ WouldBlock(t) \/ StartWaiting(t) \/ EndWaiting(t)
                      \/ UNCHANGED msgVars
        PROVE  UNCHANGED <<ring, msg>>
    BY <2>4 DEF Call, WouldBlock, StartWaiting, EndWaiting, ring, msgVars
  <2> QED BY <2>1, <2>2, <2>3, <2>4 DEF MsgNext, InCall
<1> QED BY <1>1, <1>2, MessagesTypeCorrect, TailStaysBehind, PTL DEF MsgSpec, ImplementsFifo, Fifo!FifoSpec

----------------------------------------------------------------------------
(* Texts: sequences of lines.  One lemma for each way a key changes one.   *)
SameBut(u, t, y) == Len(u) = Len(t) /\ \A i \in 1 .. Len(t) : i # y => u[i] = t[i]

LEMMA LineReplaced ==
  ASSUME NEW S, NEW t \in Seq(Seq(S)), NEW u \in Seq(Seq(S)), NEW y \in 1 .. Len(t),
         SameBut(u, t, y), NEW x, u[y] = x
  PROVE  u = Spliced(t, y, y, <<x>>)
<1>1. u[y] \in Seq(S) /\ y \in 1 .. Len(u)
  BY DEF SameBut
<1>2. x \in Seq(S)
  BY <1>1
<1>3. Len(u) = Len(t) /\ \A i \in 1 .. Len(t) : i # y => u[i] = t[i]
  BY DEF SameBut
<1> DEFINE Q == Seq(S)
<1>4. t \in Seq(Q) /\ u \in Seq(Q) /\ x \in Q
  BY <1>2
<1> HIDE DEF Q
<1> QED BY <1>3, <1>4, OneReplaced

CharInserted(r, s, x, c) ==
  /\ Len(r) = Len(s) + 1 /\ r[x + 1] = c
  /\ \A i \in 1 .. x : r[i] = s[i]
  /\ \A i \in x + 2 .. Len(s) + 1 : r[i] = s[i - 1]

CharErased(r, s, x) ==
  /\ Len(r) = Len(s) - 1
  /\ \A i \in 1 .. x - 1 : r[i] = s[i]
  /\ \A i \in x .. Len(s) - 1 : r[i] = s[i + 1]

InsertedAt(u, t, y, x, c) ==
  /\ y \in 1 .. Len(t) /\ x \in 0 .. Len(t[y])
  /\ SameBut(u, t, y) /\ CharInserted(u[y], t[y], x, c)

LEMMA TextInserted ==
  ASSUME NEW S, NEW t \in Seq(Seq(S)), NEW u \in Seq(Seq(S)), NEW c \in S, NEW y, NEW x,
         InsertedAt(u, t, y, x, c)
  PROVE  u = Spliced(t, y, y,
                     <<SubSeq(t[y], 1, x) \o <<c>> \o SubSeq(t[y], x + 1, Len(t[y]))>>)
<1>0. /\ y \in 1 .. Len(t) /\ x \in 0 .. Len(t[y])
      /\ SameBut(u, t, y) /\ CharInserted(u[y], t[y], x, c)
  BY DEF InsertedAt
<1>1. t[y] \in Seq(S) /\ u[y] \in Seq(S)
  BY <1>0 DEF SameBut
<1> DEFINE s == t[y]
           r == u[y]
<1>2. s \in Seq(S) /\ r \in Seq(S) /\ x \in 0 .. Len(s) /\ CharInserted(r, s, x, c)
  BY <1>0, <1>1
<1> HIDE DEF s, r
<1>3. r = SubSeq(s, 1, x) \o <<c>> \o SubSeq(s, x + 1, Len(s))
  BY <1>2, OneInserted DEF CharInserted
<1> DEFINE l == SubSeq(s, 1, x) \o <<c>> \o SubSeq(s, x + 1, Len(s))
<1>4. u[y] = l
  BY <1>3 DEF r
<1> HIDE DEF l
<1>5. u = Spliced(t, y, y, <<l>>)
  BY <1>0, <1>4, LineReplaced
<1> QED BY <1>5 DEF l, s

LEMMA TextErased ==
  ASSUME NEW S, NEW t \in Seq(Seq(S)), NEW u \in Seq(Seq(S)), NEW y \in 1 .. Len(t),
         NEW x \in 1 .. Len(t[y]),
         SameBut(u, t, y), CharErased(u[y], t[y], x)
  PROVE  u = Spliced(t, y, y, <<Front(SubSeq(t[y], 1, x)) \o SubSeq(t[y], x + 1, Len(t[y]))>>)
<1>1. t[y] \in Seq(S) /\ u[y] \in Seq(S)
  BY DEF SameBut
<1> DEFINE s == t[y]
           r == u[y]
<1>2. s \in Seq(S) /\ r \in Seq(S) /\ x \in 1 .. Len(s) /\ CharErased(r, s, x)
  BY <1>1
<1> HIDE DEF s, r
<1>3. r = Front(SubSeq(s, 1, x)) \o SubSeq(s, x + 1, Len(s))
  BY <1>2, OneDropped DEF CharErased
<1> DEFINE l == Front(SubSeq(s, 1, x)) \o SubSeq(s, x + 1, Len(s))
<1>4. u[y] = l
  BY <1>3 DEF r
<1> HIDE DEF l
<1>5. u = Spliced(t, y, y, <<l>>)
  BY <1>4, LineReplaced
<1> QED BY <1>5 DEF l, s

TwoJoined(r, s1, s2) ==
  /\ Len(r) = Len(s1) + Len(s2)
  /\ \A i \in 1 .. Len(s1) : r[i] = s1[i]
  /\ \A i \in 1 .. Len(s2) : r[Len(s1) + i] = s2[i]

LEMMA TextJoined ==
  ASSUME NEW S, NEW t \in Seq(Seq(S)), NEW u \in Seq(Seq(S)), NEW y \in 2 .. Len(t),
         Len(u) = Len(t) - 1, TwoJoined(u[y - 1], t[y - 1], t[y]),
         \A i \in 1 .. y - 2 : u[i] = t[i],
         \A i \in y .. Len(t) - 1 : u[i] = t[i + 1]
  PROVE  u = Spliced(t, y - 1, y, <<t[y - 1] \o t[y]>>)
<1>1. y - 1 \in 1 .. Len(t) /\ y - 1 \in 1 .. Len(u) /\ y \in 1 .. Len(t)
  OBVIOUS
<1>2. t[y] \in Seq(S) /\ t[y - 1] \in Seq(S) /\ u[y - 1] \in Seq(S)
  BY <1>1
<1> DEFINE s1 == t[y - 1]
           s2 == t[y]
           r == u[y - 1]
<1>3. s1 \in Seq(S) /\ s2 \in Seq(S) /\ r \in Seq(S) /\ TwoJoined(r, s1, s2)
  BY <1>2
<1> HIDE DEF s1, s2, r
<1>4. r = s1 \o s2
  BY <1>3, IsConcat DEF TwoJoined
<1> DEFINE l == s1 \o s2
           Q == Seq(S)
<1>5. u[y - 1] = l /\ l \in Q /\ t \in Seq(Q) /\ u \in Seq(Q)
  BY <1>3, <1>4 DEF r
<1> HIDE DEF l, Q
<1>6. u = Spliced(t, y - 1, y, <<l>>)
  BY <1>5, TwoReplaced
<1> QED BY <1>6 DEF l, s1, s2

LEMMA TextSplit ==
  ASSUME NEW S, NEW t \in Seq(Seq(S)), NEW u \in Seq(Seq(S)), NEW y \in 1 .. Len(t),
         NEW x \in 0 .. Len(t[y]),
         Len(u) = Len(t) + 1, TwoJoined(t[y], u[y], u[y + 1]), Len(u[y]) = x,
         \A i \in 1 .. y - 1 : u[i] = t[i],
         \A i \in y + 2 .. Len(t) + 1 : u[i] = t[i - 1]
  PROVE  u = Spliced(t, y, y, <<SubSeq(t[y], 1, x), SubSeq(t[y], x + 1, Len(t[y]))>>)
<1>1. y \in 1 .. Len(t) /\ y \in 1 .. Len(u) /\ y + 1 \in 1 .. Len(u)
  OBVIOUS
<1>2. t[y] \in Seq(S) /\ u[y] \in Seq(S) /\ u[y + 1] \in Seq(S)
  BY <1>1
<1> DEFINE s == t[y]
           r1 == u[y]
           r2 == u[y + 1]
           Q == Seq(S)
<1>3. /\ s \in Seq(S) /\ r1 \in Seq(S) /\ r2 \in Seq(S) /\ TwoJoined(s, r1, r2)
      /\ Len(r1) = x /\ x \in 0 .. Len(s)
  BY <1>2
<1>4. r1 \in Q /\ r2 \in Q /\ t \in Seq(Q) /\ u \in Seq(Q) /\ u[y] = r1 /\ u[y + 1] = r2
  BY <1>2
<1> HIDE DEF s, r1, r2, Q
<1>5. u = Spliced(t, y, y, <<r1, r2>>)
  <2>1. /\ Len(u) = Len(t) + 1 /\ y \in 1 .. Len(t)
        /\ \A i \in 1 .. y - 1 : u[i] = t[i]
        /\ \A i \in y + 2 .. Len(t) + 1 : u[i] = t[i - 1]
    OBVIOUS
  <2>2. TwoForOne(u, t, y, r1, r2)
    BY <1>4, <2>1 DEF TwoForOne
  <2> QED BY <1>4, <2>2, ReplacedByTwo
<1> DEFINE m == Len(s)
<1>6. /\ m \in Nat /\ Len(r2) = m - x /\ \A i \in 1 .. x : r1[i] = s[i]
      /\ \A i \in 1 .. m - x : r2[i] = s[x + i]
  <2>1. /\ m \in Nat /\ Len(r2) \in Nat /\ m = x + Len(r2) /\ x \in Nat
        /\ \A i \in 1 .. x : s[i] = r1[i]
        /\ \A i \in 1 .. Len(r2) : s[x + i] = r2[i]
    BY <1>3 DEF TwoJoined
  <2> DEFINE q == Len(r2)
  <2>2. m \in Nat /\ q \in Nat /\ m = x + q /\ x \in Nat
    BY <2>1
  <2> HIDE DEF m, q
  <2>3. q = m - x
    BY <2>2
  <2> QED BY <2>1, <2>3 DEF q
<1>7. r1 = SubSeq(s, 1, x)
  <2>1. 1 \in 1 .. Len(s) + 1 /\ x \in 1 - 1 .. Len(s) /\ Len(r1) = x - 1 + 1
    BY <1>3, <1>6
  <2>2. \A i \in 1 .. x - 1 + 1 : r1[i] = s[1 - 1 + i]
    <3> HIDE DEF m
    <3> TAKE i \in 1 .. x - 1 + 1
    <3>1. i \in 1 .. x /\ 1 - 1 + i = i
      BY <1>3, <1>6
    <3> QED BY <1>6, <3>1
  <2> DEFINE one == 1
  <2>3. /\ one \in 1 .. Len(s) + 1 /\ x \in one - 1 .. Len(s) /\ Len(r1) = x - one + 1
        /\ \A i \in 1 .. x - one + 1 : r1[i] = s[one - 1 + i]
    BY <2>1, <2>2
  <2> HIDE DEF one
  <2>4. r1 = SubSeq(s, one, x)
    BY <1>3, <2>3, IsPart
  <2> QED BY <2>4 DEF one
<1>8. r2 = SubSeq(s, x + 1, Len(s))
  <2> DEFINE k == x + 1
  <2>1. /\ k \in 1 .. m + 1 /\ m \in k - 1 .. m /\ m - k + 1 = m - x /\ k - 1 = x
    <3>1. x \in 0 .. m
      BY <1>3
    <3> HIDE DEF m
    <3> QED BY <1>6, <3>1
  <2> HIDE DEF k
  <2>2. /\ k \in 1 .. Len(s) + 1 /\ Len(s) \in k - 1 .. Len(s) /\ Len(r2) = Len(s) - k + 1
        /\ \A i \in 1 .. Len(s) - k + 1 : r2[i] = s[k - 1 + i]
    BY <1>6, <2>1
  <2> HIDE DEF m
  <2>3. r2 = SubSeq(s, k, Len(s))
    <3> DEFINE e == Len(s)
    <3>1. /\ k \in 1 .. Len(s) + 1 /\ e \in k - 1 .. Len(s) /\ Len(r2) = e - k + 1
          /\ \A i \in 1 .. e - k + 1 : r2[i] = s[k - 1 + i]
      BY <2>2
    <3> HIDE DEF e
    <3>2. r2 = SubSeq(s, k, e)
      BY <1>3, <3>1, IsPart
    <3> QED BY <3>2 DEF e
  <2> QED BY <2>3 DEF k
<1> QED BY <1>5, <1>7, <1>8 DEF s

(* The text in the first n cells of a line. *)
Reading(cells, n) == [k \in 1 .. n |-> cells[k - 1]]

LEMMA ReadingIs ==
  ASSUME NEW S, NEW n \in Nat, NEW cells, \A k \in 0 .. n - 1 : cells[k] \in S
  PROVE  /\ Reading(cells, n) \in Seq(S) /\ Len(Reading(cells, n)) = n
         /\ \A i \in 1 .. n : Reading(cells, n)[i] = cells[i - 1]
<1>1. \A i \in 1 .. n : cells[i - 1] \in S
  <2> TAKE i \in 1 .. n
  <2>1. i - 1 \in 0 .. n - 1
    OBVIOUS
  <2> QED BY <2>1
<1> QED BY <1>1 DEF Reading

----------------------------------------------------------------------------
(* The lines of the editor. *)
CellChar == Char \cup {NoChar}
LineRecord == [text : [Cell -> CellChar], len : 0 .. LineWidth - 1]
Shown(ls, n) == [i \in 1 .. n |-> Reading(ls[i].text, ls[i].len)]

LEMMA LineIs ==
  ASSUME NEW l \in LineRecord
  PROVE  /\ l.text \in [Cell -> CellChar] /\ l.len \in 0 .. LineWidth - 1 /\ l.len \in Nat
         /\ Reading(l.text, l.len) \in Seq(CellChar) /\ Len(Reading(l.text, l.len)) = l.len
         /\ \A i \in 1 .. l.len : Reading(l.text, l.len)[i] = l.text[i - 1]
<1> DEFINE n == l.len
           cells == l.text
<1>1. cells \in [Cell -> CellChar] /\ n \in 0 .. LineWidth - 1
  BY DEF LineRecord
<1> HIDE DEF n, cells
<1>2. LineWidth \in Nat /\ n \in Nat
  BY <1>1, EditorAssumption
<1>3. \A k \in 0 .. n - 1 : cells[k] \in CellChar
  <2> TAKE k \in 0 .. n - 1
  <2>1. k \in Cell
    BY <1>1, <1>2 DEF Cell
  <2> QED BY <1>1, <2>1
<1>4. /\ Reading(cells, n) \in Seq(CellChar) /\ Len(Reading(cells, n)) = n
      /\ \A i \in 1 .. n : Reading(cells, n)[i] = cells[i - 1]
  <2> DEFINE S == CellChar
  <2>1. n \in Nat /\ \A k \in 0 .. n - 1 : cells[k] \in S
    BY <1>2, <1>3
  <2> HIDE DEF S
  <2>2. /\ Reading(cells, n) \in Seq(S) /\ Len(Reading(cells, n)) = n
        /\ \A i \in 1 .. n : Reading(cells, n)[i] = cells[i - 1]
    BY <2>1, ReadingIs
  <2> QED BY <2>2 DEF S
<1> QED BY <1>1, <1>2, <1>4, Zenon DEF n, cells

LEMMA ShownIs ==
  ASSUME NEW ls \in [Line -> LineRecord], NEW n \in 0 .. MaxLines
  PROVE  /\ Shown(ls, n) \in Seq(Seq(CellChar)) /\ Len(Shown(ls, n)) = n
         /\ \A i \in 1 .. n : /\ i \in Line /\ ls[i] \in LineRecord
                              /\ Shown(ls, n)[i] = Reading(ls[i].text, ls[i].len)
<1>1. MaxLines \in Nat /\ n \in Nat
  BY EditorAssumption
<1>2. ASSUME NEW i \in 1 .. n
      PROVE  i \in Line /\ ls[i] \in LineRecord /\ Reading(ls[i].text, ls[i].len) \in Seq(CellChar)
  <2>1. i \in Line
    BY <1>1 DEF Line
  <2>2. ls[i] \in LineRecord
    BY <2>1
  <2> QED BY <2>1, <2>2, LineIs
<1> DEFINE Q == Seq(CellChar)
           F(i) == Reading(ls[i].text, ls[i].len)
           r == [i \in 1 .. n |-> F(i)]
<1>3. \A i \in 1 .. n : F(i) \in Q
  BY <1>2
<1>4. r = Shown(ls, n)
  BY DEF Shown
<1> HIDE DEF F, Q
<1>5. r \in Seq(Q) /\ Len(r) = n /\ \A i \in 1 .. n : r[i] = F(i)
  BY <1>1, <1>3
<1> HIDE DEF r
<1> QED BY <1>2, <1>4, <1>5 DEF F, Q

(* Copied moves cells within the line. *)
LEMMA CopiedIs ==
  ASSUME NEW cells \in [Cell -> CellChar], NEW source \in [Cell -> CellChar],
         NEW to \in Nat, NEW from \in Nat, NEW n \in Nat, from + n <= LineWidth
  PROVE  /\ Copied(cells, to, source, from, n) \in [Cell -> CellChar]
         /\ \A k \in Cell : k \in to .. to + n - 1 =>
              Copied(cells, to, source, from, n)[k] = source[k - to + from]
         /\ \A k \in Cell : k \notin to .. to + n - 1 =>
              Copied(cells, to, source, from, n)[k] = cells[k]
<1>1. ASSUME NEW k \in Cell, k \in to .. to + n - 1 PROVE source[k - to + from] \in CellChar
  <2>1. k - to + from \in Cell
    BY <1>1, EditorAssumption DEF Cell
  <2> QED BY <2>1
<1>2. \A k \in Cell : cells[k] \in CellChar
  OBVIOUS
<1>3. Copied(cells, to, source, from, n) \in [Cell -> CellChar]
  BY <1>1, <1>2 DEF Copied
<1> QED BY <1>3 DEF Copied

TeTypeOK ==
  /\ lines \in [Line -> LineRecord]
  /\ line_count \in 1 .. MaxLines
  /\ cursor_line \in Line
  /\ cursor_col \in Nat
  /\ click_col \in {Nowhere} \cup Nat
  /\ lost \in BOOLEAN

TeInv == TeTypeOK /\ (~lost => cursor_line <= line_count)

LEMMA TeInitInv == TeInit => TeInv
<1> SUFFICES ASSUME TeInit PROVE TeInv
  OBVIOUS
<1>1. MaxLines \in Nat \ {0} /\ LineWidth \in Nat \ {0} /\ 1 \in Line /\ 1 \in 1 .. MaxLines
  BY EditorAssumption DEF Line
<1>2. 0 \in 0 .. LineWidth - 1
  BY <1>1
<1>3. [text |-> [k \in Cell |-> NoChar], len |-> 0] \in LineRecord
  BY <1>2 DEF LineRecord, CellChar
<1>4. lines \in [Line -> LineRecord]
  BY <1>3 DEF TeInit
<1>5. /\ line_count = 1 /\ cursor_line = 1 /\ cursor_col = 0 /\ click_col = Nowhere
      /\ lost \in BOOLEAN
  BY DEF TeInit
<1>6. /\ line_count \in 1 .. MaxLines /\ cursor_line \in Line /\ cursor_col \in Nat
      /\ cursor_line <= line_count
  BY <1>1, <1>5
<1>7. click_col \in {Nowhere} \cup Nat
  BY <1>5
<1> QED BY <1>4, <1>5, <1>6, <1>7, Zenon DEF TeInv, TeTypeOK

(* A character typed into a line. *)
Typed(l, x, c) ==
  [text |-> [Copied(l.text, x + 1, l.text, x, l.len - x) EXCEPT ![x] = c], len |-> l.len + 1]

LEMMA TypedIs ==
  ASSUME NEW l \in LineRecord, NEW x \in Nat, NEW c \in Char,
         x <= l.len, l.len < LineWidth - 1
  PROVE  /\ Typed(l, x, c) \in LineRecord /\ Typed(l, x, c).len = l.len + 1
         /\ CharInserted(Reading(Typed(l, x, c).text, Typed(l, x, c).len),
                         Reading(l.text, l.len), x, c)
<1> DEFINE n == l.len
           cells == l.text
           copied == Copied(cells, x + 1, cells, x, n - x)
           new == [copied EXCEPT ![x] = c]
           r == Typed(l, x, c)
<1>1. cells \in [Cell -> CellChar] /\ n \in Nat
  BY LineIs
<1>2. LineWidth \in Nat /\ x <= n /\ n < LineWidth - 1
  BY EditorAssumption
<1>3. r = [text |-> new, len |-> n + 1]
  BY DEF Typed
<1>4. /\ Len(Reading(cells, n)) = n
      /\ \A i \in 1 .. n : Reading(cells, n)[i] = cells[i - 1]
  BY LineIs
<1> HIDE DEF n, cells
<1>5. /\ copied \in [Cell -> CellChar]
      /\ \A k \in Cell : k \in x + 1 .. x + 1 + (n - x) - 1 => copied[k] = cells[k - (x + 1) + x]
      /\ \A k \in Cell : k \notin x + 1 .. x + 1 + (n - x) - 1 => copied[k] = cells[k]
  <2> DEFINE to == x + 1
             size == n - x
  <2>1. to \in Nat /\ size \in Nat /\ x + size <= LineWidth
    BY <1>1, <1>2
  <2>2. copied = Copied(cells, to, cells, x, size)
    OBVIOUS
  <2> HIDE DEF to, size, copied
  <2>3. /\ copied \in [Cell -> CellChar]
        /\ \A k \in Cell : k \in to .. to + size - 1 => copied[k] = cells[k - to + x]
        /\ \A k \in Cell : k \notin to .. to + size - 1 => copied[k] = cells[k]
    BY <1>1, <2>1, <2>2, CopiedIs
  <2> QED BY <2>3, Zenon DEF to, size
<1> HIDE DEF copied
<1>6. x \in Cell /\ c \in CellChar
  BY <1>1, <1>2 DEF Cell, CellChar
<1>7. /\ new \in [Cell -> CellChar] /\ new[x] = c
      /\ \A k \in Cell : k # x => new[k] = copied[k]
  BY <1>5, <1>6
<1> HIDE DEF new, r
<1>8. n + 1 \in 0 .. LineWidth - 1
  BY <1>1, <1>2
<1>9. r \in LineRecord /\ r.text = new /\ r.len = n + 1
  BY <1>3, <1>7, <1>8 DEF LineRecord
<1>10. /\ Len(Reading(new, n + 1)) = n + 1
       /\ \A i \in 1 .. n + 1 : Reading(new, n + 1)[i] = new[i - 1]
  BY <1>9, LineIs
<1>11. Reading(new, n + 1)[x + 1] = c
  <2>1. x + 1 \in 1 .. n + 1 /\ x + 1 - 1 = x
    BY <1>1, <1>2
  <2> QED BY <1>7, <1>10, <2>1
<1>12. ASSUME NEW i \in 1 .. x PROVE Reading(new, n + 1)[i] = Reading(cells, n)[i]
  <2>1. /\ i \in 1 .. n + 1 /\ i \in 1 .. n /\ i - 1 \in Cell /\ i - 1 # x
        /\ i - 1 \notin x + 1 .. x + 1 + (n - x) - 1
    BY <1>1, <1>2 DEF Cell
  <2>2. new[i - 1] = copied[i - 1] /\ copied[i - 1] = cells[i - 1]
    BY <1>5, <1>7, <2>1
  <2> QED BY <1>4, <1>10, <2>1, <2>2
<1>13. ASSUME NEW i \in x + 2 .. n + 1 PROVE Reading(new, n + 1)[i] = Reading(cells, n)[i - 1]
  <2>1. /\ i \in 1 .. n + 1 /\ i - 1 \in 1 .. n /\ i - 1 \in Cell /\ i - 1 # x
        /\ i - 1 \in x + 1 .. x + 1 + (n - x) - 1 /\ i - 1 - (x + 1) + x = i - 1 - 1
    BY <1>1, <1>2 DEF Cell
  <2>2. new[i - 1] = copied[i - 1] /\ copied[i - 1] = cells[i - 1 - 1]
    BY <1>5, <1>7, <2>1
  <2> QED BY <1>4, <1>10, <2>1, <2>2
<1>14. CharInserted(Reading(new, n + 1), Reading(cells, n), x, c)
  BY <1>4, <1>10, <1>11, <1>12, <1>13 DEF CharInserted
<1> QED BY <1>9, <1>14 DEF r, n, cells

(* The character before x taken out of a line. *)
Erased(l, x) ==
  [text |-> Copied(l.text, x - 1, l.text, x, l.len - x), len |-> l.len - 1]

LEMMA ErasedIs ==
  ASSUME NEW l \in LineRecord, NEW x \in Nat \ {0}, x <= l.len
  PROVE  /\ Erased(l, x) \in LineRecord /\ Erased(l, x).len = l.len - 1
         /\ CharErased(Reading(Erased(l, x).text, Erased(l, x).len), Reading(l.text, l.len), x)
<1> DEFINE n == l.len
           cells == l.text
           new == Copied(cells, x - 1, cells, x, n - x)
           r == Erased(l, x)
<1>1. cells \in [Cell -> CellChar] /\ n \in Nat
  BY LineIs
<1>2. LineWidth \in Nat /\ x <= n /\ n <= LineWidth - 1
  BY EditorAssumption, LineIs
<1>3. r = [text |-> new, len |-> n - 1]
  BY DEF Erased
<1>4. /\ Len(Reading(cells, n)) = n
      /\ \A i \in 1 .. n : Reading(cells, n)[i] = cells[i - 1]
  BY LineIs
<1> HIDE DEF n, cells
<1>5. /\ new \in [Cell -> CellChar]
      /\ \A k \in Cell : k \in x - 1 .. x - 1 + (n - x) - 1 => new[k] = cells[k - (x - 1) + x]
      /\ \A k \in Cell : k \notin x - 1 .. x - 1 + (n - x) - 1 => new[k] = cells[k]
  <2>1. x - 1 \in Nat /\ n - x \in Nat /\ x + (n - x) <= LineWidth /\ x \in Nat
    BY <1>1, <1>2
  <2> QED BY <1>1, <2>1, CopiedIs
<1> HIDE DEF new, r
<1>8. n - 1 \in 0 .. LineWidth - 1
  BY <1>1, <1>2
<1>9. r \in LineRecord /\ r.text = new /\ r.len = n - 1
  BY <1>3, <1>5, <1>8 DEF LineRecord
<1>10. /\ Len(Reading(new, n - 1)) = n - 1
       /\ \A i \in 1 .. n - 1 : Reading(new, n - 1)[i] = new[i - 1]
  BY <1>9, LineIs
<1>12. ASSUME NEW i \in 1 .. x - 1 PROVE Reading(new, n - 1)[i] = Reading(cells, n)[i]
  <2>1. /\ i \in 1 .. n - 1 /\ i \in 1 .. n /\ i - 1 \in Cell
        /\ i - 1 \notin x - 1 .. x - 1 + (n - x) - 1
    BY <1>1, <1>2 DEF Cell
  <2>2. new[i - 1] = cells[i - 1]
    BY <1>5, <2>1
  <2> QED BY <1>4, <1>10, <2>1, <2>2
<1>13. ASSUME NEW i \in x .. n - 1 PROVE Reading(new, n - 1)[i] = Reading(cells, n)[i + 1]
  <2>1. /\ i \in 1 .. n - 1 /\ i + 1 \in 1 .. n /\ i - 1 \in Cell
        /\ i - 1 \in x - 1 .. x - 1 + (n - x) - 1 /\ i - 1 - (x - 1) + x = i + 1 - 1
    BY <1>1, <1>2 DEF Cell
  <2>2. new[i - 1] = cells[i + 1 - 1]
    BY <1>5, <2>1
  <2> QED BY <1>4, <1>10, <2>1, <2>2
<1>14. CharErased(Reading(new, n - 1), Reading(cells, n), x)
  BY <1>4, <1>10, <1>12, <1>13 DEF CharErased
<1> QED BY <1>9, <1>14 DEF r, n, cells

(* A line put behind another. *)
Merged(p, l) == [text |-> Copied(p.text, p.len, l.text, 0, l.len), len |-> p.len + l.len]

LEMMA MergedIs ==
  ASSUME NEW p \in LineRecord, NEW l \in LineRecord, p.len + l.len < LineWidth
  PROVE  /\ Merged(p, l) \in LineRecord /\ Merged(p, l).len = p.len + l.len
         /\ TwoJoined(Reading(Merged(p, l).text, Merged(p, l).len),
                      Reading(p.text, p.len), Reading(l.text, l.len))
<1> DEFINE m == p.len
           n == l.len
           front == p.text
           back == l.text
           new == Copied(front, m, back, 0, n)
           r == Merged(p, l)
<1>1. front \in [Cell -> CellChar] /\ m \in Nat /\ back \in [Cell -> CellChar] /\ n \in Nat
  BY LineIs
<1>2. LineWidth \in Nat /\ m + n < LineWidth
  BY EditorAssumption
<1>3. r = [text |-> new, len |-> m + n]
  BY DEF Merged
<1>4. /\ Len(Reading(front, m)) = m
      /\ \A i \in 1 .. m : Reading(front, m)[i] = front[i - 1]
      /\ Len(Reading(back, n)) = n
      /\ \A i \in 1 .. n : Reading(back, n)[i] = back[i - 1]
  BY LineIs
<1> HIDE DEF n, m, front, back
<1>5. /\ new \in [Cell -> CellChar]
      /\ \A k \in Cell : k \in m .. m + n - 1 => new[k] = back[k - m + 0]
      /\ \A k \in Cell : k \notin m .. m + n - 1 => new[k] = front[k]
  <2>1. 0 \in Nat /\ 0 + n <= LineWidth
    BY <1>1, <1>2
  <2> QED BY <1>1, <2>1, CopiedIs
<1> HIDE DEF new, r
<1>8. m + n \in 0 .. LineWidth - 1
  BY <1>1, <1>2
<1>9. r \in LineRecord /\ r.text = new /\ r.len = m + n
  BY <1>3, <1>5, <1>8 DEF LineRecord
<1>10. /\ Len(Reading(new, m + n)) = m + n
       /\ \A i \in 1 .. m + n : Reading(new, m + n)[i] = new[i - 1]
  BY <1>9, LineIs
<1>12. ASSUME NEW i \in 1 .. m PROVE Reading(new, m + n)[i] = Reading(front, m)[i]
  <2>1. /\ i \in 1 .. m + n /\ i - 1 \in Cell /\ i - 1 \notin m .. m + n - 1
    BY <1>1, <1>2 DEF Cell
  <2>2. new[i - 1] = front[i - 1]
    BY <1>5, <2>1
  <2> QED BY <1>4, <1>10, <2>1, <2>2
<1>13. ASSUME NEW i \in 1 .. n PROVE Reading(new, m + n)[m + i] = Reading(back, n)[i]
  <2> DEFINE k == m + i - 1
  <2>1. /\ m + i \in 1 .. m + n /\ k \in Cell
        /\ k \in m .. m + n - 1 /\ k - m + 0 = i - 1
    BY <1>1, <1>2 DEF Cell
  <2> HIDE DEF k
  <2>3. new[k] = back[i - 1]
    BY <1>5, <2>1
  <2>2. new[m + i - 1] = back[i - 1]
    BY <2>3 DEF k
  <2> QED BY <1>4, <1>10, <2>1, <2>2
<1>14. TwoJoined(Reading(new, m + n), Reading(front, m), Reading(back, n))
  BY <1>4, <1>10, <1>12, <1>13 DEF TwoJoined
<1> QED BY <1>9, <1>14 DEF r, n, m, front, back

(* A line cut in two. *)
Rest(l, x) == [text |-> Copied(l.text, 0, l.text, x, l.len - x), len |-> l.len - x]

LEMMA RestIs ==
  ASSUME NEW l \in LineRecord, NEW x \in Nat, x <= l.len
  PROVE  /\ [l EXCEPT !.len = x] \in LineRecord /\ [l EXCEPT !.len = x].len = x
         /\ [l EXCEPT !.len = x].text = l.text
         /\ Rest(l, x) \in LineRecord /\ Rest(l, x).len = l.len - x
         /\ TwoJoined(Reading(l.text, l.len), Reading(l.text, x),
                      Reading(Rest(l, x).text, Rest(l, x).len))
<1> DEFINE n == l.len
           cells == l.text
           new == Copied(cells, 0, cells, x, n - x)
           r == Rest(l, x)
           h == [l EXCEPT !.len = x]
<1>1. cells \in [Cell -> CellChar] /\ n \in Nat
  BY LineIs
<1>2. LineWidth \in Nat /\ x <= n /\ n <= LineWidth - 1
  BY EditorAssumption, LineIs
<1>3. r = [text |-> new, len |-> n - x]
  BY DEF Rest
<1>4. /\ Len(Reading(cells, n)) = n
      /\ \A i \in 1 .. n : Reading(cells, n)[i] = cells[i - 1]
  BY LineIs
<1>5. h \in LineRecord /\ h.len = x /\ h.text = cells
  <2>1. x \in 0 .. LineWidth - 1
    <3> HIDE DEF n
    <3> QED BY <1>1, <1>2
  <2> QED BY <2>1 DEF LineRecord
<1>6. /\ Len(Reading(cells, x)) = x
      /\ \A i \in 1 .. x : Reading(cells, x)[i] = cells[i - 1]
  <2> HIDE DEF h, cells
  <2> QED BY <1>5, LineIs
<1> HIDE DEF n, cells, h
<1>7. /\ new \in [Cell -> CellChar]
      /\ \A k \in Cell : k \in 0 .. 0 + (n - x) - 1 => new[k] = cells[k - 0 + x]
  <2>1. 0 \in Nat /\ n - x \in Nat /\ x + (n - x) <= LineWidth
    BY <1>1, <1>2
  <2> QED BY <1>1, <2>1, CopiedIs
<1> HIDE DEF new, r
<1>8. n - x \in 0 .. LineWidth - 1 /\ n - x \in Nat
  BY <1>1, <1>2
<1>9. r \in LineRecord /\ r.text = new /\ r.len = n - x
  BY <1>3, <1>7, <1>8 DEF LineRecord
<1>10. /\ Len(Reading(new, n - x)) = n - x
       /\ \A i \in 1 .. n - x : Reading(new, n - x)[i] = new[i - 1]
  BY <1>9, LineIs
<1>11. ASSUME NEW i \in 1 .. n - x PROVE Reading(cells, n)[x + i] = Reading(new, n - x)[i]
  <2>1. /\ x + i \in 1 .. n /\ i - 1 \in Cell
        /\ i - 1 \in 0 .. 0 + (n - x) - 1 /\ i - 1 - 0 + x = x + i - 1
    BY <1>1, <1>2 DEF Cell
  <2>2. new[i - 1] = cells[x + i - 1]
    BY <1>7, <2>1
  <2> QED BY <1>4, <1>10, <2>1, <2>2
<1>12. ASSUME NEW i \in 1 .. x PROVE Reading(cells, n)[i] = Reading(cells, x)[i]
  <2>1. i \in 1 .. n
    BY <1>1, <1>2
  <2> QED BY <1>4, <1>6, <2>1
<1>13. n = x + (n - x)
  BY <1>1
<1>14. TwoJoined(Reading(cells, n), Reading(cells, x), Reading(new, n - x))
  BY <1>4, <1>6, <1>10, <1>11, <1>12, <1>13 DEF TwoJoined
<1> QED BY <1>5, <1>9, <1>14 DEF r, n, cells, h

TeNow == Shown(lines, line_count)
TeNew == Shown(lines', line_count')

(* The text as the refinement mapping writes it. *)
TeTextNow == [i \in 1 .. line_count |-> [k \in 1 .. lines[i].len |-> lines[i].text[k - 1]]]
TeCursor == <<cursor_line, IF Beyond THEN cline.len ELSE cursor_col>>

LEMMA TeTextIs == TeNow = TeTextNow
BY DEF TeNow, TeTextNow, Shown, Reading

LEMMA TeTextNext == TeNew = TeTextNow'
BY DEF TeNew, TeTextNow, Shown, Reading

TeLeft == SubSeq(TeNow[cursor_line], 1, cursor_col)
TeRight == SubSeq(TeNow[cursor_line], cursor_col + 1, Len(TeNow[cursor_line]))

LEMMA TeAbstract ==
  ASSUME ~Beyond
  PROVE  /\ TeText!Row = cursor_line /\ TeText!Col = cursor_col
         /\ TeText!Before = TeLeft /\ TeText!After = TeRight
         /\ \A from, to, new : TeText!Splice(from, to, new) = Spliced(TeNow, from, to, new)
<1>1. TeText!Row = cursor_line
  BY DEF TeText!Row
<1>2. TeText!Col = cursor_col
  BY DEF TeText!Col
<1>3. TeText!Before = TeLeft
  BY <1>1, <1>2, TeTextIs, Zenon DEF TeText!Before, TeTextNow, TeLeft
<1>4. TeText!After = TeRight
  BY <1>1, <1>2, TeTextIs, Zenon DEF TeText!After, TeTextNow, TeRight
<1>5. \A from, to, new : TeText!Splice(from, to, new) = Spliced(TeNow, from, to, new)
  BY TeTextIs, Zenon DEF TeText!Splice, TeTextNow, Spliced
<1> QED BY <1>1, <1>2, <1>3, <1>4, <1>5

TeInsertedText(c) ==
  Spliced(TeNow, cursor_line, cursor_line, <<TeLeft \o <<c>> \o TeRight>>)

LEMMA TeInserts ==
  ASSUME NEW c, ~Beyond, ~Beyond', TeNew = TeInsertedText(c),
         cursor_line' = cursor_line, cursor_col' = cursor_col + 1
  PROVE  TeText!Insert(c)
<1>1. TeNew = TeTextNow'
  BY TeTextNext
<1>2. TeNew = TeText!Splice(TeText!Row, TeText!Row,
                              <<TeText!Before \o <<c>> \o TeText!After>>)
  BY TeAbstract, Zenon DEF TeInsertedText
<1>3. TeCursor' = <<TeText!Row, TeText!Col + 1>>
  BY TeAbstract DEF TeCursor
<1> QED BY <1>1, <1>2, <1>3, Zenon DEF TeText!Insert, TeTextNow, TeCursor

TeErasedText ==
  Spliced(TeNow, cursor_line, cursor_line, <<Front(TeLeft) \o TeRight>>)

LEMMA TeErases ==
  ASSUME ~Beyond, ~Beyond', cursor_col > 0, TeNew = TeErasedText,
         cursor_line' = cursor_line, cursor_col' = cursor_col - 1
  PROVE  TeText!DeleteBack
<1>1. TeNew = TeTextNow'
  BY TeTextNext
<1>0. \A s : TeText!Front(s) = Front(s)
  BY DEF TeText!Front, Front
<1>2. TeNew = TeText!Splice(TeText!Row, TeText!Row,
                              <<TeText!Front(TeText!Before) \o TeText!After>>)
  BY <1>0, TeAbstract, Zenon DEF TeErasedText
<1>3. TeCursor' = <<TeText!Row, TeText!Col - 1>>
  BY TeAbstract DEF TeCursor
<1>4. TeText!Col > 0
  BY TeAbstract
<1> QED BY <1>1, <1>2, <1>3, <1>4, Zenon DEF TeText!DeleteBack, TeTextNow, TeCursor

LEMMA TeJoins ==
  ASSUME ~Beyond, ~Beyond', cursor_col = 0, cursor_line > 1,
         TeNew = Spliced(TeNow, cursor_line - 1, cursor_line,
                         <<TeNow[cursor_line - 1] \o TeNow[cursor_line]>>),
         cursor_line' = cursor_line - 1, cursor_col' = Len(TeNow[cursor_line - 1])
  PROVE  TeText!JoinLines
<1>1. TeNew = TeTextNow'
  BY TeTextNext
<1> DEFINE t == TeTextNow
<1>0. TeNow = t
  BY TeTextIs
<1> HIDE DEF t
<1>2. TeNew = TeText!Splice(TeText!Row - 1, TeText!Row, <<t[TeText!Row - 1] \o t[TeText!Row]>>)
  BY <1>0, TeAbstract
<1>3. TeCursor' = <<TeText!Row - 1, Len(t[TeText!Row - 1])>>
  BY <1>0, TeAbstract DEF TeCursor
<1>4. TeText!Col = 0 /\ TeText!Row > 1
  BY TeAbstract
<1> QED BY <1>1, <1>2, <1>3, <1>4, Zenon DEF TeText!JoinLines, TeTextNow, TeCursor, t

LEMMA TeSplits ==
  ASSUME ~Beyond, ~Beyond',
         TeNew = Spliced(TeNow, cursor_line, cursor_line, <<TeLeft, TeRight>>),
         cursor_line' = cursor_line + 1, cursor_col' = 0
  PROVE  TeText!SplitLine
<1>1. TeNew = TeTextNow'
  BY TeTextNext
<1>2. TeNew = TeText!Splice(TeText!Row, TeText!Row, <<TeText!Before, TeText!After>>)
  BY TeAbstract
<1>3. TeCursor' = <<TeText!Row + 1, 0>>
  BY TeAbstract DEF TeCursor
<1> QED BY <1>1, <1>2, <1>3, Zenon DEF TeText!SplitLine, TeTextNow, TeCursor

(* The places for the cursor in a text. *)
LEMMA PositionIs ==
  ASSUME NEW t, NEW i \in 1 .. Len(t), NEW x \in 0 .. Len(t[i])
  PROVE  <<i, x>> \in TeText!Positions(t)
BY DEF TeText!Positions

LEMMA TeMoves ==
  ASSUME TeNew = TeNow, TeCursor' \in TeText!Positions(TeNow)
  PROVE  TeText!MoveCursor
<1>1. TeNew = TeTextNow'
  BY TeTextNext
<1> QED BY <1>1, TeTextIs, Zenon DEF TeText!MoveCursor, TeTextNow, TeCursor

LEMMA TeReplaces ==
  ASSUME TeNew \in {<< <<>> >>, OpenText}, TeCursor' \in TeText!Positions(TeNew)
  PROVE  TeText!Replace
<1>1. TeNew = TeTextNow'
  BY TeTextNext
<1> QED BY <1>1, Zenon DEF TeText!Replace, TeTextNow, TeCursor

----------------------------------------------------------------------------
WithLine(ls, y, r) == [ls EXCEPT ![y] = r]

LEMMA LineChanged ==
  ASSUME NEW ls \in [Line -> LineRecord], NEW n \in 0 .. MaxLines, NEW y \in 1 .. n,
         NEW r \in LineRecord, NEW ms, ms = WithLine(ls, y, r)
  PROVE  /\ ms \in [Line -> LineRecord]
         /\ SameBut(Shown(ms, n), Shown(ls, n), y)
         /\ Shown(ms, n)[y] = Reading(r.text, r.len)
<1>1. ms \in [Line -> LineRecord]
  BY DEF WithLine
<1>2. \A i \in Line : ms[i] = IF i = y THEN r ELSE ls[i]
  BY DEF WithLine
<1>3. /\ Len(Shown(ls, n)) = n /\ Len(Shown(ms, n)) = n
      /\ \A i \in 1 .. n : /\ i \in Line
                           /\ Shown(ls, n)[i] = Reading(ls[i].text, ls[i].len)
                           /\ Shown(ms, n)[i] = Reading(ms[i].text, ms[i].len)
  BY <1>1, ShownIs
<1>4. SameBut(Shown(ms, n), Shown(ls, n), y)
  BY <1>2, <1>3 DEF SameBut
<1>5. Shown(ms, n)[y] = Reading(r.text, r.len)
  BY <1>2, <1>3
<1> QED BY <1>1, <1>4, <1>5

LinesMerged(ls, n, y) ==
  [i \in Line |-> IF i = y - 1 THEN Merged(ls[y - 1], ls[y])
                  ELSE IF i \in y .. n - 1 THEN ls[i + 1] ELSE ls[i]]

LEMMA LinesMergedIs ==
  ASSUME NEW ls \in [Line -> LineRecord], NEW n \in 0 .. MaxLines, NEW y \in 2 .. n,
         ls[y - 1].len + ls[y].len < LineWidth
  PROVE  /\ LinesMerged(ls, n, y) \in [Line -> LineRecord] /\ n - 1 \in 0 .. MaxLines
         /\ LinesMerged(ls, n, y)[y - 1].len = ls[y - 1].len + ls[y].len
         /\ Shown(LinesMerged(ls, n, y), n - 1)
              = Spliced(Shown(ls, n), y - 1, y, <<Shown(ls, n)[y - 1] \o Shown(ls, n)[y]>>)
<1> DEFINE ms == LinesMerged(ls, n, y)
           r == Merged(ls[y - 1], ls[y])
           t == Shown(ls, n)
           u == Shown(ms, n - 1)
<1>1. /\ MaxLines \in Nat /\ n \in Nat /\ n <= MaxLines /\ y \in 2 .. n /\ n - 1 \in 0 .. MaxLines
      /\ y \in Line /\ y - 1 \in Line
  BY EditorAssumption DEF Line
<1>2. ls[y - 1] \in LineRecord /\ ls[y] \in LineRecord
  BY <1>1
<1>3. /\ r \in LineRecord /\ r.len = ls[y - 1].len + ls[y].len
      /\ TwoJoined(Reading(r.text, r.len), Reading(ls[y - 1].text, ls[y - 1].len),
                   Reading(ls[y].text, ls[y].len))
  BY <1>2, MergedIs
<1> HIDE DEF r
<1>4. \A i \in Line : i \in y .. n - 1 => i + 1 \in Line
  BY <1>1 DEF Line
<1>5. ms \in [Line -> LineRecord]
  <2>1. ms = [i \in Line |-> IF i = y - 1 THEN r ELSE IF i \in y .. n - 1 THEN ls[i + 1] ELSE ls[i]]
    BY DEF LinesMerged, r
  <2> HIDE DEF ms
  <2> QED BY <1>3, <1>4, <2>1
<1>6. /\ ms[y - 1] = r
      /\ \A i \in Line : i \in y .. n - 1 => ms[i] = ls[i + 1]
      /\ \A i \in Line : i < y - 1 => ms[i] = ls[i]
  <2>1. y - 1 \notin y .. n - 1 /\ \A i \in Line : i < y - 1 => i # y - 1 /\ i \notin y .. n - 1
    BY <1>1 DEF Line
  <2>2. \A i \in Line : i \in y .. n - 1 => i # y - 1
    BY <1>1 DEF Line
  <2> QED BY <1>1, <2>1, <2>2, Zenon DEF LinesMerged, r
<1> HIDE DEF ms
<1>7. /\ t \in Seq(Seq(CellChar)) /\ u \in Seq(Seq(CellChar)) /\ Len(t) = n /\ Len(u) = n - 1
      /\ \A i \in 1 .. n : i \in Line /\ t[i] = Reading(ls[i].text, ls[i].len)
      /\ \A i \in 1 .. n - 1 : u[i] = Reading(ms[i].text, ms[i].len)
  BY <1>1, <1>5, ShownIs
<1> HIDE DEF t, u
<1>8. y \in 2 .. Len(t) /\ Len(u) = Len(t) - 1
  BY <1>1, <1>7
<1>9. TwoJoined(u[y - 1], t[y - 1], t[y])
  <2>1. y - 1 \in 1 .. n - 1 /\ y - 1 \in 1 .. n /\ y \in 1 .. n
    BY <1>1
  <2> QED BY <1>3, <1>6, <1>7, <2>1
<1>10. ASSUME NEW i \in 1 .. y - 2 PROVE u[i] = t[i]
  <2>1. i \in 1 .. n - 1 /\ i \in 1 .. n /\ i < y - 1
    BY <1>1
  <2> QED BY <1>6, <1>7, <2>1
<1>11. ASSUME NEW i \in y .. Len(t) - 1 PROVE u[i] = t[i + 1]
  <2>1. i \in y .. n - 1
    BY <1>7
  <2>2. i \in 1 .. n - 1 /\ i \in 1 .. n /\ i + 1 \in 1 .. n
    BY <1>1, <2>1
  <2> QED BY <1>6, <1>7, <2>1, <2>2
<1>12. u = Spliced(t, y - 1, y, <<t[y - 1] \o t[y]>>)
  BY <1>7, <1>8, <1>9, <1>10, <1>11, TextJoined
<1> QED BY <1>1, <1>3, <1>5, <1>6, <1>12 DEF t, u, ms

LinesSplit(ls, n, y, x) ==
  [i \in Line |-> IF i = y THEN [ls[y] EXCEPT !.len = x]
                  ELSE IF i = y + 1 THEN Rest(ls[y], x)
                  ELSE IF i \in y + 2 .. n + 1 THEN ls[i - 1] ELSE ls[i]]

LEMMA LinesSplitIs ==
  ASSUME NEW ls \in [Line -> LineRecord], NEW n \in 0 .. MaxLines, NEW y \in 1 .. n,
         n < MaxLines, NEW x \in Nat, x <= ls[y].len
  PROVE  /\ LinesSplit(ls, n, y, x) \in [Line -> LineRecord] /\ n + 1 \in 0 .. MaxLines
         /\ Shown(LinesSplit(ls, n, y, x), n + 1)
              = Spliced(Shown(ls, n), y, y,
                        <<SubSeq(Shown(ls, n)[y], 1, x),
                          SubSeq(Shown(ls, n)[y], x + 1, Len(Shown(ls, n)[y]))>>)
<1> DEFINE ms == LinesSplit(ls, n, y, x)
           h == [ls[y] EXCEPT !.len = x]
           r == Rest(ls[y], x)
           t == Shown(ls, n)
           u == Shown(ms, n + 1)
<1>1. /\ MaxLines \in Nat /\ n \in Nat /\ n < MaxLines /\ y \in 1 .. n /\ n + 1 \in 0 .. MaxLines
      /\ y \in Line /\ y + 1 \in Line
  BY EditorAssumption DEF Line
<1>2. ls[y] \in LineRecord
  BY <1>1
<1>3. /\ h \in LineRecord /\ h.len = x /\ h.text = ls[y].text /\ r \in LineRecord
      /\ TwoJoined(Reading(ls[y].text, ls[y].len), Reading(ls[y].text, x),
                   Reading(r.text, r.len))
  BY <1>2, RestIs
<1>30. ls[y].len \in Nat
  BY <1>2, LineIs
<1> HIDE DEF r, h
<1>4. \A i \in Line : i \in y + 2 .. n + 1 => i - 1 \in Line
  BY <1>1 DEF Line
<1>5. ms \in [Line -> LineRecord]
  <2>1. ms = [i \in Line |-> IF i = y THEN h ELSE IF i = y + 1 THEN r
                             ELSE IF i \in y + 2 .. n + 1 THEN ls[i - 1] ELSE ls[i]]
    BY DEF LinesSplit, r, h
  <2> HIDE DEF ms
  <2> QED BY <1>3, <1>4, <2>1
<1>6. /\ ms[y] = h /\ ms[y + 1] = r
      /\ \A i \in Line : i \in y + 2 .. n + 1 => ms[i] = ls[i - 1]
      /\ \A i \in Line : i < y => ms[i] = ls[i]
  <2>1. y + 1 # y /\ \A i \in Line : i < y => i # y /\ i # y + 1 /\ i \notin y + 2 .. n + 1
    BY <1>1 DEF Line
  <2>2. \A i \in Line : i \in y + 2 .. n + 1 => i # y /\ i # y + 1
    BY <1>1 DEF Line
  <2> QED BY <1>1, <2>1, <2>2, Zenon DEF LinesSplit, r, h
<1> HIDE DEF ms
<1>7. /\ t \in Seq(Seq(CellChar)) /\ u \in Seq(Seq(CellChar)) /\ Len(t) = n /\ Len(u) = n + 1
      /\ \A i \in 1 .. n : i \in Line /\ t[i] = Reading(ls[i].text, ls[i].len)
      /\ \A i \in 1 .. n + 1 : i \in Line /\ u[i] = Reading(ms[i].text, ms[i].len)
  BY <1>1, <1>5, ShownIs
<1>70. Len(Reading(ls[y].text, ls[y].len)) = ls[y].len /\ Len(Reading(h.text, h.len)) = h.len
  BY <1>2, <1>3, LineIs
<1> HIDE DEF t, u
<1>8. y \in 1 .. Len(t) /\ Len(u) = Len(t) + 1
  BY <1>1, <1>7
<1>9. TwoJoined(t[y], u[y], u[y + 1]) /\ Len(u[y]) = x /\ Len(t[y]) = ls[y].len
  <2>1. y \in 1 .. n + 1 /\ y + 1 \in 1 .. n + 1 /\ y \in 1 .. n
    BY <1>1
  <2> QED BY <1>3, <1>6, <1>7, <1>70, <2>1
<1>90. x \in 0 .. Len(t[y])
  BY <1>9, <1>30
<1>10. ASSUME NEW i \in 1 .. y - 1 PROVE u[i] = t[i]
  <2>1. i \in 1 .. n + 1 /\ i \in 1 .. n /\ i < y
    BY <1>1
  <2> QED BY <1>6, <1>7, <2>1
<1>11. ASSUME NEW i \in y + 2 .. Len(t) + 1 PROVE u[i] = t[i - 1]
  <2>1. i \in 1 .. n + 1 /\ i - 1 \in 1 .. n /\ i \in y + 2 .. n + 1
    BY <1>1, <1>7
  <2> QED BY <1>6, <1>7, <2>1
<1>12. u = Spliced(t, y, y, <<SubSeq(t[y], 1, x), SubSeq(t[y], x + 1, Len(t[y]))>>)
  BY <1>7, <1>8, <1>9, <1>90, <1>10, <1>11, TextSplit
<1> QED BY <1>1, <1>5, <1>12 DEF t, u, ms

----------------------------------------------------------------------------
(* The steps. *)
LEMMA TeNowIs ==
  ASSUME TeInv, ~lost
  PROVE  /\ lines \in [Line -> LineRecord]
         /\ line_count \in 0 .. MaxLines /\ line_count \in 1 .. MaxLines
         /\ cursor_line \in Line /\ cursor_line \in 1 .. line_count /\ cursor_col \in Nat
         /\ TeNow \in Seq(Seq(CellChar)) /\ Len(TeNow) = line_count
         /\ \A i \in 1 .. line_count :
              /\ i \in Line /\ lines[i] \in LineRecord /\ lines[i].len \in Nat
              /\ TeNow[i] = Reading(lines[i].text, lines[i].len)
              /\ Len(TeNow[i]) = lines[i].len
<1>1. /\ lines \in [Line -> LineRecord]
      /\ line_count \in 0 .. MaxLines /\ line_count \in 1 .. MaxLines
      /\ cursor_line \in Line /\ cursor_line \in 1 .. line_count /\ cursor_col \in Nat
  BY EditorAssumption DEF TeInv, TeTypeOK, Line
<1>2. /\ TeNow \in Seq(Seq(CellChar)) /\ Len(TeNow) = line_count
      /\ \A i \in 1 .. line_count :
           /\ i \in Line /\ lines[i] \in LineRecord
           /\ TeNow[i] = Reading(lines[i].text, lines[i].len)
  BY <1>1, ShownIs DEF TeNow
<1>3. \A l \in LineRecord : l.len \in Nat /\ Len(Reading(l.text, l.len)) = l.len
  BY LineIs
<1> QED BY <1>1, <1>2, <1>3

(* What is left to show of TeInv after a key. *)
LEMMA TeInvNext ==
  ASSUME TeInv, ~lost', lost' \in BOOLEAN, click_col' = click_col,
         lines' \in [Line -> LineRecord], line_count' \in 1 .. MaxLines,
         cursor_line' \in 1 .. line_count', cursor_col' \in Nat
  PROVE  TeInv'
<1>1. cursor_line' \in Line /\ cursor_line' <= line_count'
  BY EditorAssumption DEF Line
<1>2. click_col' \in {Nowhere} \cup Nat
  BY DEF TeInv, TeTypeOK
<1> QED BY <1>1, <1>2, Zenon DEF TeInv, TeTypeOK

LEMMA PrintableStep ==
  ASSUME TeInv, ~lost, NEW c \in Char, Key, Printable(c)
  PROVE  TeInv' /\ TeText!Insert(c)
<1> DEFINE l == lines[cursor_line]
           r == Typed(l, cursor_col, c)
<1>1. /\ lines \in [Line -> LineRecord]
      /\ line_count \in 0 .. MaxLines /\ line_count \in 1 .. MaxLines
      /\ cursor_line \in Line /\ cursor_line \in 1 .. line_count /\ cursor_col \in Nat
      /\ TeNow \in Seq(Seq(CellChar)) /\ Len(TeNow) = line_count
      /\ l \in LineRecord /\ l.len \in Nat /\ TeNow[cursor_line] = Reading(l.text, l.len)
      /\ Len(TeNow[cursor_line]) = l.len
  BY TeNowIs
<1>2. /\ lines' = WithLine(lines, cursor_line, r)
      /\ line_count' = line_count /\ cursor_line' = cursor_line /\ cursor_col' = cursor_col + 1
      /\ click_col' = click_col /\ l.len < LineWidth - 1 /\ ~(cursor_col > l.len) /\ ~Beyond
      /\ lost' = Beyond
  BY Zenon DEF WithLine, Printable, Key, Typed, Behind, cline, Beyond
<1>20. lost' = FALSE
  BY <1>2
<1> HIDE DEF l
<1>3. cursor_col <= l.len
  BY <1>1, <1>2
<1>4. /\ r \in LineRecord /\ r.len = l.len + 1
      /\ CharInserted(Reading(r.text, r.len), Reading(l.text, l.len), cursor_col, c)
  BY <1>1, <1>2, <1>3, TypedIs
<1> HIDE DEF r
<1>5. /\ lines' \in [Line -> LineRecord] /\ SameBut(TeNew, TeNow, cursor_line)
      /\ TeNew[cursor_line] = Reading(r.text, r.len)
  <2>1. /\ lines' \in [Line -> LineRecord]
        /\ SameBut(Shown(lines', line_count), Shown(lines, line_count), cursor_line)
        /\ Shown(lines', line_count)[cursor_line] = Reading(r.text, r.len)
    <3>1. /\ lines \in [Line -> LineRecord] /\ line_count \in 0 .. MaxLines
          /\ cursor_line \in 1 .. line_count /\ r \in LineRecord
          /\ lines' = WithLine(lines, cursor_line, r)
      BY <1>1, <1>2, <1>4
    <3> QED BY <3>1, LineChanged
  <2> QED BY <1>2, <2>1 DEF TeNow, TeNew
<1>6. TeNew \in Seq(Seq(CellChar))
  BY <1>1, <1>2, <1>5, ShownIs DEF TeNew
<1>7. TeNew = TeInsertedText(c)
  <2>1. /\ cursor_col \in 0 .. Len(TeNow[cursor_line]) /\ cursor_line \in 1 .. Len(TeNow)
        /\ c \in CellChar
    BY <1>1, <1>3 DEF CellChar
  <2>2. CharInserted(TeNew[cursor_line], TeNow[cursor_line], cursor_col, c)
    BY <1>1, <1>4, <1>5
  <2>3. /\ TeNow \in Seq(Seq(CellChar)) /\ TeNew \in Seq(Seq(CellChar))
        /\ SameBut(TeNew, TeNow, cursor_line)
    BY <1>1, <1>5, <1>6
  <2>4. InsertedAt(TeNew, TeNow, cursor_line, cursor_col, c)
    BY <2>1, <2>2, <2>3 DEF InsertedAt
  <2>5. TeNew = Spliced(TeNow, cursor_line, cursor_line,
                        <<SubSeq(TeNow[cursor_line], 1, cursor_col) \o <<c>>
                          \o SubSeq(TeNow[cursor_line], cursor_col + 1, Len(TeNow[cursor_line]))>>)
    BY <2>1, <2>3, <2>4, TextInserted
  <2> QED BY <2>5, Zenon DEF TeInsertedText, TeLeft, TeRight
<1>8. ~Beyond'
  <2>1. lines'[cursor_line'] = r
    BY <1>1, <1>2 DEF WithLine
  <2>2. ~(cursor_col' > lines'[cursor_line'].len)
    BY <1>1, <1>2, <1>3, <1>4, <2>1
  <2> QED BY <2>2 DEF Beyond, cline
<1>9. TeText!Insert(c)
  BY <1>2, <1>7, <1>8, TeInserts
<1>10. TeInv'
  <2>1. cursor_col' \in Nat /\ cursor_line' \in 1 .. line_count' /\ line_count' \in 1 .. MaxLines
    BY <1>1, <1>2
  <2> QED BY <1>2, <1>20, <1>5, <2>1, TeInvNext
<1> QED BY <1>9, <1>10

LEMMA BackspaceStep ==
  ASSUME TeInv, ~lost, Key, Backspace
  PROVE  TeInv' /\ TeText!DeleteBack
<1> DEFINE l == lines[cursor_line]
           r == Erased(l, cursor_col)
<1>1. /\ lines \in [Line -> LineRecord]
      /\ line_count \in 0 .. MaxLines /\ line_count \in 1 .. MaxLines
      /\ cursor_line \in Line /\ cursor_line \in 1 .. line_count /\ cursor_col \in Nat
      /\ TeNow \in Seq(Seq(CellChar)) /\ Len(TeNow) = line_count
      /\ l \in LineRecord /\ l.len \in Nat /\ TeNow[cursor_line] = Reading(l.text, l.len)
      /\ Len(TeNow[cursor_line]) = l.len
  BY TeNowIs
<1>2. /\ lines' = WithLine(lines, cursor_line, r)
      /\ line_count' = line_count /\ cursor_line' = cursor_line /\ cursor_col' = cursor_col - 1
      /\ click_col' = click_col /\ cursor_col > 0 /\ ~(cursor_col > l.len) /\ ~Beyond
      /\ lost' = Beyond
  BY Zenon DEF WithLine, Backspace, Key, Erased, cline, Beyond
<1>20. lost' = FALSE
  BY <1>2
<1> HIDE DEF l
<1>3. cursor_col <= l.len /\ cursor_col \in Nat \ {0}
  BY <1>1, <1>2
<1>4. /\ r \in LineRecord /\ r.len = l.len - 1
      /\ CharErased(Reading(r.text, r.len), Reading(l.text, l.len), cursor_col)
  BY <1>1, <1>3, ErasedIs
<1> HIDE DEF r
<1>5. /\ lines' \in [Line -> LineRecord] /\ SameBut(TeNew, TeNow, cursor_line)
      /\ TeNew[cursor_line] = Reading(r.text, r.len)
  <2>1. /\ lines' \in [Line -> LineRecord]
        /\ SameBut(Shown(lines', line_count), Shown(lines, line_count), cursor_line)
        /\ Shown(lines', line_count)[cursor_line] = Reading(r.text, r.len)
    <3>1. /\ lines \in [Line -> LineRecord] /\ line_count \in 0 .. MaxLines
          /\ cursor_line \in 1 .. line_count /\ r \in LineRecord
          /\ lines' = WithLine(lines, cursor_line, r)
      BY <1>1, <1>2, <1>4
    <3> QED BY <3>1, LineChanged
  <2> QED BY <1>2, <2>1 DEF TeNow, TeNew
<1>6. TeNew \in Seq(Seq(CellChar))
  BY <1>1, <1>2, <1>5, ShownIs DEF TeNew
<1>7. TeNew = TeErasedText
  <2>1. cursor_col \in 1 .. Len(TeNow[cursor_line]) /\ cursor_line \in 1 .. Len(TeNow)
    BY <1>1, <1>3
  <2>2. CharErased(TeNew[cursor_line], TeNow[cursor_line], cursor_col)
    BY <1>1, <1>4, <1>5
  <2> QED BY <1>1, <1>5, <1>6, <2>1, <2>2, TextErased DEF TeErasedText, TeLeft, TeRight
<1>8. ~Beyond'
  <2>1. lines'[cursor_line'] = r
    BY <1>1, <1>2 DEF WithLine
  <2>2. ~(cursor_col' > lines'[cursor_line'].len)
    BY <1>1, <1>2, <1>3, <1>4, <2>1
  <2> QED BY <2>2 DEF Beyond, cline
<1>9. TeText!DeleteBack
  BY <1>2, <1>7, <1>8, TeErases
<1>10. TeInv'
  <2>1. cursor_col' \in Nat /\ cursor_line' \in 1 .. line_count' /\ line_count' \in 1 .. MaxLines
    BY <1>1, <1>2, <1>3
  <2> QED BY <1>2, <1>20, <1>5, <2>1, TeInvNext
<1> QED BY <1>9, <1>10

LEMMA MergeStep ==
  ASSUME TeInv, ~lost, Key, Merge
  PROVE  TeInv' /\ TeText!JoinLines
<1> DEFINE p == lines[cursor_line - 1]
           l == lines[cursor_line]
<1>0. cursor_line > 1
  BY Zenon DEF Merge
<1>1. /\ lines \in [Line -> LineRecord]
      /\ line_count \in 0 .. MaxLines /\ line_count \in 1 .. MaxLines
      /\ cursor_line \in Line /\ cursor_line \in 1 .. line_count /\ cursor_col \in Nat
      /\ \A i \in 1 .. line_count :
            lines[i] \in LineRecord /\ lines[i].len \in Nat /\ Len(TeNow[i]) = lines[i].len
  BY TeNowIs
<1>2. /\ cursor_line - 1 \in 1 .. line_count /\ cursor_line \in 2 .. line_count
      /\ line_count - 1 \in 1 .. MaxLines /\ cursor_line - 1 \in 1 .. line_count - 1
      /\ cursor_line - 1 \in Line
  BY <1>0, <1>1, EditorAssumption DEF Line
<1>3. p.len \in Nat /\ l.len \in Nat /\ Len(TeNow[cursor_line - 1]) = p.len
  BY <1>1, <1>2
<1>4. /\ lines' = LinesMerged(lines, line_count, cursor_line)
      /\ line_count' = line_count - 1 /\ cursor_line' = cursor_line - 1 /\ cursor_col' = p.len
      /\ cursor_col = 0 /\ p.len + l.len < LineWidth
      /\ click_col' = click_col /\ lost' = Beyond
  BY Zenon DEF Merge, Key, LinesMerged, Merged, cline
<1>5. ~Beyond
  <2>1. ~(cursor_col > l.len)
    BY <1>3, <1>4
  <2> QED BY <2>1 DEF Beyond, cline
<1>6. /\ lines' \in [Line -> LineRecord]
      /\ lines'[cursor_line - 1].len = p.len + l.len
      /\ TeNew = Spliced(TeNow, cursor_line - 1, cursor_line,
                         <<TeNow[cursor_line - 1] \o TeNow[cursor_line]>>)
  BY <1>1, <1>2, <1>4, LinesMergedIs DEF TeNow, TeNew
<1> HIDE DEF p, l
<1>7. ~Beyond'
  <2>1. ~(cursor_col' > lines'[cursor_line'].len)
    BY <1>3, <1>4, <1>6
  <2> QED BY <2>1 DEF Beyond, cline
<1>8. cursor_col' = Len(TeNow[cursor_line - 1])
  BY <1>3, <1>4
<1>9. TeText!JoinLines
  BY <1>0, <1>4, <1>5, <1>6, <1>7, <1>8, TeJoins
<1>10. TeInv'
  <2>1. /\ cursor_col' \in Nat /\ cursor_line' \in 1 .. line_count' /\ line_count' \in 1 .. MaxLines
        /\ lost' = FALSE
    BY <1>2, <1>3, <1>4, <1>5
  <2> QED BY <1>4, <1>6, <2>1, TeInvNext
<1> QED BY <1>9, <1>10

LEMMA EnterStep ==
  ASSUME TeInv, ~lost, Key, Enter
  PROVE  TeInv' /\ TeText!SplitLine
<1> DEFINE l == lines[cursor_line]
<1>1. /\ lines \in [Line -> LineRecord]
      /\ line_count \in 0 .. MaxLines /\ line_count \in 1 .. MaxLines
      /\ cursor_line \in Line /\ cursor_line \in 1 .. line_count /\ cursor_col \in Nat
      /\ l \in LineRecord /\ l.len \in Nat
  BY TeNowIs
<1>2. /\ lines' = LinesSplit(lines, line_count, cursor_line, cursor_col)
      /\ line_count' = line_count + 1 /\ cursor_line' = cursor_line + 1 /\ cursor_col' = 0
      /\ ~(cursor_col > l.len) /\ ~Beyond /\ line_count < MaxLines
      /\ click_col' = click_col /\ lost' = Beyond
  BY Zenon DEF Enter, Key, LinesSplit, Rest, cline, Beyond
<1>20. lost' = FALSE
  BY <1>2
<1> HIDE DEF l
<1>3. cursor_col <= l.len
  BY <1>1, <1>2
<1>4. /\ lines' \in [Line -> LineRecord]
      /\ TeNew = Spliced(TeNow, cursor_line, cursor_line, <<TeLeft, TeRight>>)
  BY <1>1, <1>2, <1>3, LinesSplitIs DEF TeNow, TeNew, TeLeft, TeRight, l
<1>5. line_count' \in 1 .. MaxLines /\ cursor_line' \in 1 .. line_count' /\ cursor_line' \in Line
  BY <1>1, <1>2, EditorAssumption DEF Line
<1>6. ~Beyond'
  <2>1. lines'[cursor_line'] \in LineRecord
    BY <1>4, <1>5
  <2>2. lines'[cursor_line'].len \in Nat
    BY <2>1, LineIs
  <2>3. ~(cursor_col' > lines'[cursor_line'].len)
    BY <1>2, <2>2
  <2> QED BY <2>3 DEF Beyond, cline
<1>7. TeText!SplitLine
  BY <1>2, <1>4, <1>6, TeSplits
<1>8. TeInv'
  <2>1. cursor_col' \in Nat
    BY <1>2
  <2> QED BY <1>2, <1>20, <1>4, <1>5, <2>1, TeInvNext
<1> QED BY <1>7, <1>8

(* A cursor in a line of the text, whatever its column. *)
LEMMA TeCursorNext ==
  ASSUME lines' \in [Line -> LineRecord], line_count' \in 1 .. MaxLines,
         cursor_line' \in 1 .. line_count', cursor_col' \in Nat
  PROVE  TeCursor' \in TeText!Positions(TeNew)
<1> DEFINE i == cursor_line'
           x == IF cursor_col' > lines'[i].len THEN lines'[i].len ELSE cursor_col'
<1>1. line_count' \in 0 .. MaxLines
  BY EditorAssumption
<1>2. /\ Len(TeNew) = line_count' /\ lines'[i] \in LineRecord
      /\ TeNew[i] = Reading(lines'[i].text, lines'[i].len)
  BY <1>1, ShownIs DEF TeNew
<1>3. Len(TeNew[i]) = lines'[i].len /\ lines'[i].len \in Nat
  <2> DEFINE l == lines'[i]
  <2>1. l \in LineRecord /\ TeNew[i] = Reading(l.text, l.len)
    BY <1>2
  <2> HIDE DEF l
  <2>2. Len(TeNew[i]) = l.len /\ l.len \in Nat
    BY <2>1, LineIs
  <2> QED BY <2>2 DEF l
<1>4. TeCursor' = <<i, x>>
  BY Zenon DEF TeCursor, Beyond, cline
<1>5. x \in 0 .. lines'[i].len
  BY <1>3
<1> HIDE DEF x
<1>6. i \in 1 .. Len(TeNew) /\ x \in 0 .. Len(TeNew[i])
  BY <1>2, <1>3, <1>5
<1>7. <<i, x>> \in TeText!Positions(TeNew)
  BY <1>6, PositionIs
<1> QED BY <1>4, <1>7

LEMMA MoveStep ==
  ASSUME TeInv, ~lost, UNCHANGED <<lines, line_count, lost>>,
         cursor_line' \in 1 .. line_count, cursor_col' \in Nat, click_col' \in {Nowhere} \cup Nat
  PROVE  TeInv' /\ TeText!MoveCursor
<1>1. /\ lines' \in [Line -> LineRecord] /\ line_count' \in 1 .. MaxLines
      /\ cursor_line' \in 1 .. line_count'
  BY TeNowIs
<1>2. TeNew = TeNow
  BY DEF TeNew, TeNow
<1>3. TeText!MoveCursor
  BY <1>1, <1>2, TeCursorNext, TeMoves
<1>4. cursor_line' \in Line /\ cursor_line' <= line_count' /\ lost' = lost /\ lost \in BOOLEAN
  BY <1>1, EditorAssumption DEF Line, TeInv, TeTypeOK
<1>5. TeInv'
  BY <1>1, <1>4, Zenon DEF TeInv, TeTypeOK
<1> QED BY <1>3, <1>5

LEMMA ArrowStep ==
  ASSUME TeInv, ~lost, Arrow
  PROVE  TeInv' /\ TeText!MoveCursor
<1>1. /\ cursor_line \in 1 .. line_count /\ cursor_col \in Nat /\ line_count \in Nat
      /\ click_col \in {Nowhere} \cup Nat
      /\ \A i \in 1 .. line_count : lines[i].len \in Nat
  <2>1. click_col \in {Nowhere} \cup Nat
    BY DEF TeInv, TeTypeOK
  <2> QED BY <2>1, TeNowIs, EditorAssumption
<1>2. UNCHANGED <<lines, line_count, click_col, lost>>
  BY DEF Arrow
<1>3. CASE UpDown
  <2>1. PICK i \in {cursor_line - 1, cursor_line + 1} \cap 1 .. line_count :
          cursor_line' = i /\ cursor_col' = ClampCol(i)
    BY <1>3 DEF UpDown
  <2>2. i \in 1 .. line_count /\ cursor_line' = i /\ lines[i].len \in Nat
    BY <1>1, <2>1
  <2>3. cursor_col' \in Nat
    BY <1>1, <2>1, <2>2, Zenon DEF ClampCol
  <2> QED BY <1>1, <1>2, <2>2, <2>3, MoveStep
<1>4. CASE Left
  <2>1. CASE cursor_col > 0
    <3>1. cursor_col' = cursor_col - 1 /\ cursor_line' = cursor_line
      BY <1>4, <2>1 DEF Left
    <3>2. cursor_col' \in Nat /\ cursor_line' \in 1 .. line_count
      BY <1>1, <2>1, <3>1
    <3> QED BY <1>1, <1>2, <3>2, MoveStep
  <2>2. CASE ~(cursor_col > 0)
    <3>1. /\ cursor_line > 1 /\ cursor_line' = cursor_line - 1
          /\ cursor_col' = lines[cursor_line - 1].len
      BY <1>4, <2>2, Zenon DEF Left
    <3>2. cursor_line - 1 \in 1 .. line_count
      BY <1>1, <3>1
    <3>3. cursor_col' \in Nat /\ cursor_line' \in 1 .. line_count
      BY <1>1, <3>1, <3>2
    <3> QED BY <1>1, <1>2, <3>3, MoveStep
  <2> QED BY <2>1, <2>2
<1>5. CASE Right
  <2>1. CASE cursor_col < cline.len
    <3>1. cursor_col' = cursor_col + 1 /\ cursor_line' = cursor_line
      BY <1>5, <2>1 DEF Right
    <3>2. cursor_col' \in Nat /\ cursor_line' \in 1 .. line_count
      BY <1>1, <3>1
    <3> QED BY <1>1, <1>2, <3>2, MoveStep
  <2>2. CASE ~(cursor_col < cline.len)
    <3>1. cursor_line < line_count /\ cursor_line' = cursor_line + 1 /\ cursor_col' = 0
      BY <1>5, <2>2, Zenon DEF Right
    <3>2. cursor_col' \in Nat /\ cursor_line' \in 1 .. line_count
      BY <1>1, <3>1
    <3> QED BY <1>1, <1>2, <3>2, MoveStep
  <2> QED BY <2>1, <2>2
<1> QED BY <1>3, <1>4, <1>5 DEF Arrow

LEMMA OverrunStep ==
  ASSUME TeInv, ~lost, Key, Overrun
  PROVE  TeInv' /\ lost'
<1>1. /\ UNCHANGED <<lines, line_count, cursor_line, cursor_col, click_col>>
      /\ lost' = Beyond /\ Beyond
  BY DEF Key, Overrun
<1>2. lost' /\ lost' \in BOOLEAN
  <2>1. Beyond \in BOOLEAN
    BY DEF Beyond
  <2> QED BY <1>1, <2>1
<1>3. TeTypeOK'
  BY <1>1, <1>2 DEF TeInv, TeTypeOK
<1> QED BY <1>2, <1>3 DEF TeInv

LEMMA ClickLineStep ==
  ASSUME TeInv, ~lost, NEW i \in Line, NEW k \in Cell, ClickLine(i, k)
  PROVE  TeInv' /\ TeText!MoveCursor
<1>1. /\ line_count \in Nat /\ cursor_col \in Nat
      /\ \A j \in 1 .. line_count : lines[j].len \in Nat
  BY TeNowIs, EditorAssumption
<1>2. /\ i <= line_count /\ cursor_line' = i
      /\ click_col' = IF k > lines[i].len THEN lines[i].len ELSE k
      /\ UNCHANGED <<lines, line_count, cursor_col, lost>>
  BY DEF ClickLine
<1>3. i \in 1 .. line_count
  BY <1>1, <1>2, EditorAssumption DEF Line
<1>4. click_col' \in Nat
  <2>1. k \in Nat /\ lines[i].len \in Nat
    BY <1>1, <1>3, EditorAssumption DEF Cell
  <2> QED BY <1>2, <2>1, Zenon
<1> QED BY <1>1, <1>2, <1>3, <1>4, MoveStep

LEMMA ClickColumnStep ==
  ASSUME TeInv, ~lost, ClickColumn
  PROVE  TeInv' /\ TeText!MoveCursor
<1>1. cursor_line \in 1 .. line_count
  BY TeNowIs
<1>2. /\ click_col # Nowhere /\ cursor_col' = click_col /\ click_col' = Nowhere
      /\ UNCHANGED <<lines, line_count, cursor_line, lost>>
  BY DEF ClickColumn
<1>3. click_col \in Nat
  BY <1>2 DEF TeInv, TeTypeOK
<1> QED BY <1>1, <1>2, <1>3, MoveStep

(* The text of one empty line. *)
LEMMA EmptyText ==
  ASSUME NEW ls \in [Line -> LineRecord], ls[1].len = 0
  PROVE  Shown(ls, 1) = << <<>> >>
<1>1. 1 \in 0 .. MaxLines /\ 1 \in 1 .. 1 /\ 1 \in Line
  BY EditorAssumption DEF Line
<1>2. /\ Shown(ls, 1) \in Seq(Seq(CellChar)) /\ Len(Shown(ls, 1)) = 1
      /\ ls[1] \in LineRecord
      /\ Shown(ls, 1)[1] = Reading(ls[1].text, ls[1].len)
  BY <1>1, ShownIs
<1> DEFINE r == Reading(ls[1].text, ls[1].len)
           t == Shown(ls, 1)
           Q == Seq(CellChar)
<1>3. r \in Seq(CellChar) /\ Len(r) = 0
  BY <1>2, LineIs
<1>4. t \in Seq(Q) /\ Len(t) = 1 /\ t[1] = r
  BY <1>2
<1> HIDE DEF r, t, Q
<1>5. r = <<>>
  BY <1>3
<1>6. t = <<r>>
  BY <1>4
<1> QED BY <1>5, <1>6 DEF t

LEMMA NewStep ==
  ASSUME TeInv, ~lost, New
  PROVE  TeInv' /\ TeText!Replace
<1>1. /\ line_count' = 1 /\ lines' = [lines EXCEPT ![1].len = 0]
      /\ cursor_line' = 1 /\ cursor_col' = 0
      /\ click_col' = click_col /\ lost' = lost
  BY DEF New
<1>2. 1 \in Line /\ lines \in [Line -> LineRecord]
  BY TeNowIs, EditorAssumption DEF Line
<1>3. lines[1] \in LineRecord
  BY <1>2
<1> DEFINE l == lines[1]
           r == [l EXCEPT !.len = 0]
<1>4. r \in LineRecord /\ r.len = 0
  <2>1. l.len \in Nat /\ 0 \in Nat
    BY <1>3, LineIs
  <2>2. 0 <= l.len
    BY <2>1
  <2> HIDE DEF l
  <2> QED BY <1>3, <2>1, <2>2, RestIs DEF l
<1>5. lines' = WithLine(lines, 1, r)
  BY <1>1, <1>2, Zenon DEF WithLine
<1> HIDE DEF r
<1>6. lines' \in [Line -> LineRecord] /\ lines'[1] = r
  BY <1>2, <1>4, <1>5 DEF WithLine
<1>7. TeNew = << <<>> >>
  <2> DEFINE ms == lines'
  <2>1. ms \in [Line -> LineRecord] /\ ms[1].len = 0
    BY <1>4, <1>6
  <2> HIDE DEF ms
  <2>2. Shown(ms, 1) = << <<>> >>
    BY <2>1, EmptyText
  <2> QED BY <1>1, <2>2 DEF ms, TeNew
<1>8. /\ line_count' \in 1 .. MaxLines /\ cursor_line' \in 1 .. line_count' /\ cursor_col' \in Nat
      /\ lost' = FALSE
  BY <1>1, EditorAssumption DEF TeInv, TeTypeOK
<1>9. TeCursor' \in TeText!Positions(TeNew)
  BY <1>6, <1>8, TeCursorNext
<1>10. TeText!Replace
  BY <1>7, <1>9, TeReplaces
<1>11. TeInv'
  BY <1>1, <1>6, <1>8, TeInvNext
<1> QED BY <1>10, <1>11

(* The line that [Open] fills. *)
Loaded(l, s) ==
  [text |-> [k \in Cell |-> IF k < Len(s) THEN s[k + 1] ELSE l.text[k]], len |-> Len(s)]

LEMMA LoadedIs ==
  ASSUME NEW l \in LineRecord, NEW s \in Seq(Char), Len(s) < LineWidth
  PROVE  /\ Loaded(l, s) \in LineRecord
         /\ Reading(Loaded(l, s).text, Loaded(l, s).len) = s
<1> DEFINE n == Len(s)
           cells == l.text
           new == [k \in Cell |-> IF k < n THEN s[k + 1] ELSE cells[k]]
           r == Loaded(l, s)
<1>1. n \in Nat /\ LineWidth \in Nat /\ n < LineWidth /\ cells \in [Cell -> CellChar]
  BY EditorAssumption, LineIs
<1>2. \A k \in 1 .. n : s[k] \in CellChar
  BY DEF CellChar
<1>3. r = [text |-> new, len |-> n]
  BY DEF Loaded
<1>30. s \in Seq(CellChar) /\ Len(s) = n
  <2>1. s \in [1 .. n -> CellChar]
    BY <1>2
  <2> HIDE DEF n
  <2>2. s \in Seq(CellChar)
    BY <1>1, <2>1
  <2> QED BY <2>2 DEF n
<1> HIDE DEF n, cells, r
<1>4. new \in [Cell -> CellChar]
  <2>1. ASSUME NEW k \in Cell, k < n PROVE s[k + 1] \in CellChar
    <3>1. k + 1 \in 1 .. n
      BY <1>1, <2>1 DEF Cell
    <3> QED BY <1>2, <3>1
  <2> QED BY <1>1, <2>1
<1>5. \A k \in Cell : k < n => new[k] = s[k + 1]
  OBVIOUS
<1> HIDE DEF new
<1>6. n \in 0 .. LineWidth - 1
  BY <1>1
<1>7. r \in LineRecord /\ r.text = new /\ r.len = n
  BY <1>3, <1>4, <1>6 DEF LineRecord
<1>8. /\ Reading(new, n) \in Seq(CellChar) /\ Len(Reading(new, n)) = n
      /\ \A i \in 1 .. n : Reading(new, n)[i] = new[i - 1]
  BY <1>7, LineIs
<1>9. ASSUME NEW i \in 1 .. n PROVE Reading(new, n)[i] = s[i]
  <2>1. i - 1 \in Cell /\ i - 1 < n /\ i - 1 + 1 = i
    BY <1>1 DEF Cell
  <2> QED BY <1>5, <1>8, <2>1
<1>10. Reading(new, n) = s
  BY <1>8, <1>9, <1>30, SeqEqual
<1> QED BY <1>7, <1>10 DEF r

LEMMA OpenStep ==
  ASSUME TeInv, ~lost, Open
  PROVE  TeInv' /\ (~lost' => TeText!Replace)
<1> DEFINE n == Len(OpenText)
           ms == [i \in Line |-> IF i > n THEN lines[i] ELSE Loaded(lines[i], OpenText[i])]
<1>1. /\ line_count' = n /\ cursor_line' = cursor_line /\ cursor_col' = cursor_col
      /\ click_col' = click_col /\ lost' = (cursor_line > n) /\ lines' = ms
  BY Zenon DEF Open, Loaded
<1>2. /\ lines \in [Line -> LineRecord] /\ cursor_line \in Line /\ cursor_col \in Nat
      /\ click_col \in {Nowhere} \cup Nat
  BY TeNowIs DEF TeInv, TeTypeOK
<1>3. n \in 1 .. MaxLines /\ MaxLines \in Nat /\ n \in 0 .. MaxLines
  BY EditorAssumption
<1>4. ASSUME NEW i \in Line, ~(i > n)
      PROVE  /\ Loaded(lines[i], OpenText[i]) \in LineRecord
             /\ Reading(Loaded(lines[i], OpenText[i]).text, Loaded(lines[i], OpenText[i]).len)
                  = OpenText[i]
  <2>1. i \in 1 .. n
    BY <1>3, <1>4 DEF Line
  <2>2. OpenText[i] \in Seq(Char) /\ Len(OpenText[i]) < LineWidth
    <3> DEFINE Q == Seq(Char)
    <3>1. OpenText \in Seq(Q) /\ \A j \in 1 .. Len(OpenText) : Len(OpenText[j]) < LineWidth
      BY EditorAssumption
    <3> HIDE DEF Q
    <3>2. OpenText[i] \in Q
      BY <2>1, <3>1
    <3> QED BY <2>1, <3>1, <3>2 DEF Q
  <2>3. lines[i] \in LineRecord
    BY <1>2
  <2> QED BY <2>2, <2>3, LoadedIs
<1>5. ms \in [Line -> LineRecord]
  BY <1>2, <1>4
<1>6. \A i \in Line : ~(i > n) => ms[i] = Loaded(lines[i], OpenText[i])
  OBVIOUS
<1> DEFINE t == Shown(ms, n)
           Q == Seq(CellChar)
<1> HIDE DEF ms
<1>7. /\ t \in Seq(Q) /\ Len(t) = n
      /\ \A i \in 1 .. n : i \in Line /\ t[i] = Reading(ms[i].text, ms[i].len)
  BY <1>3, <1>5, ShownIs
<1>8. ASSUME NEW i \in 1 .. n PROVE t[i] = OpenText[i]
  <2>1. i \in Line /\ ~(i > n)
    BY <1>3, <1>7
  <2>2. ms[i] = Loaded(lines[i], OpenText[i])
    BY <1>6, <2>1
  <2> HIDE DEF t
  <2> QED BY <1>4, <1>7, <2>1, <2>2
<1>9. t = OpenText
  <2>1. OpenText \in Seq(Q)
    <3>1. OpenText \in Seq(Seq(Char))
      BY EditorAssumption
    <3>2. \A i \in 1 .. n : t[i] \in Q
      BY <1>7
    <3>3. OpenText \in [1 .. n -> Q]
      <4>1. \A i \in 1 .. n : OpenText[i] \in Q
        BY <1>8, <3>2
      <4>2. OpenText = [i \in 1 .. n |-> OpenText[i]]
        <5> DEFINE C == Seq(Char)
        <5> HIDE DEF C
        <5>1. OpenText \in Seq(C)
          BY <3>1 DEF C
        <5> QED BY <5>1
      <4> HIDE DEF Q
      <4> QED BY <4>1, <4>2
    <3> HIDE DEF n, Q
    <3>4. n \in Nat
      BY <1>3
    <3> QED BY <3>3, <3>4
  <2>2. Len(OpenText) = n
    OBVIOUS
  <2> HIDE DEF t, Q
  <2> QED BY <1>7, <1>8, <2>1, <2>2, SeqEqual
<1>10. TeNew = OpenText
  BY <1>1, <1>9 DEF TeNew, t
<1>11. lines' \in [Line -> LineRecord] /\ line_count' \in 1 .. MaxLines /\ lost' \in BOOLEAN
  BY <1>1, <1>3, <1>5
<1>12. ASSUME ~lost' PROVE cursor_line' \in 1 .. line_count' /\ cursor_line' <= line_count'
  <2>1. ~(cursor_line > n) /\ line_count' = n /\ cursor_line' = cursor_line
    BY <1>1, <1>12
  <2> HIDE DEF n
  <2>2. cursor_line \in 1 .. n
    BY <1>2, <1>3, <2>1 DEF Line
  <2> QED BY <1>3, <2>1, <2>2
<1>13. ASSUME ~lost' PROVE TeText!Replace
  <2>1. cursor_line' \in 1 .. line_count' /\ cursor_col' \in Nat
    BY <1>1, <1>2, <1>12, <1>13
  <2>2. TeCursor' \in TeText!Positions(TeNew)
    BY <1>11, <2>1, TeCursorNext
  <2> QED BY <1>10, <2>2, TeReplaces
<1>14. TeInv'
  <2>1. cursor_line' \in Line /\ cursor_col' \in Nat /\ click_col' \in {Nowhere} \cup Nat
    BY <1>1, <1>2
  <2>2. TeTypeOK'
    BY <1>11, <2>1, Zenon DEF TeTypeOK
  <2> QED BY <1>12, <2>2 DEF TeInv
<1> QED BY <1>13, <1>14

TeStep == TeInv' /\ (~lost' => TeText!TextNext)

LEMMA TeNextStep == TeInv /\ TeNext => TeStep
<1> SUFFICES ASSUME TeInv, TeNext PROVE TeStep
  OBVIOUS
<1>0. ~lost
  BY DEF TeNext
<1>1. ASSUME NEW c \in Char, Key, Printable(c) PROVE TeStep
  BY <1>0, <1>1, PrintableStep DEF TeStep, TeText!TextNext
<1>2. CASE Key /\ Backspace
  BY <1>0, <1>2, BackspaceStep DEF TeStep, TeText!TextNext
<1>3. CASE Key /\ Merge
  BY <1>0, <1>3, MergeStep DEF TeStep, TeText!TextNext
<1>4. CASE Key /\ Enter
  BY <1>0, <1>4, EnterStep DEF TeStep, TeText!TextNext
<1>5. CASE Key /\ Overrun
  BY <1>0, <1>5, OverrunStep DEF TeStep
<1>6. CASE Arrow
  BY <1>0, <1>6, ArrowStep DEF TeStep, TeText!TextNext
<1>7. CASE ClickColumn
  BY <1>0, <1>7, ClickColumnStep DEF TeStep, TeText!TextNext
<1>8. CASE New
  BY <1>0, <1>8, NewStep DEF TeStep, TeText!TextNext
<1>9. CASE Open
  BY <1>0, <1>9, OpenStep DEF TeStep, TeText!TextNext
<1>10. ASSUME NEW i \in Line, NEW k \in Cell, ClickLine(i, k) PROVE TeStep
  BY <1>0, <1>10, ClickLineStep DEF TeStep, TeText!TextNext
<1> QED BY <1>1, <1>2, <1>3, <1>4, <1>5, <1>6, <1>7, <1>8, <1>9, <1>10 DEF TeNext, Keyboard

LEMMA TeStutter == TeInv /\ UNCHANGED teVars => TeInv'
BY DEF TeInv, TeTypeOK, teVars

LEMMA TeInitText == TeInit => TeText!TextInit
<1> SUFFICES ASSUME TeInit PROVE TeText!TextInit
  OBVIOUS
<1>1. TeInv
  BY TeInitInv
<1>2. /\ line_count = 1 /\ cursor_line = 1 /\ cursor_col = 0 /\ lost = FALSE
      /\ lines[1].len = 0
  <2>1. 1 \in Line
    BY EditorAssumption DEF Line
  <2> QED BY <2>1 DEF TeInit
<1>3. lines \in [Line -> LineRecord]
  BY <1>1 DEF TeInv, TeTypeOK
<1>4. TeNow = << <<>> >>
  BY <1>2, <1>3, EmptyText DEF TeNow
<1>5. TeCursor = <<1, 0>>
  BY <1>2 DEF TeCursor, Beyond, cline
<1>6. TeCursor \in TeText!Positions(TeNow)
  <2>1. 1 \in 1 .. Len(TeNow) /\ 0 \in 0 .. Len(TeNow[1])
    BY <1>4
  <2> QED BY <1>5, <2>1, PositionIs
<1> QED BY <1>4, <1>6, TeTextIs, Zenon DEF TeText!TextInit, TeTextNow, TeCursor

(* The cells, lengths, counts and the cursor of the editor stay in range,  *)
(* and the cursor in the text until [Open] has lost it                     *)
(* (texteditor.c:140-186, 195-239).                                        *)
THEOREM EditorTypeCorrect == TeSpec => []TeInv
<1>1. TeInit => TeInv
  BY TeInitInv
<1>2. TeInv /\ [TeNext]_teVars => TeInv'
  BY TeNextStep, TeStutter DEF TeStep
<1> QED BY <1>1, <1>2, PTL DEF TeSpec

(* The keys and clicks of the editor do to the text that its cells show    *)
(* what EditedText says, for lines of any number and width                 *)
(* (texteditor.c:140-186, 195-239).                                        *)
THEOREM EditorIsText == TeSpec => EditorImplementsText
<1>1. TeInit => TeText!TextInit
  BY TeInitText
<1>2. TeInv /\ [TeNext]_teVars =>
        [teVars' # teVars /\ ~lost' => [TeText!TextNext]_(TeText!textVars)]_teVars
  BY TeNextStep DEF TeStep
<1> QED BY <1>1, <1>2, EditorTypeCorrect, PTL DEF TeSpec, EditorImplementsText

----------------------------------------------------------------------------
(* The strings of the notes. *)
NoteCellChar == NoteChar \cup {NUL}
NoteString == {s \in [NoteCell -> NoteCellChar] : \E k \in NoteCell : s[k] = NUL}
Text(s) == Reading(s, strlen(s))

(* strlen: the first NUL. *)
LEMMA StrlenIs ==
  ASSUME NEW s \in NoteString
  PROVE  /\ s \in [NoteCell -> NoteCellChar]
         /\ strlen(s) \in NoteCell /\ strlen(s) \in Nat /\ strlen(s) < NotesWidth
         /\ s[strlen(s)] = NUL /\ \A k \in NoteCell : k < strlen(s) => s[k] # NUL
<1> DEFINE N == {k \in NoteCell : s[k] = NUL}
           m == CHOOSE x \in N : \A y \in N : x <= y
<1>1. s \in [NoteCell -> NoteCellChar] /\ N # {} /\ N \in SUBSET Nat
  BY DEF NoteString, NoteCell
<1>2. m \in N /\ \A y \in N : m <= y
  BY <1>1, LeastElement
<1>3. strlen(s) = m
  BY DEF strlen, Min
<1> HIDE DEF m
<1>4. NotesWidth \in Nat
  BY NotesAssumption
<1>5. m \in NoteCell /\ m \in Nat /\ m < NotesWidth /\ s[m] = NUL
  BY <1>2, <1>4 DEF NoteCell
<1>6. ASSUME NEW k \in NoteCell, k < m PROVE s[k] # NUL
  <2>1. k \in Nat /\ ~(m <= k)
    BY <1>4, <1>5, <1>6 DEF NoteCell
  <2> QED BY <1>2, <2>1
<1> QED BY <1>1, <1>3, <1>5, <1>6

LEMMA StrlenOf ==
  ASSUME NEW s \in [NoteCell -> NoteCellChar], NEW n \in NoteCell, s[n] = NUL,
         \A k \in NoteCell : k < n => s[k] # NUL
  PROVE  s \in NoteString /\ strlen(s) = n
<1>1. s \in NoteString
  BY DEF NoteString
<1> DEFINE m == strlen(s)
<1>2. m \in NoteCell /\ s[m] = NUL /\ \A k \in NoteCell : k < m => s[k] # NUL
  BY <1>1, StrlenIs
<1> HIDE DEF m
<1>3. m \in Int /\ n \in Int /\ ~(m < n) /\ ~(n < m)
  BY <1>2, NotesAssumption DEF NoteCell
<1>4. m = n
  BY <1>3
<1> QED BY <1>1, <1>4 DEF m

LEMMA StringIs ==
  ASSUME NEW s \in NoteString
  PROVE  /\ Text(s) \in Seq(NoteCellChar) /\ Len(Text(s)) = strlen(s)
         /\ \A i \in 1 .. strlen(s) : Text(s)[i] = s[i - 1]
<1> DEFINE n == strlen(s)
<1>1. s \in [NoteCell -> NoteCellChar] /\ n \in Nat /\ n < NotesWidth /\ NotesWidth \in Nat
  BY StrlenIs, NotesAssumption
<1> HIDE DEF n
<1>2. \A k \in 0 .. n - 1 : s[k] \in NoteCellChar
  <2> TAKE k \in 0 .. n - 1
  <2>1. k \in NoteCell
    BY <1>1 DEF NoteCell
  <2> QED BY <1>1, <2>1
<1>3. /\ Reading(s, n) \in Seq(NoteCellChar) /\ Len(Reading(s, n)) = n
      /\ \A i \in 1 .. n : Reading(s, n)[i] = s[i - 1]
  BY <1>1, <1>2, ReadingIs
<1> QED BY <1>3 DEF n, Text

NotesShown(ns, n) == [i \in 1 .. n |-> Text(ns[i])]

LEMMA NotesShownIs ==
  ASSUME NEW ns \in [NoteLine -> NoteString], NEW n \in 0 .. NotesLines
  PROVE  /\ NotesShown(ns, n) \in Seq(Seq(NoteCellChar)) /\ Len(NotesShown(ns, n)) = n
         /\ \A i \in 1 .. n : /\ i \in NoteLine /\ ns[i] \in NoteString
                              /\ NotesShown(ns, n)[i] = Text(ns[i])
                              /\ Len(NotesShown(ns, n)[i]) = strlen(ns[i])
<1>1. NotesLines \in Nat /\ n \in Nat
  BY NotesAssumption
<1>2. ASSUME NEW i \in 1 .. n
      PROVE  /\ i \in NoteLine /\ ns[i] \in NoteString /\ Text(ns[i]) \in Seq(NoteCellChar)
             /\ Len(Text(ns[i])) = strlen(ns[i])
  <2>1. i \in NoteLine
    BY <1>1 DEF NoteLine
  <2>2. ns[i] \in NoteString
    BY <2>1
  <2> QED BY <2>1, <2>2, StringIs
<1> DEFINE Q == Seq(NoteCellChar)
           F(i) == Text(ns[i])
           r == [i \in 1 .. n |-> F(i)]
<1>3. \A i \in 1 .. n : F(i) \in Q
  BY <1>2
<1>4. r = NotesShown(ns, n)
  BY DEF NotesShown
<1> HIDE DEF F, Q
<1>5. r \in Seq(Q) /\ Len(r) = n /\ \A i \in 1 .. n : r[i] = F(i)
  BY <1>1, <1>3
<1> HIDE DEF r
<1> QED BY <1>2, <1>4, <1>5 DEF F, Q

(* strcpy and strcat. *)
LEMMA StrcpyIs ==
  ASSUME NEW s \in NoteString, NEW src \in NoteString, NEW to \in Nat, NEW from \in Nat,
         to <= strlen(s), from <= strlen(src), to + (strlen(src) - from) < NotesWidth
  PROVE  /\ Strcpy(s, to, src, from) \in NoteString
         /\ strlen(Strcpy(s, to, src, from)) = to + (strlen(src) - from)
         /\ \A k \in 0 .. to - 1 : Strcpy(s, to, src, from)[k] = s[k]
         /\ \A j \in 0 .. strlen(src) - from - 1 :
              Strcpy(s, to, src, from)[to + j] = src[from + j]
<1> DEFINE m == strlen(src)
           e == to + (m - from)
           r == Strcpy(s, to, src, from)
<1>1. /\ NotesWidth \in Nat /\ m \in Nat /\ m < NotesWidth /\ from <= m /\ e < NotesWidth
      /\ s \in [NoteCell -> NoteCellChar] /\ src \in [NoteCell -> NoteCellChar] /\ src[m] = NUL
      /\ \A k \in NoteCell : k < m => src[k] # NUL
  BY StrlenIs, NotesAssumption
<1>2. ASSUME NEW k \in NoteCell, k < to PROVE s[k] # NUL
  <2> DEFINE n == strlen(s)
  <2>1. n \in Nat /\ to <= n /\ \A j \in NoteCell : j < n => s[j] # NUL
    BY StrlenIs
  <2> HIDE DEF n
  <2>2. k < n
    BY <1>2, <2>1, NotesAssumption DEF NoteCell
  <2> QED BY <2>1, <2>2
<1>3. r = [k \in NoteCell |-> IF k \in to .. to + (m - from + 1) - 1
                                THEN src[k - to + from] ELSE s[k]]
  BY Zenon DEF Strcpy
<1> HIDE DEF m, r
<1>4. to + (m - from + 1) - 1 = e /\ e \in NoteCell /\ e \in Nat /\ to <= e /\ e - to + from = m
  BY <1>1 DEF NoteCell
<1>5. r = [k \in NoteCell |-> IF k \in to .. e THEN src[k - to + from] ELSE s[k]]
  BY <1>3, <1>4
<1>50. e = to + (m - from)
  OBVIOUS
<1> HIDE DEF e
<1>6. \A k \in NoteCell : k \in to .. e => k - to + from \in NoteCell
  BY <1>1, <1>4, <1>50 DEF NoteCell
<1>7. r \in [NoteCell -> NoteCellChar]
  BY <1>1, <1>5, <1>6
<1>8. /\ \A k \in NoteCell : k \in to .. e => r[k] = src[k - to + from]
      /\ \A k \in NoteCell : k \notin to .. e => r[k] = s[k]
  BY <1>5
<1>9. r[e] = NUL
  <2>1. e \in to .. e
    BY <1>4
  <2> QED BY <1>1, <1>4, <1>8, <2>1
<1>10. ASSUME NEW k \in NoteCell, k < e PROVE r[k] # NUL
  <2>0. k \in Nat
    BY <1>1 DEF NoteCell
  <2>1. CASE k < to
    <3>1. k \notin to .. e
      BY <2>0, <2>1
    <3> QED BY <1>2, <1>8, <2>1, <3>1
  <2>2. CASE ~(k < to)
    <3>1. k \in to .. e /\ k - to + from < m
      BY <1>1, <1>4, <1>50, <1>10, <2>0, <2>2
    <3>2. k - to + from \in NoteCell
      BY <1>6, <3>1
    <3>3. src[k - to + from] # NUL
      BY <1>1, <3>1, <3>2
    <3> QED BY <1>8, <3>1, <3>3
  <2> QED BY <2>1, <2>2
<1>11. r \in NoteString /\ strlen(r) = e
  BY <1>4, <1>7, <1>9, <1>10, StrlenOf
<1>12. ASSUME NEW k \in 0 .. to - 1 PROVE r[k] = s[k]
  <2>1. k \in NoteCell /\ k \notin to .. e
    BY <1>1, <1>4 DEF NoteCell
  <2> QED BY <1>8, <2>1
<1>13. ASSUME NEW j \in 0 .. m - from - 1 PROVE r[to + j] = src[from + j]
  <2> DEFINE k == to + j
  <2>1. k \in NoteCell /\ k \in to .. e /\ k - to + from = from + j
    BY <1>1, <1>4, <1>50 DEF NoteCell
  <2> HIDE DEF k
  <2>2. r[k] = src[from + j]
    BY <1>8, <2>1
  <2> QED BY <2>2 DEF k
<1> QED BY <1>11, <1>12, <1>13 DEF e, r, m

(* A whole string copied. *)
LEMMA CopyIs ==
  ASSUME NEW s \in NoteString, NEW src \in NoteString
  PROVE  /\ Strcpy(s, 0, src, 0) \in NoteString /\ strlen(Strcpy(s, 0, src, 0)) = strlen(src)
         /\ Text(Strcpy(s, 0, src, 0)) = Text(src)
<1> DEFINE m == strlen(src)
           r == Strcpy(s, 0, src, 0)
           zero == 0
<1>1. m \in Nat /\ strlen(s) \in Nat /\ m < NotesWidth
  BY StrlenIs
<1>2. /\ zero \in Nat /\ zero <= strlen(s) /\ zero <= strlen(src)
      /\ zero + (strlen(src) - zero) < NotesWidth /\ r = Strcpy(s, zero, src, zero)
  BY <1>1
<1> HIDE DEF zero, r
<1>3. /\ r \in NoteString /\ strlen(r) = zero + (strlen(src) - zero)
      /\ \A j \in 0 .. strlen(src) - zero - 1 : r[zero + j] = src[zero + j]
  BY <1>2, StrcpyIs
<1>4. /\ strlen(r) = m /\ \A j \in 0 .. m - 1 : r[j] = src[j]
  <2>1. m = strlen(src)
    OBVIOUS
  <2>2. zero = 0
    BY DEF zero
  <2> HIDE DEF m
  <2>3. zero + (m - zero) = m /\ m - zero - 1 = m - 1 /\ \A j \in 0 .. m - 1 : zero + j = j
    BY <1>1, <2>2
  <2> QED BY <1>3, <2>1, <2>3
<1> HIDE DEF m
<1>5. /\ Text(r) \in Seq(NoteCellChar) /\ Len(Text(r)) = m
      /\ \A i \in 1 .. m : Text(r)[i] = r[i - 1]
      /\ Text(src) \in Seq(NoteCellChar) /\ Len(Text(src)) = m
      /\ \A i \in 1 .. m : Text(src)[i] = src[i - 1]
  BY <1>3, <1>4, StringIs DEF m
<1>6. ASSUME NEW i \in 1 .. m PROVE Text(r)[i] = Text(src)[i]
  <2>1. i - 1 \in 0 .. m - 1
    BY <1>1
  <2> QED BY <1>4, <1>5, <2>1
<1>7. Text(r) = Text(src)
  BY <1>5, <1>6, SeqEqual
<1> QED BY <1>3, <1>4, <1>7 DEF m, r

LEMMA StrcatIs ==
  ASSUME NEW p \in NoteString, NEW s \in NoteString, strlen(p) + strlen(s) < NotesWidth - 1
  PROVE  /\ Strcpy(p, strlen(p), s, 0) \in NoteString
         /\ strlen(Strcpy(p, strlen(p), s, 0)) = strlen(p) + strlen(s)
         /\ TwoJoined(Text(Strcpy(p, strlen(p), s, 0)), Text(p), Text(s))
<1> DEFINE m == strlen(p)
           n == strlen(s)
           r == Strcpy(p, m, s, 0)
           zero == 0
<1>1. m \in Nat /\ n \in Nat /\ m + n < NotesWidth - 1 /\ NotesWidth \in Nat
  BY StrlenIs, NotesAssumption
<1>2. /\ zero \in Nat /\ m <= strlen(p) /\ zero <= strlen(s)
      /\ m + (strlen(s) - zero) < NotesWidth /\ r = Strcpy(p, m, s, zero) /\ zero = 0
  BY <1>1
<1> HIDE DEF zero, r
<1>3. /\ r \in NoteString /\ strlen(r) = m + (strlen(s) - zero)
      /\ \A k \in 0 .. m - 1 : r[k] = p[k]
      /\ \A j \in 0 .. strlen(s) - zero - 1 : r[m + j] = s[zero + j]
  BY <1>1, <1>2, StrcpyIs
<1>4. /\ strlen(r) = m + n
      /\ \A j \in 0 .. n - 1 : r[m + j] = s[j]
  <2>1. n = strlen(s)
    OBVIOUS
  <2> HIDE DEF m, n
  <2>2. n - zero = n /\ \A j \in 0 .. n - 1 : zero + j = j
    BY <1>1, <1>2
  <2> QED BY <1>3, <2>1, <2>2
<1>5. /\ Len(Text(r)) = m + n /\ \A i \in 1 .. m + n : Text(r)[i] = r[i - 1]
      /\ Len(Text(p)) = m /\ \A i \in 1 .. m : Text(p)[i] = p[i - 1]
      /\ Len(Text(s)) = n /\ \A i \in 1 .. n : Text(s)[i] = s[i - 1]
  BY <1>3, <1>4, StringIs
<1> HIDE DEF m, n
<1>6. ASSUME NEW i \in 1 .. m PROVE Text(r)[i] = Text(p)[i]
  <2>1. i \in 1 .. m + n /\ i - 1 \in 0 .. m - 1
    BY <1>1
  <2> QED BY <1>3, <1>5, <2>1
<1>7. ASSUME NEW i \in 1 .. n PROVE Text(r)[m + i] = Text(s)[i]
  <2>1. m + i \in 1 .. m + n /\ i - 1 \in 0 .. n - 1 /\ m + i - 1 = m + (i - 1)
    BY <1>1
  <2> QED BY <1>4, <1>5, <2>1
<1>8. TwoJoined(Text(r), Text(p), Text(s))
  BY <1>5, <1>6, <1>7 DEF TwoJoined
<1> QED BY <1>3, <1>4, <1>8 DEF m, n, r

(* A character taken out. *)
LEMMA EraseAtIs ==
  ASSUME NEW s \in NoteString, NEW x \in Nat \ {0}, x <= strlen(s)
  PROVE  /\ EraseAt(s, x - 1) \in NoteString /\ strlen(EraseAt(s, x - 1)) = strlen(s) - 1
         /\ CharErased(Text(EraseAt(s, x - 1)), Text(s), x)
<1> DEFINE n == strlen(s)
           r == EraseAt(s, x - 1)
<1>1. /\ NotesWidth \in Nat /\ n \in Nat /\ n < NotesWidth /\ x <= n /\ s[n] = NUL
      /\ s \in [NoteCell -> NoteCellChar] /\ \A k \in NoteCell : k < n => s[k] # NUL
  BY StrlenIs, NotesAssumption
<1>2. r = [k \in NoteCell |-> IF k \in x - 1 .. n - 1 THEN s[k + 1] ELSE s[k]]
  BY Zenon DEF EraseAt
<1>3. Len(Text(s)) = n /\ \A i \in 1 .. n : Text(s)[i] = s[i - 1]
  BY StringIs
<1> HIDE DEF n, r
<1>4. \A k \in NoteCell : k \in x - 1 .. n - 1 => k + 1 \in NoteCell
  BY <1>1 DEF NoteCell
<1>5. r \in [NoteCell -> NoteCellChar]
  BY <1>1, <1>2, <1>4
<1>6. /\ \A k \in NoteCell : k \in x - 1 .. n - 1 => r[k] = s[k + 1]
      /\ \A k \in NoteCell : k \notin x - 1 .. n - 1 => r[k] = s[k]
  BY <1>2
<1>7. n - 1 \in NoteCell /\ r[n - 1] = NUL
  <2>1. n - 1 \in NoteCell /\ n - 1 \in x - 1 .. n - 1 /\ n - 1 + 1 = n
    BY <1>1 DEF NoteCell
  <2> QED BY <1>1, <1>6, <2>1
<1>8. ASSUME NEW k \in NoteCell, k < n - 1 PROVE r[k] # NUL
  <2>1. CASE k \in x - 1 .. n - 1
    <3>1. k + 1 \in NoteCell /\ k + 1 < n
      BY <1>1, <1>4, <1>8, <2>1 DEF NoteCell
    <3> QED BY <1>1, <1>6, <2>1, <3>1
  <2>2. CASE k \notin x - 1 .. n - 1
    <3>1. k < n
      BY <1>1, <1>8 DEF NoteCell
    <3> QED BY <1>1, <1>6, <2>2, <3>1
  <2> QED BY <2>1, <2>2
<1>9. r \in NoteString /\ strlen(r) = n - 1
  BY <1>5, <1>7, <1>8, StrlenOf
<1>10. Len(Text(r)) = n - 1 /\ \A i \in 1 .. n - 1 : Text(r)[i] = r[i - 1]
  BY <1>9, StringIs
<1>11. ASSUME NEW i \in 1 .. x - 1 PROVE Text(r)[i] = Text(s)[i]
  <2>1. i \in 1 .. n - 1 /\ i \in 1 .. n /\ i - 1 \in NoteCell /\ i - 1 \notin x - 1 .. n - 1
    BY <1>1 DEF NoteCell
  <2> QED BY <1>3, <1>6, <1>10, <2>1
<1>12. ASSUME NEW i \in x .. n - 1 PROVE Text(r)[i] = Text(s)[i + 1]
  <2>1. /\ i \in 1 .. n - 1 /\ i + 1 \in 1 .. n /\ i - 1 \in NoteCell /\ i - 1 \in x - 1 .. n - 1
        /\ i - 1 + 1 = i + 1 - 1
    BY <1>1 DEF NoteCell
  <2>2. r[i - 1] = s[i + 1 - 1]
    BY <1>6, <2>1
  <2> QED BY <1>3, <1>10, <2>1, <2>2
<1>13. CharErased(Text(r), Text(s), x)
  BY <1>3, <1>10, <1>11, <1>12 DEF CharErased
<1> QED BY <1>9, <1>13 DEF r, n

(* A character put in. *)
LEMMA WithCharAtIs ==
  ASSUME NEW s \in NoteString, NEW x \in Nat, x <= strlen(s), NEW c \in NoteChar,
         strlen(s) < NotesWidth - 1
  PROVE  /\ WithCharAt(s, x, c) \in NoteString /\ strlen(WithCharAt(s, x, c)) = strlen(s) + 1
         /\ CharInserted(Text(WithCharAt(s, x, c)), Text(s), x, c)
<1> DEFINE n == strlen(s)
           r == WithCharAt(s, x, c)
<1>1. /\ NotesWidth \in Nat /\ n \in Nat /\ n < NotesWidth - 1 /\ x <= n /\ s[n] = NUL
      /\ s \in [NoteCell -> NoteCellChar] /\ \A k \in NoteCell : k < n => s[k] # NUL
      /\ c \in NoteCellChar /\ c # NUL
  BY StrlenIs, NotesAssumption DEF NoteCellChar
<1>2. r = [k \in NoteCell |-> IF k = x THEN c
                              ELSE IF k \in x + 1 .. n + 1 THEN s[k - 1] ELSE s[k]]
  BY Zenon DEF WithCharAt
<1>3. Len(Text(s)) = n /\ \A i \in 1 .. n : Text(s)[i] = s[i - 1]
  BY StringIs
<1> HIDE DEF n, r
<1>4. \A k \in NoteCell : k \in x + 1 .. n + 1 => k - 1 \in NoteCell /\ k # x
  BY <1>1 DEF NoteCell
<1>5. r \in [NoteCell -> NoteCellChar]
  BY <1>1, <1>2, <1>4
<1>6. /\ \A k \in NoteCell : k = x => r[k] = c
      /\ \A k \in NoteCell : k \in x + 1 .. n + 1 => r[k] = s[k - 1]
      /\ \A k \in NoteCell : k # x /\ k \notin x + 1 .. n + 1 => r[k] = s[k]
  BY <1>2, <1>4
<1>60. x \in NoteCell /\ r[x] = c
  <2>1. x \in NoteCell
    BY <1>1 DEF NoteCell
  <2> QED BY <1>6, <2>1
<1>7. n + 1 \in NoteCell /\ r[n + 1] = NUL
  <2>1. n + 1 \in NoteCell /\ n + 1 \in x + 1 .. n + 1 /\ n + 1 - 1 = n
    BY <1>1 DEF NoteCell
  <2> QED BY <1>1, <1>6, <2>1
<1>8. ASSUME NEW k \in NoteCell, k < n + 1 PROVE r[k] # NUL
  <2>1. CASE k \in x + 1 .. n + 1
    <3>1. k - 1 \in NoteCell /\ k - 1 < n
      BY <1>1, <1>4, <1>8, <2>1 DEF NoteCell
    <3> QED BY <1>1, <1>6, <2>1, <3>1
  <2>2. CASE k = x
    BY <1>1, <1>60, <2>2
  <2>3. CASE k # x /\ k \notin x + 1 .. n + 1
    <3>1. k < n
      BY <1>1, <1>8, <2>3 DEF NoteCell
    <3> QED BY <1>1, <1>6, <2>3, <3>1
  <2> QED BY <2>1, <2>2, <2>3
<1>9. r \in NoteString /\ strlen(r) = n + 1
  BY <1>5, <1>7, <1>8, StrlenOf
<1>10. Len(Text(r)) = n + 1 /\ \A i \in 1 .. n + 1 : Text(r)[i] = r[i - 1]
  BY <1>9, StringIs
<1>11. ASSUME NEW i \in 1 .. x PROVE Text(r)[i] = Text(s)[i]
  <2>1. /\ i \in 1 .. n + 1 /\ i \in 1 .. n /\ i - 1 \in NoteCell /\ i - 1 # x
        /\ i - 1 \notin x + 1 .. n + 1
    BY <1>1 DEF NoteCell
  <2>2. r[i - 1] = s[i - 1]
    BY <1>6, <2>1
  <2> QED BY <1>3, <1>10, <2>1, <2>2
<1>12. ASSUME NEW i \in x + 2 .. n + 1 PROVE Text(r)[i] = Text(s)[i - 1]
  <2>1. /\ i \in 1 .. n + 1 /\ i - 1 \in 1 .. n /\ i - 1 \in NoteCell
        /\ i - 1 \in x + 1 .. n + 1
    BY <1>1 DEF NoteCell
  <2>2. r[i - 1] = s[i - 1 - 1]
    BY <1>6, <2>1
  <2> QED BY <1>3, <1>10, <2>1, <2>2
<1>13. Text(r)[x + 1] = c
  <2>1. x + 1 \in 1 .. n + 1 /\ x + 1 - 1 = x
    BY <1>1
  <2> QED BY <1>10, <1>60, <2>1
<1>14. CharInserted(Text(r), Text(s), x, c)
  BY <1>3, <1>10, <1>11, <1>12, <1>13 DEF CharInserted
<1> QED BY <1>9, <1>14 DEF r, n

(* A string cut in two: the second half is copied over a line d. *)
LEMMA CutInTwo ==
  ASSUME NEW s \in NoteString, NEW d \in NoteString, NEW x \in Nat, x <= strlen(s)
  PROVE  /\ [s EXCEPT ![x] = NUL] \in NoteString /\ strlen([s EXCEPT ![x] = NUL]) = x
         /\ Strcpy(Strcpy(d, 0, s, 0), 0, s, x) \in NoteString
         /\ TwoJoined(Text(s), Text([s EXCEPT ![x] = NUL]),
                      Text(Strcpy(Strcpy(d, 0, s, 0), 0, s, x)))
<1> DEFINE n == strlen(s)
           h == [s EXCEPT ![x] = NUL]
           d1 == Strcpy(d, 0, s, 0)
           r == Strcpy(d1, 0, s, x)
           zero == 0
<1>1. /\ NotesWidth \in Nat /\ n \in Nat /\ n < NotesWidth /\ x <= n
      /\ s \in [NoteCell -> NoteCellChar] /\ \A k \in NoteCell : k < n => s[k] # NUL
  BY StrlenIs, NotesAssumption
<1>2. d1 \in NoteString
  BY CopyIs
<1> HIDE DEF d1
<1>3. /\ zero \in Nat /\ zero <= strlen(d1) /\ zero + (n - x) < NotesWidth
      /\ r = Strcpy(d1, zero, s, x)
  <2>1. strlen(d1) \in Nat
    BY <1>2, StrlenIs
  <2> HIDE DEF n
  <2> QED BY <1>1, <2>1
<1> HIDE DEF r
<1>30. zero = 0
  OBVIOUS
<1> HIDE DEF zero
<1>4. /\ r \in NoteString /\ strlen(r) = zero + (n - x)
      /\ \A j \in 0 .. n - x - 1 : r[zero + j] = s[x + j]
  BY <1>1, <1>2, <1>3, StrcpyIs
<1> HIDE DEF n
<1>5. /\ strlen(r) = n - x /\ \A j \in 0 .. n - x - 1 : r[j] = s[x + j]
  <2>1. zero + (n - x) = n - x /\ \A j \in 0 .. n - x - 1 : zero + j = j
    BY <1>1, <1>30
  <2> QED BY <1>4, <2>1
<1>6. x \in NoteCell /\ NUL \in NoteCellChar
  BY <1>1 DEF NoteCell, NoteCellChar
<1>7. /\ h \in [NoteCell -> NoteCellChar] /\ h[x] = NUL
      /\ \A k \in NoteCell : k # x => h[k] = s[k]
  BY <1>1, <1>6
<1> HIDE DEF h
<1>8. ASSUME NEW k \in NoteCell, k < x PROVE h[k] # NUL
  <2>1. k # x /\ k < n
    BY <1>1, <1>8 DEF NoteCell
  <2> QED BY <1>1, <1>7, <2>1
<1>9. h \in NoteString /\ strlen(h) = x
  BY <1>6, <1>7, <1>8, StrlenOf
<1>10. /\ Len(Text(s)) = n /\ \A i \in 1 .. n : Text(s)[i] = s[i - 1]
       /\ Len(Text(h)) = x /\ \A i \in 1 .. x : Text(h)[i] = h[i - 1]
       /\ Len(Text(r)) = n - x /\ \A i \in 1 .. n - x : Text(r)[i] = r[i - 1]
  BY <1>4, <1>5, <1>9, StringIs DEF n
<1>11. ASSUME NEW i \in 1 .. x PROVE Text(s)[i] = Text(h)[i]
  <2>1. i \in 1 .. n /\ i - 1 \in NoteCell /\ i - 1 # x
    BY <1>1 DEF NoteCell
  <2> QED BY <1>7, <1>10, <2>1
<1>12. ASSUME NEW i \in 1 .. n - x PROVE Text(s)[x + i] = Text(r)[i]
  <2>1. x + i \in 1 .. n /\ i - 1 \in 0 .. n - x - 1 /\ x + i - 1 = x + (i - 1)
    BY <1>1
  <2>2. r[i - 1] = s[x + i - 1]
    BY <1>5, <2>1
  <2> QED BY <1>10, <2>1, <2>2
<1>13. n = x + (n - x)
  BY <1>1
<1>14. TwoJoined(Text(s), Text(h), Text(r))
  BY <1>10, <1>11, <1>12, <1>13 DEF TwoJoined
<1> QED BY <1>4, <1>9, <1>14 DEF r, d1, h, zero

----------------------------------------------------------------------------
(* The notes as a text. *)
NoteNow == NotesShown(note, note_count)
NoteNew == NotesShown(note', note_count')

NotesInv ==
  /\ note \in [NoteLine -> NoteString]
  /\ note_count \in 1 .. NotesLines
  /\ cursor_y \in 1 .. note_count
  /\ cursor_x \in 0 .. strlen(note[cursor_y])

LEMMA NoteTextIs ==
  NoteNow = [i \in 1 .. note_count |-> [k \in 1 .. strlen(note[i]) |-> note[i][k - 1]]]
BY DEF NoteNow, NotesShown, Text, Reading

LEMMA NoteTextNext ==
  NoteNew = [i \in 1 .. note_count |-> [k \in 1 .. strlen(note[i]) |-> note[i][k - 1]]]'
BY DEF NoteNew, NotesShown, Text, Reading

NoteLeft == SubSeq(NoteNow[cursor_y], 1, cursor_x)
NoteRight == SubSeq(NoteNow[cursor_y], cursor_x + 1, Len(NoteNow[cursor_y]))

LEMMA NoteAbstract ==
  /\ NoteText!Row = cursor_y /\ NoteText!Col = cursor_x
  /\ NoteText!Before = NoteLeft /\ NoteText!After = NoteRight
  /\ \A from, to, new : NoteText!Splice(from, to, new) = Spliced(NoteNow, from, to, new)
<1>1. NoteText!Row = cursor_y
  BY DEF NoteText!Row
<1>2. NoteText!Col = cursor_x
  BY DEF NoteText!Col
<1>3. NoteText!Before = NoteLeft
  BY <1>1, <1>2, NoteTextIs, Zenon DEF NoteText!Before, NoteLeft
<1>4. NoteText!After = NoteRight
  BY <1>1, <1>2, NoteTextIs, Zenon DEF NoteText!After, NoteRight
<1>5. \A from, to, new : NoteText!Splice(from, to, new) = Spliced(NoteNow, from, to, new)
  BY NoteTextIs, Zenon DEF NoteText!Splice, Spliced
<1> QED BY <1>1, <1>2, <1>3, <1>4, <1>5

LEMMA NoteInserts ==
  ASSUME NEW c,
         NoteNew = Spliced(NoteNow, cursor_y, cursor_y, <<NoteLeft \o <<c>> \o NoteRight>>),
         cursor_y' = cursor_y, cursor_x' = cursor_x + 1
  PROVE  NoteText!Insert(c)
<1>1. NoteNew = NoteText!Splice(NoteText!Row, NoteText!Row,
                                <<NoteText!Before \o <<c>> \o NoteText!After>>)
  BY NoteAbstract, Zenon
<1>2. <<cursor_y, cursor_x>>' = <<NoteText!Row, NoteText!Col + 1>>
  BY NoteAbstract
<1> QED BY <1>1, <1>2, NoteTextNext, Zenon DEF NoteText!Insert

LEMMA NoteErases ==
  ASSUME cursor_x > 0,
         NoteNew = Spliced(NoteNow, cursor_y, cursor_y, <<Front(NoteLeft) \o NoteRight>>),
         cursor_y' = cursor_y, cursor_x' = cursor_x - 1
  PROVE  NoteText!DeleteBack
<1>1. \A s : NoteText!Front(s) = Front(s)
  BY DEF NoteText!Front, Front
<1>2. NoteNew = NoteText!Splice(NoteText!Row, NoteText!Row,
                                <<NoteText!Front(NoteText!Before) \o NoteText!After>>)
  BY <1>1, NoteAbstract, Zenon
<1>3. <<cursor_y, cursor_x>>' = <<NoteText!Row, NoteText!Col - 1>>
  BY NoteAbstract
<1>4. NoteText!Col > 0
  BY NoteAbstract
<1> QED BY <1>2, <1>3, <1>4, NoteTextNext, Zenon DEF NoteText!DeleteBack

LEMMA NoteJoins ==
  ASSUME cursor_x = 0, cursor_y > 1,
         NoteNew = Spliced(NoteNow, cursor_y - 1, cursor_y,
                           <<NoteNow[cursor_y - 1] \o NoteNow[cursor_y]>>),
         cursor_y' = cursor_y - 1, cursor_x' = Len(NoteNow[cursor_y - 1])
  PROVE  NoteText!JoinLines
<1> DEFINE t == [i \in 1 .. note_count |-> [k \in 1 .. strlen(note[i]) |-> note[i][k - 1]]]
<1>1. NoteNow = t
  BY NoteTextIs
<1> HIDE DEF t
<1>2. NoteNew = NoteText!Splice(NoteText!Row - 1, NoteText!Row,
                                <<t[NoteText!Row - 1] \o t[NoteText!Row]>>)
  BY <1>1, NoteAbstract
<1>3. <<cursor_y, cursor_x>>' = <<NoteText!Row - 1, Len(t[NoteText!Row - 1])>>
  BY <1>1, NoteAbstract
<1>4. NoteText!Col = 0 /\ NoteText!Row > 1
  BY NoteAbstract
<1> QED BY <1>2, <1>3, <1>4, NoteTextNext, Zenon DEF NoteText!JoinLines, t

LEMMA NoteSplits ==
  ASSUME NoteNew = Spliced(NoteNow, cursor_y, cursor_y, <<NoteLeft, NoteRight>>),
         cursor_y' = cursor_y + 1, cursor_x' = 0
  PROVE  NoteText!SplitLine
<1>1. NoteNew = NoteText!Splice(NoteText!Row, NoteText!Row, <<NoteText!Before, NoteText!After>>)
  BY NoteAbstract
<1>2. <<cursor_y, cursor_x>>' = <<NoteText!Row + 1, 0>>
  BY NoteAbstract
<1> QED BY <1>1, <1>2, NoteTextNext, Zenon DEF NoteText!SplitLine

LEMMA NotePositionIs ==
  ASSUME NEW t, NEW i \in 1 .. Len(t), NEW x \in 0 .. Len(t[i])
  PROVE  <<i, x>> \in NoteText!Positions(t)
BY DEF NoteText!Positions

LEMMA NoteMoves ==
  ASSUME NoteNew = NoteNow, <<cursor_y', cursor_x'>> \in NoteText!Positions(NoteNow)
  PROVE  NoteText!MoveCursor
BY NoteTextIs, NoteTextNext, Zenon DEF NoteText!MoveCursor

----------------------------------------------------------------------------
(* One line, two lines and half a line changed. *)
WithNote(ns, y, r) == [ns EXCEPT ![y] = r]

NoteEdited(ms, ns, n, y, r) ==
  ns \in [NoteLine -> NoteString] /\ r \in NoteString /\ y \in 1 .. n /\ ms = WithNote(ns, y, r)

LEMMA NoteChanged ==
  ASSUME NEW n \in 0 .. NotesLines, NEW ns, NEW y, NEW r, NEW ms, NoteEdited(ms, ns, n, y, r)
  PROVE  /\ ms \in [NoteLine -> NoteString] /\ ms[y] = r
         /\ NotesShown(ms, n) \in Seq(Seq(NoteCellChar))
         /\ SameBut(NotesShown(ms, n), NotesShown(ns, n), y)
         /\ NotesShown(ms, n)[y] = Text(r)
<1>0. ns \in [NoteLine -> NoteString] /\ r \in NoteString /\ y \in 1 .. n /\ ms = WithNote(ns, y, r)
  BY DEF NoteEdited
<1>1. ms \in [NoteLine -> NoteString]
  BY <1>0 DEF WithNote
<1>2. \A i \in NoteLine : ms[i] = IF i = y THEN r ELSE ns[i]
  BY <1>0 DEF WithNote
<1>3. /\ Len(NotesShown(ns, n)) = n /\ Len(NotesShown(ms, n)) = n
      /\ NotesShown(ms, n) \in Seq(Seq(NoteCellChar))
      /\ \A i \in 1 .. n : /\ i \in NoteLine
                           /\ NotesShown(ns, n)[i] = Text(ns[i])
                           /\ NotesShown(ms, n)[i] = Text(ms[i])
  BY <1>0, <1>1, NotesShownIs
<1>4. SameBut(NotesShown(ms, n), NotesShown(ns, n), y)
  BY <1>2, <1>3 DEF SameBut
<1>5. NotesShown(ms, n)[y] = Text(r) /\ ms[y] = r
  BY <1>0, <1>2, <1>3
<1> QED BY <1>1, <1>3, <1>4, <1>5

NotesMerged(ns, n, y) ==
  [i \in NoteLine |-> IF i = y - 1 THEN Strcpy(ns[y - 1], strlen(ns[y - 1]), ns[y], 0)
                      ELSE IF i \in y .. n - 1 THEN Strcpy(ns[i], 0, ns[i + 1], 0) ELSE ns[i]]

LEMMA NotesMergedIs ==
  ASSUME NEW ns \in [NoteLine -> NoteString], NEW n \in 0 .. NotesLines, NEW y \in 2 .. n,
         strlen(ns[y - 1]) + strlen(ns[y]) < NotesWidth - 1
  PROVE  /\ NotesMerged(ns, n, y) \in [NoteLine -> NoteString]
         /\ strlen(NotesMerged(ns, n, y)[y - 1]) = strlen(ns[y - 1]) + strlen(ns[y])
         /\ NotesShown(NotesMerged(ns, n, y), n - 1)
              = Spliced(NotesShown(ns, n), y - 1, y,
                        <<NotesShown(ns, n)[y - 1] \o NotesShown(ns, n)[y]>>)
<1> DEFINE ms == NotesMerged(ns, n, y)
           r == Strcpy(ns[y - 1], strlen(ns[y - 1]), ns[y], 0)
           C(i) == Strcpy(ns[i], 0, ns[i + 1], 0)
           t == NotesShown(ns, n)
           u == NotesShown(ms, n - 1)
<1>1. /\ NotesLines \in Nat /\ n \in Nat /\ n <= NotesLines /\ y \in 2 .. n
      /\ n - 1 \in 0 .. NotesLines
      /\ y \in NoteLine /\ y - 1 \in NoteLine
  BY NotesAssumption DEF NoteLine
<1>2. ns[y - 1] \in NoteString /\ ns[y] \in NoteString
  BY <1>1
<1>3. /\ r \in NoteString /\ strlen(r) = strlen(ns[y - 1]) + strlen(ns[y])
      /\ TwoJoined(Text(r), Text(ns[y - 1]), Text(ns[y]))
  BY <1>2, StrcatIs
<1> HIDE DEF r
<1>4. \A i \in NoteLine : i \in y .. n - 1 => i + 1 \in NoteLine
  BY <1>1 DEF NoteLine
<1>40. ASSUME NEW i \in NoteLine, i \in y .. n - 1
       PROVE  C(i) \in NoteString /\ Text(C(i)) = Text(ns[i + 1])
  <2>1. ns[i] \in NoteString /\ ns[i + 1] \in NoteString
    BY <1>4, <1>40
  <2> QED BY <2>1, CopyIs
<1>50. ms = [i \in NoteLine |-> IF i = y - 1 THEN r ELSE IF i \in y .. n - 1 THEN C(i) ELSE ns[i]]
  BY DEF NotesMerged, r
<1> HIDE DEF ms, C
<1>5. ms \in [NoteLine -> NoteString]
  BY <1>3, <1>40, <1>50
<1>6. /\ ms[y - 1] = r
      /\ \A i \in NoteLine : i \in y .. n - 1 => ms[i] = C(i)
      /\ \A i \in NoteLine : i < y - 1 => ms[i] = ns[i]
  <2>1. y - 1 \notin y .. n - 1 /\ \A i \in NoteLine : i < y - 1 => i # y - 1 /\ i \notin y .. n - 1
    BY <1>1 DEF NoteLine
  <2>2. \A i \in NoteLine : i \in y .. n - 1 => i # y - 1
    BY <1>1 DEF NoteLine
  <2> QED BY <1>1, <1>50, <2>1, <2>2, Zenon
<1>7. /\ t \in Seq(Seq(NoteCellChar)) /\ u \in Seq(Seq(NoteCellChar)) /\ Len(t) = n /\ Len(u) = n - 1
      /\ \A i \in 1 .. n : i \in NoteLine /\ t[i] = Text(ns[i])
      /\ \A i \in 1 .. n - 1 : u[i] = Text(ms[i])
  BY <1>1, <1>5, NotesShownIs
<1> HIDE DEF t, u
<1>8. y \in 2 .. Len(t) /\ Len(u) = Len(t) - 1
  BY <1>1, <1>7
<1>9. TwoJoined(u[y - 1], t[y - 1], t[y])
  <2>1. y - 1 \in 1 .. n - 1 /\ y - 1 \in 1 .. n /\ y \in 1 .. n
    BY <1>1
  <2> QED BY <1>3, <1>6, <1>7, <2>1
<1>10. ASSUME NEW i \in 1 .. y - 2 PROVE u[i] = t[i]
  <2>1. i \in 1 .. n - 1 /\ i \in 1 .. n /\ i < y - 1
    BY <1>1
  <2> QED BY <1>6, <1>7, <2>1
<1>11. ASSUME NEW i \in y .. Len(t) - 1 PROVE u[i] = t[i + 1]
  <2>0. i \in y .. n - 1
    BY <1>7
  <2>1. i \in 1 .. n - 1 /\ i \in 1 .. n /\ i + 1 \in 1 .. n /\ i \in y .. n - 1
    BY <1>1, <2>0
  <2> QED BY <1>6, <1>7, <1>40, <2>1
<1>12. u = Spliced(t, y - 1, y, <<t[y - 1] \o t[y]>>)
  BY <1>7, <1>8, <1>9, <1>10, <1>11, TextJoined
<1> QED BY <1>1, <1>3, <1>5, <1>6, <1>12 DEF t, u, ms

NotesSplit(ns, n, y, x) ==
  [i \in NoteLine |-> IF i = y THEN [ns[y] EXCEPT ![x] = NUL]
                      ELSE IF i = y + 1 THEN Strcpy(Strcpy(ns[i], 0, ns[y], 0), 0, ns[y], x)
                      ELSE IF i \in y + 2 .. n + 1 THEN Strcpy(ns[i], 0, ns[i - 1], 0) ELSE ns[i]]

LEMMA NotesSplitIs ==
  ASSUME NEW ns \in [NoteLine -> NoteString], NEW n \in 0 .. NotesLines, NEW y \in 1 .. n,
         n < NotesLines, NEW x \in Nat, x <= strlen(ns[y])
  PROVE  /\ NotesSplit(ns, n, y, x) \in [NoteLine -> NoteString]
         /\ NotesShown(NotesSplit(ns, n, y, x), n + 1)
              = Spliced(NotesShown(ns, n), y, y,
                        <<SubSeq(NotesShown(ns, n)[y], 1, x),
                          SubSeq(NotesShown(ns, n)[y], x + 1, Len(NotesShown(ns, n)[y]))>>)
<1> DEFINE ms == NotesSplit(ns, n, y, x)
           h == [ns[y] EXCEPT ![x] = NUL]
           R(i) == Strcpy(Strcpy(ns[i], 0, ns[y], 0), 0, ns[y], x)
           C(i) == Strcpy(ns[i], 0, ns[i - 1], 0)
           t == NotesShown(ns, n)
           u == NotesShown(ms, n + 1)
<1>1. /\ NotesLines \in Nat /\ n \in Nat /\ n < NotesLines /\ y \in 1 .. n
      /\ n + 1 \in 0 .. NotesLines
      /\ y \in NoteLine /\ y + 1 \in NoteLine
  BY NotesAssumption DEF NoteLine
<1>2. ns[y] \in NoteString /\ ns[y + 1] \in NoteString /\ strlen(ns[y]) \in Nat
  <2>1. ns[y] \in NoteString /\ ns[y + 1] \in NoteString
    BY <1>1
  <2> QED BY <2>1, StrlenIs
<1>3. /\ h \in NoteString /\ strlen(h) = x /\ R(y + 1) \in NoteString
      /\ TwoJoined(Text(ns[y]), Text(h), Text(R(y + 1)))
  BY <1>2, CutInTwo
<1> HIDE DEF h
<1>4. \A i \in NoteLine : i \in y + 2 .. n + 1 => i - 1 \in NoteLine
  BY <1>1 DEF NoteLine
<1>40. ASSUME NEW i \in NoteLine, i \in y + 2 .. n + 1
       PROVE  C(i) \in NoteString /\ Text(C(i)) = Text(ns[i - 1])
  <2>1. ns[i] \in NoteString /\ ns[i - 1] \in NoteString
    BY <1>4, <1>40
  <2> QED BY <2>1, CopyIs
<1>50. ms = [i \in NoteLine |-> IF i = y THEN h ELSE IF i = y + 1 THEN R(i)
                                ELSE IF i \in y + 2 .. n + 1 THEN C(i) ELSE ns[i]]
  BY DEF NotesSplit, h
<1> HIDE DEF ms, C, R
<1>5. ms \in [NoteLine -> NoteString]
  BY <1>3, <1>40, <1>50
<1>6. /\ ms[y] = h /\ ms[y + 1] = R(y + 1)
      /\ \A i \in NoteLine : i \in y + 2 .. n + 1 => ms[i] = C(i)
      /\ \A i \in NoteLine : i < y => ms[i] = ns[i]
  <2>1. y + 1 # y /\ \A i \in NoteLine : i < y => i # y /\ i # y + 1 /\ i \notin y + 2 .. n + 1
    BY <1>1 DEF NoteLine
  <2>2. \A i \in NoteLine : i \in y + 2 .. n + 1 => i # y /\ i # y + 1
    BY <1>1 DEF NoteLine
  <2> QED BY <1>1, <1>50, <2>1, <2>2, Zenon
<1>7. /\ t \in Seq(Seq(NoteCellChar)) /\ u \in Seq(Seq(NoteCellChar)) /\ Len(t) = n /\ Len(u) = n + 1
      /\ \A i \in 1 .. n : i \in NoteLine /\ t[i] = Text(ns[i])
      /\ \A i \in 1 .. n + 1 : i \in NoteLine /\ u[i] = Text(ms[i])
  BY <1>1, <1>5, NotesShownIs
<1>70. Len(Text(ns[y])) = strlen(ns[y]) /\ Len(Text(h)) = strlen(h)
  BY <1>2, <1>3, StringIs
<1> HIDE DEF t, u
<1>8. y \in 1 .. Len(t) /\ Len(u) = Len(t) + 1
  BY <1>1, <1>7
<1>9. TwoJoined(t[y], u[y], u[y + 1]) /\ Len(u[y]) = x /\ Len(t[y]) = strlen(ns[y])
  <2>1. y \in 1 .. n + 1 /\ y + 1 \in 1 .. n + 1 /\ y \in 1 .. n
    BY <1>1
  <2> QED BY <1>3, <1>6, <1>7, <1>70, <2>1
<1>90. x \in 0 .. Len(t[y])
  BY <1>2, <1>9
<1>10. ASSUME NEW i \in 1 .. y - 1 PROVE u[i] = t[i]
  <2>1. i \in 1 .. n + 1 /\ i \in 1 .. n /\ i < y
    BY <1>1
  <2> QED BY <1>6, <1>7, <2>1
<1>11. ASSUME NEW i \in y + 2 .. Len(t) + 1 PROVE u[i] = t[i - 1]
  <2>0. i \in y + 2 .. n + 1
    BY <1>7
  <2>1. i \in 1 .. n + 1 /\ i - 1 \in 1 .. n /\ i \in y + 2 .. n + 1
    BY <1>1, <2>0
  <2> QED BY <1>6, <1>7, <1>40, <2>1
<1>12. u = Spliced(t, y, y, <<SubSeq(t[y], 1, x), SubSeq(t[y], x + 1, Len(t[y]))>>)
  BY <1>7, <1>8, <1>9, <1>90, <1>10, <1>11, TextSplit
<1> QED BY <1>1, <1>5, <1>12 DEF t, u, ms

----------------------------------------------------------------------------
(* The steps. *)
LEMMA NoteNowIs ==
  ASSUME NotesInv
  PROVE  /\ note \in [NoteLine -> NoteString]
         /\ note_count \in 0 .. NotesLines /\ note_count \in 1 .. NotesLines /\ note_count \in Nat
         /\ cursor_y \in 1 .. note_count /\ cursor_x \in Nat /\ cursor_x <= strlen(note[cursor_y])
         /\ NoteNow \in Seq(Seq(NoteCellChar)) /\ Len(NoteNow) = note_count
         /\ \A i \in 1 .. note_count :
              /\ i \in NoteLine /\ note[i] \in NoteString /\ strlen(note[i]) \in Nat
              /\ NoteNow[i] = Text(note[i]) /\ Len(NoteNow[i]) = strlen(note[i])
<1>1. /\ note \in [NoteLine -> NoteString]
      /\ note_count \in 0 .. NotesLines /\ note_count \in 1 .. NotesLines /\ note_count \in Nat
      /\ cursor_y \in 1 .. note_count
  BY NotesAssumption DEF NotesInv
<1>2. /\ NoteNow \in Seq(Seq(NoteCellChar)) /\ Len(NoteNow) = note_count
      /\ \A i \in 1 .. note_count :
           /\ i \in NoteLine /\ note[i] \in NoteString
           /\ NoteNow[i] = Text(note[i]) /\ Len(NoteNow[i]) = strlen(note[i])
  BY <1>1, NotesShownIs DEF NoteNow
<1>3. \A s \in NoteString : strlen(s) \in Nat
  BY StrlenIs
<1>4. cursor_x \in Nat /\ cursor_x <= strlen(note[cursor_y])
  <2>1. strlen(note[cursor_y]) \in Nat
    BY <1>1, <1>2, <1>3
  <2>2. cursor_x \in 0 .. strlen(note[cursor_y])
    BY DEF NotesInv
  <2> QED BY <2>1, <2>2
<1> QED BY <1>1, <1>2, <1>3, <1>4

LEMMA TypeNoteStep ==
  ASSUME NotesInv, NEW c \in NoteChar, TypeNote(c)
  PROVE  NotesInv' /\ NoteText!Insert(c)
<1> DEFINE s == note[cursor_y]
           r == WithCharAt(s, cursor_x, c)
<1>1. /\ note \in [NoteLine -> NoteString]
      /\ note_count \in 0 .. NotesLines /\ note_count \in 1 .. NotesLines
      /\ cursor_y \in 1 .. note_count /\ cursor_x \in Nat /\ cursor_x <= strlen(s)
      /\ NoteNow \in Seq(Seq(NoteCellChar)) /\ Len(NoteNow) = note_count
      /\ s \in NoteString /\ strlen(s) \in Nat /\ NoteNow[cursor_y] = Text(s)
      /\ Len(NoteNow[cursor_y]) = strlen(s)
  BY NoteNowIs
<1>2. /\ note' = WithNote(note, cursor_y, r) /\ strlen(s) < NotesWidth - 1
      /\ note_count' = note_count /\ cursor_y' = cursor_y /\ cursor_x' = cursor_x + 1
  BY Zenon DEF TypeNote, here, WithNote
<1> HIDE DEF s
<1>3. /\ r \in NoteString /\ strlen(r) = strlen(s) + 1
      /\ CharInserted(Text(r), Text(s), cursor_x, c)
  BY <1>1, <1>2, WithCharAtIs
<1> HIDE DEF r
<1>4. /\ note' \in [NoteLine -> NoteString] /\ note'[cursor_y] = r
      /\ NoteNew \in Seq(Seq(NoteCellChar)) /\ SameBut(NoteNew, NoteNow, cursor_y)
      /\ NoteNew[cursor_y] = Text(r)
  <2>1. /\ note' \in [NoteLine -> NoteString] /\ note'[cursor_y] = r
        /\ NotesShown(note', note_count) \in Seq(Seq(NoteCellChar))
        /\ SameBut(NotesShown(note', note_count), NotesShown(note, note_count), cursor_y)
        /\ NotesShown(note', note_count)[cursor_y] = Text(r)
    <3>1. note_count \in 0 .. NotesLines /\ NoteEdited(note', note, note_count, cursor_y, r)
      BY <1>1, <1>2, <1>3 DEF NoteEdited
    <3> QED BY <3>1, NoteChanged
  <2> QED BY <1>2, <2>1 DEF NoteNow, NoteNew
<1>5. NoteNew = Spliced(NoteNow, cursor_y, cursor_y, <<NoteLeft \o <<c>> \o NoteRight>>)
  <2>1. /\ cursor_x \in 0 .. Len(NoteNow[cursor_y]) /\ cursor_y \in 1 .. Len(NoteNow)
        /\ c \in NoteCellChar
    BY <1>1 DEF NoteCellChar
  <2>2. CharInserted(NoteNew[cursor_y], NoteNow[cursor_y], cursor_x, c)
    BY <1>1, <1>3, <1>4
  <2>3. /\ NoteNow \in Seq(Seq(NoteCellChar)) /\ NoteNew \in Seq(Seq(NoteCellChar))
        /\ SameBut(NoteNew, NoteNow, cursor_y)
    BY <1>1, <1>4
  <2>4. InsertedAt(NoteNew, NoteNow, cursor_y, cursor_x, c)
    BY <2>1, <2>2, <2>3 DEF InsertedAt
  <2>5. NoteNew = Spliced(NoteNow, cursor_y, cursor_y,
                          <<SubSeq(NoteNow[cursor_y], 1, cursor_x) \o <<c>>
                            \o SubSeq(NoteNow[cursor_y], cursor_x + 1, Len(NoteNow[cursor_y]))>>)
    BY <2>1, <2>3, <2>4, TextInserted
  <2> QED BY <2>5, Zenon DEF NoteLeft, NoteRight
<1>6. NoteText!Insert(c)
  BY <1>2, <1>5, NoteInserts
<1>7. NotesInv'
  <2>1. note_count' \in 1 .. NotesLines /\ cursor_y' \in 1 .. note_count'
    BY <1>1, <1>2
  <2>2. cursor_x' \in 0 .. strlen(r)
    BY <1>1, <1>2, <1>3
  <2>3. note'[cursor_y'] = r
    BY <1>2, <1>4
  <2> QED BY <1>4, <2>1, <2>2, <2>3 DEF NotesInv
<1> QED BY <1>6, <1>7

LEMMA EraseCharStep ==
  ASSUME NotesInv, EraseChar
  PROVE  NotesInv' /\ NoteText!DeleteBack
<1> DEFINE s == note[cursor_y]
           r == EraseAt(s, cursor_x - 1)
<1>1. /\ note \in [NoteLine -> NoteString]
      /\ note_count \in 0 .. NotesLines /\ note_count \in 1 .. NotesLines
      /\ cursor_y \in 1 .. note_count /\ cursor_x \in Nat /\ cursor_x <= strlen(s)
      /\ NoteNow \in Seq(Seq(NoteCellChar)) /\ Len(NoteNow) = note_count
      /\ s \in NoteString /\ strlen(s) \in Nat /\ NoteNow[cursor_y] = Text(s)
      /\ Len(NoteNow[cursor_y]) = strlen(s)
  BY NoteNowIs
<1>2. /\ note' = WithNote(note, cursor_y, r) /\ cursor_x > 0
      /\ note_count' = note_count /\ cursor_y' = cursor_y /\ cursor_x' = cursor_x - 1
  BY Zenon DEF EraseChar, here, WithNote
<1> HIDE DEF s
<1>30. cursor_x \in Nat \ {0}
  BY <1>1, <1>2
<1>3. /\ r \in NoteString /\ strlen(r) = strlen(s) - 1
      /\ CharErased(Text(r), Text(s), cursor_x)
  BY <1>1, <1>30, EraseAtIs
<1> HIDE DEF r
<1>4. /\ note' \in [NoteLine -> NoteString] /\ note'[cursor_y] = r
      /\ NoteNew \in Seq(Seq(NoteCellChar)) /\ SameBut(NoteNew, NoteNow, cursor_y)
      /\ NoteNew[cursor_y] = Text(r)
  <2>1. /\ note' \in [NoteLine -> NoteString] /\ note'[cursor_y] = r
        /\ NotesShown(note', note_count) \in Seq(Seq(NoteCellChar))
        /\ SameBut(NotesShown(note', note_count), NotesShown(note, note_count), cursor_y)
        /\ NotesShown(note', note_count)[cursor_y] = Text(r)
    <3>1. note_count \in 0 .. NotesLines /\ NoteEdited(note', note, note_count, cursor_y, r)
      BY <1>1, <1>2, <1>3 DEF NoteEdited
    <3> QED BY <3>1, NoteChanged
  <2> QED BY <1>2, <2>1 DEF NoteNow, NoteNew
<1>5. NoteNew = Spliced(NoteNow, cursor_y, cursor_y, <<Front(NoteLeft) \o NoteRight>>)
  <2>1. cursor_x \in 1 .. Len(NoteNow[cursor_y]) /\ cursor_y \in 1 .. Len(NoteNow)
    BY <1>1, <1>30
  <2>2. CharErased(NoteNew[cursor_y], NoteNow[cursor_y], cursor_x)
    BY <1>1, <1>3, <1>4
  <2>3. /\ NoteNow \in Seq(Seq(NoteCellChar)) /\ NoteNew \in Seq(Seq(NoteCellChar))
        /\ SameBut(NoteNew, NoteNow, cursor_y)
    BY <1>1, <1>4
  <2> QED BY <2>1, <2>2, <2>3, TextErased DEF NoteLeft, NoteRight
<1>6. NoteText!DeleteBack
  BY <1>2, <1>5, NoteErases
<1>7. NotesInv'
  <2>1. note_count' \in 1 .. NotesLines /\ cursor_y' \in 1 .. note_count'
    BY <1>1, <1>2
  <2>2. cursor_x' \in 0 .. strlen(r)
    BY <1>1, <1>2, <1>3, <1>30
  <2>3. note'[cursor_y'] = r
    BY <1>2, <1>4
  <2> QED BY <1>4, <2>1, <2>2, <2>3 DEF NotesInv
<1> QED BY <1>6, <1>7

LEMMA MergeNotesStep ==
  ASSUME NotesInv, MergeNotes
  PROVE  NotesInv' /\ NoteText!JoinLines
<1> DEFINE m == strlen(note[cursor_y - 1])
           n == strlen(note[cursor_y])
<1>0. cursor_y > 1
  BY Zenon DEF MergeNotes
<1>1. /\ note \in [NoteLine -> NoteString]
      /\ note_count \in 0 .. NotesLines /\ note_count \in 1 .. NotesLines /\ note_count \in Nat
      /\ cursor_y \in 1 .. note_count /\ cursor_x \in Nat
      /\ \A i \in 1 .. note_count :
           strlen(note[i]) \in Nat /\ Len(NoteNow[i]) = strlen(note[i])
  BY NoteNowIs
<1>2. /\ cursor_y - 1 \in 1 .. note_count /\ cursor_y \in 2 .. note_count
      /\ note_count - 1 \in 1 .. NotesLines /\ cursor_y - 1 \in 1 .. note_count - 1
  BY <1>0, <1>1, NotesAssumption
<1>3. m \in Nat /\ n \in Nat /\ Len(NoteNow[cursor_y - 1]) = m
  BY <1>1, <1>2
<1>4. /\ note' = NotesMerged(note, note_count, cursor_y)
      /\ note_count' = note_count - 1 /\ cursor_y' = cursor_y - 1 /\ cursor_x' = m
      /\ cursor_x = 0 /\ m + n < NotesWidth - 1
  BY Zenon DEF MergeNotes, NotesMerged, here, LinesMovedUp
<1>5. /\ note' \in [NoteLine -> NoteString] /\ strlen(note'[cursor_y - 1]) = m + n
      /\ NoteNew = Spliced(NoteNow, cursor_y - 1, cursor_y,
                           <<NoteNow[cursor_y - 1] \o NoteNow[cursor_y]>>)
  BY <1>1, <1>2, <1>4, NotesMergedIs DEF NoteNow, NoteNew
<1> HIDE DEF m, n
<1>6. cursor_x' = Len(NoteNow[cursor_y - 1])
  BY <1>3, <1>4
<1>7. NoteText!JoinLines
  BY <1>0, <1>4, <1>5, <1>6, NoteJoins
<1>8. NotesInv'
  <2>1. /\ cursor_y' \in 1 .. note_count' /\ note_count' \in 1 .. NotesLines
        /\ cursor_x' \in 0 .. m + n
    BY <1>2, <1>3, <1>4
  <2>2. strlen(note'[cursor_y']) = m + n
    BY <1>4, <1>5
  <2> QED BY <1>5, <2>1, <2>2 DEF NotesInv
<1> QED BY <1>7, <1>8

LEMMA EnterNoteStep ==
  ASSUME NotesInv, EnterNote
  PROVE  NotesInv' /\ NoteText!SplitLine
<1>1. /\ note \in [NoteLine -> NoteString]
      /\ note_count \in 0 .. NotesLines /\ note_count \in 1 .. NotesLines /\ note_count \in Nat
      /\ cursor_y \in 1 .. note_count /\ cursor_x \in Nat /\ cursor_x <= strlen(note[cursor_y])
  BY NoteNowIs
<1>2. /\ note' = NotesSplit(note, note_count, cursor_y, cursor_x)
      /\ note_count' = note_count + 1 /\ cursor_y' = cursor_y + 1 /\ cursor_x' = 0
      /\ note_count < NotesLines
  BY Zenon DEF EnterNote, NotesSplit, here
<1>3. /\ note' \in [NoteLine -> NoteString]
      /\ NoteNew = Spliced(NoteNow, cursor_y, cursor_y, <<NoteLeft, NoteRight>>)
  BY <1>1, <1>2, NotesSplitIs DEF NoteNow, NoteNew, NoteLeft, NoteRight
<1>4. NoteText!SplitLine
  BY <1>2, <1>3, NoteSplits
<1>5. note_count' \in 1 .. NotesLines /\ cursor_y' \in 1 .. note_count' /\ cursor_y' \in NoteLine
  BY <1>1, <1>2, NotesAssumption DEF NoteLine
<1>6. strlen(note'[cursor_y']) \in Nat
  <2>1. note'[cursor_y'] \in NoteString
    BY <1>3, <1>5
  <2> QED BY <2>1, StrlenIs
<1>7. cursor_x' \in 0 .. strlen(note'[cursor_y'])
  BY <1>2, <1>6
<1> QED BY <1>3, <1>4, <1>5, <1>7 DEF NotesInv

LEMMA NoteMoveStep ==
  ASSUME NotesInv, UNCHANGED <<note, note_count>>,
         cursor_y' \in 1 .. note_count, cursor_x' \in Nat, cursor_x' <= strlen(note[cursor_y'])
  PROVE  NotesInv' /\ NoteText!MoveCursor
<1>1. /\ note \in [NoteLine -> NoteString] /\ note_count \in 1 .. NotesLines
      /\ Len(NoteNow) = note_count
      /\ strlen(note[cursor_y']) \in Nat /\ Len(NoteNow[cursor_y']) = strlen(note[cursor_y'])
  BY NoteNowIs
<1>2. NoteNew = NoteNow
  BY DEF NoteNew, NoteNow
<1>3. cursor_x' \in 0 .. strlen(note[cursor_y'])
  BY <1>1
<1>4. <<cursor_y', cursor_x'>> \in NoteText!Positions(NoteNow)
  <2>1. cursor_y' \in 1 .. Len(NoteNow) /\ cursor_x' \in 0 .. Len(NoteNow[cursor_y'])
    BY <1>1, <1>3
  <2> QED BY <2>1, NotePositionIs
<1>5. NoteText!MoveCursor
  BY <1>2, <1>4, NoteMoves
<1>6. NotesInv'
  BY <1>1, <1>3 DEF NotesInv
<1> QED BY <1>5, <1>6

LEMMA NoteCursorStep ==
  ASSUME NotesInv, UpOrDown \/ RightOne \/ LeftOne
  PROVE  NotesInv' /\ NoteText!MoveCursor
<1>1. /\ cursor_y \in 1 .. note_count /\ cursor_x \in Nat /\ note_count \in Nat
      /\ cursor_x <= strlen(note[cursor_y])
      /\ \A i \in 1 .. note_count : strlen(note[i]) \in Nat
  BY NoteNowIs
<1>2. UNCHANGED <<note, note_count>>
  BY DEF UpOrDown, RightOne, LeftOne
<1>3. CASE UpOrDown
  <2>1. PICK y \in {cursor_y - 1, cursor_y + 1} \cap 1 .. note_count :
          cursor_y' = y /\ cursor_x' = ClampX(y)
    BY <1>3 DEF UpOrDown
  <2>2. y \in 1 .. note_count /\ cursor_y' = y /\ strlen(note[y]) \in Nat
    BY <1>1, <2>1
  <2>3. /\ cursor_x > strlen(note[y]) => cursor_x' = strlen(note[y])
        /\ ~(cursor_x > strlen(note[y])) => cursor_x' = cursor_x
    BY <2>1, Zenon DEF ClampX
  <2>4. cursor_x' \in Nat /\ cursor_x' <= strlen(note[cursor_y'])
    BY <1>1, <2>2, <2>3
  <2> QED BY <1>2, <2>2, <2>4, NoteMoveStep
<1>4. CASE LeftOne
  <2>1. CASE cursor_x > 0
    <3>1. cursor_x' = cursor_x - 1 /\ cursor_y' = cursor_y
      BY <1>4, <2>1 DEF LeftOne
    <3>2. /\ cursor_x' \in Nat /\ cursor_y' \in 1 .. note_count
          /\ cursor_x' <= strlen(note[cursor_y'])
      BY <1>1, <2>1, <3>1
    <3> QED BY <1>2, <3>2, NoteMoveStep
  <2>2. CASE ~(cursor_x > 0)
    <3>1. cursor_y > 1 /\ cursor_y' = cursor_y - 1 /\ cursor_x' = strlen(note[cursor_y - 1])
      BY <1>4, <2>2, Zenon DEF LeftOne
    <3>2. cursor_y - 1 \in 1 .. note_count
      BY <1>1, <3>1
    <3>3. /\ cursor_x' \in Nat /\ cursor_y' \in 1 .. note_count
          /\ cursor_x' <= strlen(note[cursor_y'])
      BY <1>1, <3>1, <3>2
    <3> QED BY <1>2, <3>3, NoteMoveStep
  <2> QED BY <2>1, <2>2
<1>5. CASE RightOne
  <2>1. CASE cursor_x < strlen(here)
    <3>1. cursor_x' = cursor_x + 1 /\ cursor_y' = cursor_y
      BY <1>5, <2>1 DEF RightOne
    <3>2. /\ cursor_x' \in Nat /\ cursor_y' \in 1 .. note_count
          /\ cursor_x' <= strlen(note[cursor_y'])
      BY <1>1, <2>1, <3>1 DEF here
    <3> QED BY <1>2, <3>2, NoteMoveStep
  <2>2. CASE ~(cursor_x < strlen(here))
    <3>1. cursor_y < note_count /\ cursor_y' = cursor_y + 1 /\ cursor_x' = 0
      BY <1>5, <2>2, Zenon DEF RightOne
    <3>2. cursor_y + 1 \in 1 .. note_count
      BY <1>1, <3>1
    <3>3. /\ cursor_x' \in Nat /\ cursor_y' \in 1 .. note_count
          /\ cursor_x' <= strlen(note[cursor_y'])
      BY <1>1, <3>1, <3>2
    <3> QED BY <1>2, <3>3, NoteMoveStep
  <2> QED BY <2>1, <2>2
<1> QED BY <1>3, <1>4, <1>5

LEMMA NotesStep == NotesInv /\ NotesNext => NotesInv' /\ NoteText!TextNext
<1> SUFFICES ASSUME NotesInv, NotesNext PROVE NotesInv' /\ NoteText!TextNext
  OBVIOUS
<1>1. CASE EraseChar
  BY <1>1, EraseCharStep DEF NoteText!TextNext
<1>2. CASE MergeNotes
  BY <1>2, MergeNotesStep DEF NoteText!TextNext
<1>3. CASE EnterNote
  BY <1>3, EnterNoteStep DEF NoteText!TextNext
<1>4. CASE UpOrDown \/ RightOne \/ LeftOne
  BY <1>4, NoteCursorStep DEF NoteText!TextNext
<1>5. ASSUME NEW c \in NoteChar, TypeNote(c) PROVE NotesInv' /\ NoteText!TextNext
  BY <1>5, TypeNoteStep DEF NoteText!TextNext
<1> QED BY <1>1, <1>2, <1>3, <1>4, <1>5 DEF NotesNext

LEMMA NotesStutter == NotesInv /\ UNCHANGED noteVars => NotesInv'
BY DEF NotesInv, noteVars

(* The first note is the greeting, behind which all cells are NUL. *)
LEMMA NotesStart == NotesInit => NotesInv /\ NoteText!TextInit
<1> SUFFICES ASSUME NotesInit PROVE NotesInv /\ NoteText!TextInit
  OBVIOUS
<1> DEFINE g == Greeting
           n == Len(g)
           Opening == [k \in NoteCell |-> IF k < n THEN g[k + 1] ELSE NUL]
           Blank == [k \in NoteCell |-> NUL]
<1>1. /\ NotesWidth \in Nat \ {0} /\ NotesLines \in Nat \ {0} /\ NUL \notin NoteChar
      /\ g \in Seq(NoteChar) /\ n \in Nat /\ n < NotesWidth
  BY NotesAssumption
<1>2. /\ note = [i \in NoteLine |-> [k \in NoteCell |-> IF i = 1 /\ k < n THEN g[k + 1] ELSE NUL]]
      /\ note_count = 1 /\ cursor_y = 1 /\ cursor_x = n
  BY DEF NotesInit
<1>3. \A i \in 1 .. n : g[i] \in NoteChar
  BY <1>1
<1>30. g \in Seq(NoteCellChar)
  <2>1. \A i \in 1 .. n : g[i] \in NoteCellChar
    BY <1>3 DEF NoteCellChar
  <2>2. g \in [1 .. n -> NoteCellChar]
    BY <1>1, <2>1
  <2> QED BY <1>1, <2>2
<1>31. Len(g) = n
  OBVIOUS
<1> HIDE DEF g, n
<1>4. ASSUME NEW i \in NoteLine PROVE note[i] = IF i = 1 THEN Opening ELSE Blank
  <2>1. note[i] = [k \in NoteCell |-> IF i = 1 /\ k < n THEN g[k + 1] ELSE NUL]
    BY <1>2
  <2>2. CASE i = 1
    <3>1. note[i] = Opening
      BY <2>1, <2>2
    <3> QED BY <2>2, <3>1, Zenon
  <2>3. CASE i # 1
    <3>1. note[i] = Blank
      BY <2>1, <2>3
    <3> QED BY <2>3, <3>1, Zenon
  <2> QED BY <2>2, <2>3
<1>5. \A k \in NoteCell : k < n => k + 1 \in 1 .. n
  BY <1>1 DEF NoteCell
<1>6. /\ Opening \in [NoteCell -> NoteCellChar] /\ Blank \in [NoteCell -> NoteCellChar]
      /\ \A k \in NoteCell : k < n => Opening[k] = g[k + 1] /\ Opening[k] # NUL
      /\ \A k \in NoteCell : ~(k < n) => Opening[k] = NUL
      /\ \A k \in NoteCell : Blank[k] = NUL
  BY <1>1, <1>3, <1>5 DEF NoteCellChar
<1> HIDE DEF Opening, Blank
<1>7. Opening \in NoteString /\ strlen(Opening) = n
  <2>1. n \in NoteCell /\ ~(n < n)
    BY <1>1 DEF NoteCell
  <2> QED BY <1>6, <2>1, StrlenOf
<1>8. Blank \in NoteString
  <2>1. 0 \in NoteCell
    BY <1>1 DEF NoteCell
  <2> QED BY <1>6, <2>1 DEF NoteString
<1>9. note \in [NoteLine -> NoteString]
  <2>1. \A i \in NoteLine : note[i] \in NoteString
    BY <1>4, <1>7, <1>8
  <2>2. note = [i \in NoteLine |-> note[i]]
    BY <1>2
  <2> QED BY <2>1, <2>2
<1>10. 1 \in NoteLine /\ note[1] = Opening
  <2>1. 1 \in NoteLine
    BY <1>1 DEF NoteLine
  <2> QED BY <1>4, <2>1
<1>11. NotesInv
  <2>1. note_count \in 1 .. NotesLines /\ cursor_y \in 1 .. note_count
    BY <1>1, <1>2
  <2>2. cursor_x \in 0 .. strlen(note[cursor_y])
    BY <1>1, <1>2, <1>7, <1>10
  <2> QED BY <1>9, <2>1, <2>2 DEF NotesInv
<1>12. Text(Opening) = g
  <2>1. /\ Text(Opening) \in Seq(NoteCellChar) /\ Len(Text(Opening)) = n
        /\ \A i \in 1 .. n : Text(Opening)[i] = Opening[i - 1]
    BY <1>7, StringIs
  <2>2. ASSUME NEW i \in 1 .. n PROVE Text(Opening)[i] = g[i]
    <3>1. i - 1 \in NoteCell /\ i - 1 < n /\ i - 1 + 1 = i
      BY <1>1 DEF NoteCell
    <3> QED BY <1>6, <2>1, <3>1
  <2> QED BY <1>30, <1>31, <2>1, <2>2, SeqEqual
<1>13. NoteNow = <<g>>
  <2> DEFINE Q == Seq(NoteCellChar)
  <2>1. /\ NoteNow \in Seq(Q) /\ Len(NoteNow) = 1 /\ NoteNow[1] = g
    BY <1>2, <1>10, <1>11, <1>12, NoteNowIs
  <2> HIDE DEF Q
  <2> QED BY <2>1
<1>14. <<cursor_y, cursor_x>> \in NoteText!Positions(NoteNow)
  <2>1. cursor_y \in 1 .. Len(NoteNow) /\ cursor_x \in 0 .. Len(NoteNow[cursor_y])
    BY <1>1, <1>2, <1>13, <1>31
  <2> QED BY <2>1, NotePositionIs
<1>15. NoteNow = <<Greeting>>
  BY <1>13 DEF g
<1>16. NoteText!TextInit
  BY <1>14, <1>15, NoteTextIs, Zenon DEF NoteText!TextInit
<1> QED BY <1>11, <1>16

(* The keys of the notes do to the strings what EditedText says, for       *)
(* strings of any number and width (notes.c:71-107).                       *)
THEOREM NotesAreText == NotesSpec => NotesImplementText
<1>1. NotesInit => NotesInv /\ NoteText!TextInit
  BY NotesStart
<1>2. NotesInv /\ [NotesNext]_noteVars => NotesInv'
  BY NotesStep, NotesStutter
<1>3. NotesInv /\ [NotesNext]_noteVars =>
        [noteVars' # noteVars => [NoteText!TextNext]_(NoteText!textVars)]_noteVars
  BY NotesStep
<1> QED BY <1>1, <1>2, <1>3, PTL DEF NotesSpec, NotesImplementText
=============================================================================
