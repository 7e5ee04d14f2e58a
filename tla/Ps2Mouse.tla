------------------------------ MODULE Ps2Mouse ------------------------------
(***************************************************************************)
(* The mouse's interrupt handler (mouse.c), byte by byte.  A byte may be   *)
(* lost, and the first may be an acknowledgement that mouse_init gave up   *)
(* waiting for.  The status register says whose byte the output buffer     *)
(* holds, and each handler leaves the other device's byte alone, so the    *)
(* keyboard (Ps2Keyboard) does not disturb the stream.                     *)
(***************************************************************************)
EXTENDS Integers

CONSTANTS
  Moves,      \* movements <<dx, dy>>, dy upwards
  Buttons     \* numbers of three bits

ASSUME MouseAssumption ==
  /\ \A m \in Moves : \A d \in {1, 2} : m[d] \in -256 .. 255
  /\ Buttons \subseteq 0 .. 7

VARIABLES
  mouse_cycle, mouse_byte,
  report,        \* what the last byte made wm_handle_mouse be called with
  move, button,  \* the packet being sent, or sent last
  sent,          \* how many bytes of it
  whole,         \* history: none of its bytes was lost
  inPhase        \* history: it began when mouse_cycle was 0

mouseVars == <<mouse_cycle, mouse_byte, report, move, button, sent, whole, inPhase>>

MouseInit ==
  /\ mouse_cycle \in {0, 1}      \* 1: the acknowledgement 0xFA was taken
  /\ mouse_byte = [k \in 0 .. 2 |-> IF k < mouse_cycle THEN 250 ELSE 0]
  /\ report = <<>>
  /\ move = <<0, 0>> /\ button = 0 /\ sent = 3
  /\ whole = FALSE /\ inPhase = FALSE

(* b & mask, for a mask of one bit. *)
Bit(b, mask) == (b \div mask) % 2 = 1

----------------------------------------------------------------------------
(* The bytes of a packet: bit 3 of the first is always set, its bits 4 and *)
(* 5 are the signs, the others are the movements modulo 256.               *)
PacketByte(k) ==
  CASE k = 0 -> button + 8 + (IF move[1] < 0 THEN 16 ELSE 0) + (IF move[2] < 0 THEN 32 ELSE 0)
    [] k = 1 -> move[1] % 256
    [] k = 2 -> move[2] % 256

StartPacket ==
  /\ sent = 3
  /\ move' \in Moves /\ button' \in Buttons
  /\ sent' = 0
  /\ whole' = TRUE /\ inPhase' = (mouse_cycle = 0)
  /\ report' = <<>>
  /\ UNCHANGED <<mouse_cycle, mouse_byte>>

apply_acceleration(delta) ==
  LET size == IF delta < 0 THEN -delta ELSE delta
  IN  delta * (CASE size < 2 -> 1 [] size \in 2 .. 4 -> 2 [] size \in 5 .. 14 -> 4 [] OTHER -> 6)

(* Operators X_Y are faulty variants of X, which the properties notice.    *)
SignExtend_Not(b, negative) == b

SignExtend(b, negative) == IF negative THEN b - 256 ELSE b

Skip_Never(data) == FALSE

(* "the first byte of a packet always has bit 3 set" *)
Skip(data) == mouse_cycle = 0 /\ ~Bit(data, 8)

(* mouse_interrupt, for one byte. *)
mouse_interrupt(data) ==
  LET bytes == [mouse_byte EXCEPT ![mouse_cycle] = data]
  IN  IF Skip(data) THEN report' = <<>> /\ UNCHANGED <<mouse_cycle, mouse_byte>>
      ELSE /\ mouse_byte' = bytes
           /\ mouse_cycle' = (mouse_cycle + 1) % 3
           /\ report' = IF mouse_cycle < 2 THEN <<>>
                ELSE << apply_acceleration(SignExtend(bytes[1], Bit(bytes[0], 16))),
                        apply_acceleration(-SignExtend(bytes[2], Bit(bytes[0], 32))),
                        bytes[0] % 8 >>

MouseByte ==
  /\ sent < 3
  /\ sent' = sent + 1
  /\ mouse_interrupt(PacketByte(sent))
  /\ UNCHANGED <<move, button, whole, inPhase>>

LoseMouseByte ==
  /\ sent < 3
  /\ sent' = sent + 1
  /\ whole' = FALSE
  /\ report' = <<>>
  /\ UNCHANGED <<mouse_cycle, mouse_byte, move, button, inPhase>>

MouseNext == StartPacket \/ MouseByte \/ LoseMouseByte

MouseSpec == MouseInit /\ [][MouseNext]_mouseVars

----------------------------------------------------------------------------
(* Properties. *)

Sign(x) == IF x > 0 THEN 1 ELSE IF x < 0 THEN -1 ELSE 0

(* A packet that arrives whole while the handler is in phase is reported   *)
(* with its last byte, with its buttons and in the direction of the        *)
(* movement on a screen whose y grows downwards, never slower than it;     *)
(* whatever packets, whole or not, came before (mouse.c:100-138).          *)
WholePacketReported ==
  sent = 3 /\ whole /\ inPhase =>
    /\ report # <<>> /\ mouse_cycle = 0
    /\ report[3] = button
    /\ Sign(report[1]) = Sign(move[1]) /\ Sign(report[2]) = -Sign(move[2])
    /\ report[1] * Sign(move[1]) >= move[1] * Sign(move[1])
    /\ -report[2] * Sign(move[2]) >= move[2] * Sign(move[2])

(* However many bytes were lost, the handler is in phase again after one   *)
(* whole packet whose movements have bit 3 clear (mouse.c:107-112).        *)
ResyncAfterPlainPacket ==
  sent = 3 /\ whole /\ ~Bit(PacketByte(1), 8) /\ ~Bit(PacketByte(2), 8) => mouse_cycle = 0
=============================================================================
