----------------------------- MODULE Ps2Keyboard -----------------------------
(***************************************************************************)
(* The keyboard's interrupt handler (keyboard.c), byte by byte: prefix,    *)
(* release bit and the modifier flags.                                     *)
(***************************************************************************)
EXTENDS Integers, Sequences, FiniteSets

CONSTANT Keys        \* keys on the keyboard

VARIABLES
  wire,          \* bytes on their way
  g_extended,
  flags,         \* g_shift_pressed, g_gui_pressed, g_ctrl_pressed, g_alt_pressed
  g_caps_lock,
  down,          \* history: the keys held down
  both           \* history: modifiers whose two keys were down together and
                 \* have not both been up since

keyVars == <<wire, g_extended, flags, g_caps_lock, down, both>>

KeysInit ==
  /\ wire = <<>> /\ g_extended = FALSE /\ g_caps_lock = FALSE
  /\ flags = {} /\ down = {} /\ both = {}

Prefix == 224       \* 0xE0

KeyCode ==
  [LeftShift |-> <<42>>, RightShift |-> <<54>>, LeftCtrl |-> <<29>>, RightCtrl |-> <<Prefix, 29>>,
   LeftAlt |-> <<56>>, RightAlt |-> <<Prefix, 56>>, Gui |-> <<Prefix, 91>>,
   CapsLock |-> <<58>>, A |-> <<30>>, Up |-> <<Prefix, 72>>]

ASSUME KeysAssumption == Keys \subseteq DOMAIN KeyCode

KeysOf ==
  [shift |-> {"LeftShift", "RightShift"}, ctrl |-> {"LeftCtrl", "RightCtrl"},
   alt |-> {"LeftAlt", "RightAlt"}, gui |-> {"Gui"}]

Released(code) == [k \in DOMAIN code |-> IF code[k] = Prefix THEN Prefix ELSE code[k] + 128]

(* A key held down repeats its code.  The next key comes when the last was *)
(* taken but for one byte.                                                 *)
Press(k) ==
  /\ Len(wire) < 2
  /\ wire' = wire \o KeyCode[k]
  /\ down' = down \cup {k}
  /\ both' = both \cup {m \in DOMAIN KeysOf : KeysOf[m] \subseteq down' /\ Cardinality(KeysOf[m]) = 2}
  /\ UNCHANGED <<g_extended, flags, g_caps_lock>>

Release(k) ==
  /\ Len(wire) < 2
  /\ k \in down
  /\ wire' = wire \o Released(KeyCode[k])
  /\ down' = down \ {k}
  /\ both' = both \ {m \in DOMAIN KeysOf : KeysOf[m] \cap down' = {}}
  /\ UNCHANGED <<g_extended, flags, g_caps_lock>>

(* The modifier of a scancode without its release bit. *)
ModifierCode == [shift |-> {42, 54}, gui |-> {91, 92}, ctrl |-> {29}, alt |-> {56}]

(* Operators X_Y are faulty variants of X, which the properties notice.    *)
WithFlag_KeepExtended(m, released) == IF released /\ ~g_extended THEN flags \ {m} ELSE flags \cup {m}

WithFlag(m, released) == IF released THEN flags \ {m} ELSE flags \cup {m}

(* keyboard_interrupt: every other code changes no flag; a press of it     *)
(* calls wm_handle_key with the flags as modifiers.                        *)
keyboard_interrupt(byte) ==
  LET released == byte >= 128
      code     == byte % 128
      modifier == {m \in DOMAIN ModifierCode : code \in ModifierCode[m]}
  IN  /\ g_extended' = (byte = Prefix)
      /\ IF byte = Prefix THEN UNCHANGED <<flags, g_caps_lock>>
         ELSE /\ flags' = IF modifier = {} THEN flags
                          ELSE WithFlag(CHOOSE m \in modifier : TRUE, released)
              /\ g_caps_lock' = (g_caps_lock # (code = 58 /\ ~released))

KeyByte ==
  /\ wire # <<>>
  /\ keyboard_interrupt(Head(wire))
  /\ wire' = Tail(wire)
  /\ UNCHANGED <<down, both>>

KeysNext == KeyByte \/ \E k \in Keys : Press(k) \/ Release(k)

KeysSpec == KeysInit /\ [][KeysNext]_keyVars

----------------------------------------------------------------------------
(* Properties. *)

(* No modifier is left set once its keys are up, in whatever order left    *)
(* and right, plain and prefixed keys went down and up; and one whose key  *)
(* is down is set unless both of its keys were down together               *)
(* (keyboard.c:113-178).                                                   *)
ModifiersFollowKeys ==
  wire = <<>> => \A m \in DOMAIN KeysOf :
    /\ m \in flags => KeysOf[m] \cap down # {}
    /\ KeysOf[m] \cap down # {} /\ m \notin both => m \in flags
=============================================================================
