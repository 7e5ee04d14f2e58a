----------------------------- MODULE EditedText -----------------------------
(***************************************************************************)
(* What a text editor promises: a text of lines and a cursor in it.  Each  *)
(* key changes the text at the cursor and nowhere else.  A key may also do *)
(* nothing, when the editor has no room.                                   *)
(***************************************************************************)
EXTENDS Integers, SequencesExt

CONSTANTS
  Char,
  First,        \* the text an editor starts with
  Documents     \* the texts it may replace it by

VARIABLES
  text,         \* a sequence of lines, each a sequence of characters
  cursor        \* <<line, column>>: it stands behind that many characters

textVars == <<text, cursor>>

Positions(t) == UNION {{i} \X (0 .. Len(t[i])) : i \in 1 .. Len(t)}

Row == cursor[1]
Col == cursor[2]
Before == SubSeq(text[Row], 1, Col)
After == SubSeq(text[Row], Col + 1, Len(text[Row]))

(* The text with the lines from .. to replaced by those of new. *)
Splice(from, to, new) ==
  SubSeq(text, 1, from - 1) \o new \o SubSeq(text, to + 1, Len(text))

TextInit ==
  /\ text = First
  /\ cursor \in Positions(text)

Insert(c) ==
  /\ text' = Splice(Row, Row, <<Before \o <<c>> \o After>>)
  /\ cursor' = <<Row, Col + 1>>

DeleteBack ==
  /\ Col > 0
  /\ text' = Splice(Row, Row, <<Front(Before) \o After>>)
  /\ cursor' = <<Row, Col - 1>>

JoinLines ==
  /\ Col = 0 /\ Row > 1
  /\ text' = Splice(Row - 1, Row, <<text[Row - 1] \o text[Row]>>)
  /\ cursor' = <<Row - 1, Len(text[Row - 1])>>

SplitLine ==
  /\ text' = Splice(Row, Row, <<Before, After>>)
  /\ cursor' = <<Row + 1, 0>>

MoveCursor ==
  /\ cursor' \in Positions(text)
  /\ UNCHANGED text

Replace ==
  /\ text' \in Documents
  /\ cursor' \in Positions(text')

TextNext ==
  \/ \E c \in Char : Insert(c)
  \/ DeleteBack \/ JoinLines \/ SplitLine \/ MoveCursor \/ Replace

TextSpec == TextInit /\ [][TextNext]_textVars
=============================================================================
