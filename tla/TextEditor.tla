----------------------------- MODULE TextEditor -----------------------------
(***************************************************************************)
(* The text buffer of the editor (te_event of texteditor.c): an array of   *)
(* lines, each an array of cells and a length.  Keys are handled by the    *)
(* keyboard interrupt, clicks by wm_task, so that a key may come between   *)
(* the two assignments a click makes to the cursor.                        *)
(*                                                                         *)
(* Saving, the file name, scrolling (a click may reach any line) and       *)
(* closing the window are left out; [New] and [Open] are one step each.    *)
(***************************************************************************)
EXTENDS Integers, Sequences

CONSTANTS
  Char,
  NoChar,       \* what kmalloc and memset leave in a cell
  MaxLines,     \* TE_MAX_LINES
  LineWidth,    \* TE_LINE_WIDTH
  OpenText      \* what [Open] loads

ASSUME EditorAssumption ==
  /\ MaxLines \in Nat \ {0} /\ LineWidth \in Nat \ {0} /\ NoChar \notin Char
  /\ OpenText \in Seq(Seq(Char)) /\ Len(OpenText) \in 1 .. MaxLines
  /\ \A i \in 1 .. Len(OpenText) : Len(OpenText[i]) < LineWidth

VARIABLES
  lines,        \* [1 .. MaxLines]: text, len
  line_count,
  cursor_line,  \* from 1
  cursor_col,   \* from 0
  click_col,    \* the column a click is about to set, or Nowhere
  lost          \* history: [Open] left the cursor below the text, or a key was
                \* handled while it stood beyond the end of its line

teVars == <<lines, line_count, cursor_line, cursor_col, click_col, lost>>

Nowhere == -1
Cell == 0 .. LineWidth - 1
Line == 1 .. MaxLines

TeInit ==
  /\ lines = [i \in Line |-> [text |-> [k \in Cell |-> NoChar], len |-> 0]]
  /\ line_count = 1
  /\ cursor_line = 1 /\ cursor_col = 0
  /\ click_col = Nowhere
  /\ lost = FALSE

(* Cells with n of them, from position from of source, copied to position  *)
(* to: memcpy, or memmove when source is the line itself.                  *)
Copied(cells, to, source, from, n) ==
  [k \in Cell |-> IF k \in to .. to + n - 1 THEN source[k - to + from] ELSE cells[k]]

cline == lines[cursor_line]

(* len - cursor_col is unsigned: beyond the end of the line it would be    *)
(* some four billion.                                                      *)
Beyond == cursor_col > cline.len

Key ==
  /\ UNCHANGED click_col
  /\ lost' = Beyond

----------------------------------------------------------------------------
(* The keys. *)

(* Operators X_Y are faulty variants of X, which the properties notice. *)
Behind_Overwritten(cells) == cells

(* The cells with those from the cursor on moved up by one. *)
Behind(cells) == Copied(cells, cursor_col + 1, cells, cursor_col, cline.len - cursor_col)

Printable(c) ==
  /\ ~Beyond /\ cline.len < LineWidth - 1
  /\ lines' = [lines EXCEPT ![cursor_line] =
                 [text |-> [Behind(cline.text) EXCEPT ![cursor_col] = c],
                  len |-> cline.len + 1]]
  /\ cursor_col' = cursor_col + 1
  /\ UNCHANGED <<line_count, cursor_line>>

Backspace ==
  /\ ~Beyond /\ cursor_col > 0
  /\ lines' = [lines EXCEPT ![cursor_line] =
                 [text |-> Copied(cline.text, cursor_col - 1, cline.text, cursor_col,
                                  cline.len - cursor_col),
                  len |-> cline.len - 1]]
  /\ cursor_col' = cursor_col - 1
  /\ UNCHANGED <<line_count, cursor_line>>

Merge ==
  LET prev == lines[cursor_line - 1]
  IN  /\ cursor_col = 0 /\ cursor_line > 1
      /\ prev.len + cline.len < LineWidth
      /\ lines' = [i \in Line |->
           IF i = cursor_line - 1
             THEN [text |-> Copied(prev.text, prev.len, cline.text, 0, cline.len),
                   len |-> prev.len + cline.len]
             ELSE IF i \in cursor_line .. line_count - 1 THEN lines[i + 1] ELSE lines[i]]
      /\ line_count' = line_count - 1
      /\ cursor_line' = cursor_line - 1
      /\ cursor_col' = prev.len

Enter ==
  /\ ~Beyond /\ line_count < MaxLines
  /\ lines' = [i \in Line |->
       IF i = cursor_line THEN [cline EXCEPT !.len = cursor_col]
       ELSE IF i = cursor_line + 1
         THEN [text |-> Copied(cline.text, 0, cline.text, cursor_col, cline.len - cursor_col),
               len |-> cline.len - cursor_col]
       ELSE IF i \in cursor_line + 2 .. line_count + 1 THEN lines[i - 1] ELSE lines[i]]
  /\ line_count' = line_count + 1
  /\ cursor_line' = cursor_line + 1
  /\ cursor_col' = 0

(* A key that goes wrong. *)
Overrun ==
  /\ Beyond
  /\ UNCHANGED <<lines, line_count, cursor_line, cursor_col>>

ClampCol(i) == IF cursor_col > lines[i].len THEN lines[i].len ELSE cursor_col

UpDown ==
  \E i \in {cursor_line - 1, cursor_line + 1} \cap 1 .. line_count :
    cursor_line' = i /\ cursor_col' = ClampCol(i)

Left ==
  IF cursor_col > 0
    THEN cursor_col' = cursor_col - 1 /\ UNCHANGED cursor_line
    ELSE cursor_line > 1 /\ cursor_line' = cursor_line - 1 /\ cursor_col' = lines[cursor_line - 1].len

Right ==
  IF cursor_col < cline.len
    THEN cursor_col' = cursor_col + 1 /\ UNCHANGED cursor_line
    ELSE cursor_line < line_count /\ cursor_line' = cursor_line + 1 /\ cursor_col' = 0

Arrow == (UpDown \/ Left \/ Right) /\ UNCHANGED <<lines, line_count, click_col, lost>>

Keyboard ==
  \/ Key /\ (Backspace \/ Merge \/ Enter \/ Overrun \/ \E c \in Char : Printable(c))
  \/ Arrow

----------------------------------------------------------------------------
(* Clicks. *)

(* Into the text: left of it the column is unsigned and huge, so that it   *)
(* too is cut to the length of the line.                                   *)
ClickLine(i, k) ==
  /\ click_col = Nowhere
  /\ i <= line_count
  /\ cursor_line' = i
  /\ click_col' = IF k > lines[i].len THEN lines[i].len ELSE k
  /\ UNCHANGED <<lines, line_count, cursor_col, lost>>

ClickColumn ==
  /\ click_col # Nowhere
  /\ cursor_col' = click_col
  /\ click_col' = Nowhere
  /\ UNCHANGED <<lines, line_count, cursor_line, lost>>

New ==
  /\ click_col = Nowhere
  /\ line_count' = 1
  /\ lines' = [lines EXCEPT ![1].len = 0]
  /\ cursor_line' = 1 /\ cursor_col' = 0
  /\ UNCHANGED <<click_col, lost>>

(* The cursor stays where it was.  strcpy ends what it copies with a 0,    *)
(* which is never read.                                                    *)
Open ==
  /\ click_col = Nowhere
  /\ line_count' = Len(OpenText)
  /\ lines' = [i \in Line |->
       IF i > Len(OpenText) THEN lines[i]
       ELSE [text |-> [k \in Cell |-> IF k < Len(OpenText[i]) THEN OpenText[i][k + 1]
                                      ELSE lines[i].text[k]],
             len |-> Len(OpenText[i])]]
  /\ lost' = (cursor_line > Len(OpenText))
  /\ UNCHANGED <<cursor_line, cursor_col, click_col>>

TeNext ==
  /\ ~lost
  /\ \/ Keyboard \/ ClickColumn \/ New \/ Open
     \/ \E i \in Line, k \in Cell : ClickLine(i, k)

TeSpec == TeInit /\ [][TeNext]_teVars

----------------------------------------------------------------------------
(* Properties. *)

TeText ==
  INSTANCE EditedText WITH
    First <- << <<>> >>,
    Documents <- {<< <<>> >>, OpenText},
    text <- [i \in 1 .. line_count |-> [k \in 1 .. lines[i].len |-> lines[i].text[k - 1]]],
    cursor <- <<cursor_line, IF Beyond THEN cline.len ELSE cursor_col>>

(* Every key changes the text at the cursor as EditedText says, and        *)
(* nothing else in it, whatever the cells behind the ends of the lines     *)
(* hold, up to the point where [Open], or a key in the middle of a click,  *)
(* has made the cursor useless (texteditor.c:140-186, 195-239).            *)
EditorImplementsText ==
  /\ TeText!TextInit
  /\ [][teVars' # teVars /\ ~lost' => [TeText!TextNext]_(TeText!textVars)]_teVars
=============================================================================
