------------------------------- MODULE Notes -------------------------------
(***************************************************************************)
(* The text buffer of the notes application (notes_event of notes.c): an   *)
(* array of strings that end with a 0.  All of it is driven by keys;       *)
(* closing the window is left out.                                         *)
(***************************************************************************)
EXTENDS Integers, Sequences, FiniteSetsExt

CONSTANTS
  NoteChar,
  NUL,          \* the character 0
  NotesLines,   \* NOTES_MAX_LINES
  NotesWidth,   \* NOTES_LINE_LEN
  Greeting      \* "System breach notes:"

ASSUME NotesAssumption ==
  /\ NotesLines \in Nat \ {0} /\ NotesWidth \in Nat \ {0} /\ NUL \notin NoteChar
  /\ Greeting \in Seq(NoteChar) /\ Len(Greeting) < NotesWidth

VARIABLES
  note,         \* [1 .. NotesLines]: the cells of each line
  note_count,   \* line_count
  cursor_y,     \* from 1
  cursor_x      \* from 0

noteVars == <<note, note_count, cursor_y, cursor_x>>

NoteCell == 0 .. NotesWidth - 1
NoteLine == 1 .. NotesLines

NotesInit ==
  /\ note = [i \in NoteLine |-> [k \in NoteCell |->
               IF i = 1 /\ k < Len(Greeting) THEN Greeting[k + 1] ELSE NUL]]
  /\ note_count = 1
  /\ cursor_y = 1 /\ cursor_x = Len(Greeting)

strlen(s) == Min({k \in NoteCell : s[k] = NUL})

(* The string that starts at from in source copied, its NUL included, to   *)
(* position to: strcpy, and with to = strlen(s) strcat.                    *)
Strcpy(s, to, source, from) ==
  LET n == strlen(source) - from + 1
  IN  [k \in NoteCell |-> IF k \in to .. to + n - 1 THEN source[k - to + from] ELSE s[k]]

(* The condition compares with the length as it is after each move; the    *)
(* NUL is the last to move.                                                *)
EraseAt(s, x) ==
  [k \in NoteCell |-> IF k \in x .. strlen(s) - 1 THEN s[k + 1] ELSE s[k]]

WithCharAt(s, x, c) ==
  [k \in NoteCell |-> IF k = x THEN c
                      ELSE IF k \in x + 1 .. strlen(s) + 1 THEN s[k - 1] ELSE s[k]]

here == note[cursor_y]

EraseChar ==
  /\ cursor_x > 0
  /\ note' = [note EXCEPT ![cursor_y] = EraseAt(here, cursor_x - 1)]
  /\ cursor_x' = cursor_x - 1
  /\ UNCHANGED <<note_count, cursor_y>>

(* Operators X_Y are faulty variants of X, which the properties notice. *)
LinesMovedUp_OneFewer == cursor_y .. note_count - 2

LinesMovedUp == cursor_y .. note_count - 1

MergeNotes ==
  LET prev == note[cursor_y - 1]
  IN  /\ cursor_x = 0 /\ cursor_y > 1
      /\ strlen(prev) + strlen(here) < NotesWidth - 1
      /\ note' = [i \in NoteLine |->
           IF i = cursor_y - 1 THEN Strcpy(prev, strlen(prev), here, 0)
           ELSE IF i \in LinesMovedUp THEN Strcpy(note[i], 0, note[i + 1], 0)
           ELSE note[i]]
      /\ note_count' = note_count - 1
      /\ cursor_y' = cursor_y - 1
      /\ cursor_x' = strlen(prev)

EnterNote ==
  /\ note_count < NotesLines
  /\ note' = [i \in NoteLine |->
       IF i = cursor_y THEN [here EXCEPT ![cursor_x] = NUL]
       ELSE IF i = cursor_y + 1
         THEN Strcpy(Strcpy(note[i], 0, here, 0), 0, here, cursor_x)
       ELSE IF i \in cursor_y + 2 .. note_count + 1 THEN Strcpy(note[i], 0, note[i - 1], 0)
       ELSE note[i]]
  /\ note_count' = note_count + 1
  /\ cursor_y' = cursor_y + 1
  /\ cursor_x' = 0

TypeNote(c) ==
  /\ strlen(here) < NotesWidth - 1
  /\ note' = [note EXCEPT ![cursor_y] = WithCharAt(here, cursor_x, c)]
  /\ cursor_x' = cursor_x + 1
  /\ UNCHANGED <<note_count, cursor_y>>

ClampX(y) == IF cursor_x > strlen(note[y]) THEN strlen(note[y]) ELSE cursor_x

UpOrDown ==
  \E y \in {cursor_y - 1, cursor_y + 1} \cap 1 .. note_count :
    /\ cursor_y' = y /\ cursor_x' = ClampX(y)
    /\ UNCHANGED <<note, note_count>>

RightOne ==
  /\ IF cursor_x < strlen(here)
       THEN cursor_x' = cursor_x + 1 /\ UNCHANGED cursor_y
       ELSE cursor_y < note_count /\ cursor_y' = cursor_y + 1 /\ cursor_x' = 0
  /\ UNCHANGED <<note, note_count>>

LeftOne ==
  /\ IF cursor_x > 0
       THEN cursor_x' = cursor_x - 1 /\ UNCHANGED cursor_y
       ELSE cursor_y > 1 /\ cursor_y' = cursor_y - 1 /\ cursor_x' = strlen(note[cursor_y - 1])
  /\ UNCHANGED <<note, note_count>>

NotesNext ==
  \/ EraseChar \/ MergeNotes \/ EnterNote \/ UpOrDown \/ RightOne \/ LeftOne
  \/ \E c \in NoteChar : TypeNote(c)

NotesSpec == NotesInit /\ [][NotesNext]_noteVars

----------------------------------------------------------------------------
(* Properties. *)

NoteText ==
  INSTANCE EditedText WITH
    Char <- NoteChar,
    First <- <<Greeting>>,
    Documents <- {},
    text <- [i \in 1 .. note_count |-> [k \in 1 .. strlen(note[i]) |-> note[i][k - 1]]],
    cursor <- <<cursor_y, cursor_x>>

(* The strings of the notes are the text that EditedText describes: every  *)
(* key changes it at the cursor and nowhere else, and what earlier, longer *)
(* lines left behind the ends of the strings never comes back              *)
(* (notes.c:71-107).                                                       *)
NotesImplementText ==
  /\ NoteText!TextInit
  /\ [][noteVars' # noteVars => [NoteText!TextNext]_(NoteText!textVars)]_noteVars
=============================================================================
