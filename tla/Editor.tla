------------------------------- MODULE Editor -------------------------------
(***************************************************************************)
(* The text editor of the shell (shell/editor.c): `edit <name>' loads a    *)
(* file of the root directory of RamFS into lines[], every key is one      *)
(* action, and the file is written by ^S, F2, or S when leaving.           *)
(*                                                                         *)
(* lines is the used part of lines[], nlines its length; cy and cx count   *)
(* from 0.  The keys are those editor_run knows; keyboard.c sends no ^S,   *)
(* ^Q, ^K, 0x117 or 0x118.                                                 *)
(***************************************************************************)
EXTENDS Integers, Sequences, SequencesExt, FiniteSetsExt

CONSTANTS
  Chars, NL,  \* printable characters, and '\n'
  MaxLines,   \* ED_MAXLINES
  LineMax,    \* ED_LINELEN - 1
  DataMax,    \* RAMFS_DATA_MAX
  Rows,       \* ED_ROWS
  Files,      \* what the file may hold before: texts, NoFile, Directory
  NoFile, Directory, \* no file of that name, or a directory
  MaxText     \* bound: characters typed into the buffer

ASSUME EditorAssumption ==
  /\ NL \notin Chars
  /\ Files \subseteq Seq(Chars \cup {NL}) \cup {NoFile, Directory}
  /\ NoFile # Directory /\ {NoFile, Directory} \cap Seq(Chars \cup {NL}) = {}
  /\ MaxLines \in Nat \ {0} /\ LineMax \in Nat /\ Rows \in Nat \ {0}
  /\ DataMax \in Nat /\ LineMax + 3 <= DataMax
  /\ MaxText \in Nat

VARIABLES
  mode,      \* "shell", "edit", or "ask" (the prompt of a modified file)
  lines, cx, cy, scroll_y, dirty,
  file,      \* the node of that name in the root: its data, NoFile or Directory
  room       \* a node can be made for it

cursor  == <<cx, cy, scroll_y>>
content == <<lines, dirty>>
vars    == <<mode, lines, cx, cy, scroll_y, dirty, file, room>>

----------------------------------------------------------------------------
Init ==
  /\ mode = "shell"
  /\ lines = <<<<>>>> /\ cx = 0 /\ cy = 0 /\ scroll_y = 0
  /\ dirty = FALSE
  /\ file \in Files
  /\ room \in BOOLEAN

Line == lines[cy + 1]

Above == SubSeq(lines, 1, cy)
Below == SubSeq(lines, cy + 2, Len(lines))
Left  == SubSeq(Line, 1, cx)
Right == SubSeq(Line, cx + 1, Len(Line))

(* A character of the file: NL starts a line, what exceeds LineMax is left out. *)
Put(ls, c) ==
  IF c = NL THEN Append(ls, <<>>)
  ELSE IF Len(Last(ls)) < LineMax THEN Front(ls) \o <<Append(Last(ls), c)>>
  ELSE ls

LinesOf(f) ==
  LET at[i \in 0 .. Len(f)] == IF i = 0 THEN <<<<>>>> ELSE Put(at[i - 1], f[i])
  IN  at[Len(f)]

(* The first MaxLines lines. *)
ed_load(f) ==
  IF f \in {NoFile, Directory} THEN <<<<>>>>
  ELSE SubSeq(LinesOf(f), 1, Min({Len(LinesOf(f)), MaxLines}))

(* Lines, each with its NL. *)
Serialized(ls) ==
  LET at[i \in 0 .. Len(ls)] == IF i = 0 THEN <<>> ELSE at[i - 1] \o Append(ls[i], NL)
  IN  at[Len(ls)]

(* ed_save writes the lines that fit. *)
Fits(ls) == Len(Serialized(ls)) < DataMax - 1

Saved ==
  LET prefixes == {SubSeq(lines, 1, k) : k \in 0 .. Len(lines)}
      longest  == CHOOSE p \in prefixes :
                    Fits(p) /\ \A q \in prefixes : Fits(q) => Len(q) <= Len(p)
  IN  Serialized(longest)

(* ramfs_write refuses a directory, of which ed_save takes no notice. *)
ed_save ==
  \/ /\ file = NoFile /\ ~room
     /\ UNCHANGED <<file, dirty>>
  \/ /\ file # NoFile \/ room
     /\ file' = IF file = Directory THEN file ELSE Saved
     /\ dirty' = FALSE

----------------------------------------------------------------------------
Open ==
  /\ mode = "shell"
  /\ mode' = "edit"
  /\ lines' = ed_load(file)
  /\ cx' = 0 /\ cy' = 0 /\ scroll_y' = 0
  /\ dirty' = FALSE
  /\ UNCHANGED <<file, room>>

Editing == mode = "edit" /\ UNCHANGED <<mode, file, room>>

Typed == Len(Serialized(lines)) - Len(lines)

ed_insert_char(c) ==
  /\ Editing /\ Typed < MaxText
  /\ Len(Line) < LineMax
  /\ lines' = [lines EXCEPT ![cy + 1] = Left \o <<c>> \o Right]
  /\ cx' = cx + 1
  /\ dirty' = TRUE
  /\ UNCHANGED <<cy, scroll_y>>

(* Bugs to catch: joining does not count as a change; the cursor stays at 0. *)
ed_join_clean ==
  /\ Editing /\ cx = 0 /\ cy > 0
  /\ Len(lines[cy]) + Len(Line) < LineMax
  /\ lines' = SubSeq(lines, 1, cy - 1) \o <<lines[cy] \o Line>> \o Below
  /\ cx' = Len(lines[cy]) /\ cy' = cy - 1
  /\ UNCHANGED <<scroll_y, dirty>>

ed_join_at_start ==
  /\ Editing /\ cx = 0 /\ cy > 0
  /\ Len(lines[cy]) + Len(Line) < LineMax
  /\ lines' = SubSeq(lines, 1, cy - 1) \o <<lines[cy] \o Line>> \o Below
  /\ cy' = cy - 1
  /\ dirty' = TRUE
  /\ UNCHANGED <<cx, scroll_y>>

(* Joins with the line before, where the two fit; scroll_y stays. *)
ed_join ==
  /\ Editing /\ cx = 0 /\ cy > 0
  /\ Len(lines[cy]) + Len(Line) < LineMax
  /\ lines' = SubSeq(lines, 1, cy - 1) \o <<lines[cy] \o Line>> \o Below
  /\ cx' = Len(lines[cy]) /\ cy' = cy - 1
  /\ dirty' = TRUE
  /\ UNCHANGED scroll_y

ed_delete_char ==
  \/ /\ Editing /\ cx > 0
     /\ lines' = [lines EXCEPT ![cy + 1] = SubSeq(Line, 1, cx - 1) \o Right]
     /\ cx' = cx - 1
     /\ dirty' = TRUE
     /\ UNCHANGED <<cy, scroll_y>>
  \/ ed_join

(* A bug to catch: the window follows one line late. *)
ScrolledLate(y) == IF y - scroll_y > Rows THEN scroll_y + 1 ELSE scroll_y

(* The window follows the cursor down by one line. *)
Scrolled(y) == IF y - scroll_y >= Rows THEN scroll_y + 1 ELSE scroll_y

ed_newline ==
  /\ Editing
  /\ Len(lines) < MaxLines
  /\ lines' = Above \o <<Left, Right>> \o Below
  /\ cy' = cy + 1 /\ cx' = 0
  /\ scroll_y' = Scrolled(cy + 1)
  /\ dirty' = TRUE

ed_kill_line ==
  /\ Editing
  /\ lines' = IF Len(lines) = 1 THEN <<<<>>>> ELSE Above \o Below
  /\ cy' = Min({cy, Len(lines') - 1}) /\ cx' = 0
  /\ dirty' = TRUE
  /\ UNCHANGED scroll_y

(* The cursor goes up to line y, and the window by at most one line. *)
UpTo(y, x) ==
  /\ cy' = y /\ cx' = x
  /\ scroll_y' = IF y < scroll_y THEN scroll_y - 1 ELSE scroll_y

DownTo(y, x) == cy' = y /\ cx' = x /\ scroll_y' = Scrolled(y)

Arrow ==
  /\ Editing
  /\ \/ cy > 0 /\ UpTo(cy - 1, Min({cx, Len(lines[cy])}))
     \/ cy < Len(lines) - 1 /\ DownTo(cy + 1, Min({cx, Len(lines[cy + 2])}))
     \/ cx > 0 /\ cx' = cx - 1 /\ UNCHANGED <<cy, scroll_y>>
     \/ cx = 0 /\ cy > 0 /\ UpTo(cy - 1, Len(lines[cy]))
     \/ cx < Len(Line) /\ cx' = cx + 1 /\ UNCHANGED <<cy, scroll_y>>
     \/ cx = Len(Line) /\ cy < Len(lines) - 1 /\ DownTo(cy + 1, 0)
  /\ UNCHANGED content

(* 0x117 and 0x118. *)
HomeEnd ==
  /\ Editing
  /\ cx' \in {0, Len(Line)}
  /\ UNCHANGED <<cy, scroll_y, content>>

Save ==
  /\ mode = "edit"
  /\ ed_save
  /\ UNCHANGED <<mode, lines, cursor, room>>

(* ESC or ^Q: leaves a clean file, asks about a modified one. *)
Quit ==
  /\ mode = "edit"
  /\ mode' = IF dirty THEN "ask" ELSE "shell"
  /\ UNCHANGED <<content, cursor, file, room>>

(* S saves and leaves, whether it was saved or not; N leaves; the rest stays. *)
Answer ==
  /\ mode = "ask"
  /\ \/ ed_save /\ mode' = "shell"
     \/ mode' = "shell" /\ UNCHANGED <<file, dirty>>
     \/ mode' = "edit" /\ UNCHANGED <<file, dirty>>
  /\ UNCHANGED <<lines, cursor, room>>

Next ==
  \/ Open
  \/ \E c \in Chars : ed_insert_char(c)
  \/ ed_delete_char
  \/ ed_newline
  \/ ed_kill_line
  \/ Arrow
  \/ HomeEnd
  \/ Save
  \/ Quit
  \/ Answer

Spec == Init /\ [][Next]_vars

----------------------------------------------------------------------------
(***************************************************************************)
(* The buffer is never empty and keeps its limits, the cursor is in the    *)
(* text whatever was joined, split or killed around it, and never below    *)
(* the window.  (It may be above it: joining and killing do not scroll.)   *)
(***************************************************************************)
EditorTypeOK ==
  /\ mode \in {"shell", "edit", "ask"}
  /\ Len(lines) \in 1 .. MaxLines
  /\ \A i \in DOMAIN lines : lines[i] \in Seq(Chars) /\ Len(lines[i]) <= LineMax
  /\ cy \in 0 .. Len(lines) - 1
  /\ cx \in 0 .. Len(Line)
  /\ scroll_y \in 0 .. MaxLines - 1
  /\ cy - scroll_y < Rows
  /\ dirty \in BOOLEAN

(***************************************************************************)
(* A text without the mark [modificado] is the one in the file: opening    *)
(* the file again shows it (with an empty line at its end), unless the     *)
(* name is a directory or the text does not fit the file.  This is what    *)
(* lets Quit leave without a question.                                     *)
(***************************************************************************)
CleanIsSaved ==
  mode = "edit" /\ ~dirty /\ file # Directory /\ Fits(lines) =>
    \/ ed_load(file) = lines
    \/ ed_load(file) = Append(lines, <<>>)

(***************************************************************************)
(* Every key does to the text what it does to one sequence of characters:  *)
(* splitting, joining and moving across the ends of the lines included.    *)
(***************************************************************************)
BufferText == Serialized(Front(lines)) \o Last(lines)
BufferPos  == Len(Serialized(Above)) + cx

Buffer == INSTANCE TextBuffer WITH text <- BufferText, pos <- BufferPos,
                                   shown <- mode # "shell"
ImplementsTextBuffer == Buffer!Spec
=============================================================================
