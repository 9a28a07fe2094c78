---------------------------- MODULE TextBuffer ----------------------------
(***************************************************************************)
(* What the editor promises of the text under it: one sequence of          *)
(* characters, lines ended by NL, with a cursor between two of them.       *)
(* Editing changes the text at the cursor and nowhere else.                *)
(***************************************************************************)
EXTENDS Integers, Sequences, FiniteSetsExt

CONSTANTS Chars, NL

VARIABLES
  text, pos, \* pos characters are left of the cursor
  shown      \* the editor is open

Texts == Seq(Chars \cup {NL})

Init == text \in Texts /\ pos = 0 /\ shown = FALSE

Upto(i) == SubSeq(text, 1, i)
From(i) == SubSeq(text, i + 1, Len(text))

(* The line that position p is in: its first and its last position. *)
StartOf(p) == Max({i \in 0 .. p : i = 0 \/ text[i] = NL})
EndOf(p)   == Min({i \in p .. Len(text) : i = Len(text) \/ text[i + 1] = NL})

Insert(c) == text' = Upto(pos) \o <<c>> \o From(pos) /\ pos' = pos + 1

Erase ==
  /\ pos > 0
  /\ text' = Upto(pos - 1) \o From(pos)
  /\ pos' = pos - 1

(* A line goes with its NL; the last one with the NL before it. *)
Kill ==
  LET s == StartOf(pos)
      e == EndOf(pos)
  IN  IF e < Len(text) THEN text' = Upto(s) \o From(e + 1) /\ pos' = s
      ELSE IF s > 0 THEN text' = Upto(s - 1) /\ pos' = StartOf(s - 1)
      ELSE text' = <<>> /\ pos' = 0

(* To p, or to the end of p's line where the line before it ends sooner. *)
Clip(p, end) == pos' = Min({p, end})

Move ==
  LET s == StartOf(pos)
      e == EndOf(pos)
  IN  /\ UNCHANGED text
      /\ \/ pos > 0 /\ pos' = pos - 1
         \/ pos < Len(text) /\ pos' = pos + 1
         \/ pos' \in {s, e}
         \/ s > 0 /\ Clip(StartOf(s - 1) + (pos - s), s - 1)
         \/ e < Len(text) /\ Clip(e + 1 + (pos - s), EndOf(e + 1))

Edit == (\E c \in Chars \cup {NL} : Insert(c)) \/ Erase \/ Kill \/ Move

Open  == ~shown /\ shown' = TRUE /\ text' \in Texts /\ pos' = 0
Close == shown /\ shown' = FALSE /\ UNCHANGED <<text, pos>>

Next == Open \/ Close \/ (shown /\ Edit /\ UNCHANGED shown)

Spec == Init /\ [][Next]_<<text, pos, shown>>
=============================================================================
