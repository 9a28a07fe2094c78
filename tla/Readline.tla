------------------------------ MODULE Readline ------------------------------
(***************************************************************************)
(* The command line of the shell: readline and the history                 *)
(* (shell/stellash.c) on the text console (drivers/vga.c), key by key.     *)
(* keyboard.c delivers the keys (see Keyboard); it sends no ^C and no ^L.  *)
(*                                                                         *)
(* input is the text of input[], and ilen its length.  shown is what the   *)
(* console has from the end of the prompt to the cursor.                   *)
(***************************************************************************)
EXTENDS Integers, Sequences, SequencesExt, FiniteSetsExt

CONSTANTS
  Chars, Blank,  \* printable characters, and ' '
  MAX_INPUT, HIST_SIZE,
  Cols,          \* VGA_COLS
  Prompt,        \* columns of the prompt
  MaxHist,       \* bound: lines entered into the history
  MaxShown       \* bound: characters of one line on the screen

ASSUME ReadlineAssumption ==
  /\ MAX_INPUT \in Nat \ {0} /\ HIST_SIZE \in Nat \ {0}
  /\ Prompt \in Nat \ {0} /\ Cols \in Nat /\ Prompt < Cols
  /\ MaxHist \in Nat /\ MaxShown \in Nat

VARIABLES
  input, hist, hist_n, hist_p,  \* the file's static variables
  shown,
  past   \* history: every line executed

vars == <<input, hist, hist_n, hist_p, shown, past>>

Lines == UNION {[1 .. n -> Chars \cup {Blank}] : n \in 0 .. MAX_INPUT - 1}

Init ==
  /\ input = <<>> /\ shown = <<>>
  /\ hist = [i \in 0 .. HIST_SIZE - 1 |-> <<>>]
  /\ hist_n = 0 /\ hist_p = 0
  /\ past = <<>>

----------------------------------------------------------------------------
(* cur_col *)
Col == (Prompt + Len(shown)) % Cols

(* vga_putchar('\b'), n times: it stops at the left edge. *)
Rubbed(n) == SubSeq(shown, 1, Len(shown) - Min({n, Col}))

Key(ch) ==
  /\ Len(input) < MAX_INPUT - 1
  /\ input' = Append(input, ch)
  /\ shown' = Append(shown, ch)
  /\ UNCHANGED <<hist, hist_n, hist_p, past>>

Backspace ==
  /\ input # <<>>
  /\ input' = Front(input)
  /\ shown' = Rubbed(1)
  /\ UNCHANGED <<hist, hist_n, hist_p, past>>

Slot(i) == i % HIST_SIZE

Show(line) == input' = line /\ shown' = Rubbed(Len(input)) \o line

(* KEY_UP: nothing keeps hist_p among the lines that are still there. *)
Up ==
  /\ hist_p > 0
  /\ hist_p' = hist_p - 1
  /\ Show(hist[Slot(hist_p - 1)])
  /\ UNCHANGED <<hist, hist_n, past>>

(* A bug to catch: the line shown is not taken off the screen. *)
DownOver ==
  /\ IF hist_p < hist_n - 1
     THEN hist_p' = hist_p + 1 /\ input' = hist[Slot(hist_p + 1)]
     ELSE hist_p' = hist_n /\ input' = <<>>
  /\ shown' = shown \o input'
  /\ UNCHANGED <<hist, hist_n, past>>

(* KEY_DOWN: past the last line, an empty one. *)
Down ==
  /\ IF hist_p < hist_n - 1
     THEN hist_p' = hist_p + 1 /\ Show(hist[Slot(hist_p + 1)])
     ELSE hist_p' = hist_n /\ Show(<<>>)
  /\ UNCHANGED <<hist, hist_n, past>>

(* execute takes the blanks off both ends. *)
Trimmed(line) ==
  LET black == {i \in DOMAIN line : line[i] # Blank}
  IN  IF black = {} THEN <<>> ELSE SubSeq(line, Min(black), Max(black))

(* A bug to catch: the next line is entered over the last one. *)
PushBefore(line) ==
  /\ hist' = [hist EXCEPT ![Slot(hist_n + HIST_SIZE - 1)] = line]
  /\ hist_n' = hist_n + 1

hist_push(line) ==
  /\ hist' = [hist EXCEPT ![Slot(hist_n)] = line]
  /\ hist_n' = hist_n + 1

(* The line is executed, and the next prompt printed on a line of its own. *)
Enter ==
  /\ LET line == Trimmed(input)
     IN  IF line = <<>> THEN UNCHANGED <<hist, hist_n, past>>
         ELSE hist_n < MaxHist /\ hist_push(line) /\ past' = Append(past, line)
  /\ hist_p' = hist_n'
  /\ input' = <<>> /\ shown' = <<>>

Bounded == Len(shown') <= MaxShown

Editing ==
  \/ \E ch \in Chars \cup {Blank} : Key(ch) /\ Bounded
  \/ Backspace
  \/ Up /\ Bounded
  \/ Down /\ Bounded

Next == Editing \/ Enter

Spec == Init /\ [][Next]_vars

----------------------------------------------------------------------------
TypeOK ==
  /\ input \in Lines
  /\ hist \in [0 .. HIST_SIZE - 1 -> Lines]
  /\ hist_n \in 0 .. MaxHist
  /\ hist_p \in 0 .. hist_n

(***************************************************************************)
(* The user sees the line that ENTER will execute, whatever was typed,     *)
(* rubbed out and recalled, as long as it does not reach the right edge:   *)
(* from there vga_putchar cannot go back, and the line stays on the        *)
(* screen when it is gone from input[].                                    *)
(***************************************************************************)
LineIsShown == Prompt + Len(shown) < Cols => shown = input

(***************************************************************************)
(* An arrow recalls the line that was entered hist_p lines after the       *)
(* first, if it is one of the last HIST_SIZE; the slots are reused.        *)
(***************************************************************************)
RecallsHistory ==
  [][(hist_p' # hist_p /\ hist_n' = hist_n /\ hist_p' < hist_n /\ hist_n - hist_p' <= HIST_SIZE)
       => input' = past[hist_p' + 1]]_vars
=============================================================================
