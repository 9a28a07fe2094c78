------------------------------ MODULE Console ------------------------------
(***************************************************************************)
(* The shell at the console (stellash_run and execute, shell/stellash.c):  *)
(* a line is edited and executed, and the word `snake' hands the keyboard  *)
(* and the screen to the game until it is over.  The next prompt stands on *)
(* a screen of its own, with the history as it was.                        *)
(***************************************************************************)
EXTENDS Readline, Snake

CONSTANT SnakeLines   \* the lines whose first word is `snake'

ASSUME ConsoleAssumption == SnakeLines \subseteq Lines

ConsoleInit == Init /\ SnakeInit

(* Enter a line that is another command, or none. *)
Prompting == mode = "shell"
Plain == Prompting /\ Trimmed(input) \notin SnakeLines /\ Enter /\ UNCHANGED snakevars

Play == Prompting /\ Trimmed(input) \in SnakeLines /\ Enter /\ snake_run

Edit == Prompting /\ Editing /\ UNCHANGED snakevars

Game == SnakeStep /\ UNCHANGED vars

ConsoleNext == Edit \/ Plain \/ Play \/ Game

ConsoleSpec == ConsoleInit /\ [][ConsoleNext]_<<vars, snakevars>>
=============================================================================
