----------------------------- MODULE MCConsole -----------------------------
(* A console so narrow that a line of two characters reaches the edge, and *)
(* a board where the snake soon is as long as it may be.                   *)
EXTENDS Console

MCSnakeLines == {<<"a">>, <<"a", " ", "a">>}
=============================================================================
