------------------------------ MODULE MCFiles ------------------------------
(***************************************************************************)
(* Files on instances small enough for TLC.  The part a has one character, *)
(* as have h (home) and u (the user); A has the 63 that a name keeps, and  *)
(* AA is longer, with the first 63 of A.                                   *)
(***************************************************************************)
EXTENDS Files, TLC

CONSTANTS h, u, a, A, AA

MCParts == {Empty, Here, Up, h, u, a, A, AA}

MCWidth == [p \in MCParts |-> CASE p = Empty -> 0
                                [] p = Up -> 2
                                [] p = A -> 3
                                [] p = AA -> 4
                                [] OTHER -> 1]

MCCut == (<<A>> :> <<A>>) @@ (<<AA>> :> <<A>>)

(* Plain, up, absolute and below the home directory, and long. *)
MCWords == {<<a>>, <<Up>>, <<Empty, h, a>>, <<AA>>}

(* Everything sys_open does with its flags. *)
AllFlags == SUBSET {"O_CREAT", "O_TRUNC", "O_APPEND"}
=============================================================================
