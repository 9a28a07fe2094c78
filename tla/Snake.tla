------------------------------- MODULE Snake -------------------------------
(***************************************************************************)
(* The game of the shell (shell/snake.c): keys steer, and each time the    *)
(* tick counter has moved on far enough the snake moves by one cell.       *)
(* Any number of keys, read by keyboard_poll, may come between two moves.  *)
(* Score and speed say when the next move comes, not what it does, and are *)
(* left out with the drawing.                                              *)
(***************************************************************************)
EXTENDS Integers, Sequences

CONSTANTS
  W, H,      \* BOARD_W, BOARD_H
  MaxSnake   \* MAX_SNAKE

ASSUME SnakeAssumption ==
  /\ W \in Nat /\ W >= 4
  /\ H \in Nat \ {0}
  /\ MaxSnake \in Nat /\ MaxSnake > 3

VARIABLES
  mode,   \* "shell", "playing", or "over" (the game over screen)
  snake,  \* the used part of snake[], the head first
  d,      \* dx, dy: the last move
  nd,     \* ndx, ndy: the next one
  food

snakevars == <<mode, snake, d, nd, food>>

Board == [x : 0 .. W - 1, y : 0 .. H - 1]
At(x, y) == [x |-> x, y |-> y]
Directions == {At(0, -1), At(0, 1), At(-1, 0), At(1, 0)}
Plus(p, v) == At(p.x + v.x, p.y + v.y)

Cells == {snake[i] : i \in DOMAIN snake}

SnakeInit ==
  /\ mode = "shell"
  /\ snake = <<>>
  /\ d = At(1, 0) /\ nd = At(1, 0)
  /\ food = At(0, 0)

(* A free cell; or, after 200 tries in vain, the food stays where it was. *)
place_food(taken) == food' \in (Board \ taken) \cup {food}

snake_run ==
  /\ mode = "shell"
  /\ mode' = "playing"
  /\ snake' = [i \in 1 .. 3 |-> At((W \div 2) + 1 - i, H \div 2)]
  /\ d' = At(1, 0) /\ nd' = At(1, 0)
  /\ place_food({snake'[i] : i \in 1 .. 3})

(* A bug to catch: the turn is checked against the turn asked for before. *)
TurnsFromNext(v) == IF v.x = 0 THEN nd.y = 0 ELSE nd.x = 0

(* An arrow across the last move. *)
Turns(v) == IF v.x = 0 THEN d.y = 0 ELSE d.x = 0

Steer(v) ==
  /\ mode = "playing"
  /\ Turns(v)
  /\ nd' = v
  /\ UNCHANGED <<mode, snake, d, food>>

(***************************************************************************)
(* q; or any key on the game over screen.  The variables keep what they    *)
(* have, but snake_run sets all of them but food before it reads them.     *)
(***************************************************************************)
Leave ==
  /\ mode \in {"playing", "over"}
  /\ mode' = "shell"
  /\ snake' = <<>>
  /\ d' = At(1, 0) /\ nd' = At(1, 0)
  /\ UNCHANGED food

(* A bug to catch: the last two cells are not looked at. *)
HitsButTail(p) == \E i \in 2 .. Len(snake) - 2 : snake[i] = p

(* The head does not count, the cell the tail is about to leave does. *)
Hits(p) == \E i \in 2 .. Len(snake) : snake[i] = p

Crash(p) ==
  /\ mode' = "over"
  /\ d' = nd
  /\ UNCHANGED <<snake, nd, food>>

Creep(p) ==
  /\ snake' = [i \in 1 .. Len(snake) |-> IF i = 1 THEN p ELSE snake[i - 1]]
  /\ UNCHANGED food

(***************************************************************************)
(* The tail stays; at MAX_SNAKE, where there is no room, the whole body    *)
(* but the head does.  The food is placed before the head has moved.       *)
(***************************************************************************)
Eat(p) ==
  /\ snake' = IF Len(snake) < MaxSnake
              THEN [i \in 1 .. Len(snake) + 1 |-> IF i = 1 THEN p ELSE snake[i - 1]]
              ELSE [snake EXCEPT ![1] = p]
  /\ place_food(Cells)

Move ==
  LET p == Plus(snake[1], nd)
  IN  /\ mode = "playing"
      /\ IF p \notin Board \/ Hits(p) THEN Crash(p)
         ELSE /\ IF p = food THEN Eat(p) ELSE Creep(p)
              /\ d' = nd
              /\ UNCHANGED <<mode, nd>>

SnakeStep == (\E v \in Directions : Steer(v)) \/ Move \/ Leave
SnakeNext == snake_run \/ SnakeStep

SnakeSpec == SnakeInit /\ [][SnakeNext]_snakevars

----------------------------------------------------------------------------
SnakeTypeOK ==
  /\ mode \in {"shell", "playing", "over"}
  /\ snake \in Seq(Board)
  /\ d \in Directions /\ nd \in Directions
  /\ food \in Board
  /\ mode = "playing" => Len(snake) \in 3 .. MaxSnake

(***************************************************************************)
(* The snake never lies on itself.  Until it has grown to MAX_SNAKE it is  *)
(* in one piece, too; then a meal moves the head alone and leaves a gap.   *)
(***************************************************************************)
Apart == \A i, j \in DOMAIN snake : i # j => snake[i] # snake[j]

Joined == \A i \in 1 .. Len(snake) - 1 :
            \E v \in Directions : snake[i] = Plus(snake[i + 1], v)

InOnePiece == mode = "playing" => Apart /\ (Len(snake) < MaxSnake => Joined)

(***************************************************************************)
(* However fast keys follow each other between two moves, the snake never  *)
(* turns back into its own neck.                                           *)
(***************************************************************************)
NeckIsSafe ==
  mode = "playing" /\ Len(snake) < MaxSnake => Plus(snake[1], nd) # snake[2]
=============================================================================
