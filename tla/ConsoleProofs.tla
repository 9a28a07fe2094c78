--------------------------- MODULE ConsoleProofs ---------------------------
(***************************************************************************)
(* The snake neither crosses itself nor turns into its neck, on a board of *)
(* any size, however fast the keys come and however often the shell starts *)
(* the game; and the command line shows what it will execute and recalls   *)
(* what was entered.                                                       *)
(***************************************************************************)
EXTENDS Console, TLAPS, WellFoundedInduction

(* The turn asked for never is the opposite of the last move. *)
NoReverse == nd.x + d.x # 0 \/ nd.y + d.y # 0

(* The head is where the last move took it from the neck. *)
NeckBehind ==
  mode = "playing" /\ Len(snake) < MaxSnake => snake[1] = Plus(snake[2], d)

(***************************************************************************)
(* The inductive invariant.  NeckIsSafe follows from NoReverse and         *)
(* NeckBehind; it is Turns, which looks at the last move and not at the    *)
(* last key, that keeps NoReverse.                                         *)
(***************************************************************************)
IInv == SnakeTypeOK /\ InOnePiece /\ NoReverse /\ NeckBehind

LEMMA Vectors ==
  /\ \A v \in Directions : v.x \in Int /\ v.y \in Int /\ (v.x # 0 <=> v.y = 0)
  /\ \A p \in Board : p.x \in Int /\ p.y \in Int
BY SMT DEF Directions, Board, At

LEMMA NeckFollows == IInv => NeckIsSafe
<1>. SUFFICES ASSUME IInv, mode = "playing", Len(snake) < MaxSnake
              PROVE  Plus(snake[1], nd) # snake[2]
  BY Zenon DEF NeckIsSafe
<1>1. snake[2] \in Board
  BY SnakeAssumption, SMT DEF IInv, SnakeTypeOK
<1>2. snake[1] = At(snake[2].x + d.x, snake[2].y + d.y)
  BY Zenon DEF IInv, NeckBehind, Plus
<1>3. /\ snake[2].x \in Int /\ snake[2].y \in Int
      /\ d.x \in Int /\ d.y \in Int /\ nd.x \in Int /\ nd.y \in Int
  BY <1>1, Vectors, Zenon DEF IInv, SnakeTypeOK
<1>4. snake[1].x = snake[2].x + d.x /\ snake[1].y = snake[2].y + d.y
  BY <1>2, SMT DEF At
<1>5. NoReverse
  BY Zenon DEF IInv
<1>6. snake[1].x + nd.x # snake[2].x \/ snake[1].y + nd.y # snake[2].y
  <2>. DEFINE a == snake[1].x
              b == snake[1].y
              e == snake[2].x
              f == snake[2].y
              dx == d.x
              dy == d.y
              ndx == nd.x
              ndy == nd.y
  <2>1. /\ a = e + dx /\ b = f + dy /\ (ndx + dx # 0 \/ ndy + dy # 0)
        /\ e \in Int /\ f \in Int /\ dx \in Int /\ dy \in Int /\ ndx \in Int /\ ndy \in Int
    BY <1>3, <1>4, <1>5, Zenon DEF NoReverse
  <2>. HIDE DEF a, b, e, f, dx, dy, ndx, ndy
  <2>2. a + ndx # e \/ b + ndy # f
    BY <2>1, SMT
  <2>. QED
    BY <2>2, Zenon DEF a, b, e, f, ndx, ndy
<1>7. /\ Plus(snake[1], nd).x = snake[1].x + nd.x
      /\ Plus(snake[1], nd).y = snake[1].y + nd.y
  BY SMT DEF Plus, At
<1>. QED
  BY <1>6, <1>7, Zenon

----------------------------------------------------------------------------
(* A snake that moves to p, with m cells from then on. *)
Moved(s, p, m) == [i \in 1 .. m |-> IF i = 1 THEN p ELSE s[i - 1]]

LEMMA MovedType ==
  ASSUME NEW s \in Seq(Board), NEW p \in Board, NEW m \in Nat, m <= Len(s) + 1
  PROVE  /\ Moved(s, p, m) \in Seq(Board)
         /\ Len(Moved(s, p, m)) = m
         /\ \A i \in 1 .. m : Moved(s, p, m)[i] = IF i = 1 THEN p ELSE s[i - 1]
<1>1. \A i \in 1 .. m : (IF i = 1 THEN p ELSE s[i - 1]) \in Board
  BY SMT
<1>2. Moved(s, p, m) \in [1 .. m -> Board]
  BY <1>1, Zenon DEF Moved
<1>. QED
  BY <1>2, SMT DEF Moved

LEMMA MovedApart ==
  ASSUME NEW s \in Seq(Board), NEW p \in Board, NEW m \in Nat, m <= Len(s) + 1,
         \A i, j \in 1 .. Len(s) : i # j => s[i] # s[j],
         \A i \in 1 .. m - 1 : s[i] # p
  PROVE  \A i, j \in 1 .. m : i # j => Moved(s, p, m)[i] # Moved(s, p, m)[j]
<1>. DEFINE t == Moved(s, p, m)
<1>1. \A k \in 1 .. m : t[k] = IF k = 1 THEN p ELSE s[k - 1]
  BY Zenon DEF Moved
<1>. HIDE DEF t
<1>2. \A i, j \in 1 .. m : i # j => t[i] # t[j]
  <2>. SUFFICES ASSUME NEW i \in 1 .. m, NEW j \in 1 .. m, i # j PROVE t[i] # t[j]
    OBVIOUS
  <2>1. CASE i = 1
    <3>1. t[i] = p /\ t[j] = s[j - 1] /\ j - 1 \in 1 .. m - 1
      BY <1>1, <2>1, SMT
    <3>. QED
      BY <3>1, Zenon
  <2>2. CASE j = 1
    <3>1. t[j] = p /\ t[i] = s[i - 1] /\ i - 1 \in 1 .. m - 1
      BY <1>1, <2>2, SMT
    <3>. QED
      BY <3>1, Zenon
  <2>3. CASE i # 1 /\ j # 1
    <3>1. /\ t[i] = s[i - 1] /\ t[j] = s[j - 1] /\ i - 1 # j - 1
          /\ i - 1 \in 1 .. Len(s) /\ j - 1 \in 1 .. Len(s)
      BY <1>1, <2>3, SMT
    <3>. QED
      BY <3>1, Zenon
  <2>. QED
    BY <2>1, <2>2, <2>3, Zenon
<1>. QED
  BY <1>2, Zenon DEF t

LEMMA MovedJoined ==
  ASSUME NEW s \in Seq(Board), NEW v \in Directions, NEW m \in Nat,
         m <= Len(s) + 1, Len(s) >= 1, Plus(s[1], v) \in Board,
         \A i \in 1 .. Len(s) - 1 : \E w \in Directions : s[i] = Plus(s[i + 1], w)
  PROVE  \A i \in 1 .. m - 1 : \E w \in Directions :
           Moved(s, Plus(s[1], v), m)[i] = Plus(Moved(s, Plus(s[1], v), m)[i + 1], w)
<1>. DEFINE p == Plus(s[1], v)
            t == Moved(s, p, m)
<1>1. \A k \in 1 .. m : t[k] = IF k = 1 THEN p ELSE s[k - 1]
  BY MovedType, Zenon
<1>. HIDE DEF t
<1>2. \A i \in 1 .. m - 1 : \E w \in Directions : t[i] = Plus(t[i + 1], w)
  <2>. SUFFICES ASSUME NEW i \in 1 .. m - 1
                PROVE  \E w \in Directions : t[i] = Plus(t[i + 1], w)
    OBVIOUS
  <2>1. CASE i = 1
    <3>. HIDE DEF p
    <3>1. t[i] = p /\ t[i + 1] = s[1]
      BY <1>1, <2>1, SMT
    <3>. QED
      BY <3>1, Zenon DEF p
  <2>2. CASE i # 1
    <3>. HIDE DEF p
    <3>1. t[i] = s[i - 1] /\ t[i + 1] = s[i] /\ i - 1 \in 1 .. Len(s) - 1 /\ (i - 1) + 1 = i
      BY <1>1, <2>2, SMT
    <3>. QED
      BY <3>1, Zenon
  <2>. QED
    BY <2>1, <2>2, Zenon
<1>. QED
  BY <1>2, Zenon DEF t

----------------------------------------------------------------------------
LEMMA InitInvariant == SnakeInit => IInv
BY SnakeAssumption, SMT
   DEF SnakeInit, IInv, SnakeTypeOK, InOnePiece, NoReverse, NeckBehind, Directions, Board, At

(* The food is on the board. *)
LEMMA FoodType ==
  ASSUME NEW taken, food \in Board, place_food(taken)
  PROVE  food' \in Board
BY Zenon DEF place_food

LEMMA StartInvariant ==
  ASSUME IInv, snake_run
  PROVE  IInv'
<1>. DEFINE x == W \div 2
            y == H \div 2
<1>1. x \in Nat /\ y \in Nat /\ x >= 2 /\ x < W /\ y < H
  BY SnakeAssumption, SMT
<1>. HIDE DEF x, y
<1>2. snake' = [i \in 1 .. 3 |-> At(x + 1 - i, y)]
  BY Zenon DEF snake_run, x, y
<1>3. \A i \in 1 .. 3 : At(x + 1 - i, y) \in Board
  BY <1>1, SnakeAssumption, SMT DEF Board, At
<1>4. snake' \in [1 .. 3 -> Board]
  BY <1>2, <1>3, Zenon
<1>5. snake' \in Seq(Board) /\ Len(snake') = 3 /\ DOMAIN snake' = 1 .. 3
  BY <1>2, <1>4, SMT
<1>6. At(1, 0) \in Directions
  BY Zenon DEF Directions
<1>7. mode' = "playing" /\ d' = At(1, 0) /\ nd' = At(1, 0)
  BY Zenon DEF snake_run
<1>8. food' \in Board
  BY FoodType, Zenon DEF snake_run, IInv, SnakeTypeOK
<1>9. SnakeTypeOK'
  BY <1>5, <1>6, <1>7, <1>8, SnakeAssumption, SMT DEF SnakeTypeOK
<1>10. Apart'
  BY <1>1, <1>2, <1>5, SMT DEF Apart, At
<1>11. \A i \in 1 .. 2 : snake'[i] = Plus(snake'[i + 1], At(1, 0))
  BY <1>1, <1>2, SMT DEF Plus, At
<1>12. Joined'
  BY <1>5, <1>6, <1>11, SMT DEF Joined
<1>13. NeckBehind'
  BY <1>7, <1>11, SMT DEF NeckBehind
<1>14. NoReverse'
  BY <1>7, SMT DEF NoReverse, At
<1>. QED
  BY <1>9, <1>10, <1>12, <1>13, <1>14, Zenon DEF IInv, InOnePiece

LEMMA SteerInvariant ==
  ASSUME IInv, NEW v \in Directions, Steer(v)
  PROVE  IInv'
<1>1. UNCHANGED <<mode, snake, d, food>> /\ nd' = v
  BY Zenon DEF Steer
<1>2. SnakeTypeOK' /\ InOnePiece' /\ NeckBehind'
  BY <1>1, Zenon DEF IInv, SnakeTypeOK, InOnePiece, Apart, Joined, NeckBehind
<1>3. d \in Directions
  BY Zenon DEF IInv, SnakeTypeOK
<1>4. v.x + d.x # 0 \/ v.y + d.y # 0
  BY <1>3, Vectors, SMT DEF Steer, Turns
<1>5. NoReverse'
  BY <1>1, <1>4, Zenon DEF NoReverse
<1>. QED
  BY <1>2, <1>5, Zenon DEF IInv

LEMMA LeaveInvariant ==
  ASSUME IInv, Leave
  PROVE  IInv'
<1>1. mode' = "shell" /\ snake' = <<>> /\ d' = At(1, 0) /\ nd' = At(1, 0) /\ food' = food
  BY Zenon DEF Leave
<1>2. At(1, 0) \in Directions
  BY Zenon DEF Directions
<1>3. <<>> \in Seq(Board)
  BY SMT
<1>4. SnakeTypeOK'
  BY <1>1, <1>2, <1>3, Zenon DEF IInv, SnakeTypeOK
<1>5. NoReverse'
  BY <1>1, SMT DEF NoReverse, At
<1>. QED
  BY <1>1, <1>4, <1>5, Zenon DEF IInv, InOnePiece, NeckBehind

----------------------------------------------------------------------------
(* A move: p is where the head goes. *)
LEMMA MoveInvariant ==
  ASSUME IInv, Move
  PROVE  IInv'
<1>. DEFINE p == Plus(snake[1], nd)
            n == Len(snake)
<1>1. /\ mode = "playing" /\ snake \in Seq(Board) /\ n \in 3 .. MaxSnake
      /\ d \in Directions /\ nd \in Directions /\ food \in Board
      /\ Apart /\ (n < MaxSnake => Joined)
  BY Zenon DEF Move, IInv, SnakeTypeOK, InOnePiece
<1>2. \A i, j \in 1 .. n : i # j => snake[i] # snake[j]
  BY <1>1, SMT DEF Apart
<1>3. nd.x + nd.x # 0 \/ nd.y + nd.y # 0
  <2>1. nd.x \in Int /\ nd.y \in Int /\ (nd.x # 0 <=> nd.y = 0)
    BY <1>1, Vectors, Zenon
  <2>2. \A a, b \in Int : (a # 0 <=> b = 0) => a + a # 0 \/ b + b # 0
    BY SMT
  <2>. QED
    BY <2>1, <2>2, Zenon
<1>4. CASE p \notin Board \/ Hits(p)
  <2>1. mode' = "over" /\ d' = nd /\ UNCHANGED <<snake, nd, food>>
    BY <1>4, Zenon DEF Move, Crash
  <2>. QED
    BY <1>1, <1>3, <2>1, Zenon DEF IInv, SnakeTypeOK, InOnePiece, NoReverse, NeckBehind
<1>5. CASE p \in Board /\ ~Hits(p)
  <2>1. d' = nd /\ nd' = nd /\ mode' = "playing"
    BY <1>1, <1>5, Zenon DEF Move
  <2>2. NoReverse'
    BY <1>3, <2>1, Zenon DEF NoReverse
  <2>3. \A i \in 2 .. n : snake[i] # p
    BY <1>5, Zenon DEF Hits
  <2>4. food' \in Board
    BY <1>1, <1>5, FoodType, Zenon DEF Move, Eat, Creep
  <2>5. snake[1] \in Board /\ p # snake[1]
    <3>1. snake[1] \in Board
      BY <1>1, SMT
    <3>. QED
      BY <1>1, <3>1, Vectors, SMT DEF Plus, At
  <2>6. \A i \in 1 .. n : snake[i] # p
    BY <1>1, <2>3, <2>5, SMT
  <2>7. CASE p = food /\ n = MaxSnake
    <3>1. snake' = [snake EXCEPT ![1] = p]
      BY <1>1, <1>5, <2>7, SMT DEF Move, Eat
    <3>2. /\ snake' \in Seq(Board) /\ Len(snake') = n /\ DOMAIN snake' = 1 .. n
          /\ snake'[1] = p /\ \A i \in 2 .. n : snake'[i] = snake[i]
      BY <1>1, <1>5, <3>1, SMT
    <3>3. Apart'
      BY <1>1, <1>2, <2>6, <3>2, SMT DEF Apart
    <3>. QED
      BY <1>1, <2>1, <2>2, <2>4, <2>7, <3>2, <3>3, SMT
         DEF IInv, SnakeTypeOK, InOnePiece, NeckBehind
  <2>8. CASE ~(p = food /\ n = MaxSnake)
    <3>1. PICK m \in Nat : /\ m \in {n, n + 1} /\ m <= MaxSnake
                           /\ (m < MaxSnake => n < MaxSnake)
                           /\ snake' = Moved(snake, p, m)
      <4>1. CASE p = food
        <5>0. n < MaxSnake
          BY <1>1, <2>8, <4>1, SnakeAssumption, SMT
        <5>1. snake' = Moved(snake, p, n + 1)
          BY <1>5, <4>1, <5>0, Zenon DEF Move, Eat, Moved
        <5>. QED
          BY <1>1, <2>8, <4>1, <5>1, SnakeAssumption, SMT
      <4>2. CASE p # food
        <5>1. snake' = Moved(snake, p, n)
          BY <1>5, <4>2, Zenon DEF Move, Creep, Moved
        <5>. QED
          BY <1>1, <5>1, SnakeAssumption, SMT
      <4>. QED
        BY <4>1, <4>2
    <3>. HIDE DEF p
    <3>2. /\ snake' \in Seq(Board) /\ Len(snake') = m
          /\ \A i \in 1 .. m : snake'[i] = IF i = 1 THEN p ELSE snake[i - 1]
      <4>1. snake \in Seq(Board) /\ p \in Board /\ m <= Len(snake) + 1
        BY <1>1, <1>5, <3>1, SMT
      <4>2. Moved(snake, p, m) \in Seq(Board) /\ Len(Moved(snake, p, m)) = m
        BY <4>1, MovedType, Zenon
      <4>3. \A i \in 1 .. m : Moved(snake, p, m)[i] = IF i = 1 THEN p ELSE snake[i - 1]
        BY Zenon DEF Moved
      <4>. QED
        BY <3>1, <4>2, <4>3, Zenon
    <3>3. \A i, j \in 1 .. m : i # j => snake'[i] # snake'[j]
      <4>1. m <= n + 1 /\ \A i \in 1 .. m - 1 : snake[i] # p
        BY <1>1, <2>6, <3>1, SMT
      <4>. QED
        BY <1>1, <1>2, <1>5, <3>1, <4>1, MovedApart, Zenon
    <3>4. Apart'
      BY <3>2, <3>3, SMT DEF Apart
    <3>5. m < MaxSnake => Joined'
      <4>. SUFFICES ASSUME m < MaxSnake PROVE Joined'
        OBVIOUS
      <4>1. \A i \in 1 .. n - 1 : \E w \in Directions : snake[i] = Plus(snake[i + 1], w)
        BY <1>1, <3>1, Zenon DEF Joined
      <4>2. n >= 1 /\ m <= n + 1
        BY <1>1, <3>1, SMT
      <4>3. \A i \in 1 .. m - 1 : \E w \in Directions : snake'[i] = Plus(snake'[i + 1], w)
        BY <1>1, <1>5, <3>1, <4>1, <4>2, MovedJoined, Zenon DEF p
      <4>. QED
        BY <3>2, <4>3, Zenon DEF Joined
    <3>6. snake'[1] = Plus(snake'[2], nd)
      BY <1>1, <3>1, <3>2, SMT DEF p
    <3>7. m \in 3 .. MaxSnake
      BY <1>1, <3>1, SMT
    <3>. QED
      BY <1>1, <2>1, <2>2, <2>4, <3>2, <3>4, <3>5, <3>6, <3>7, Zenon
         DEF IInv, SnakeTypeOK, InOnePiece, NeckBehind
  <2>. QED
    BY <2>7, <2>8
<1>. QED
  BY <1>4, <1>5

LEMMA StepInvariant == IInv /\ [SnakeNext]_snakevars => IInv'
<1>. SUFFICES ASSUME IInv, [SnakeNext]_snakevars PROVE IInv'
  OBVIOUS
<1>1. CASE snake_run
  BY <1>1, StartInvariant
<1>2. CASE \E v \in Directions : Steer(v)
  BY <1>2, SteerInvariant
<1>3. CASE Move
  BY <1>3, MoveInvariant
<1>4. CASE Leave
  BY <1>4, LeaveInvariant
<1>5. CASE UNCHANGED snakevars
  BY <1>5, Zenon DEF snakevars, IInv, SnakeTypeOK, InOnePiece, Apart, Joined, NoReverse, NeckBehind
<1>. QED
  BY <1>1, <1>2, <1>3, <1>4, <1>5, Zenon DEF SnakeNext, SnakeStep

(* All the shell does to the game is to start it. *)
LEMMA GameIsPlayed == ConsoleSpec => SnakeSpec
<1>1. ConsoleInit => SnakeInit
  BY Zenon DEF ConsoleInit
<1>2. [ConsoleNext]_<<vars, snakevars>> => [SnakeNext]_snakevars
  BY Zenon DEF ConsoleNext, Edit, Plain, Play, Game, SnakeNext
<1>. QED
  BY <1>1, <1>2, PTL DEF ConsoleSpec, SnakeSpec

LEMMA Invariance == ConsoleSpec => []IInv
BY GameIsPlayed, InitInvariant, StepInvariant, PTL DEF SnakeSpec

(***************************************************************************)
(* The snake stays on the board and within snake[MAX_SNAKE] (snake.c:21).  *)
(***************************************************************************)
THEOREM TypeCorrect == ConsoleSpec => []SnakeTypeOK
BY Invariance, PTL DEF IInv

(***************************************************************************)
(* On any board the snake never lies on itself, and is in one piece until  *)
(* it is as long as it may be.                                             *)
(***************************************************************************)
THEOREM NeverCrossed == ConsoleSpec => []InOnePiece
BY Invariance, PTL DEF IInv

(***************************************************************************)
(* No sequence of keys between two moves turns the snake into its neck.    *)
(***************************************************************************)
THEOREM NeckNeverHit == ConsoleSpec => []NeckIsSafe
BY Invariance, NeckFollows, PTL
----------------------------------------------------------------------------
(***************************************************************************)
(* The command line, on a console of any width, with a history of any      *)
(* length.                                                                 *)
(***************************************************************************)
Printable == Chars \cup {Blank}

(* Every line that is still in a slot is the one that was entered there. *)
HistoryKept ==
  /\ past \in Seq(Lines) /\ Len(past) = hist_n
  /\ \A i \in 0 .. hist_n - 1 : hist_n - i <= HIST_SIZE => hist[Slot(i)] = past[i + 1]

(***************************************************************************)
(* The inductive invariant.  LineIsShown is inductive because a backspace  *)
(* never takes a line that has reached the edge back below it              *)
(* (RubbedOut); RecallsHistory needs HistoryKept.                          *)
(***************************************************************************)
LineInv == TypeOK /\ shown \in Seq(Printable) /\ LineIsShown /\ HistoryKept

LEMMA LinesAre == \A l : l \in Lines <=> l \in Seq(Printable) /\ Len(l) <= MAX_INPUT - 1
<1>. SUFFICES ASSUME NEW l PROVE l \in Lines <=> l \in Seq(Printable) /\ Len(l) <= MAX_INPUT - 1
  OBVIOUS
<1>1. l \in Lines <=> \E n \in 0 .. MAX_INPUT - 1 : l \in [1 .. n -> Printable]
  BY Zenon DEF Lines, Printable
<1>2. ASSUME NEW n \in 0 .. MAX_INPUT - 1, l \in [1 .. n -> Printable]
      PROVE  l \in Seq(Printable) /\ Len(l) <= MAX_INPUT - 1
  BY <1>2, ReadlineAssumption, SMT
<1>3. ASSUME l \in Seq(Printable), Len(l) <= MAX_INPUT - 1
      PROVE  Len(l) \in 0 .. MAX_INPUT - 1 /\ l \in [1 .. Len(l) -> Printable]
  BY <1>3, ReadlineAssumption, SMT
<1>. QED
  BY <1>1, <1>2, <1>3, Zenon

LEMMA MinOfTwo ==
  ASSUME NEW a \in Int, NEW b \in Int
  PROVE  Min({a, b}) = IF a <= b THEN a ELSE b
<1>. DEFINE m == IF a <= b THEN a ELSE b
<1>1. m \in {a, b} /\ \A y \in {a, b} : m <= y
  BY SMT
<1>2. \A x \in {a, b} : (\A y \in {a, b} : x <= y) => x = m
  BY SMT
<1>. HIDE DEF m
<1>3. Min({a, b}) = m
  BY <1>1, <1>2, Zenon DEF Min
<1>. QED
  BY <1>3 DEF m

(* vga_putchar('\b'): a line short of the edge goes back as far as it is    *)
(* told to; one that has reached the edge never comes back below it.        *)
LEMMA RubbedOut ==
  ASSUME shown \in Seq(Printable), input \in Seq(Printable), LineIsShown,
         NEW n \in 0 .. Len(input)
  PROVE  /\ Rubbed(n) \in Seq(Printable)
         /\ Prompt + Len(shown) < Cols => Rubbed(n) = SubSeq(input, 1, Len(input) - n)
         /\ Prompt + Len(shown) >= Cols => Prompt + Len(Rubbed(n)) >= Cols
<1>. DEFINE L == Prompt + Len(shown)
            m == Min({n, Col})
<1>1. L \in Nat /\ Len(shown) \in Nat /\ n \in Nat /\ Cols \in Nat \ {0}
  BY ReadlineAssumption, SMT
<1>2. L % Cols \in 0 .. Cols - 1 /\ (L < Cols => L % Cols = L) /\ (L >= Cols => L % Cols <= L - Cols)
  <2>. HIDE DEF L
  <2>. QED
    BY <1>1, SMT
<1>3. Col \in 0 .. Cols - 1 /\ (L < Cols => Col = L) /\ (L >= Cols => Col <= L - Cols)
  <2>1. Col = L % Cols
    BY Zenon DEF Col
  <2>. HIDE DEF L
  <2>. QED
    BY <1>2, <2>1, Zenon
<1>4. m = IF n <= Col THEN n ELSE Col
  <2>1. n \in Int /\ Col \in Int
    BY <1>1, <1>3, SMT
  <2>. QED
    BY <2>1, MinOfTwo, Zenon
<1>5. Rubbed(n) = SubSeq(shown, 1, Len(shown) - m)
  BY Zenon DEF Rubbed
<1>6. m \in Nat /\ m <= Col
  BY <1>1, <1>3, <1>4, SMT
<1>. HIDE DEF m
<1>7. CASE L < Cols
  <2>1. shown = input
    BY <1>7, Zenon DEF LineIsShown
  <2>2. m = n
    BY <1>1, <1>3, <1>4, <1>7, <2>1, ReadlineAssumption, SMT
  <2>3. Rubbed(n) = SubSeq(input, 1, Len(input) - n)
    BY <1>5, <2>1, <2>2, Zenon
  <2>4. Rubbed(n) \in Seq(Printable)
    BY <1>1, <2>3, SMT
  <2>. QED
    BY <1>1, <1>7, <2>3, <2>4, SMT
<1>8. CASE L >= Cols
  <2>1. Len(shown) - m \in 0 .. Len(shown) /\ Prompt + (Len(shown) - m) >= Cols
    BY <1>1, <1>3, <1>6, <1>8, ReadlineAssumption, SMT
  <2>2. Rubbed(n) \in Seq(Printable) /\ Len(Rubbed(n)) = Len(shown) - m
    BY <1>1, <1>5, <2>1, SMT
  <2>. QED
    BY <1>1, <1>8, <2>1, <2>2, SMT
<1>. QED
  BY <1>1, <1>7, <1>8, SMT

(* Another line in the place of the one that is there. *)
LEMMA ShowKeeps ==
  ASSUME shown \in Seq(Printable), input \in Seq(Printable), LineIsShown,
         NEW line \in Seq(Printable), Show(line)
  PROVE  shown' \in Seq(Printable) /\ LineIsShown'
<1>. DEFINE r == Rubbed(Len(input))
<1>1. Len(input) \in 0 .. Len(input)
  BY SMT
<1>2. /\ r \in Seq(Printable)
      /\ Prompt + Len(shown) < Cols => r = SubSeq(input, 1, Len(input) - Len(input))
      /\ Prompt + Len(shown) >= Cols => Prompt + Len(r) >= Cols
  BY <1>1, RubbedOut, Zenon
<1>3. shown' = r \o line /\ input' = line
  BY Zenon DEF Show
<1>. HIDE DEF r
<1>4. shown' \in Seq(Printable) /\ Len(shown') = Len(r) + Len(line)
  BY <1>2, <1>3, SMT
<1>5. CASE Prompt + Len(shown) < Cols
  <2>1. r = <<>>
    BY <1>2, <1>5, SMT
  <2>2. shown' = line
    BY <1>3, <2>1, SMT
  <2>. QED
    BY <1>3, <1>4, <2>2, Zenon DEF LineIsShown
<1>6. CASE Prompt + Len(shown) >= Cols
  <2>1. ~(Prompt + Len(shown') < Cols)
    BY <1>2, <1>4, <1>6, ReadlineAssumption, SMT
  <2>. QED
    BY <1>4, <2>1, Zenon DEF LineIsShown
<1>. QED
  BY <1>5, <1>6, ReadlineAssumption, SMT

----------------------------------------------------------------------------
(* Sets of positions have a first and a last. *)
LEMMA FirstOf ==
  ASSUME NEW S \in SUBSET Nat, S # {}
  PROVE  Min(S) \in S /\ \A y \in S : Min(S) <= y
<1>1. PICK x \in S : \A y \in S : ~ (<<y, x>> \in OpToRel(<, Nat))
  BY NatLessThanWellFounded, WFMin
<1>2. \A y \in S : ~ (y < x)
  BY <1>1 DEF OpToRel
<1>3. \A y \in S : x <= y
  BY <1>2, SMT
<1>. QED
  BY <1>3, Zenon DEF Min

LEMMA LastOf ==
  ASSUME NEW n \in Nat, NEW S \in SUBSET (1 .. n), S # {}
  PROVE  Max(S) \in S
<1>. DEFINE T == {n - x : x \in S}
<1>1. T \in SUBSET Nat
  BY SMT
<1>2. T # {}
  <2>1. PICK x : x \in S
    BY Zenon
  <2>. QED
    BY <2>1, Zenon
<1>3. PICK t \in T : \A y \in T : t <= y
  <2>. HIDE DEF T
  <2>. QED
    BY <1>1, <1>2, FirstOf, Zenon
<1>4. PICK x \in S : t = n - x
  BY Zenon
<1>5. ASSUME NEW y \in S PROVE x >= y
  <2>1. n - y \in T
    BY Zenon
  <2>2. n - x <= n - y
    BY <1>3, <1>4, <2>1, Zenon
  <2>3. x \in 1 .. n /\ y \in 1 .. n
    BY Zenon
  <2>. QED
    BY <2>2, <2>3, SMT
<1>. QED
  BY <1>5, Zenon DEF Max

LEMMA TrimmedType ==
  ASSUME NEW line \in Lines
  PROVE  Trimmed(line) \in Lines
<1>. DEFINE black == {i \in DOMAIN line : line[i] # Blank}
            n == Len(line)
<1>1. line \in Seq(Printable) /\ n <= MAX_INPUT - 1
  BY LinesAre, Zenon
<1>2. DOMAIN line = 1 .. n /\ n \in Nat
  BY <1>1, SMT
<1>3. CASE black = {}
  <2>1. Trimmed(line) = <<>>
    BY <1>3, Zenon DEF Trimmed
  <2>2. <<>> \in Seq(Printable) /\ Len(<<>>) <= MAX_INPUT - 1
    BY ReadlineAssumption, SMT
  <2>. QED
    BY <2>1, <2>2, LinesAre, Zenon
<1>4. CASE black # {}
  <2>1. black \in SUBSET (1 .. n) /\ black \in SUBSET Nat
    BY <1>2, SMT
  <2>2. Trimmed(line) = SubSeq(line, Min(black), Max(black))
    BY <1>4, Zenon DEF Trimmed
  <2>. HIDE DEF black
  <2>3. Min(black) \in 1 .. n /\ Max(black) \in 1 .. n
    BY <1>2, <1>4, <2>1, FirstOf, LastOf, Zenon
  <2>. DEFINE a == Min(black)
              b == Max(black)
  <2>. HIDE DEF a, b
  <2>4. SubSeq(line, a, b) \in Seq(Printable) /\ Len(SubSeq(line, a, b)) <= n
    <3>1. a \in 1 .. n /\ b \in 1 .. n
      BY <2>3 DEF a, b
    <3>. QED
      BY <1>1, <1>2, <3>1, SMT
  <2>5. Trimmed(line) \in Seq(Printable) /\ Len(Trimmed(line)) <= n
    BY <2>2, <2>4, Zenon DEF a, b
  <2>. HIDE DEF n
  <2>6. Len(Trimmed(line)) <= MAX_INPUT - 1
    BY <1>1, <1>2, <2>5, ReadlineAssumption, SMT
  <2>. QED
    BY <2>5, <2>6, LinesAre, Zenon
<1>. QED
  BY <1>3, <1>4
----------------------------------------------------------------------------
LEMMA Slots == \A i \in Nat : Slot(i) \in 0 .. HIST_SIZE - 1
BY ReadlineAssumption, SMT DEF Slot

LEMMA SameRemainder ==
  ASSUME NEW n \in Nat \ {0}, NEW a \in Nat, NEW b \in Nat, a % n = b % n, a < b
  PROVE  b - a >= n
BY SMT

(* Lines less than HIST_SIZE apart have slots of their own. *)
LEMMA SlotsApart ==
  ASSUME NEW i \in Nat, NEW j \in Nat, i < j, j - i < HIST_SIZE
  PROVE  Slot(i) # Slot(j)
<1>. SUFFICES ASSUME Slot(i) = Slot(j) PROVE FALSE
  OBVIOUS
<1>1. HIST_SIZE \in Nat \ {0} /\ i % HIST_SIZE = j % HIST_SIZE
  BY ReadlineAssumption, Zenon DEF Slot
<1>2. j - i >= HIST_SIZE
  BY <1>1, SameRemainder, Zenon
<1>. QED
  BY <1>1, <1>2, SMT

LEMMA LineTypes ==
  ASSUME LineInv
  PROVE  /\ input \in Lines /\ input \in Seq(Printable) /\ Len(input) <= MAX_INPUT - 1
         /\ shown \in Seq(Printable) /\ LineIsShown /\ HistoryKept
         /\ hist \in [0 .. HIST_SIZE - 1 -> Lines]
         /\ hist_n \in 0 .. MaxHist /\ hist_p \in 0 .. hist_n /\ hist_n \in Nat
         /\ \A i \in Nat : hist[Slot(i)] \in Lines /\ hist[Slot(i)] \in Seq(Printable)
<1>1. hist_n \in 0 .. MaxHist
  BY Zenon DEF LineInv, TypeOK
<1>2. hist_n \in Nat
  BY <1>1, ReadlineAssumption, SMT
<1>. QED
  BY <1>1, <1>2, LinesAre, Slots, Zenon DEF LineInv, TypeOK

LEMMA KeyKeeps ==
  ASSUME LineInv, NEW ch \in Printable, Key(ch)
  PROVE  LineInv'
<1>1. /\ Len(input) < MAX_INPUT - 1 /\ input' = Append(input, ch) /\ shown' = Append(shown, ch)
      /\ UNCHANGED <<hist, hist_n, hist_p, past>>
  BY Zenon DEF Key
<1>2. /\ input' \in Seq(Printable) /\ Len(input') <= MAX_INPUT - 1
      /\ shown' \in Seq(Printable) /\ Len(shown') = Len(shown) + 1
  BY <1>1, LineTypes, ReadlineAssumption, SMT
<1>3. input' \in Lines
  BY <1>2, LinesAre, Zenon
<1>4. LineIsShown'
  <2>1. Prompt + Len(shown') < Cols => Prompt + Len(shown) < Cols
    BY <1>2, LineTypes, ReadlineAssumption, SMT
  <2>. QED
    BY <1>1, <2>1, Zenon DEF LineInv, LineIsShown
<1>. QED
  BY <1>1, <1>2, <1>3, <1>4, Zenon DEF LineInv, TypeOK, HistoryKept, Slot

LEMMA RubKeeps ==
  ASSUME LineInv, Backspace
  PROVE  LineInv'
<1>1. /\ input # <<>> /\ input' = SubSeq(input, 1, Len(input) - 1) /\ shown' = Rubbed(1)
      /\ UNCHANGED <<hist, hist_n, hist_p, past>>
  BY Zenon DEF Backspace, Front
<1>2. /\ input' \in Seq(Printable) /\ Len(input') <= MAX_INPUT - 1
      /\ 1 \in 0 .. Len(input)
  BY <1>1, LineTypes, ReadlineAssumption, SMT
<1>3. input' \in Lines
  BY <1>2, LinesAre, Zenon
<1>4. /\ shown' \in Seq(Printable)
      /\ Prompt + Len(shown) < Cols => shown' = input'
      /\ Prompt + Len(shown) >= Cols => Prompt + Len(shown') >= Cols
  BY <1>1, <1>2, LineTypes, RubbedOut, Zenon
<1>5. LineIsShown'
  <2>1. Prompt + Len(shown) \in Int /\ Prompt + Len(shown') \in Int
    BY <1>4, LineTypes, ReadlineAssumption, SMT
  <2>2. Prompt + Len(shown) < Cols \/ Prompt + Len(shown) >= Cols
    BY <2>1, ReadlineAssumption, SMT
  <2>3. Prompt + Len(shown') >= Cols => ~(Prompt + Len(shown') < Cols)
    BY <2>1, ReadlineAssumption, SMT
  <2>. QED
    BY <1>4, <2>2, <2>3, Zenon DEF LineIsShown
<1>. QED
  BY <1>1, <1>3, <1>4, <1>5, Zenon DEF LineInv, TypeOK, HistoryKept, Slot

(* The arrows move within the history, and show one of its lines. *)
LEMMA ArrowKeeps ==
  ASSUME LineInv, NEW line \in Lines, Show(line), UNCHANGED <<hist, hist_n, past>>,
         hist_p' \in 0 .. hist_n
  PROVE  LineInv'
<1>1. line \in Seq(Printable)
  BY LinesAre, Zenon
<1>2. shown' \in Seq(Printable) /\ LineIsShown'
  BY <1>1, LineTypes, ShowKeeps, Zenon
<1>3. input' = line
  BY Zenon DEF Show
<1>. QED
  BY <1>2, <1>3, Zenon DEF LineInv, TypeOK, HistoryKept, Slot

LEMMA UpKeeps ==
  ASSUME LineInv, Up
  PROVE  LineInv'
<1>1. /\ hist_p > 0 /\ hist_p' = hist_p - 1 /\ Show(hist[Slot(hist_p - 1)])
      /\ UNCHANGED <<hist, hist_n, past>>
  BY Zenon DEF Up
<1>2. hist_p - 1 \in Nat /\ hist_p' \in 0 .. hist_n
  BY <1>1, LineTypes, SMT
<1>3. hist[Slot(hist_p - 1)] \in Lines
  BY <1>2, LineTypes, Zenon
<1>. QED
  BY <1>1, <1>2, <1>3, ArrowKeeps, Zenon

LEMMA DownKeeps ==
  ASSUME LineInv, Down
  PROVE  LineInv'
<1>0. UNCHANGED <<hist, hist_n, past>>
  BY Zenon DEF Down
<1>1. CASE hist_p < hist_n - 1
  <2>1. hist_p' = hist_p + 1 /\ Show(hist[Slot(hist_p + 1)])
    BY <1>1, Zenon DEF Down
  <2>2. hist_p + 1 \in Nat /\ hist_p' \in 0 .. hist_n
    BY <1>1, <2>1, LineTypes, SMT
  <2>3. hist[Slot(hist_p + 1)] \in Lines
    BY <2>2, LineTypes, Zenon
  <2>. QED
    BY <1>0, <2>1, <2>2, <2>3, ArrowKeeps, Zenon
<1>2. CASE ~(hist_p < hist_n - 1)
  <2>1. hist_p' = hist_n /\ Show(<<>>)
    BY <1>2, Zenon DEF Down
  <2>2. hist_p' \in 0 .. hist_n
    BY <2>1, LineTypes, SMT
  <2>3. <<>> \in Lines
    <3>1. <<>> \in Seq(Printable) /\ Len(<<>>) <= MAX_INPUT - 1
      BY ReadlineAssumption, SMT
    <3>. QED
      BY <3>1, LinesAre, Zenon
  <2>. QED
    BY <1>0, <2>1, <2>2, <2>3, ArrowKeeps, Zenon
<1>. QED
  BY <1>1, <1>2

(* A line that is entered takes the slot of one HIST_SIZE lines older. *)
LEMMA PushKeeps ==
  ASSUME LineInv, NEW line \in Lines, hist_push(line), hist_n < MaxHist,
         past' = Append(past, line)
  PROVE  /\ HistoryKept' /\ hist' \in [0 .. HIST_SIZE - 1 -> Lines]
         /\ hist_n' \in 0 .. MaxHist /\ hist_n' \in Nat
<1>1. hist' = [hist EXCEPT ![Slot(hist_n)] = line] /\ hist_n' = hist_n + 1
  BY Zenon DEF hist_push
<1>2. /\ past \in Seq(Lines) /\ Len(past) = hist_n /\ hist_n \in Nat
      /\ hist \in [0 .. HIST_SIZE - 1 -> Lines] /\ Slot(hist_n) \in 0 .. HIST_SIZE - 1
      /\ \A i \in 0 .. hist_n - 1 : hist_n - i <= HIST_SIZE => hist[Slot(i)] = past[i + 1]
  BY LineTypes, Slots, Zenon DEF HistoryKept
<1>3. hist' \in [0 .. HIST_SIZE - 1 -> Lines]
  BY <1>1, <1>2, Zenon
<1>4. hist_n' \in 0 .. MaxHist /\ hist_n' \in Nat
  BY <1>1, <1>2, ReadlineAssumption, SMT
<1>5. /\ past' \in Seq(Lines) /\ Len(past') = hist_n' /\ past'[hist_n + 1] = line
      /\ \A i \in 1 .. hist_n : past'[i] = past[i]
  BY <1>1, <1>2, SMT
<1>6. ASSUME NEW i \in 0 .. hist_n' - 1, hist_n' - i <= HIST_SIZE
      PROVE  hist'[Slot(i)] = past'[i + 1]
  <2>1. i \in Nat /\ (i = hist_n \/ (i \in 0 .. hist_n - 1 /\ i + 1 \in 1 .. hist_n))
    BY <1>1, <1>2, SMT
  <2>2. CASE i = hist_n
    BY <1>1, <1>2, <1>5, <2>2, Zenon
  <2>3. CASE i \in 0 .. hist_n - 1 /\ i + 1 \in 1 .. hist_n
    <3>1. i < hist_n /\ hist_n - i < HIST_SIZE /\ hist_n - i <= HIST_SIZE
      BY <1>1, <1>2, <1>6, <2>3, ReadlineAssumption, SMT
    <3>2. Slot(i) # Slot(hist_n) /\ Slot(i) \in 0 .. HIST_SIZE - 1
      BY <1>2, <2>1, <3>1, Slots, SlotsApart, Zenon
    <3>3. hist'[Slot(i)] = hist[Slot(i)]
      BY <1>1, <1>2, <3>2, Zenon
    <3>. QED
      BY <1>2, <1>5, <2>3, <3>1, <3>3, Zenon
  <2>. QED
    BY <2>1, <2>2, <2>3
<1>7. HistoryKept'
  BY <1>5, <1>6, Zenon DEF HistoryKept, Slot
<1>. QED
  BY <1>3, <1>4, <1>7

LEMMA EnterKeeps ==
  ASSUME LineInv, Enter
  PROVE  LineInv'
<1>. DEFINE line == Trimmed(input)
<1>1. /\ hist_p' = hist_n' /\ input' = <<>> /\ shown' = <<>>
      /\ \/ UNCHANGED <<hist, hist_n, past>>
         \/ hist_n < MaxHist /\ hist_push(line) /\ past' = Append(past, line)
  BY Zenon DEF Enter
<1>2. line \in Lines
  BY LineTypes, TrimmedType, Zenon
<1>. HIDE DEF line
<1>3. /\ HistoryKept' /\ hist' \in [0 .. HIST_SIZE - 1 -> Lines]
      /\ hist_n' \in 0 .. MaxHist /\ hist_n' \in Nat
  <2>1. CASE UNCHANGED <<hist, hist_n, past>>
    BY <2>1, LineTypes, Zenon DEF HistoryKept, Slot
  <2>2. CASE hist_n < MaxHist /\ hist_push(line) /\ past' = Append(past, line)
    BY <1>2, <2>2, PushKeeps, Zenon
  <2>. QED
    BY <1>1, <2>1, <2>2, Zenon
<1>4. hist_p' \in 0 .. hist_n'
  BY <1>1, <1>3, SMT
<1>5. <<>> \in Seq(Printable) /\ <<>> \in Lines
  <2>1. <<>> \in Seq(Printable) /\ Len(<<>>) <= MAX_INPUT - 1
    BY ReadlineAssumption, SMT
  <2>. QED
    BY <2>1, LinesAre, Zenon
<1>6. LineIsShown'
  BY <1>1, Zenon DEF LineIsShown
<1>. QED
  BY <1>1, <1>3, <1>4, <1>5, <1>6, Zenon DEF LineInv, TypeOK

LEMMA InitLine == Init => LineInv
<1>. SUFFICES ASSUME Init PROVE LineInv
  OBVIOUS
<1>1. /\ input = <<>> /\ shown = <<>> /\ past = <<>> /\ hist_n = 0 /\ hist_p = 0
      /\ hist = [i \in 0 .. HIST_SIZE - 1 |-> <<>>]
  BY Zenon DEF Init
<1>2. <<>> \in Seq(Printable) /\ <<>> \in Lines
  <2>1. <<>> \in Seq(Printable) /\ Len(<<>>) <= MAX_INPUT - 1
    BY ReadlineAssumption, SMT
  <2>. QED
    BY <2>1, LinesAre, Zenon
<1>3. /\ past \in Seq(Lines) /\ Len(past) = hist_n /\ 0 .. hist_n - 1 = {}
      /\ hist_n \in 0 .. MaxHist /\ hist_p \in 0 .. hist_n
  BY <1>1, ReadlineAssumption, SMT
<1>4. hist \in [0 .. HIST_SIZE - 1 -> Lines]
  BY <1>1, <1>2, Zenon
<1>. QED
  BY <1>1, <1>2, <1>3, <1>4, Zenon DEF LineInv, TypeOK, LineIsShown, HistoryKept

LEMMA LineStep == LineInv /\ [Next]_vars => LineInv'
<1>. SUFFICES ASSUME LineInv, [Next]_vars PROVE LineInv'
  OBVIOUS
<1>1. CASE UNCHANGED vars
  BY <1>1, Zenon DEF vars, LineInv, TypeOK, LineIsShown, HistoryKept, Slot
<1>2. ASSUME NEW ch \in Printable, Key(ch) PROVE LineInv'
  BY <1>2, KeyKeeps
<1>. QED
  BY <1>1, <1>2, RubKeeps, UpKeeps, DownKeeps, EnterKeeps, Zenon DEF Next, Editing, Printable

(* The game leaves the command line alone. *)
LEMMA LineIsEdited == ConsoleSpec => Spec
<1>1. ConsoleInit => Init
  BY Zenon DEF ConsoleInit
<1>2. [ConsoleNext]_<<vars, snakevars>> => [Next]_vars
  BY Zenon DEF ConsoleNext, Edit, Plain, Play, Game, Next
<1>. QED
  BY <1>1, <1>2, PTL DEF ConsoleSpec, Spec

LEMMA LineInvariance == ConsoleSpec => []LineInv
BY LineIsEdited, InitLine, LineStep, PTL DEF Spec

(***************************************************************************)
(* input[], the history and its two indices stay inside their arrays.      *)
(***************************************************************************)
THEOREM LineTypeCorrect == ConsoleSpec => []TypeOK
<1>1. LineInv => TypeOK
  BY DEF LineInv
<1>. QED
  BY <1>1, LineInvariance, PTL

(***************************************************************************)
(* While what is shown is short of the right edge, the user sees the line  *)
(* that ENTER executes, whatever was typed, rubbed out, recalled and       *)
(* played before.                                                          *)
(***************************************************************************)
THEOREM ShownIsExecuted == ConsoleSpec => []LineIsShown
<1>1. LineInv => LineIsShown
  BY DEF LineInv
<1>. QED
  BY <1>1, LineInvariance, PTL

(* Only the arrows move hist_p below hist_n, and to a line that is shown. *)
LEMMA ArrowRecalls ==
  ASSUME LineInv, [Next]_vars, hist_p' # hist_p, hist_n' = hist_n, hist_p' < hist_n,
         hist_n - hist_p' <= HIST_SIZE
  PROVE  input' = past[hist_p' + 1]
<1>1. hist_n \in Nat /\ hist_p \in 0 .. hist_n
  BY LineTypes
<1>2. ASSUME hist_p' \in 0 .. hist_n - 1, input' = hist[Slot(hist_p')]
      PROVE  input' = past[hist_p' + 1]
  <2>1. PICK p : p = hist_p'
    OBVIOUS
  <2>2. hist[Slot(p)] = past[p + 1]
    BY <1>2, <2>1, LineTypes, Zenon DEF HistoryKept
  <2>. QED
    BY <1>2, <2>1, <2>2, Zenon
<1>3. CASE Up
  <2>1. hist_p > 0 /\ hist_p' = hist_p - 1 /\ input' = hist[Slot(hist_p - 1)]
    BY <1>3, Zenon DEF Up, Show
  <2>2. hist_p' \in 0 .. hist_n - 1
    BY <1>1, <2>1, SMT
  <2>3. input' = hist[Slot(hist_p')]
    BY <2>1, Zenon
  <2>. QED
    BY <1>2, <2>2, <2>3
<1>4. CASE Down
  <2>1. CASE hist_p < hist_n - 1
    <3>1. hist_p' = hist_p + 1 /\ input' = hist[Slot(hist_p + 1)]
      BY <1>4, <2>1, Zenon DEF Down, Show
    <3>2. hist_p' \in 0 .. hist_n - 1
      BY <1>1, <2>1, <3>1, SMT
    <3>3. input' = hist[Slot(hist_p')]
      BY <3>1, Zenon
    <3>. QED
      BY <1>2, <3>2, <3>3
  <2>2. CASE ~(hist_p < hist_n - 1)
    <3>1. hist_p' = hist_n
      BY <1>4, <2>2, Zenon DEF Down
    <3>. QED
      BY <1>1, <3>1, SMT
  <2>. QED
    BY <2>1, <2>2
<1>5. CASE Enter
  <2>1. hist_p' = hist_n
    BY <1>5, Zenon DEF Enter
  <2>. QED
    BY <1>1, <2>1, SMT
<1>6. CASE Backspace \/ (\E ch \in Chars \cup {Blank} : Key(ch)) \/ UNCHANGED vars
  BY <1>6, Zenon DEF Backspace, Key, vars
<1>. QED
  BY <1>3, <1>4, <1>5, <1>6, Zenon DEF Next, Editing

(***************************************************************************)
(* An arrow that goes to one of the last HIST_SIZE lines recalls the one   *)
(* entered there, for any number of lines and slots.  Nothing is said of   *)
(* older lines, whose slots are reused, nor past the last line.            *)
(***************************************************************************)
THEOREM ArrowsRecall == ConsoleSpec => RecallsHistory
<1>1. LineInv /\ [Next]_vars =>
        [(hist_p' # hist_p /\ hist_n' = hist_n /\ hist_p' < hist_n /\ hist_n - hist_p' <= HIST_SIZE)
           => input' = past[hist_p' + 1]]_vars
  BY ArrowRecalls
<1>. QED
  BY <1>1, LineIsEdited, LineInvariance, PTL DEF Spec, RecallsHistory
=============================================================================
