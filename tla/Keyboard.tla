------------------------------ MODULE Keyboard ------------------------------
(***************************************************************************)
(* The keyboard driver (drivers/keyboard.c): IRQ1 turns scan codes into    *)
(* keys and puts them in a ring, keyboard_getchar takes them out or halts  *)
(* until an interrupt.  The ring is not locked: IRQ1 may come between any  *)
(* two accesses of the reader, which is why the reader has a pc.           *)
(*                                                                         *)
(* The shell, the editor and the screens read with interrupts on; a        *)
(* program that reads descriptor 0 does it inside INT 0x80, an interrupt   *)
(* gate (idt.c:71), with interrupts off until it returns.                  *)
(***************************************************************************)
EXTENDS Integers, Sequences

CONSTANTS
  BUF,       \* slots of the ring
  Plain,     \* scan codes of sc_norm and of F1 to F5
  Norm, Shft, \* the keys they stand for, without and with shift (0: none)
  Arrows,    \* scan codes that count after 0xE0
  Arrow,     \* the keys they stand for
  ShiftCode  \* 0x2A or 0x36

ASSUME KeyboardAssumption ==
  /\ BUF \in Nat /\ BUF > 1
  /\ Norm \in [Plain -> Int] /\ Shft \in [Plain -> Int] /\ Arrow \in [Arrows -> Int \ {0}]
  /\ ShiftCode \notin Plain

VARIABLES
  buf, head, tail, shift, ext,  \* the file's static variables
  pc,    \* where keyboard_getchar is; "idle" outside
  c,     \* its local: the last key read
  iflag, \* the processor's interrupt flag
  made   \* history: turns with every key pressed

reader == <<pc, c>>
vars   == <<buf, head, tail, shift, ext, pc, c, iflag, made>>

Slots == 0 .. BUF - 1

(* n % BUF, for the n that occur. *)
Wrap(n)  == IF n < BUF THEN n ELSE n - BUF
Plus1(n) == Wrap(n + 1)

Keys == ({Norm[s] : s \in Plain} \cup {Shft[s] : s \in Plain} \cup {Arrow[s] : s \in Arrows}) \ {0}

Init ==
  /\ buf = [i \in Slots |-> 0] /\ head = 0 /\ tail = 0
  /\ shift = FALSE /\ ext = FALSE
  /\ pc = "idle" /\ c = 0
  /\ iflag = TRUE
  /\ made = FALSE

----------------------------------------------------------------------------
(* An interrupt, handled: a processor that was halted goes on. *)
Woken == pc' = (IF pc = "halted" THEN "poll" ELSE pc) /\ UNCHANGED <<c, iflag>>

(* A bug to catch: a full ring takes the key and looks empty. *)
PushAlways(k) ==
  /\ buf' = [buf EXCEPT ![head] = k] /\ head' = Plus1(head)
  /\ made' = ~made

push(k) ==
  /\ IF Plus1(head) # tail
     THEN buf' = [buf EXCEPT ![head] = k] /\ head' = Plus1(head)
     ELSE UNCHANGED <<buf, head>>
  /\ made' = ~made

Ignore == UNCHANGED <<buf, head, made>>

(***************************************************************************)
(* handler: one scan code, rel when the key goes up.  0xE0 changes what    *)
(* the next one means; shift holds until a shift key, either, goes up.     *)
(***************************************************************************)
handler(sc, rel) ==
  /\ iflag
  /\ IF sc = "E0" THEN ext' = TRUE /\ Ignore /\ UNCHANGED shift
     ELSE IF ext THEN
       /\ ext' = FALSE
       /\ IF ~rel /\ sc \in Arrows THEN push(Arrow[sc]) ELSE Ignore
       /\ UNCHANGED shift
     ELSE IF sc = ShiftCode THEN shift' = ~rel /\ Ignore /\ UNCHANGED ext
     ELSE /\ LET k == IF shift THEN Shft[sc] ELSE Norm[sc]
             IN  IF ~rel /\ sc \in Plain /\ k # 0 THEN push(k) ELSE Ignore
          /\ UNCHANGED <<shift, ext>>
  /\ Woken
  /\ UNCHANGED tail

(* A bug to catch: the timer does not wake the reader. *)
TimerAsleep == iflag /\ UNCHANGED vars

(* IRQ0, a thousand times a second: it ends a halt. *)
Timer ==
  /\ iflag
  /\ Woken
  /\ UNCHANGED <<buf, head, tail, shift, ext, made>>

----------------------------------------------------------------------------
At(p)   == pc = p
Goto(p) == pc' = p
Quiet   == UNCHANGED <<buf, head, shift, ext, made>>

(* Kernel code reads a key, or a program does, through INT 0x80. *)
keyboard_getchar ==
  /\ At("idle") /\ Goto("poll")
  /\ iflag' \in BOOLEAN
  /\ UNCHANGED <<c, tail>> /\ Quiet

(* keyboard_poll: the test, the key, the new tail. *)
PollTest ==
  /\ At("poll")
  /\ Goto(IF head = tail THEN "hlt" ELSE "read")
  /\ UNCHANGED <<c, tail, iflag>> /\ Quiet

PollRead ==
  /\ At("read") /\ Goto("advance")
  /\ c' = buf[tail]
  /\ UNCHANGED <<tail, iflag>> /\ Quiet

PollAdvance ==
  /\ At("advance") /\ Goto("idle")
  /\ tail' = Plus1(tail)
  /\ iflag' = TRUE
  /\ UNCHANGED c /\ Quiet

(* Nothing came between the test and this: the processor stops. *)
Halt ==
  /\ At("hlt") /\ Goto("halted")
  /\ UNCHANGED <<c, tail, iflag>> /\ Quiet

Reader == PollTest \/ PollRead \/ PollAdvance \/ Halt

Irq1 == \E sc \in Plain \cup Arrows \cup {"E0", ShiftCode}, rel \in BOOLEAN : handler(sc, rel)

Next == Irq1 \/ Timer \/ keyboard_getchar \/ Reader

Spec == Init /\ [][Next]_vars

(***************************************************************************)
(* The processor executes, and the timer that pit_init starts keeps        *)
(* interrupting it while interrupts are on.  Nobody need press a key.      *)
(***************************************************************************)
LiveSpec == Spec /\ WF_vars(Reader) /\ WF_vars(Timer)

----------------------------------------------------------------------------
TypeOK ==
  /\ buf \in [Slots -> Keys \cup {0}] /\ head \in Slots /\ tail \in Slots
  /\ shift \in BOOLEAN /\ ext \in BOOLEAN
  /\ pc \in {"idle", "poll", "read", "advance", "hlt", "halted"}
  /\ c \in Keys \cup {0}
  /\ iflag \in BOOLEAN /\ made \in BOOLEAN

(* The slots of ring b from t up to h. *)
Waiting(h, t)   == IF h >= t THEN h - t ELSE h - t + BUF
Queued(b, h, t) == [i \in 1 .. Waiting(h, t) |-> b[Wrap(t + i - 1)]]
Contents == Queued(buf, head, tail)

(***************************************************************************)
(* With IRQ1 falling anywhere between the reader's accesses, the ring is a *)
(* queue of BUF - 1 keys: none is read twice, or before it is written, and *)
(* only a full ring loses one.                                             *)
(***************************************************************************)
Queue == INSTANCE KeyQueue WITH queue <- Contents, key <- c, Capacity <- BUF - 1
ImplementsKeyQueue == Queue!Spec

(***************************************************************************)
(* A reader gets the key that waits, also where IRQ1 came after its test   *)
(* and before its hlt: the timer ends the halt.                            *)
(***************************************************************************)
WaitingKeyIsTaken == pc # "idle" /\ head # tail ~> pc = "idle"
=============================================================================
