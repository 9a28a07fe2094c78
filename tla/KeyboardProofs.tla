--------------------------- MODULE KeyboardProofs ---------------------------
(***************************************************************************)
(* The keyboard ring is a queue for every size of the ring and every       *)
(* keymap, with IRQ1 between any two accesses of the reader.               *)
(***************************************************************************)
EXTENDS Keyboard, SequenceTheorems, TLAPS

(* From the test to the new tail a key waits, and IRQ1 leaves it alone. *)
KeyIsThere == pc \in {"read", "advance"} => head # tail
KeyIsRead  == pc = "advance" => c = buf[tail]

(***************************************************************************)
(* The inductive invariant.  KeyIsThere holds because only the reader      *)
(* moves tail, and push never makes the ring look empty; KeyIsRead because *)
(* push writes at head, which is not tail while a key waits.               *)
(***************************************************************************)
IInv == TypeOK /\ KeyIsThere /\ KeyIsRead

(* A slot's successor is a slot, and another one. *)
LEMMA NextSlot ==
  ASSUME NEW n \in Slots
  PROVE  Plus1(n) \in Slots /\ Plus1(n) # n
BY KeyboardAssumption, SMT DEF Slots, Plus1, Wrap

(* What push is given is a key. *)
LEMMA KeymapKeys ==
  /\ \A s \in Plain : (Norm[s] # 0 => Norm[s] \in Keys) /\ (Shft[s] # 0 => Shft[s] \in Keys)
  /\ \A s \in Arrows : Arrow[s] \in Keys
<1>1. \A s \in Plain : (Norm[s] # 0 => Norm[s] \in Keys) /\ (Shft[s] # 0 => Shft[s] \in Keys)
  BY Zenon DEF Keys
<1>2. \A s \in Arrows : Arrow[s] # 0
  BY KeyboardAssumption, SMT
<1>. QED
  BY <1>1, <1>2, Zenon DEF Keys

(* A scan code either pushes one key or leaves the ring and made alone. *)
LEMMA HandlerPushes ==
  ASSUME NEW sc, NEW rel, handler(sc, rel)
  PROVE  (\E k \in Keys : push(k)) \/ Ignore
<1>1. CASE sc = "E0"
  BY <1>1, Zenon DEF handler
<1>2. CASE sc # "E0" /\ ext
  BY <1>2, KeymapKeys, Zenon DEF handler
<1>3. CASE sc # "E0" /\ ~ext /\ sc = ShiftCode
  BY <1>3, Zenon DEF handler
<1>4. CASE sc # "E0" /\ ~ext /\ sc # ShiftCode
  <2>. DEFINE k == IF shift THEN Shft[sc] ELSE Norm[sc]
  <2>1. IF ~rel /\ sc \in Plain /\ k # 0 THEN push(k) ELSE Ignore
    BY <1>4, Zenon DEF handler
  <2>2. sc \in Plain /\ k # 0 => k \in Keys
    BY KeymapKeys, Zenon
  <2>. QED
    BY <2>1, <2>2, Zenon
<1>. QED
  BY <1>1, <1>2, <1>3, <1>4, Zenon

----------------------------------------------------------------------------
LEMMA InitInvariant == Init => IInv
<1>. SUFFICES ASSUME Init PROVE IInv
  OBVIOUS
<1>1. buf \in [Slots -> Keys \cup {0}]
  BY Zenon DEF Init
<1>2. head \in Slots /\ tail \in Slots
  BY KeyboardAssumption, SMT DEF Init, Slots
<1>. QED
  BY <1>1, <1>2, Zenon DEF Init, IInv, TypeOK, KeyIsThere, KeyIsRead

(* The steps that IRQ1 takes with the ring, whatever it was at. *)
LEMMA PushInvariant ==
  ASSUME IInv, NEW k \in Keys, push(k), UNCHANGED <<tail, c>>,
         pc' = pc \/ (pc = "halted" /\ pc' = "poll")
  PROVE  /\ buf' \in [Slots -> Keys \cup {0}] /\ head' \in Slots /\ made' \in BOOLEAN
         /\ KeyIsThere' /\ KeyIsRead'
BY NextSlot, SMT DEF IInv, TypeOK, KeyIsThere, KeyIsRead, push

LEMMA StepInvariant == IInv /\ [Next]_vars => IInv'
<1>. SUFFICES ASSUME IInv, [Next]_vars PROVE IInv'
  OBVIOUS
<1>1. CASE Irq1
  <2>. PICK sc \in Plain \cup Arrows \cup {"E0", ShiftCode}, rel \in BOOLEAN : handler(sc, rel)
    BY <1>1, Zenon DEF Irq1
  <2>1. /\ UNCHANGED <<tail, c, iflag>>
        /\ pc' = pc \/ (pc = "halted" /\ pc' = "poll")
    BY Zenon DEF handler, Woken
  <2>2. shift' \in BOOLEAN /\ ext' \in BOOLEAN
    BY Zenon DEF handler, IInv, TypeOK
  <2>3. pc' \in {"idle", "poll", "read", "advance", "hlt", "halted"}
    BY <2>1, Zenon DEF IInv, TypeOK
  <2>4. CASE Ignore
    BY <2>1, <2>2, <2>3, <2>4, SMT DEF Ignore, IInv, TypeOK, KeyIsThere, KeyIsRead
  <2>5. CASE \E k \in Keys : push(k)
    <3>. PICK k \in Keys : push(k)
      BY <2>5
    <3>1. /\ buf' \in [Slots -> Keys \cup {0}] /\ head' \in Slots /\ made' \in BOOLEAN
          /\ KeyIsThere' /\ KeyIsRead'
      BY <2>1, PushInvariant, Zenon
    <3>. QED
      BY <2>1, <2>2, <2>3, <3>1, Zenon DEF IInv, TypeOK
  <2>. QED
    BY <2>4, <2>5, HandlerPushes, Zenon
<1>2. CASE Timer
  BY <1>2, SMT DEF Timer, Woken, IInv, TypeOK, KeyIsThere, KeyIsRead
<1>3. CASE keyboard_getchar
  BY <1>3, SMT DEF keyboard_getchar, At, Goto, Quiet, IInv, TypeOK, KeyIsThere, KeyIsRead
<1>4. CASE PollTest
  BY <1>4, SMT DEF PollTest, At, Goto, Quiet, IInv, TypeOK, KeyIsThere, KeyIsRead
<1>5. CASE PollRead
  BY <1>5, SMT DEF PollRead, At, Goto, Quiet, IInv, TypeOK, KeyIsThere, KeyIsRead
<1>6. CASE PollAdvance
  BY <1>6, NextSlot, SMT DEF PollAdvance, At, Goto, Quiet, IInv, TypeOK, KeyIsThere, KeyIsRead
<1>7. CASE Halt
  BY <1>7, SMT DEF Halt, At, Goto, Quiet, IInv, TypeOK, KeyIsThere, KeyIsRead
<1>8. CASE UNCHANGED vars
  BY <1>8, SMT DEF vars, IInv, TypeOK, KeyIsThere, KeyIsRead
<1>. QED
  BY <1>1, <1>2, <1>3, <1>4, <1>5, <1>6, <1>7, <1>8, Zenon DEF Next, Reader

LEMMA Invariance == Spec => []IInv
BY InitInvariant, StepInvariant, PTL DEF Spec

(***************************************************************************)
(* The ring, the reader and the keyboard state keep their types: head and  *)
(* tail stay within buf (keyboard.c:8), for every size of the ring.        *)
(***************************************************************************)
THEOREM TypeCorrect == Spec => []TypeOK
BY Invariance, PTL DEF IInv

----------------------------------------------------------------------------
(* The queue a ring stands for, as a sequence. *)
LEMMA QueuedType ==
  ASSUME NEW b \in [Slots -> Keys \cup {0}], NEW h \in Slots, NEW t \in Slots
  PROVE  /\ Waiting(h, t) \in 0 .. BUF - 1
         /\ Queued(b, h, t) \in Seq(Keys \cup {0})
         /\ Len(Queued(b, h, t)) = Waiting(h, t)
         /\ \A i \in 1 .. Waiting(h, t) : /\ Wrap(t + i - 1) \in Slots
                                          /\ Queued(b, h, t)[i] = b[Wrap(t + i - 1)]
<1>1. Waiting(h, t) \in 0 .. BUF - 1
  BY KeyboardAssumption, SMT DEF Waiting, Slots
<1>2. \A i \in 1 .. Waiting(h, t) : Wrap(t + i - 1) \in Slots
  BY KeyboardAssumption, SMT DEF Waiting, Slots, Wrap
<1>3. Queued(b, h, t) \in [1 .. Waiting(h, t) -> Keys \cup {0}]
  BY <1>2, SMT DEF Queued
<1>. QED
  BY <1>1, <1>2, <1>3, SMT DEF Queued

(* What push does to a ring that is not full, and to one that is. *)
LEMMA PushAppends ==
  ASSUME NEW b \in [Slots -> Keys \cup {0}], NEW h \in Slots, NEW t \in Slots,
         NEW k \in Keys, Plus1(h) # t
  PROVE  /\ Len(Queued(b, h, t)) < BUF - 1
         /\ Queued([b EXCEPT ![h] = k], Plus1(h), t) = Append(Queued(b, h, t), k)
<1>. DEFINE b2 == [b EXCEPT ![h] = k]
            q  == Queued(b, h, t)
            q2 == Queued(b2, Plus1(h), t)
<1>1. Waiting(Plus1(h), t) = Waiting(h, t) + 1 /\ Waiting(h, t) < BUF - 1
  BY KeyboardAssumption, SMT DEF Waiting, Slots, Plus1, Wrap
<1>2. b2 \in [Slots -> Keys \cup {0}] /\ Plus1(h) \in Slots
  BY NextSlot
<1>3. /\ q \in Seq(Keys \cup {0}) /\ q2 \in Seq(Keys \cup {0})
      /\ Len(q) = Waiting(h, t) /\ Len(q2) = Waiting(h, t) + 1
      /\ \A i \in 1 .. Len(q) : q[i] = b[Wrap(t + i - 1)]
      /\ \A i \in 1 .. Len(q2) : q2[i] = b2[Wrap(t + i - 1)]
  <2>. HIDE DEF b2
  <2>1. /\ q \in Seq(Keys \cup {0}) /\ Len(q) = Waiting(h, t)
        /\ \A i \in 1 .. Waiting(h, t) : q[i] = b[Wrap(t + i - 1)]
    BY QueuedType, Zenon
  <2>2. /\ q2 \in Seq(Keys \cup {0}) /\ Len(q2) = Waiting(Plus1(h), t)
        /\ \A i \in 1 .. Waiting(Plus1(h), t) : q2[i] = b2[Wrap(t + i - 1)]
    BY <1>2, QueuedType, Zenon
  <2>. QED
    BY <1>1, <2>1, <2>2, Zenon
<1>4. \A i \in 1 .. Waiting(h, t) : Wrap(t + i - 1) \in Slots \ {h}
  BY KeyboardAssumption, SMT DEF Waiting, Slots, Wrap
<1>5. Wrap(t + (Waiting(h, t) + 1) - 1) = h
  BY KeyboardAssumption, SMT DEF Waiting, Slots, Wrap
<1>6. \A i \in 1 .. Waiting(h, t) : b2[Wrap(t + i - 1)] = b[Wrap(t + i - 1)]
  BY <1>4, Zenon
<1>7. b2[h] = k
  BY Zenon
<1>8. /\ Append(q, k) \in Seq(Keys \cup {0}) /\ Len(Append(q, k)) = Len(q) + 1
      /\ \A i \in 1 .. Len(q) : Append(q, k)[i] = q[i]
      /\ Append(q, k)[Len(q) + 1] = k
  <2>. HIDE DEF q
  <2>. QED
    BY <1>3, AppendProperties
<1>. HIDE DEF q, q2, b2
<1>9. \A i \in 1 .. Len(q2) : q2[i] = Append(q, k)[i]
  <2>. TAKE i \in 1 .. Len(q2)
  <2>1. CASE i = Len(q) + 1
    BY <1>3, <1>5, <1>7, <1>8, <2>1, QueuedType, SMT
  <2>2. CASE i # Len(q) + 1
    <3>1. i \in 1 .. Len(q)
      BY <1>3, <2>2, QueuedType, SMT
    <3>. QED
      BY <1>3, <1>6, <1>8, <3>1, Zenon
  <2>. QED
    BY <2>1, <2>2
<1>10. q2 = Append(q, k)
  BY <1>3, <1>8, <1>9, SeqEqual, Zenon
<1>. QED
  BY <1>1, <1>3, <1>10, Zenon DEF q, q2, b2

LEMMA FullIsFull ==
  ASSUME NEW b \in [Slots -> Keys \cup {0}], NEW h \in Slots, NEW t \in Slots,
         Plus1(h) = t
  PROVE  Len(Queued(b, h, t)) = BUF - 1
<1>1. Waiting(h, t) = BUF - 1
  BY KeyboardAssumption, SMT DEF Waiting, Slots, Plus1, Wrap
<1>. QED
  BY <1>1, QueuedType, Zenon

(* Where a key waits, the one at the tail is the first, and moves away. *)
LEMMA TakeTails ==
  ASSUME NEW b \in [Slots -> Keys \cup {0}], NEW h \in Slots, NEW t \in Slots, h # t
  PROVE  /\ Queued(b, h, t) # <<>>
         /\ Head(Queued(b, h, t)) = b[t]
         /\ Queued(b, h, Plus1(t)) = Tail(Queued(b, h, t))
<1>. DEFINE q  == Queued(b, h, t)
            q2 == Queued(b, h, Plus1(t))
<1>1. Waiting(h, Plus1(t)) = Waiting(h, t) - 1 /\ Waiting(h, t) >= 1
  BY KeyboardAssumption, SMT DEF Waiting, Slots, Plus1, Wrap
<1>2. Wrap(t + 1 - 1) = t
  BY KeyboardAssumption, SMT DEF Slots, Wrap
<1>3. \A i \in 1 .. Waiting(h, t) - 1 : Wrap(Plus1(t) + i - 1) = Wrap(t + (i + 1) - 1)
  BY KeyboardAssumption, SMT DEF Waiting, Slots, Plus1, Wrap
<1>4. Plus1(t) \in Slots
  BY NextSlot
<1>5. /\ q \in Seq(Keys \cup {0}) /\ q2 \in Seq(Keys \cup {0})
      /\ Len(q) = Waiting(h, t) /\ Len(q2) = Waiting(h, t) - 1
      /\ Waiting(h, t) \in Nat
      /\ \A i \in 1 .. Waiting(h, t) : q[i] = b[Wrap(t + i - 1)]
      /\ \A i \in 1 .. Waiting(h, t) - 1 : q2[i] = b[Wrap(Plus1(t) + i - 1)]
  <2>1. /\ q \in Seq(Keys \cup {0}) /\ Len(q) = Waiting(h, t)
        /\ \A i \in 1 .. Waiting(h, t) : q[i] = b[Wrap(t + i - 1)]
    BY QueuedType, Zenon
  <2>2. /\ q2 \in Seq(Keys \cup {0}) /\ Len(q2) = Waiting(h, Plus1(t))
        /\ \A i \in 1 .. Waiting(h, Plus1(t)) : q2[i] = b[Wrap(Plus1(t) + i - 1)]
    BY <1>4, QueuedType, Zenon
  <2>3. Waiting(h, t) \in Nat
    BY KeyboardAssumption, SMT DEF Waiting, Slots
  <2>. QED
    BY <1>1, <2>1, <2>2, <2>3, Zenon
<1>. HIDE DEF q, q2
<1>6. q # <<>> /\ q[1] = b[t] /\ Head(q) = q[1]
  BY <1>1, <1>2, <1>5, SMT
<1>7. /\ Tail(q) \in Seq(Keys \cup {0}) /\ Len(Tail(q)) = Len(q) - 1
      /\ \A i \in 1 .. Len(Tail(q)) : Tail(q)[i] = q[i + 1]
  BY <1>5, <1>6, HeadTailProperties
<1>8. \A i \in 1 .. Len(q2) : q2[i] = Tail(q)[i]
  BY <1>3, <1>5, <1>7, SMT
<1>9. q2 = Tail(q)
  BY <1>5, <1>7, <1>8, SeqEqual, Zenon
<1>. QED
  BY <1>6, <1>9, Zenon DEF q, q2

(* A step that leaves the ring alone leaves the queue alone. *)
LEMMA SameRing ==
  ASSUME UNCHANGED <<buf, head, tail>>
  PROVE  Contents' = Contents
BY Zenon DEF Contents

----------------------------------------------------------------------------
LEMMA InitRefines == Init => Queue!Init
<1>. SUFFICES ASSUME Init PROVE Queue!Init
  OBVIOUS
<1>1. Waiting(head, tail) = 0
  BY SMT DEF Init, Waiting
<1>2. Contents \in Seq(Keys \cup {0}) /\ Len(Contents) = 0
  BY <1>1, InitInvariant, QueuedType, Zenon DEF IInv, TypeOK, Contents
<1>3. Contents = <<>>
  BY <1>2, SMT
<1>. QED
  BY <1>3, Zenon DEF Queue!Init, Init

(* Every step of the driver is a step of the queue, or none. *)
LEMMA StepRefines == IInv /\ [Next]_vars => [Queue!Next]_<<Contents, c, made>>
<1>. SUFFICES ASSUME IInv, [Next]_vars PROVE [Queue!Next]_<<Contents, c, made>>
  OBVIOUS
<1>0. buf \in [Slots -> Keys \cup {0}] /\ head \in Slots /\ tail \in Slots
  BY DEF IInv, TypeOK
<1>1. CASE Irq1
  <2>. PICK sc \in Plain \cup Arrows \cup {"E0", ShiftCode}, rel \in BOOLEAN : handler(sc, rel)
    BY <1>1, Zenon DEF Irq1
  <2>1. UNCHANGED <<tail, c>>
    BY Zenon DEF handler, Woken
  <2>2. CASE Ignore
    BY <2>1, <2>2, SameRing, Zenon DEF Ignore
  <2>3. CASE \E k \in Keys : push(k)
    <3>. PICK k \in Keys : push(k)
      BY <2>3
    <3>1. CASE Plus1(head) # tail
      <4>1. Len(Contents) < BUF - 1 /\ Contents' = Append(Contents, k)
        <5>1. /\ buf' = [buf EXCEPT ![head] = k] /\ head' = Plus1(head) /\ tail' = tail
          BY <2>1, <3>1, Zenon DEF push
        <5>. QED
          BY <1>0, <3>1, <5>1, PushAppends, Zenon DEF Contents
      <4>2. made' = ~made
        BY Zenon DEF push
      <4>. QED
        BY <2>1, <4>1, <4>2, Zenon DEF Queue!Next, Queue!Press
    <3>2. CASE Plus1(head) = tail
      <4>1. Contents' = Contents
        BY <2>1, <3>2, SameRing, Zenon DEF push
      <4>2. ~(Len(Contents) < BUF - 1)
        BY <1>0, <3>2, FullIsFull, KeyboardAssumption, SMT DEF Contents
      <4>. QED
        BY <2>1, <3>2, <4>1, <4>2, Zenon DEF push, Queue!Next, Queue!Press
    <3>. QED
      BY <3>1, <3>2
  <2>. QED
    BY <2>2, <2>3, HandlerPushes, Zenon
<1>2. CASE Timer
  BY <1>2, SameRing, Zenon DEF Timer, Woken
<1>3. CASE keyboard_getchar
  BY <1>3, SameRing, Zenon DEF keyboard_getchar, Quiet
<1>4. CASE PollTest
  BY <1>4, SameRing, Zenon DEF PollTest, Quiet
<1>5. CASE PollRead
  <2>1. head # tail /\ Contents' = Contents /\ c' = buf[tail] /\ made' = made
    BY <1>5, SameRing, Zenon DEF PollRead, At, Quiet, IInv, KeyIsThere
  <2>. QED
    BY <1>0, <2>1, TakeTails, Zenon DEF Contents, Queue!Next, Queue!Look
<1>6. CASE PollAdvance
  <2>1. /\ head # tail /\ c = buf[tail]
        /\ UNCHANGED <<buf, head, c, made>> /\ tail' = Plus1(tail)
    BY <1>6, Zenon DEF PollAdvance, At, Quiet, IInv, KeyIsThere, KeyIsRead
  <2>2. Contents' = Tail(Contents)
    BY <1>0, <2>1, TakeTails, Zenon DEF Contents
  <2>. QED
    BY <1>0, <2>1, <2>2, TakeTails, Zenon DEF Contents, Queue!Next, Queue!Take
<1>7. CASE Halt
  BY <1>7, SameRing, Zenon DEF Halt, Quiet
<1>8. CASE UNCHANGED vars
  BY <1>8, SameRing, Zenon DEF vars
<1>. QED
  BY <1>1, <1>2, <1>3, <1>4, <1>5, <1>6, <1>7, <1>8, Zenon DEF Next, Reader

(***************************************************************************)
(* The ring of keyboard.c, unlocked between IRQ1 and the reader, is the    *)
(* queue of BUF - 1 keys: what a reader gets is what was pressed, in       *)
(* order, once, and only a full ring drops a key.                          *)
(***************************************************************************)
THEOREM RingIsQueue == Spec => ImplementsKeyQueue
BY InitRefines, StepRefines, Invariance, PTL DEF Spec, ImplementsKeyQueue, Queue!Spec
=============================================================================
