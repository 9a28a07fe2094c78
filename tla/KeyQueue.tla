----------------------------- MODULE KeyQueue -----------------------------
(***************************************************************************)
(* What the keyboard driver promises its readers: the keys come in the     *)
(* order they were pressed, each once; a key pressed when Capacity keys    *)
(* are waiting is lost, and no other.                                      *)
(***************************************************************************)
EXTENDS Integers, Sequences

CONSTANTS Keys, Capacity

VARIABLES
  queue,  \* the keys that wait
  key,    \* the key a reader has seen, still at the front of the queue
  made    \* turns with every key pressed, lost or not

Init == queue = <<>> /\ key = 0 /\ made = FALSE

Press(k) ==
  /\ made' = ~made
  /\ queue' = IF Len(queue) < Capacity THEN Append(queue, k) ELSE queue
  /\ UNCHANGED key

Look == queue # <<>> /\ key' = Head(queue) /\ UNCHANGED <<queue, made>>
Take == queue # <<>> /\ key = Head(queue) /\ queue' = Tail(queue) /\ UNCHANGED <<key, made>>

Next == (\E k \in Keys : Press(k)) \/ Look \/ Take

Spec == Init /\ [][Next]_<<queue, key, made>>
=============================================================================
