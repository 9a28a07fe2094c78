---------------------------- MODULE EditorProofs ----------------------------
(***************************************************************************)
(* The editor, for every limit of the buffer, of its lines and of the      *)
(* file, and for every file: the buffer keeps its shape, a text without    *)
(* the mark of a change is the one in the file, and every key does to the  *)
(* lines what it does to one sequence of characters (TextBuffer).          *)
(***************************************************************************)
EXTENDS Editor, SequenceTheorems, WellFoundedInduction, TLAPS

Texts   == Seq(Chars \cup {NL})
GoodLines == {l \in Seq(Chars) : Len(l) <= LineMax}
Buffers == {ls \in Seq(GoodLines) : Len(ls) > 0}

----------------------------------------------------------------------------
(* Induction up to n, over a set, and the function that recursion makes. *)
LEMMA Counting ==
  ASSUME NEW n \in Nat, NEW S, 0 \in S, \A i \in 1 .. n : i - 1 \in S => i \in S
  PROVE  \A i \in 0 .. n : i \in S
<1> DEFINE T == {i \in 0 .. n : i \notin S}
<1> SUFFICES ASSUME T # {} PROVE FALSE
  OBVIOUS
<1>1. T \in SUBSET Nat
  BY SMT
<1>2. PICK k \in T : \A j \in T : ~ (<<j, k>> \in OpToRel(<, Nat))
  BY <1>1, NatLessThanWellFounded, WFMin
<1>3. \A j \in T : ~ (j < k)
  BY <1>1, <1>2 DEF OpToRel
<1>4. k \in 0 .. n /\ k \notin S
  BY Zenon
<1>5. k \in 1 .. n /\ k - 1 \in 0 .. n /\ k - 1 < k
  BY <1>4, SMT
<1>6. k - 1 \notin T
  BY <1>3, <1>5, Zenon
<1> QED
  BY <1>4, <1>5, <1>6, Zenon

Built(f, n, W, b, step) ==
  f \in [0 .. n -> W] /\ f[0] = b /\ \A i \in 1 .. n : f[i] = step[i][f[i - 1]]

LEMMA Recursion ==
  ASSUME NEW n \in Nat, NEW W, NEW b \in W, NEW step \in [1 .. n -> [W -> W]]
  PROVE  \E f : Built(f, n, W, b, step)
<1> DEFINE Ok(k, f) == f[0] = b /\ \A i \in 1 .. k : f[i] = step[i][f[i - 1]]
            S == {k \in 0 .. n : \E f \in [0 .. n -> W] : Ok(k, f)}
<1>1. 0 \in S
  <2>1. [i \in 0 .. n |-> b] \in [0 .. n -> W] /\ [i \in 0 .. n |-> b][0] = b
    BY SMT
  <2>2. 1 .. 0 = {}
    BY SMT
  <2>3. 0 \in 0 .. n
    BY SMT
  <2>4. Ok(0, [i \in 0 .. n |-> b])
    BY <2>1, <2>2, Zenon
  <2> HIDE DEF Ok
  <2> QED
    BY <2>1, <2>3, <2>4, Zenon
<1>2. ASSUME NEW k \in 1 .. n, k - 1 \in S PROVE k \in S
  <2>1. PICK f \in [0 .. n -> W] : Ok(k - 1, f)
    BY <1>2, Zenon
  <2> DEFINE g == [f EXCEPT ![k] = step[k][f[k - 1]]]
  <2>2. k \in 0 .. n /\ k - 1 \in 0 .. n /\ 0 # k /\ 0 \in 0 .. n
    BY SMT
  <2>3. step[k][f[k - 1]] \in W
    BY <2>2, Zenon
  <2>4. g \in [0 .. n -> W] /\ g[k] = step[k][f[k - 1]] /\ \A i \in 0 .. n : i # k => g[i] = f[i]
    BY <2>2, <2>3, Zenon
  <2> HIDE DEF g
  <2>5. ASSUME NEW i \in 1 .. k PROVE g[i] = step[i][g[i - 1]]
    <3>1. i \in 0 .. n /\ i - 1 \in 0 .. n /\ i - 1 # k /\ (i # k => i \in 1 .. k - 1)
      BY SMT
    <3>2. g[i - 1] = f[i - 1]
      BY <2>4, <3>1, Zenon
    <3>3. CASE i = k
      BY <2>4, <3>2, <3>3, Zenon
    <3>4. CASE i # k
      BY <2>1, <2>4, <3>1, <3>2, <3>4, Zenon
    <3> QED
      BY <3>3, <3>4
  <2>6. Ok(k, g)
    BY <2>1, <2>2, <2>4, <2>5, Zenon
  <2> HIDE DEF Ok
  <2> QED
    BY <2>2, <2>4, <2>6, Zenon
<1>3. n \in S
  <2> HIDE DEF S
  <2>1. \A i \in 0 .. n : i \in S
    BY <1>1, <1>2, Counting, Zenon
  <2>2. n \in 0 .. n
    BY SMT
  <2> QED
    BY <2>1, <2>2, Zenon
<1>4. PICK f \in [0 .. n -> W] : Ok(n, f)
  BY <1>3, Zenon
<1>5. Built(f, n, W, b, step)
  BY <1>4, Zenon DEF Built
<1> QED
  BY <1>5, Zenon

----------------------------------------------------------------------------
(* What joins and cuts do to a sequence. *)
LEMMA CutJoin ==
  ASSUME NEW S, NEW x \in Seq(S), NEW y \in Seq(S)
  PROVE  /\ SubSeq(x \o y, 1, Len(x)) = x
         /\ SubSeq(x \o y, Len(x) + 1, Len(x \o y)) = y
<1>1. /\ x \o y \in Seq(S) /\ Len(x \o y) = Len(x) + Len(y)
      /\ \A i \in 1 .. Len(x) + Len(y) : (x \o y)[i] = IF i <= Len(x) THEN x[i] ELSE y[i - Len(x)]
  BY ConcatProperties
<1>2. Len(x) \in Nat /\ Len(y) \in Nat
  OBVIOUS
<1> DEFINE z == x \o y
<1> HIDE DEF z
<1>3. /\ z \in Seq(S) /\ Len(z) = Len(x) + Len(y)
      /\ \A i \in 1 .. Len(x) + Len(y) : z[i] = IF i <= Len(x) THEN x[i] ELSE y[i - Len(x)]
  BY <1>1 DEF z
<1>4. SubSeq(z, 1, Len(x)) = x
  <2>1. /\ SubSeq(z, 1, Len(x)) \in Seq(S)
        /\ Len(SubSeq(z, 1, Len(x))) = Len(x)
        /\ \A i \in 1 .. Len(x) : SubSeq(z, 1, Len(x))[i] = z[i]
    BY <1>2, <1>3, SubSeqProperties
  <2> QED
    BY <1>2, <1>3, <2>1, SeqEqual
<1>5. SubSeq(z, Len(x) + 1, Len(z)) = y
  <2> DEFINE w == SubSeq(z, Len(x) + 1, Len(z))
  <2>1. /\ w \in Seq(S)
        /\ Len(w) = Len(y)
        /\ \A i \in 1 .. Len(y) : w[i] = z[Len(x) + i]
    BY <1>2, <1>3, SubSeqProperties
  <2> HIDE DEF w
  <2>2. ASSUME NEW i \in 1 .. Len(y) PROVE w[i] = y[i]
    <3> DEFINE j == Len(x) + i
    <3>1. j \in 1 .. Len(x) + Len(y) /\ ~ (j <= Len(x)) /\ j - Len(x) = i
      BY <1>2
    <3>2. w[i] = z[j]
      BY <2>1
    <3> HIDE DEF j
    <3>3. z[j] = y[j - Len(x)]
      BY <1>3, <3>1, Zenon
    <3> QED
      BY <3>1, <3>2, <3>3, Zenon
  <2>3. w = y
    BY <2>1, <2>2, SeqEqual, SMTT(60)
  <2> QED
    BY <2>3 DEF w
<1> QED
  BY <1>4, <1>5 DEF z

LEMMA JoinCut ==
  ASSUME NEW S, NEW s \in Seq(S), NEW k \in 0 .. Len(s)
  PROVE  /\ SubSeq(s, 1, k) \in Seq(S) /\ Len(SubSeq(s, 1, k)) = k
         /\ SubSeq(s, k + 1, Len(s)) \in Seq(S) /\ Len(SubSeq(s, k + 1, Len(s))) = Len(s) - k
         /\ s = SubSeq(s, 1, k) \o SubSeq(s, k + 1, Len(s))
         /\ \A i \in 1 .. k : SubSeq(s, 1, k)[i] = s[i]
         /\ \A i \in 1 .. Len(s) - k : SubSeq(s, k + 1, Len(s))[i] = s[k + i]
<1>1. Len(s) \in Nat /\ k \in Nat /\ k <= Len(s)
  OBVIOUS
<1>2. SubSeq(s, 1, k) \in Seq(S) /\ Len(SubSeq(s, 1, k)) = k
      /\ \A i \in 1 .. k : SubSeq(s, 1, k)[i] = s[i]
  BY <1>1, SubSeqProperties
<1>3. SubSeq(s, k + 1, Len(s)) \in Seq(S) /\ Len(SubSeq(s, k + 1, Len(s))) = Len(s) - k
      /\ \A i \in 1 .. Len(s) - k : SubSeq(s, k + 1, Len(s))[i] = s[k + i]
  BY <1>1, SubSeqProperties
<1>4. SubSeq(s, 1, k) \o SubSeq(s, k + 1, Len(s)) = SubSeq(s, 1, Len(s))
  <2>1. 1 \in 1 .. Len(s) + 1 /\ k \in 1 - 1 .. Len(s) /\ Len(s) \in k .. Len(s)
    BY <1>1
  <2> QED
    BY <2>1, ConcatAdjacentSubSeq, Zenon
<1>5. SubSeq(s, 1, Len(s)) = s
  BY SubSeqFull
<1>6. s = SubSeq(s, 1, k) \o SubSeq(s, k + 1, Len(s))
  BY <1>4, <1>5, Zenon
<1> QED
  BY <1>2, <1>3, <1>6, Zenon

LEMMA Assoc ==
  ASSUME NEW S, NEW x \in Seq(S), NEW y \in Seq(S), NEW z \in Seq(S)
  PROVE  (x \o y) \o z = x \o (y \o z)
BY ConcatAssociative

LEMMA PrefixStep ==
  ASSUME NEW S, NEW s \in Seq(S), NEW i \in 1 .. Len(s)
  PROVE  /\ SubSeq(s, 1, i - 1) \in Seq(S) /\ s[i] \in S
         /\ SubSeq(s, 1, i) = Append(SubSeq(s, 1, i - 1), s[i])
<1>1. Len(s) \in Nat /\ i - 1 \in 0 .. Len(s) /\ 1 \in 1 .. Len(s) /\ i \in 1 .. Len(s) /\ s[i] \in S
  OBVIOUS
<1>2. SubSeq(s, 1, i - 1) \in Seq(S)
  BY <1>1, JoinCut
<1>3. SubSeq(s, 1, i) = SubSeq(s, 1, i - 1) \o <<s[i]>>
  BY <1>1, SubSeqRecursiveSecond
<1> QED
  BY <1>1, <1>2, <1>3, AppendIsConcat

----------------------------------------------------------------------------
(* The lines written to the file: what the recursion computes. *)
Writing(at, ls) ==
  /\ at \in [0 .. Len(ls) -> Texts]
  /\ at[0] = <<>>
  /\ \A i \in 1 .. Len(ls) : at[i] = at[i - 1] \o Append(ls[i], NL)
  /\ Serialized(ls) = at[Len(ls)]

LEMMA WholeLine ==
  ASSUME NEW l \in Seq(Chars)
  PROVE  l \in Texts /\ Append(l, NL) \in Texts
<1>1. l \in Texts
  BY SeqMonotonic DEF Texts
<1> QED
  BY <1>1, AppendProperties DEF Texts

LEMMA SerializedSteps ==
  ASSUME NEW ls \in Seq(Seq(Chars))
  PROVE  \E at : Writing(at, ls)
<1> DEFINE n == Len(ls)
            step == [i \in 1 .. n |-> [x \in Texts |-> x \o Append(ls[i], NL)]]
            F(f) == [i \in 0 .. n |-> IF i = 0 THEN <<>> ELSE f[i - 1] \o Append(ls[i], NL)]
            at == CHOOSE f : f = F(f)
<1>1. n \in Nat /\ \A i \in 1 .. n : ls[i] \in Seq(Chars)
  BY SMT
<1>2. <<>> \in Texts
  BY EmptySeq DEF Texts
<1>3. ASSUME NEW x \in Texts, NEW i \in 1 .. n PROVE x \o Append(ls[i], NL) \in Texts
  <2>1. Append(ls[i], NL) \in Texts
    BY <1>1, WholeLine, Zenon
  <2> QED
    BY <2>1, ConcatProperties DEF Texts
<1>4. step \in [1 .. n -> [Texts -> Texts]]
  BY <1>3, Zenon
<1>5. Serialized(ls) = at[n]
  BY Zenon DEF Serialized
<1> HIDE DEF n
<1> HIDE DEF step
<1>0. PICK f : Built(f, n, Texts, <<>>, step)
  BY <1>1, <1>2, <1>4, Recursion, Zenon
<1>6. f \in [0 .. n -> Texts] /\ f[0] = <<>> /\ \A i \in 1 .. n : f[i] = step[i][f[i - 1]]
  BY <1>0, Zenon DEF Built
<1> USE DEF step
<1>7. \A i \in 1 .. n : i - 1 \in 0 .. n /\ i # 0 /\ i \in 0 .. n
  BY <1>1, SMT
<1>8. \A i \in 1 .. n : f[i] = f[i - 1] \o Append(ls[i], NL)
  BY <1>6, <1>7, Zenon
<1>9. \A i \in 0 .. n : i = 0 \/ i \in 1 .. n
  BY <1>1, SMT
<1>10. \A i \in 0 .. n : f[i] = IF i = 0 THEN <<>> ELSE f[i - 1] \o Append(ls[i], NL)
  BY <1>6, <1>8, <1>9, Zenon
<1>11. f = F(f)
  BY <1>6, <1>10, Zenon
<1>12. at = F(at)
  BY <1>11, Zenon
<1> HIDE DEF at
<1>13. 0 \in 0 .. n /\ n \in 0 .. n
  BY <1>1, SMT
<1>14. at[0] = <<>> /\ \A i \in 1 .. n : at[i] = at[i - 1] \o Append(ls[i], NL)
  BY <1>7, <1>12, <1>13, Zenon
<1>15. at \in [0 .. n -> Texts]
  <2> DEFINE S == {i \in 0 .. n : at[i] \in Texts}
  <2>1. 0 \in S
    BY <1>2, <1>13, <1>14, Zenon
  <2>2. ASSUME NEW i \in 1 .. n, i - 1 \in S PROVE i \in S
    BY <1>3, <1>7, <1>14, <2>2, Zenon
  <2>3. \A i \in 0 .. n : i \in S
    <3> HIDE DEF S
    <3> QED
      BY <1>1, <2>1, <2>2, Counting, Zenon
  <2>4. \A i \in 0 .. n : at[i] \in Texts
    BY <2>3, Zenon
  <2> QED
    BY <1>12, <2>4, Zenon
<1>16. Writing(at, ls)
  BY <1>5, <1>14, <1>15, Zenon DEF Writing, n
<1> QED
  BY <1>16, Zenon

LEMMA SerializedType ==
  ASSUME NEW ls \in Seq(Seq(Chars))
  PROVE  Serialized(ls) \in Texts
<1>1. PICK at : Writing(at, ls)
  BY SerializedSteps, Zenon
<1>2. Len(ls) \in 0 .. Len(ls)
  BY SMT
<1> QED
  BY <1>1, <1>2, Zenon DEF Writing

LEMMA SerializedEmpty == Serialized(<<>>) = <<>>
<1>1. <<>> \in Seq(Seq(Chars)) /\ Len(<<>>) = 0
  BY EmptySeq
<1>2. PICK at : Writing(at, <<>>)
  BY <1>1, SerializedSteps, Zenon
<1> QED
  BY <1>1, <1>2, Zenon DEF Writing

(* A line more. *)
LEMMA SerializedAppend ==
  ASSUME NEW ls \in Seq(Seq(Chars)), NEW l \in Seq(Chars)
  PROVE  Serialized(Append(ls, l)) = Serialized(ls) \o Append(l, NL)
<1> DEFINE n == Len(ls)
            more == Append(ls, l)
<1>1. n \in Nat /\ more \in Seq(Seq(Chars)) /\ Len(more) = n + 1 /\ more[n + 1] = l
      /\ \A i \in 1 .. n : more[i] = ls[i]
  BY SMT, AppendProperties
<1>2. PICK at : Writing(at, ls)
  BY SerializedSteps, Zenon
<1>3. PICK on : Writing(on, more)
  <2> HIDE DEF more
  <2> QED
    BY <1>1, SerializedSteps, Zenon
<1>4. /\ at[0] = <<>> /\ Serialized(ls) = at[n]
      /\ \A i \in 1 .. n : at[i] = at[i - 1] \o Append(ls[i], NL)
  BY <1>2, Zenon DEF Writing
<1> HIDE DEF n, more
<1>5. /\ on[0] = <<>> /\ Serialized(more) = on[n + 1]
      /\ \A i \in 1 .. n + 1 : on[i] = on[i - 1] \o Append(more[i], NL)
  BY <1>1, <1>3, Zenon DEF Writing
<1> DEFINE S == {i \in 0 .. n : on[i] = at[i]}
<1>6. 0 \in S
  BY <1>1, <1>4, <1>5, SMT
<1>7. ASSUME NEW i \in 1 .. n, i - 1 \in S PROVE i \in S
  <2>1. i \in 0 .. n /\ i \in 1 .. n + 1
    BY <1>1, SMT
  <2> QED
    BY <1>1, <1>4, <1>5, <1>7, <2>1, Zenon
<1>8. n \in S
  <2> HIDE DEF S
  <2>1. \A i \in 0 .. n : i \in S
    BY <1>1, <1>6, <1>7, Counting, Zenon
  <2>2. n \in 0 .. n
    BY <1>1, SMT
  <2> QED
    BY <2>1, <2>2, Zenon
<1>9. n + 1 \in 1 .. n + 1 /\ n + 1 - 1 = n
  BY <1>1, SMT
<1>10. on[n + 1] = on[n] \o Append(l, NL)
  <2> DEFINE m == n + 1
  <2>1. m \in 1 .. m /\ m - 1 = n /\ more[m] = l
    BY <1>1, <1>9
  <2>2. \A i \in 1 .. m : on[i] = on[i - 1] \o Append(more[i], NL)
    BY <1>5
  <2> HIDE DEF m
  <2>3. on[m] = on[n] \o Append(l, NL)
    BY <2>1, <2>2, Zenon
  <2> QED
    BY <2>3 DEF m
<1> QED
  BY <1>4, <1>5, <1>8, <1>10, Zenon DEF more

LEMMA SerializedOne ==
  ASSUME NEW l \in Seq(Chars)
  PROVE  Serialized(<<l>>) = Append(l, NL)
<1>1. <<>> \in Seq(Seq(Chars)) /\ Append(<<>>, l) = <<l>>
  BY EmptySeq, SMT
<1>2. Serialized(Append(<<>>, l)) = <<>> \o Append(l, NL)
  BY <1>1, SerializedAppend, SerializedEmpty, Zenon
<1>3. <<>> \o Append(l, NL) = Append(l, NL)
  BY WholeLine, ConcatEmptySeq DEF Texts
<1> QED
  BY <1>1, <1>2, <1>3, Zenon

LEMMA SerializedConcat ==
  ASSUME NEW a \in Seq(Seq(Chars)), NEW b \in Seq(Seq(Chars))
  PROVE  Serialized(a \o b) = Serialized(a) \o Serialized(b)
<1> DEFINE n == Len(b)
            upto(i) == SubSeq(b, 1, i)
            S == {i \in 0 .. n : Serialized(a \o upto(i)) = Serialized(a) \o Serialized(upto(i))}
<1>1. n \in Nat
  BY SMT
<1>2. 0 \in S
  <2>1. upto(0) = <<>>
    BY SubSeqEmpty
  <2>2. a \o <<>> = a /\ Serialized(a) \o <<>> = Serialized(a)
    BY ConcatEmptySeq, SerializedType DEF Texts
  <2>3. 0 \in 0 .. n
    BY <1>1, SMT
  <2> HIDE DEF upto
  <2> QED
    BY <2>1, <2>2, <2>3, SerializedEmpty, Zenon
<1>3. ASSUME NEW i \in 1 .. n, i - 1 \in S PROVE i \in S
  <2> DEFINE p == upto(i - 1)
              l == b[i]
  <2>1. p \in Seq(Seq(Chars)) /\ l \in Seq(Chars) /\ upto(i) = Append(p, l)
    BY PrefixStep
  <2>2. i \in 0 .. n /\ Serialized(a \o p) = Serialized(a) \o Serialized(p)
    BY <1>3, SMT
  <2> HIDE DEF p, l, upto, S, n
  <2>3. a \o Append(p, l) = Append(a \o p, l) /\ a \o p \in Seq(Seq(Chars))
    <3>1. Append(p, l) = p \o <<l>> /\ Append(a \o p, l) = (a \o p) \o <<l>>
          /\ a \o p \in Seq(Seq(Chars)) /\ <<l>> \in Seq(Seq(Chars))
      BY <2>1, AppendIsConcat, ConcatProperties, SMTT(30)
    <3>2. (a \o p) \o <<l>> = a \o (p \o <<l>>)
      BY <2>1, <3>1, Assoc, SMTT(60)
    <3> QED
      BY <3>1, <3>2, Zenon
  <2> DEFINE x == Append(l, NL)
  <2>4. Serialized(a \o upto(i)) = Serialized(a \o p) \o x
    BY <2>1, <2>3, SerializedAppend, Zenon
  <2>5. Serialized(upto(i)) = Serialized(p) \o x
    BY <2>1, SerializedAppend, Zenon
  <2>6. (Serialized(a) \o Serialized(p)) \o x = Serialized(a) \o (Serialized(p) \o x)
    <3>1. Serialized(a) \in Texts /\ Serialized(p) \in Texts /\ x \in Texts
      BY <2>1, SerializedType, WholeLine, Zenon
    <3> HIDE DEF x
    <3> QED
      BY <3>1, Assoc, SMTT(60) DEF Texts
  <2> HIDE DEF x
  <2> QED
    BY <2>2, <2>4, <2>5, <2>6, Zenon DEF S
<1>4. n \in S
  <2> HIDE DEF S
  <2>1. \A i \in 0 .. n : i \in S
    BY <1>1, <1>2, <1>3, Counting, Zenon
  <2>2. n \in 0 .. n
    BY <1>1, SMT
  <2> QED
    BY <2>1, <2>2, Zenon
<1>5. upto(n) = b
  BY SubSeqFull
<1> HIDE DEF upto
<1> QED
  BY <1>4, <1>5, Zenon

(* What is written of some lines is nothing, or ends with NL. *)
LEMMA SerializedEnd ==
  ASSUME NEW ls \in Seq(Seq(Chars))
  PROVE  Serialized(ls) = <<>> \/ Serialized(ls)[Len(Serialized(ls))] = NL
<1>1. CASE ls = <<>>
  BY <1>1, SerializedEmpty, Zenon
<1>2. CASE ls # <<>>
  <2>1. PICK s \in Seq(Seq(Chars)), l \in Seq(Chars) : ls = Append(s, l)
    BY <1>2, SequenceEmptyOrAppend
  <2> DEFINE x == Serialized(s)
              y == Append(l, NL)
  <2>2. x \in Texts /\ y \in Texts /\ Len(y) \in Nat \ {0} /\ y[Len(y)] = NL
    <3>1. l \in Texts
      BY WholeLine
    <3>2. Len(y) = Len(l) + 1 /\ y[Len(l) + 1] = NL
      BY <3>1, AppendProperties DEF Texts
    <3> QED
      BY <3>2, SerializedType, WholeLine
  <2>3. Serialized(ls) = x \o y
    BY <2>1, SerializedAppend, Zenon
  <2> HIDE DEF x, y
  <2>4. /\ Len(x \o y) = Len(x) + Len(y)
        /\ \A i \in 1 .. Len(x) + Len(y) : (x \o y)[i] = IF i <= Len(x) THEN x[i] ELSE y[i - Len(x)]
    BY <2>2, ConcatProperties DEF Texts
  <2> DEFINE k == Len(x) + Len(y)
  <2>5. k \in 1 .. k /\ ~ (k <= Len(x)) /\ k - Len(x) = Len(y)
    BY <2>2, SMT DEF Texts
  <2> HIDE DEF k
  <2>6. (x \o y)[k] = y[k - Len(x)]
    <3> HIDE DEF Texts
    <3> QED
      BY <2>4, <2>5, Zenon DEF k
  <2> QED
    BY <2>2, <2>3, <2>4, <2>5, <2>6, Zenon DEF k
<1> QED
  BY <1>1, <1>2

----------------------------------------------------------------------------
(* The end of a buffer, and a character put there. *)
LEMMA EndOfBuffer ==
  ASSUME NEW V, NEW p \in Seq(V), NEW l \in V
  PROVE  /\ Last(Append(p, l)) = l /\ Front(Append(p, l)) = p
         /\ Len(Append(p, l)) = Len(p) + 1 /\ Append(p, l) = p \o <<l>>
<1> DEFINE q == Append(p, l)
<1>1. Len(p) \in Nat /\ Len(q) = Len(p) + 1 /\ q[Len(p) + 1] = l /\ q = p \o <<l>> /\ <<l>> \in Seq(V)
  BY AppendProperties, AppendIsConcat
<1>2. Last(q) = l
  BY <1>1 DEF Last
<1>3. SubSeq(p \o <<l>>, 1, Len(p)) = p
  BY <1>1, CutJoin
<1>4. Len(q) - 1 = Len(p)
  BY <1>1
<1> HIDE DEF q
<1>5. Front(q) = p
  BY <1>1, <1>3, <1>4, Zenon DEF Front
<1> QED
  BY <1>1, <1>2, <1>5, Zenon DEF q

LEMMA PutNL ==
  ASSUME NEW ls PROVE Put(ls, NL) = Append(ls, <<>>)
BY DEF Put

LEMMA PutChar ==
  ASSUME NEW p \in Seq(GoodLines), NEW l \in GoodLines, NEW c \in Chars
  PROVE  Put(Append(p, l), c) = IF Len(l) < LineMax THEN Append(p, Append(l, c)) ELSE Append(p, l)
<1> DEFINE q == Append(p, l)
<1>1. c # NL
  BY EditorAssumption
<1>2. Last(q) = l /\ Front(q) = p
  BY EndOfBuffer
<1>3. Put(q, c) = IF Len(l) < LineMax THEN p \o <<Append(l, c)>> ELSE q
  <2> HIDE DEF q
  <2> QED
    BY <1>1, <1>2, Zenon DEF Put
<1>4. ASSUME Len(l) < LineMax PROVE p \o <<Append(l, c)>> = Append(p, Append(l, c))
  <2>1. Append(l, c) \in Seq(Chars) /\ p \in Seq(Seq(Chars))
    BY SeqMonotonic DEF GoodLines
  <2> QED
    BY <2>1, AppendIsConcat
<1> QED
  BY <1>3, <1>4, Zenon

LEMMA BufferEnd ==
  ASSUME NEW ls \in Buffers
  PROVE  \E p \in Seq(GoodLines), l \in GoodLines : ls = Append(p, l)
<1>1. ls \in Seq(GoodLines) /\ ls # <<>>
  BY DEF Buffers
<1> QED
  BY <1>1, SequenceEmptyOrAppend, Zenon

LEMMA LongerLine ==
  ASSUME NEW l \in GoodLines, NEW c \in Chars, Len(l) < LineMax
  PROVE  Append(l, c) \in GoodLines
<1>1. LineMax \in Nat
  BY EditorAssumption
<1>2. l \in Seq(Chars) /\ Len(l) \in Nat /\ Append(l, c) \in Seq(Chars) /\ Len(Append(l, c)) = Len(l) + 1
  BY AppendProperties DEF GoodLines
<1> QED
  BY <1>1, <1>2 DEF GoodLines

LEMMA NoLine == <<>> \in GoodLines
BY EditorAssumption, EmptySeq DEF GoodLines

LEMMA BufferAppend ==
  ASSUME NEW p \in Seq(GoodLines), NEW l \in GoodLines
  PROVE  Append(p, l) \in Buffers
<1>1. Append(p, l) \in Seq(GoodLines) /\ Len(Append(p, l)) = Len(p) + 1 /\ Len(p) \in Nat
  BY AppendProperties
<1> QED
  BY <1>1 DEF Buffers

LEMMA PutType ==
  ASSUME NEW ls \in Buffers, NEW c \in Chars \cup {NL}
  PROVE  Put(ls, c) \in Buffers
<1>1. PICK p \in Seq(GoodLines), l \in GoodLines : ls = Append(p, l)
  BY BufferEnd
<1>2. CASE c = NL
  <2>1. ls \in Seq(GoodLines)
    BY DEF Buffers
  <2> QED
    BY <1>2, <2>1, PutNL, NoLine, BufferAppend, Zenon
<1>3. CASE c \in Chars
  <2>1. Put(ls, c) = IF Len(l) < LineMax THEN Append(p, Append(l, c)) ELSE ls
    BY <1>1, <1>3, PutChar, Zenon
  <2> QED
    BY <1>3, <2>1, LongerLine, BufferAppend, Zenon
<1> QED
  BY <1>2, <1>3

(* The lines of a file: what the recursion computes. *)
Reading(at, f) ==
  /\ at \in [0 .. Len(f) -> Buffers]
  /\ at[0] = <<<<>>>>
  /\ \A i \in 1 .. Len(f) : at[i] = Put(at[i - 1], f[i])
  /\ LinesOf(f) = at[Len(f)]

LEMMA OneLine == <<<<>>>> \in Buffers /\ <<<<>>>> = Append(<<>>, <<>>)
<1>1. <<>> \in Seq(GoodLines) /\ <<<<>>>> = Append(<<>>, <<>>)
  BY EmptySeq
<1> QED
  BY <1>1, NoLine, BufferAppend, Zenon

LEMMA LinesSteps ==
  ASSUME NEW t \in Texts
  PROVE  \E at : Reading(at, t)
<1> DEFINE n == Len(t)
            step == [i \in 1 .. n |-> [x \in Buffers |-> Put(x, t[i])]]
            F(f) == [i \in 0 .. n |-> IF i = 0 THEN <<<<>>>> ELSE Put(f[i - 1], t[i])]
            at == CHOOSE f : f = F(f)
<1>1. n \in Nat /\ \A i \in 1 .. n : t[i] \in Chars \cup {NL}
  BY SMT DEF Texts
<1>2. <<<<>>>> \in Buffers
  BY OneLine
<1>3. ASSUME NEW x \in Buffers, NEW i \in 1 .. n PROVE Put(x, t[i]) \in Buffers
  BY <1>1, PutType, Zenon
<1>4. step \in [1 .. n -> [Buffers -> Buffers]]
  BY <1>3, Zenon
<1>5. LinesOf(t) = at[n]
  BY Zenon DEF LinesOf
<1> HIDE DEF n
<1> HIDE DEF step
<1>0. PICK f : Built(f, n, Buffers, <<<<>>>>, step)
  BY <1>1, <1>2, <1>4, Recursion, Zenon
<1>6. f \in [0 .. n -> Buffers] /\ f[0] = <<<<>>>> /\ \A i \in 1 .. n : f[i] = step[i][f[i - 1]]
  BY <1>0, Zenon DEF Built
<1> USE DEF step
<1>7. \A i \in 1 .. n : i - 1 \in 0 .. n /\ i # 0 /\ i \in 0 .. n
  BY <1>1, SMT
<1>8. \A i \in 1 .. n : f[i] = Put(f[i - 1], t[i])
  BY <1>6, <1>7, Zenon
<1>9. \A i \in 0 .. n : i = 0 \/ i \in 1 .. n
  BY <1>1, SMT
<1>10. \A i \in 0 .. n : f[i] = IF i = 0 THEN <<<<>>>> ELSE Put(f[i - 1], t[i])
  BY <1>6, <1>8, <1>9, Zenon
<1>11. f = F(f)
  BY <1>6, <1>10, Zenon
<1>12. at = F(at)
  BY <1>11, Zenon
<1> HIDE DEF at
<1>13. 0 \in 0 .. n /\ n \in 0 .. n
  BY <1>1, SMT
<1>14. at[0] = <<<<>>>> /\ \A i \in 1 .. n : at[i] = Put(at[i - 1], t[i])
  BY <1>7, <1>12, <1>13, Zenon
<1>15. at \in [0 .. n -> Buffers]
  <2> DEFINE S == {i \in 0 .. n : at[i] \in Buffers}
  <2>1. 0 \in S
    BY <1>2, <1>13, <1>14, Zenon
  <2>2. ASSUME NEW i \in 1 .. n, i - 1 \in S PROVE i \in S
    BY <1>3, <1>7, <1>14, <2>2, Zenon
  <2>3. \A i \in 0 .. n : i \in S
    <3> HIDE DEF S
    <3> QED
      BY <1>1, <2>1, <2>2, Counting, Zenon
  <2>4. \A i \in 0 .. n : at[i] \in Buffers
    BY <2>3, Zenon
  <2> QED
    BY <1>12, <2>4, Zenon
<1>16. Reading(at, t)
  BY <1>5, <1>14, <1>15, Zenon DEF Reading, n
<1> QED
  BY <1>16, Zenon

LEMMA LinesType ==
  ASSUME NEW t \in Texts
  PROVE  LinesOf(t) \in Buffers
<1>1. PICK at : Reading(at, t)
  BY LinesSteps, Zenon
<1>2. Len(t) \in 0 .. Len(t)
  BY SMT DEF Texts
<1> QED
  BY <1>1, <1>2, Zenon DEF Reading

LEMMA LinesEmpty == LinesOf(<<>>) = <<<<>>>>
<1>1. <<>> \in Texts /\ Len(<<>>) = 0
  BY EmptySeq DEF Texts
<1>2. PICK at : Reading(at, <<>>)
  BY <1>1, LinesSteps, Zenon
<1> QED
  BY <1>1, <1>2, Zenon DEF Reading

(* A character more. *)
LEMMA LinesAppend ==
  ASSUME NEW t \in Texts, NEW c \in Chars \cup {NL}
  PROVE  LinesOf(Append(t, c)) = Put(LinesOf(t), c)
<1> DEFINE n == Len(t)
            more == Append(t, c)
            m == n + 1
<1>1. n \in Nat /\ more \in Texts /\ Len(more) = m /\ more[m] = c
      /\ (\A i \in 1 .. n : more[i] = t[i]) /\ m \in 1 .. m /\ m - 1 = n
  BY SMT, AppendProperties DEF Texts
<1>2. PICK at : Reading(at, t)
  BY LinesSteps, Zenon
<1>3. PICK on : Reading(on, more)
  <2> HIDE DEF more
  <2> QED
    BY <1>1, LinesSteps, Zenon
<1>4. /\ at[0] = <<<<>>>> /\ LinesOf(t) = at[n]
      /\ \A i \in 1 .. n : at[i] = Put(at[i - 1], t[i])
  BY <1>2, Zenon DEF Reading
<1>5. \A i \in 1 .. n : i \in 1 .. m
  BY <1>1
<1> HIDE DEF n, more, m
<1>6. /\ on[0] = <<<<>>>> /\ LinesOf(more) = on[m]
      /\ \A i \in 1 .. m : on[i] = Put(on[i - 1], more[i])
  BY <1>1, <1>3, Zenon DEF Reading
<1> DEFINE S == {i \in 0 .. n : on[i] = at[i]}
<1>7. 0 \in S
  BY <1>1, <1>4, <1>6, SMT
<1>8. ASSUME NEW i \in 1 .. n, i - 1 \in S PROVE i \in S
  <2>1. i \in 0 .. n
    BY <1>1, SMT
  <2> QED
    BY <1>1, <1>4, <1>5, <1>6, <1>8, <2>1, Zenon
<1>9. n \in S
  <2> HIDE DEF S
  <2>1. \A i \in 0 .. n : i \in S
    BY <1>1, <1>7, <1>8, Counting, Zenon
  <2>2. n \in 0 .. n
    BY <1>1, SMT
  <2> QED
    BY <2>1, <2>2, Zenon
<1>10. on[m] = Put(on[n], c)
  BY <1>1, <1>6, Zenon
<1> QED
  BY <1>4, <1>6, <1>9, <1>10, Zenon DEF more

----------------------------------------------------------------------------
(* What was written is read back, with an empty line after it. *)
LEMMA JoinAppend ==
  ASSUME NEW S, NEW x \in Seq(S), NEW y \in Seq(S), NEW c \in S
  PROVE  x \o Append(y, c) = Append(x \o y, c)
<1>1. x \o y \in Seq(S) /\ <<c>> \in Seq(S)
  BY ConcatProperties
<1>2. Append(y, c) = y \o <<c>> /\ Append(x \o y, c) = (x \o y) \o <<c>>
  BY <1>1, AppendIsConcat
<1>3. (x \o y) \o <<c>> = x \o (y \o <<c>>)
  BY <1>1, Assoc
<1> QED
  BY <1>2, <1>3, Zenon

LEMMA PrefixGood ==
  ASSUME NEW l \in GoodLines, NEW k \in 0 .. Len(l)
  PROVE  SubSeq(l, 1, k) \in GoodLines /\ Len(SubSeq(l, 1, k)) = k
<1>1. l \in Seq(Chars) /\ Len(l) \in Nat /\ Len(l) <= LineMax /\ LineMax \in Nat
  BY EditorAssumption DEF GoodLines
<1>2. SubSeq(l, 1, k) \in Seq(Chars) /\ Len(SubSeq(l, 1, k)) = k
  BY <1>1, JoinCut
<1> QED
  BY <1>1, <1>2 DEF GoodLines

LEMMA GoodText ==
  ASSUME NEW l \in GoodLines
  PROVE  l \in Seq(Chars) /\ l \in Texts /\ Append(l, NL) \in Texts
BY WholeLine DEF GoodLines

LEMMA GoodSeq ==
  ASSUME NEW ls \in Seq(GoodLines)
  PROVE  ls \in Seq(Seq(Chars))
BY SeqMonotonic DEF GoodLines

LEMMA ReadLine ==
  ASSUME NEW t \in Texts, NEW p \in Seq(GoodLines), NEW l \in GoodLines,
         LinesOf(t) = Append(p, <<>>)
  PROVE  LinesOf(t \o l) = Append(p, l)
<1> DEFINE n == Len(l)
            upto(i) == SubSeq(l, 1, i)
            S == {i \in 0 .. n : LinesOf(t \o upto(i)) = Append(p, upto(i))}
<1>1. n \in Nat /\ n <= LineMax /\ LineMax \in Nat /\ l \in Seq(Chars)
  BY EditorAssumption DEF GoodLines
<1>2. 0 \in S
  <2>1. upto(0) = <<>>
    BY SubSeqEmpty
  <2>2. t \o <<>> = t
    BY ConcatEmptySeq DEF Texts
  <2>3. 0 \in 0 .. n
    BY <1>1, SMT
  <2> HIDE DEF upto
  <2> QED
    BY <2>1, <2>2, <2>3, Zenon
<1>3. ASSUME NEW i \in 1 .. n, i - 1 \in S PROVE i \in S
  <2> DEFINE q == upto(i - 1)
              c == l[i]
  <2>1. q \in Seq(Chars) /\ c \in Chars /\ upto(i) = Append(q, c)
    BY <1>1, PrefixStep
  <2>2. i \in 0 .. n /\ i - 1 \in 0 .. n /\ LinesOf(t \o q) = Append(p, q)
    BY <1>1, <1>3, SMT
  <2>3. q \in GoodLines /\ Len(q) = i - 1
    BY <2>2, PrefixGood
  <2>4. Len(q) < LineMax
    BY <1>1, <2>3
  <2> HIDE DEF q, c, upto, n
  <2>5. q \in Texts /\ t \o q \in Texts /\ c \in Chars \cup {NL}
    BY <2>1, <2>3, GoodText, ConcatProperties DEF Texts
  <2>6. t \o Append(q, c) = Append(t \o q, c)
    BY <2>5, JoinAppend, SMTT(30) DEF Texts
  <2>7. LinesOf(Append(t \o q, c)) = Put(Append(p, q), c)
    BY <2>2, <2>5, LinesAppend, Zenon
  <2>8. Put(Append(p, q), c) = Append(p, Append(q, c))
    BY <2>1, <2>3, <2>4, PutChar, Zenon
  <2> QED
    BY <2>1, <2>2, <2>6, <2>7, <2>8, Zenon
<1>4. n \in S
  <2> HIDE DEF S
  <2>1. \A i \in 0 .. n : i \in S
    BY <1>1, <1>2, <1>3, Counting, Zenon
  <2>2. n \in 0 .. n
    BY <1>1, SMT
  <2> QED
    BY <2>1, <2>2, Zenon
<1>5. upto(n) = l
  BY <1>1, SubSeqFull
<1> HIDE DEF upto
<1> QED
  BY <1>4, <1>5, Zenon

LEMMA ReadBack ==
  ASSUME NEW ls \in Seq(GoodLines)
  PROVE  LinesOf(Serialized(ls)) = Append(ls, <<>>)
<1> DEFINE n == Len(ls)
            upto(i) == SubSeq(ls, 1, i)
            S == {i \in 0 .. n : LinesOf(Serialized(upto(i))) = Append(upto(i), <<>>)}
<1>1. n \in Nat
  BY SMT
<1>2. 0 \in S
  <2>1. upto(0) = <<>>
    BY SubSeqEmpty
  <2>2. 0 \in 0 .. n
    BY <1>1, SMT
  <2> HIDE DEF upto
  <2> QED
    BY <2>1, <2>2, SerializedEmpty, LinesEmpty, OneLine, Zenon
<1>3. ASSUME NEW i \in 1 .. n, i - 1 \in S PROVE i \in S
  <2> DEFINE p == upto(i - 1)
              l == ls[i]
              t == Serialized(p)
  <2>1. p \in Seq(GoodLines) /\ l \in GoodLines /\ upto(i) = Append(p, l)
    BY PrefixStep
  <2>2. i \in 0 .. n /\ LinesOf(t) = Append(p, <<>>)
    BY <1>3, SMT
  <2>3. p \in Seq(Seq(Chars)) /\ l \in Seq(Chars) /\ l \in Texts
    BY <2>1, GoodSeq, GoodText
  <2> HIDE DEF p, l, upto
  <2>4. Serialized(Append(p, l)) = t \o Append(l, NL) /\ t \in Texts
    BY <2>3, SerializedAppend, SerializedType, Zenon
  <2> HIDE DEF t
  <2>5. t \o Append(l, NL) = Append(t \o l, NL) /\ t \o l \in Texts
    BY <2>3, <2>4, JoinAppend, ConcatProperties DEF Texts
  <2>6. LinesOf(t \o l) = Append(p, l)
    BY <2>1, <2>2, <2>4, ReadLine, Zenon
  <2>7. LinesOf(Append(t \o l, NL)) = Append(Append(p, l), <<>>)
    <3>1. NL \in Chars \cup {NL}
      OBVIOUS
    <3> QED
      BY <2>5, <2>6, <3>1, LinesAppend, PutNL, Zenon
  <2> QED
    BY <2>1, <2>2, <2>4, <2>5, <2>7, Zenon
<1>4. n \in S
  <2> HIDE DEF S
  <2>1. \A i \in 0 .. n : i \in S
    BY <1>1, <1>2, <1>3, Counting, Zenon
  <2>2. n \in 0 .. n
    BY <1>1, SMT
  <2> QED
    BY <2>1, <2>2, Zenon
<1>5. upto(n) = ls
  BY SubSeqFull
<1> HIDE DEF upto
<1> QED
  BY <1>4, <1>5, Zenon

LEMMA MinOfTwo ==
  ASSUME NEW a \in Int, NEW b \in Int
  PROVE  Min({a, b}) = IF a <= b THEN a ELSE b
<1> DEFINE m == IF a <= b THEN a ELSE b
<1>1. m \in {a, b} /\ \A y \in {a, b} : m =< y
  OBVIOUS
<1>2. Min({a, b}) \in {a, b} /\ \A y \in {a, b} : Min({a, b}) =< y
  BY <1>1, Zenon DEF Min
<1> QED
  BY <1>2

LEMMA LoadSaved ==
  ASSUME NEW ls \in Buffers, Len(ls) <= MaxLines
  PROVE  ed_load(Serialized(ls)) \in {ls, Append(ls, <<>>)}
<1> DEFINE more == Append(ls, <<>>)
            t == Serialized(ls)
            n == Len(ls)
<1>1. ls \in Seq(GoodLines) /\ n \in Nat /\ n \in 0 .. n /\ MaxLines \in Nat
  BY EditorAssumption DEF Buffers
<1>2. more \in Seq(GoodLines) /\ Len(more) = n + 1 /\ more = ls \o <<<<>>>> /\ <<<<>>>> \in Seq(GoodLines)
  BY <1>1, NoLine, AppendProperties, AppendIsConcat
<1>3. t \in Texts /\ LinesOf(t) = more
  BY <1>1, GoodSeq, ReadBack, SerializedType, Zenon
<1>4. t \notin {NoFile, Directory}
  BY <1>3, EditorAssumption DEF Texts
<1> HIDE DEF t
<1>5. ed_load(t) = SubSeq(more, 1, Min({Len(more), MaxLines}))
  BY <1>3, <1>4, Zenon DEF ed_load
<1> HIDE DEF more
<1>6. CASE n = MaxLines
  <2>1. Min({Len(more), MaxLines}) = n
    BY <1>1, <1>2, <1>6, MinOfTwo
  <2>2. SubSeq(more, 1, n) = ls
    BY <1>1, <1>2, CutJoin
  <2> QED
    BY <1>5, <2>1, <2>2, Zenon DEF t, more
<1>7. CASE n # MaxLines
  <2>1. Min({Len(more), MaxLines}) = Len(more)
    BY <1>1, <1>2, <1>7, MinOfTwo
  <2>2. SubSeq(more, 1, Len(more)) = more
    BY <1>2, SubSeqFull
  <2> QED
    BY <1>5, <2>1, <2>2, Zenon DEF t, more
<1> QED
  BY <1>6, <1>7

LEMMA LoadType ==
  ASSUME NEW f \in Texts \cup {NoFile, Directory}
  PROVE  ed_load(f) \in Buffers /\ Len(ed_load(f)) <= MaxLines
<1>1. MaxLines \in Nat \ {0}
  BY EditorAssumption
<1>2. CASE f \in {NoFile, Directory}
  <2>1. ed_load(f) = <<<<>>>>
    BY <1>2, Zenon DEF ed_load
  <2>2. Len(<<<<>>>>) = 1
    OBVIOUS
  <2> QED
    BY <1>1, <2>1, <2>2, OneLine
<1>3. CASE f \notin {NoFile, Directory}
  <2> DEFINE L == LinesOf(f)
              k == Min({Len(L), MaxLines})
  <2>1. L \in Buffers
    BY <1>3, LinesType, Zenon
  <2>2. ed_load(f) = SubSeq(L, 1, k)
    BY <1>3, Zenon DEF ed_load
  <2> HIDE DEF L
  <2>3. L \in Seq(GoodLines) /\ Len(L) \in Nat \ {0}
    BY <2>1 DEF Buffers
  <2>4. k \in 1 .. Len(L) /\ k <= MaxLines /\ k \in 0 .. Len(L)
    BY <1>1, <2>3, MinOfTwo
  <2> HIDE DEF k
  <2>5. SubSeq(L, 1, k) \in Seq(GoodLines) /\ Len(SubSeq(L, 1, k)) = k
    BY <2>3, <2>4, JoinCut
  <2> QED
    BY <2>2, <2>4, <2>5 DEF Buffers
<1> QED
  BY <1>2, <1>3

(* What is saved: the longest part that fits, the whole text when it does. *)
LEMMA LargestIsIn ==
  ASSUME NEW n \in Nat, NEW K \in SUBSET (0 .. n), K # {}
  PROVE  \E k \in K : \A j \in K : j <= k
<1> DEFINE T == {i \in 0 .. n : \E k \in K : i = n - k}
<1>1. T \in SUBSET Nat /\ T # {}
  <2>1. PICK k \in K : TRUE
    OBVIOUS
  <2>2. n - k \in T
    BY <2>1
  <2>3. \A i \in 0 .. n : i \in Nat
    OBVIOUS
  <2>4. T \in SUBSET Nat
    BY <2>3, Zenon
  <2> QED
    BY <2>2, <2>4, Zenon
<1>2. PICK i \in T : \A j \in T : ~ (<<j, i>> \in OpToRel(<, Nat))
  BY <1>1, NatLessThanWellFounded, WFMin
<1>3. \A j \in T : ~ (j < i)
  BY <1>1, <1>2 DEF OpToRel
<1>4. PICK k \in K : i = n - k
  OBVIOUS
<1>5. ASSUME NEW j \in K PROVE j <= k
  <2>1. n - j \in T
    OBVIOUS
  <2> QED
    BY <1>3, <1>4, <2>1
<1> QED
  BY <1>5

Part(ls, p) == \E k \in 0 .. Len(ls) : p = SubSeq(ls, 1, k)

LEMMA SavedIs ==
  ASSUME lines \in Buffers
  PROVE  \E p : /\ Part(lines, p) /\ Fits(p) /\ Saved = Serialized(p)
                /\ Fits(lines) => p = lines
<1> DEFINE n == Len(lines)
            prefixes == {SubSeq(lines, 1, k) : k \in 0 .. n}
            K == {k \in 0 .. n : Fits(SubSeq(lines, 1, k))}
            best(p) == Fits(p) /\ \A q \in prefixes : Fits(q) => Len(q) <= Len(p)
            longest == CHOOSE p \in prefixes : best(p)
<1>1. lines \in Seq(GoodLines) /\ n \in Nat
  BY DEF Buffers
<1>2. Fits(<<>>)
  <2>1. Len(<<>>) = 0
    OBVIOUS
  <2>2. 0 < DataMax - 1
    BY EditorAssumption
  <2> QED
    BY <2>1, <2>2, SerializedEmpty, Zenon DEF Fits
<1>3. \A k \in 0 .. n : Len(SubSeq(lines, 1, k)) = k
  BY <1>1, JoinCut
<1>4. 0 \in K
  <2>1. SubSeq(lines, 1, 0) = <<>>
    BY SubSeqEmpty
  <2>2. 0 \in 0 .. n
    BY <1>1
  <2> QED
    BY <1>2, <2>1, <2>2, Zenon
<1>5. PICK k \in K : \A j \in K : j <= k
  <2>1. K \in SUBSET (0 .. n)
    OBVIOUS
  <2> HIDE DEF K
  <2> QED
    BY <1>1, <1>4, <2>1, LargestIsIn, Zenon
<1>6. SubSeq(lines, 1, k) \in prefixes /\ best(SubSeq(lines, 1, k))
  <2>1. ASSUME NEW j \in 0 .. n, Fits(SubSeq(lines, 1, j))
        PROVE  Len(SubSeq(lines, 1, j)) <= Len(SubSeq(lines, 1, k))
    <3>1. j \in K /\ k \in 0 .. n
      BY <2>1, Zenon
    <3> HIDE DEF K
    <3>2. j <= k
      BY <1>5, <3>1, Zenon
    <3> QED
      BY <1>3, <3>1, <3>2, Zenon
  <2> QED
    BY <2>1, Zenon
<1>7. longest \in prefixes /\ best(longest)
  <2> HIDE DEF prefixes, best
  <2> QED
    BY <1>6, Zenon
<1>8. Saved = Serialized(longest)
  BY Zenon DEF Saved
<1> HIDE DEF longest
<1>9. PICK j \in 0 .. n : longest = SubSeq(lines, 1, j)
  BY <1>7, Zenon
<1>10. ASSUME Fits(lines) PROVE longest = lines
  <2>1. SubSeq(lines, 1, n) = lines /\ n \in 0 .. n
    BY <1>1, SubSeqFull
  <2>2. lines \in prefixes
    <3> HIDE DEF n
    <3> QED
      BY <2>1, Zenon
  <2>3. n <= Len(longest)
    BY <1>7, <1>10, <2>2, Zenon
  <2>4. j = n
    BY <1>1, <1>3, <1>9, <2>3
  <2> QED
    BY <1>9, <2>1, <2>4, Zenon
<1> QED
  BY <1>7, <1>8, <1>9, <1>10, Zenon DEF Part

LEMMA SavedType ==
  ASSUME lines \in Buffers
  PROVE  Saved \in Texts
<1>1. PICK p : Part(lines, p) /\ Saved = Serialized(p)
  BY SavedIs, Zenon
<1>2. p \in Seq(GoodLines)
  BY <1>1, JoinCut DEF Part, Buffers
<1> QED
  BY <1>1, <1>2, GoodSeq, SerializedType, Zenon

----------------------------------------------------------------------------
(* A buffer around one of its lines. *)
Mid(a, l, b) == (a \o <<l>>) \o b

LEMMA Pieces ==
  ASSUME NEW ls \in Buffers, NEW y \in 0 .. Len(ls) - 1
  PROVE  /\ SubSeq(ls, 1, y) \in Seq(GoodLines) /\ Len(SubSeq(ls, 1, y)) = y
         /\ ls[y + 1] \in GoodLines
         /\ SubSeq(ls, y + 2, Len(ls)) \in Seq(GoodLines)
         /\ Len(SubSeq(ls, y + 2, Len(ls))) = Len(ls) - y - 1
         /\ ls = Mid(SubSeq(ls, 1, y), ls[y + 1], SubSeq(ls, y + 2, Len(ls)))
<1> DEFINE n == Len(ls)
            z == y + 1
<1>1. ls \in Seq(GoodLines) /\ n \in Nat /\ y \in 0 .. n /\ z \in 1 .. n /\ z \in 0 .. n /\ z - 1 = y
  BY DEF Buffers
<1>2. /\ SubSeq(ls, 1, y) \in Seq(GoodLines) /\ Len(SubSeq(ls, 1, y)) = y
  BY <1>1, JoinCut
<1>3. /\ SubSeq(ls, z + 1, n) \in Seq(GoodLines) /\ Len(SubSeq(ls, z + 1, n)) = n - z
      /\ ls = SubSeq(ls, 1, z) \o SubSeq(ls, z + 1, n)
  <2> HIDE DEF z
  <2> QED
    BY <1>1, JoinCut
<1>4. SubSeq(ls, 1, z) = Append(SubSeq(ls, 1, z - 1), ls[z]) /\ ls[z] \in GoodLines
  <2> HIDE DEF z
  <2> QED
    BY <1>1, PrefixStep
<1>5. Append(SubSeq(ls, 1, y), ls[z]) = SubSeq(ls, 1, y) \o <<ls[z]>>
  BY <1>2, <1>4, AppendIsConcat
<1>6. z + 1 = y + 2 /\ n - z = n - y - 1
  BY <1>1
<1>7. SubSeq(ls, 1, z) = SubSeq(ls, 1, y) \o <<ls[z]>>
  <2> HIDE DEF z
  <2> QED
    BY <1>1, <1>4, <1>5, Zenon
<1>8. ls = (SubSeq(ls, 1, y) \o <<ls[z]>>) \o SubSeq(ls, y + 2, n)
  <2> HIDE DEF z
  <2>1. SubSeq(ls, z + 1, n) = SubSeq(ls, y + 2, n)
    BY <1>6, Zenon
  <2> QED
    BY <1>3, <1>7, <2>1, Zenon
<1> QED
  BY <1>2, <1>3, <1>4, <1>6, <1>8 DEF Mid

LEMMA MidElements ==
  ASSUME NEW V, NEW a \in Seq(V), NEW l \in V, NEW b \in Seq(V),
         NEW ls, ls = Mid(a, l, b), NEW k, k = Len(a) + 1, NEW i \in 1 .. k + Len(b)
  PROVE  ls[i] = IF i < k THEN a[i] ELSE IF i = k THEN l ELSE b[i - k]
<1> DEFINE h == a \o <<l>>
<1>1. Len(a) \in Nat /\ Len(b) \in Nat /\ i \in Nat
  OBVIOUS
<1>2. h \in Seq(V) /\ Len(h) = k /\ h[k] = l
  <2>1. h = Append(a, l)
    BY AppendIsConcat
  <2> HIDE DEF h
  <2> QED
    BY <2>1, AppendProperties
<1>3. ASSUME i < k PROVE h[i] = a[i]
  <2>1. h = Append(a, l)
    BY AppendIsConcat
  <2> HIDE DEF h
  <2> QED
    BY <1>1, <1>3, <2>1, AppendProperties
<1>4. ls = h \o b
  BY Zenon DEF h, Mid
<1> HIDE DEF h
<1>5. (h \o b)[i] = IF i <= Len(h) THEN h[i] ELSE b[i - Len(h)]
  BY <1>2, ConcatProperties
<1> QED
  BY <1>1, <1>2, <1>3, <1>4, <1>5

LEMMA Around ==
  ASSUME NEW V, NEW a \in Seq(V), NEW l \in V, NEW b \in Seq(V)
  PROVE  /\ Mid(a, l, b) \in Seq(V) /\ Len(Mid(a, l, b)) = Len(a) + 1 + Len(b)
         /\ Mid(a, l, b)[Len(a) + 1] = l
         /\ SubSeq(Mid(a, l, b), 1, Len(a)) = a
         /\ SubSeq(Mid(a, l, b), Len(a) + 2, Len(Mid(a, l, b))) = b
<1> DEFINE h == a \o <<l>>
            k == Len(a) + 1
            ls == Mid(a, l, b)
<1>1. Len(a) \in Nat /\ Len(b) \in Nat /\ <<l>> \in Seq(V) /\ k \in 1 .. k + Len(b)
  OBVIOUS
<1>2. h \in Seq(V) /\ Len(h) = k
  BY AppendIsConcat, AppendProperties
<1>3. ls = h \o b
  BY Zenon DEF h, Mid
<1> HIDE DEF ls
<1>9. ls = Mid(a, l, b)
  BY Zenon DEF ls
<1>4. ls \in Seq(V) /\ Len(ls) = k + Len(b)
  <2> HIDE DEF h
  <2>1. h \o b \in Seq(V) /\ Len(h \o b) = Len(h) + Len(b)
    BY <1>2, ConcatProperties
  <2> QED
    BY <1>2, <1>3, <2>1
<1>5. ls[k] = l
  <2> HIDE DEF k
  <2>1. k = Len(a) + 1
    BY DEF k
  <2> QED
    BY <1>1, <1>9, <2>1, MidElements
<1>6. SubSeq(ls, 1, Len(a)) = a
  <2>1. /\ SubSeq(ls, 1, Len(a)) \in Seq(V) /\ Len(SubSeq(ls, 1, Len(a))) = Len(a)
        /\ \A i \in 1 .. Len(a) : SubSeq(ls, 1, Len(a))[i] = ls[i]
    BY <1>1, <1>4, JoinCut
  <2>2. ASSUME NEW i \in 1 .. Len(a) PROVE ls[i] = a[i]
    <3>1. i < k /\ i \in 1 .. k + Len(b) /\ k = Len(a) + 1
      BY <1>1
    <3> HIDE DEF k
    <3> QED
      BY <1>9, <3>1, MidElements
  <2> QED
    BY <2>1, <2>2, SeqEqual
<1>7. SubSeq(ls, k + 1, Len(ls)) = b
  <2> HIDE DEF h, k
  <2> QED
    BY <1>2, <1>3, CutJoin
<1>8. k + 1 = Len(a) + 2 /\ k + Len(b) = Len(a) + 1 + Len(b)
  BY <1>1
<1>10. SubSeq(ls, Len(a) + 2, Len(ls)) = b
  <2> HIDE DEF k
  <2> QED
    BY <1>7, <1>8, Zenon
<1> QED
  BY <1>4, <1>5, <1>6, <1>8, <1>10 DEF ls

LEMMA GoodMid ==
  ASSUME NEW a \in Seq(GoodLines), NEW l \in GoodLines, NEW b \in Seq(GoodLines)
  PROVE  /\ Mid(a, l, b) \in Buffers /\ Mid(a, l, b) \in Seq(GoodLines)
         /\ Len(Mid(a, l, b)) = Len(a) + 1 + Len(b)
         /\ Mid(a, l, b)[Len(a) + 1] = l
         /\ SubSeq(Mid(a, l, b), 1, Len(a)) = a
         /\ SubSeq(Mid(a, l, b), Len(a) + 2, Len(Mid(a, l, b))) = b
<1>1. Mid(a, l, b) \in Seq(GoodLines)
  BY Around
<1>2. Len(Mid(a, l, b)) = Len(a) + 1 + Len(b)
  BY Around
<1>3. Mid(a, l, b)[Len(a) + 1] = l
  BY Around
<1>4. SubSeq(Mid(a, l, b), 1, Len(a)) = a
  BY Around
<1>5. SubSeq(Mid(a, l, b), Len(a) + 2, Len(Mid(a, l, b))) = b
  BY Around
<1>6. Len(a) \in Nat /\ Len(b) \in Nat
  OBVIOUS
<1>7. Mid(a, l, b) \in Buffers
  BY <1>1, <1>2, <1>6 DEF Buffers
<1> QED
  BY <1>1, <1>2, <1>3, <1>4, <1>5, <1>7

LEMMA CharMid ==
  ASSUME NEW x \in Texts, NEW c \in Chars \cup {NL}, NEW y \in Texts
  PROVE  /\ Mid(x, c, y) \in Texts
         /\ Len(Mid(x, c, y)) = Len(x) + 1 + Len(y)
         /\ Mid(x, c, y)[Len(x) + 1] = c
         /\ SubSeq(Mid(x, c, y), 1, Len(x)) = x
         /\ SubSeq(Mid(x, c, y), Len(x) + 2, Len(Mid(x, c, y))) = y
<1> DEFINE C == Chars \cup {NL}
<1>0. x \in Seq(C) /\ c \in C /\ y \in Seq(C)
  BY DEF Texts
<1> HIDE DEF C
<1>1. Mid(x, c, y) \in Seq(C)
  BY <1>0, Around
<1>2. Len(Mid(x, c, y)) = Len(x) + 1 + Len(y)
  BY <1>0, Around
<1>3. Mid(x, c, y)[Len(x) + 1] = c
  BY <1>0, Around
<1>4. SubSeq(Mid(x, c, y), 1, Len(x)) = x
  BY <1>0, Around
<1>5. SubSeq(Mid(x, c, y), Len(x) + 2, Len(Mid(x, c, y))) = y
  BY <1>0, Around
<1> QED
  BY <1>1, <1>2, <1>3, <1>4, <1>5 DEF C, Texts

(* A line in place of another. *)
LEMMA Replaced ==
  ASSUME NEW ls \in Buffers, NEW y \in 0 .. Len(ls) - 1, NEW m \in GoodLines
  PROVE  [ls EXCEPT ![y + 1] = m] = Mid(SubSeq(ls, 1, y), m, SubSeq(ls, y + 2, Len(ls)))
<1> DEFINE a == SubSeq(ls, 1, y)
            b == SubSeq(ls, y + 2, Len(ls))
            u == [ls EXCEPT ![y + 1] = m]
            v == Mid(a, m, b)
            w == Mid(a, ls[y + 1], b)
            n == Len(ls)
<1>1. /\ a \in Seq(GoodLines) /\ Len(a) = y /\ b \in Seq(GoodLines) /\ Len(b) = n - y - 1
      /\ ls[y + 1] \in GoodLines /\ ls = w
  BY Pieces
<1>2. ls \in Seq(GoodLines) /\ n \in Nat /\ y + 1 \in 1 .. n /\ y \in Nat
  BY DEF Buffers
<1>3. u \in Seq(GoodLines) /\ Len(u) = n /\ \A i \in 1 .. n : u[i] = IF i = y + 1 THEN m ELSE ls[i]
  BY <1>2, ExceptSeq
<1>10. v = Mid(a, m, b)
  OBVIOUS
<1> HIDE DEF a, b, u, n, v
<1>9. y + 1 + Len(b) = n
  BY <1>1, <1>2
<1>4. v \in Seq(GoodLines) /\ Len(v) = n /\ v[y + 1] = m
  <2>1. v \in Seq(GoodLines) /\ Len(v) = Len(a) + 1 + Len(b) /\ v[Len(a) + 1] = m
    BY <1>1, <1>10, GoodMid
  <2> QED
    BY <1>1, <1>9, <2>1
<1>6. ASSUME NEW i \in 1 .. n PROVE u[i] = v[i]
  <2> DEFINE k == y + 1
  <2>1. k = Len(a) + 1 /\ i \in 1 .. k + Len(b) /\ i \in Nat /\ k \in Nat
    BY <1>1, <1>2, <1>9
  <2> HIDE DEF k
  <2>2. v[i] = IF i < k THEN a[i] ELSE IF i = k THEN m ELSE b[i - k]
    BY <1>1, <1>10, <2>1, MidElements
  <2>3. ls[i] = IF i < k THEN a[i] ELSE IF i = k THEN ls[y + 1] ELSE b[i - k]
    <3> DEFINE e == ls[y + 1]
    <3> HIDE DEF e
    <3>1. e \in GoodLines /\ ls = Mid(a, e, b)
      BY <1>1, Zenon DEF e
    <3>2. ls[i] = IF i < k THEN a[i] ELSE IF i = k THEN e ELSE b[i - k]
      BY <1>1, <2>1, <3>1, MidElements
    <3> QED
      BY <3>2, Zenon DEF e
  <2>4. u[i] = IF i = k THEN m ELSE ls[i]
    BY <1>3 DEF k
  <2> QED
    BY <2>1, <2>2, <2>3, <2>4
<1>7. v \in Seq(GoodLines)
  BY <1>4
<1>8. u = v
  BY <1>3, <1>4, <1>6, <1>7, SeqEqual
<1> QED
  BY <1>8, Zenon DEF u, v, a, b

----------------------------------------------------------------------------
(* The buffer as one text. *)
TextOf(ls) == Serialized(Front(ls)) \o Last(ls)
Rest(b)    == IF b = <<>> THEN <<>> ELSE <<NL>> \o TextOf(b)

LEMMA Cat ==
  ASSUME NEW x \in Texts, NEW y \in Texts
  PROVE  /\ x \o y \in Texts /\ Len(x) \in Nat /\ Len(y) \in Nat
         /\ Len(x \o y) = Len(x) + Len(y)
BY ConcatProperties DEF Texts

LEMMA Cat3 ==
  ASSUME NEW x \in Texts, NEW y \in Texts, NEW z \in Texts
  PROVE  (x \o y) \o z = x \o (y \o z)
BY Assoc DEF Texts

LEMMA Newline == <<NL>> \in Texts /\ NL \in Chars \cup {NL} /\ Len(<<NL>>) = 1
BY DEF Texts

LEMMA NewlineAfter ==
  ASSUME NEW l \in GoodLines
  PROVE  Append(l, NL) = l \o <<NL>>
<1>1. l \in Texts
  BY GoodText
<1> QED
  BY <1>1, AppendIsConcat DEF Texts

LEMMA SerializedGood ==
  ASSUME NEW ls \in Seq(GoodLines)
  PROVE  Serialized(ls) \in Texts
BY GoodSeq, SerializedType

LEMMA SerializedMore ==
  ASSUME NEW ls \in Seq(GoodLines), NEW l \in GoodLines
  PROVE  Serialized(Append(ls, l)) = (Serialized(ls) \o l) \o <<NL>>
<1>1. ls \in Seq(Seq(Chars)) /\ l \in Seq(Chars) /\ l \in Texts /\ Serialized(ls) \in Texts
  BY GoodSeq, GoodText, SerializedGood
<1>2. Serialized(Append(ls, l)) = Serialized(ls) \o (l \o <<NL>>)
  <2>1. Serialized(Append(ls, l)) = Serialized(ls) \o Append(l, NL)
    BY <1>1, SerializedAppend
  <2> QED
    BY <2>1, NewlineAfter
<1> DEFINE x == Serialized(ls)
<1> HIDE DEF x
<1>3. (x \o l) \o <<NL>> = x \o (l \o <<NL>>)
  BY <1>1, Cat3, Newline DEF x
<1> QED
  BY <1>2, <1>3 DEF x

LEMMA TextAppend ==
  ASSUME NEW p \in Seq(GoodLines), NEW l \in GoodLines
  PROVE  TextOf(Append(p, l)) = Serialized(p) \o l /\ TextOf(Append(p, l)) \in Texts
<1>1. Last(Append(p, l)) = l /\ Front(Append(p, l)) = p
  BY EndOfBuffer
<1>2. TextOf(Append(p, l)) = Serialized(p) \o l
  BY <1>1, Zenon DEF TextOf
<1> QED
  BY <1>2, GoodText, SerializedGood, Cat

LEMMA TextType ==
  ASSUME NEW ls \in Buffers
  PROVE  TextOf(ls) \in Texts
BY BufferEnd, TextAppend

LEMMA RestType ==
  ASSUME NEW b \in Seq(GoodLines)
  PROVE  Rest(b) \in Texts /\ (Rest(b) = <<>> <=> b = <<>>) /\ (b # <<>> => b \in Buffers)
<1>1. CASE b = <<>>
  <2>1. <<>> \in Texts
    BY EmptySeq DEF Texts
  <2> QED
    BY <1>1, <2>1 DEF Rest
<1>2. CASE b # <<>>
  <2>1. b \in Buffers
    BY <1>2, EmptySeq DEF Buffers
  <2>2. Rest(b) = <<NL>> \o TextOf(b)
    BY <1>2 DEF Rest
  <2>3. Rest(b) \in Texts /\ Len(Rest(b)) = 1 + Len(TextOf(b)) /\ Len(TextOf(b)) \in Nat
    BY <2>1, <2>2, TextType, Newline, Cat
  <2>4. Len(<<>>) = 0
    OBVIOUS
  <2> QED
    BY <1>2, <2>1, <2>3, <2>4
<1> QED
  BY <1>1, <1>2

LEMMA TextMid ==
  ASSUME NEW a \in Seq(GoodLines), NEW l \in GoodLines, NEW b \in Seq(GoodLines)
  PROVE  TextOf(Mid(a, l, b)) = (Serialized(a) \o l) \o Rest(b)
<1> DEFINE w == Serialized(a) \o l
            h == a \o <<l>>
<1>1. Serialized(a) \in Texts /\ l \in Texts /\ w \in Texts
  BY SerializedGood, GoodText, Cat
<1>2. h = Append(a, l) /\ h \in Seq(GoodLines) /\ Serialized(h) = w \o <<NL>>
  <2>1. h = Append(a, l) /\ h \in Seq(GoodLines)
    BY AppendIsConcat, AppendProperties
  <2>2. Serialized(Append(a, l)) = w \o <<NL>>
    BY SerializedMore
  <2> HIDE DEF h, w
  <2> QED
    BY <2>1, <2>2, Zenon
<1>3. Mid(a, l, b) = h \o b
  BY Zenon DEF Mid
<1>4. CASE b = <<>>
  <2> HIDE DEF h, w
  <2>1. h \o <<>> = h
    BY <1>2, ConcatEmptySeq
  <2>2. TextOf(Append(a, l)) = w
    BY TextAppend DEF w
  <2>3. w \o <<>> = w
    BY <1>1, ConcatEmptySeq DEF Texts
  <2>4. Rest(b) = <<>>
    BY <1>4, Zenon DEF Rest
  <2>5. TextOf(Mid(a, l, b)) = w
    BY <1>2, <1>3, <1>4, <2>1, <2>2, Zenon
  <2>6. TextOf(Mid(a, l, b)) = w \o Rest(b)
    BY <2>3, <2>4, <2>5, Zenon
  <2> QED
    BY <2>6, Zenon DEF w
<1>5. CASE b # <<>>
  <2> HIDE DEF h, w
  <2>1. PICK c \in Seq(GoodLines), m \in GoodLines : b = Append(c, m)
    BY <1>5, SequenceEmptyOrAppend
  <2> DEFINE z == Serialized(c)
              g == h \o c
              nl == <<NL>>
  <2>2. h \o b = Append(g, m) /\ g \in Seq(GoodLines)
    BY <1>2, <2>1, JoinAppend, ConcatProperties
  <2>3. z \in Texts /\ m \in Texts /\ z \o m \in Texts /\ nl \in Texts /\ w \o nl \in Texts
    BY <1>1, <2>1, SerializedGood, GoodText, Newline, Cat
  <2>4. Serialized(g) = (w \o nl) \o z
    <3>1. Serialized(g) = Serialized(h) \o z
      BY <1>2, GoodSeq, SerializedConcat
    <3> HIDE DEF g, z
    <3> QED
      BY <1>2, <3>1, Zenon
  <2>5. TextOf(Append(g, m)) = Serialized(g) \o m
    BY <2>2, TextAppend
  <2>6. Rest(b) = nl \o (z \o m)
    <3>1. TextOf(b) = z \o m
      BY <2>1, TextAppend
    <3> HIDE DEF z
    <3> QED
      BY <1>5, <3>1, Zenon DEF Rest
  <2> HIDE DEF z, g, nl
  <2>7. ((w \o nl) \o z) \o m = w \o (nl \o (z \o m))
    <3>1. ((w \o nl) \o z) \o m = (w \o nl) \o (z \o m)
      BY <2>3, Cat3
    <3>2. (w \o nl) \o (z \o m) = w \o (nl \o (z \o m))
      BY <1>1, <2>3, Cat3, ZenonT(60)
    <3> QED
      BY <3>1, <3>2
  <2>8. TextOf(Mid(a, l, b)) = ((w \o nl) \o z) \o m
    BY <1>3, <2>2, <2>4, <2>5, Zenon
  <2>9. TextOf(Mid(a, l, b)) = w \o Rest(b)
    BY <2>6, <2>7, <2>8
  <2> QED
    BY <2>9, Zenon DEF w
<1> QED
  BY <1>4, <1>5

----------------------------------------------------------------------------
(***************************************************************************)
(* The inductive invariant: the buffer has lines that fit, the cursor and  *)
(* the window are in it, the file holds a text, and leaving is asked about *)
(* only when something changed.                                            *)
(***************************************************************************)
Framed(ls, y, x, s) ==
  /\ ls \in Buffers /\ Len(ls) <= MaxLines
  /\ y \in 0 .. Len(ls) - 1
  /\ x \in 0 .. Len(ls[y + 1])
  /\ s \in 0 .. MaxLines - 1 /\ y - s < Rows

FileOK == file \in Texts \cup {NoFile, Directory}

IInv ==
  /\ mode \in {"shell", "edit", "ask"}
  /\ Framed(lines, cy, cx, scroll_y)
  /\ dirty \in BOOLEAN
  /\ FileOK
  /\ mode = "ask" => dirty

LEMMA FramedMid ==
  ASSUME NEW a \in Seq(GoodLines), NEW l \in GoodLines, NEW b \in Seq(GoodLines),
         Len(a) + 1 + Len(b) <= MaxLines,
         NEW x \in 0 .. Len(l), NEW s \in 0 .. MaxLines - 1, Len(a) - s < Rows
  PROVE  Framed(Mid(a, l, b), Len(a), x, s)
<1> DEFINE ls == Mid(a, l, b)
            y == Len(a)
<1>1. ls \in Buffers /\ Len(ls) = Len(a) + 1 + Len(b) /\ ls[y + 1] = l
  BY GoodMid
<1>2. Len(a) \in Nat /\ Len(b) \in Nat
  OBVIOUS
<1> HIDE DEF ls
<1>3. Len(ls) <= MaxLines /\ y \in 0 .. Len(ls) - 1
  BY <1>1, <1>2
<1>4. x \in 0 .. Len(ls[y + 1])
  BY <1>1
<1>5. Framed(ls, y, x, s)
  BY <1>1, <1>3, <1>4 DEF Framed
<1> QED
  BY <1>5 DEF ls

LEMMA ShortJoin ==
  ASSUME NEW l \in GoodLines, NEW r \in GoodLines, Len(l) + Len(r) <= LineMax
  PROVE  l \o r \in GoodLines /\ Len(l \o r) = Len(l) + Len(r)
<1>1. l \o r \in Seq(Chars) /\ Len(l \o r) = Len(l) + Len(r)
  BY ConcatProperties DEF GoodLines
<1> QED
  BY <1>1 DEF GoodLines

LEMMA LineCut ==
  ASSUME NEW l \in GoodLines, NEW k \in 0 .. Len(l)
  PROVE  /\ SubSeq(l, 1, k) \in GoodLines /\ Len(SubSeq(l, 1, k)) = k
         /\ SubSeq(l, k + 1, Len(l)) \in GoodLines /\ Len(SubSeq(l, k + 1, Len(l))) = Len(l) - k
         /\ l = SubSeq(l, 1, k) \o SubSeq(l, k + 1, Len(l))
<1>1. l \in Seq(Chars) /\ Len(l) \in Nat /\ Len(l) <= LineMax /\ LineMax \in Nat
  BY EditorAssumption DEF GoodLines
<1> DEFINE u == SubSeq(l, 1, k)
            v == SubSeq(l, k + 1, Len(l))
<1>2. /\ u \in Seq(Chars) /\ Len(u) = k
      /\ v \in Seq(Chars) /\ Len(v) = Len(l) - k
      /\ l = u \o v
  <2>1. l \in Seq(Chars) /\ k \in 0 .. Len(l)
    BY <1>1
  <2> QED
    BY <2>1, JoinCut, ZenonT(60)
<1> HIDE DEF u, v
<1>3. k <= LineMax /\ Len(l) - k <= LineMax
  BY <1>1
<1>4. u \in GoodLines /\ v \in GoodLines
  BY <1>2, <1>3 DEF GoodLines
<1> QED
  BY <1>2, <1>4 DEF u, v

(* The buffer around the cursor. *)
Shaped ==
  /\ cy \in Nat /\ cx \in Nat /\ Len(Line) \in Nat
  /\ Above \in Seq(GoodLines) /\ Len(Above) = cy
  /\ Below \in Seq(GoodLines) /\ Len(Below) = Len(lines) - cy - 1
  /\ Line \in GoodLines /\ lines = Mid(Above, Line, Below)
  /\ Left \in GoodLines /\ Len(Left) = cx
  /\ Right \in GoodLines /\ Len(Right) = Len(Line) - cx
  /\ Line = Left \o Right

LEMMA Shape ==
  ASSUME IInv PROVE Shaped
<1>1. lines \in Buffers /\ cy \in 0 .. Len(lines) - 1 /\ cx \in 0 .. Len(Line)
  BY DEF IInv, Framed, Line
<1>2. /\ Above \in Seq(GoodLines) /\ Len(Above) = cy
      /\ Below \in Seq(GoodLines) /\ Len(Below) = Len(lines) - cy - 1
      /\ Line \in GoodLines
  BY <1>1, Pieces DEF Above, Below, Line
<1>3. lines = Mid(Above, Line, Below)
  BY <1>1, Pieces DEF Above, Below, Line
<1>4. /\ Left \in GoodLines /\ Len(Left) = cx
      /\ Right \in GoodLines /\ Len(Right) = Len(Line) - cx
      /\ Line = Left \o Right
  BY <1>1, <1>2, LineCut DEF Left, Right
<1>5. cy \in Nat /\ cx \in Nat /\ Len(Line) \in Nat
  <2>1. Len(lines) \in Nat
    BY <1>1 DEF Buffers
  <2>2. Len(Line) \in Nat
    BY <1>2 DEF GoodLines
  <2> QED
    BY <1>1, <2>1, <2>2
<1> QED
  BY <1>2, <1>3, <1>4, <1>5 DEF Shaped

(* The lines before and after the one of the cursor. *)
Prev == lines[cy]
Upper == SubSeq(lines, 1, cy - 1)

LEMMA ShapeAbove ==
  ASSUME IInv, cy > 0
  PROVE  /\ Upper \in Seq(GoodLines) /\ Prev \in GoodLines /\ Len(Upper) = cy - 1
         /\ Above = Append(Upper, Prev)
         /\ Len(Prev) \in Nat
<1>1. lines \in Seq(GoodLines) /\ cy \in 1 .. Len(lines) /\ cy - 1 \in 0 .. Len(lines)
  BY DEF IInv, Framed, Buffers
<1>2. Upper \in Seq(GoodLines) /\ Prev \in GoodLines /\ Above = Append(Upper, Prev)
  BY <1>1, PrefixStep DEF Upper, Prev, Above
<1>3. Len(Upper) = cy - 1
  BY <1>1, JoinCut DEF Upper
<1>4. Len(Prev) \in Nat
  BY <1>2 DEF GoodLines
<1> QED
  BY <1>2, <1>3, <1>4

Following == lines[cy + 2]
Lower == SubSeq(lines, cy + 3, Len(lines))

LEMMA ShapeBelow ==
  ASSUME IInv, cy < Len(lines) - 1
  PROVE  /\ Following \in GoodLines /\ Lower \in Seq(GoodLines) /\ Len(Lower) = Len(lines) - cy - 2
         /\ lines = Mid(Append(Above, Line), Following, Lower)
         /\ Append(Above, Line) \in Seq(GoodLines) /\ Len(Append(Above, Line)) = cy + 1
         /\ Below = Mid(<<>>, Following, Lower)
<1> DEFINE z == cy + 1
<1>1. lines \in Buffers /\ z \in 0 .. Len(lines) - 1 /\ Len(lines) \in Nat /\ cy \in 0 .. Len(lines) - 1
  BY DEF IInv, Framed, Buffers
<1>2. z + 1 = cy + 2 /\ z + 2 = cy + 3 /\ Len(lines) - z - 1 = Len(lines) - cy - 2 /\ z = cy + 1
  BY <1>1
<1>3. lines \in Seq(GoodLines) /\ z \in 1 .. Len(lines) /\ z - 1 = cy
  BY <1>1 DEF Buffers
<1> DEFINE w == SubSeq(lines, 1, z)
<1>4. w = Append(Above, Line) /\ w \in Seq(GoodLines) /\ Len(w) = z
  <2>1. w = Append(SubSeq(lines, 1, z - 1), lines[z])
    <3> HIDE DEF z
    <3> QED
      BY <1>3, PrefixStep
  <2>2. w = Append(Above, Line)
    BY <1>3, <2>1 DEF Above, Line
  <2>3. w \in Seq(GoodLines) /\ Len(w) = z
    <3> HIDE DEF z
    <3> QED
      BY <1>1, Pieces
  <2> QED
    BY <2>2, <2>3
<1>5. /\ lines[z + 1] \in GoodLines
      /\ SubSeq(lines, z + 2, Len(lines)) \in Seq(GoodLines)
      /\ Len(SubSeq(lines, z + 2, Len(lines))) = Len(lines) - z - 1
      /\ lines = Mid(w, lines[z + 1], SubSeq(lines, z + 2, Len(lines)))
  <2> HIDE DEF z
  <2> QED
    BY <1>1, Pieces
<1>6. Following \in GoodLines /\ Lower \in Seq(GoodLines) /\ Len(Lower) = Len(lines) - cy - 2
  BY <1>2, <1>5 DEF Following, Lower
<1>7. lines = Mid(w, Following, Lower)
  BY <1>2, <1>5 DEF Following, Lower
<1>8. Below = Mid(<<>>, Following, Lower)
  <2> DEFINE m == Len(Below)
  <2>1. Below \in Seq(GoodLines) /\ m = Len(lines) - cy - 1 /\ Below \in Buffers /\ 0 \in 0 .. m - 1
    BY <1>1, Shape DEF Shaped, Buffers
  <2>2. Below = Mid(SubSeq(Below, 1, 0), Below[0 + 1], SubSeq(Below, 0 + 2, m))
    BY <2>1, Pieces
  <2>3. SubSeq(Below, 1, 0) = <<>>
    BY SubSeqEmpty
  <2>4. Below[1] = Following
    <3>1. /\ \A i \in 1 .. Len(lines) - z : SubSeq(lines, z + 1, Len(lines))[i] = lines[z + i]
      <4> HIDE DEF z
      <4> QED
        BY <1>1, <1>3, JoinCut
    <3>2. Below = SubSeq(lines, z + 1, Len(lines))
      BY <1>2 DEF Below
    <3>3. 1 \in 1 .. Len(lines) - z
      BY <1>1
    <3> HIDE DEF z
    <3> QED
      BY <1>2, <3>1, <3>2, <3>3 DEF Following
  <2>5. SubSeq(Below, 2, m) = Lower
    <3> DEFINE u == SubSeq(Below, 2, m)
    <3>1. /\ \A i \in 1 .. Len(lines) - z : SubSeq(lines, z + 1, Len(lines))[i] = lines[z + i]
      <4> HIDE DEF z
      <4> QED
        BY <1>1, <1>3, JoinCut
    <3>2. Below = SubSeq(lines, z + 1, Len(lines))
      BY <1>2 DEF Below
    <3>3. 1 \in 0 .. m /\ 1 + 1 = 2
      BY <2>1
    <3>4. u \in Seq(GoodLines) /\ Len(u) = m - 1 /\ \A i \in 1 .. m - 1 : u[i] = Below[1 + i]
      BY <2>1, <3>3, JoinCut
    <3>5. \A i \in 1 .. Len(lines) - (z + 1) : SubSeq(lines, z + 1 + 1, Len(lines))[i] = lines[z + 1 + i]
      <4>1. z + 1 \in 0 .. Len(lines)
        BY <1>1
      <4> DEFINE y == z + 1
      <4> HIDE DEF y
      <4>2. \A i \in 1 .. Len(lines) - y : SubSeq(lines, y + 1, Len(lines))[i] = lines[y + i]
        BY <1>3, <4>1, JoinCut DEF y
      <4> QED
        BY <4>2 DEF y
    <3> HIDE DEF u
    <3>6. ASSUME NEW i \in 1 .. m - 1 PROVE u[i] = Lower[i]
      <4>1. u[i] = Below[1 + i]
        BY <3>4
      <4>2. 1 + i \in 1 .. Len(lines) - z /\ z + (1 + i) = z + 1 + i /\ i \in 1 .. Len(lines) - (z + 1)
        BY <1>1, <2>1
      <4>3. Below[1 + i] = lines[z + (1 + i)]
        BY <3>1, <3>2, <4>2
      <4>4. Lower[i] = lines[z + 1 + i]
        <5>1. z + 1 + 1 = cy + 3
          BY <1>1
        <5>2. SubSeq(lines, z + 1 + 1, Len(lines))[i] = lines[z + 1 + i]
          BY <3>5, <4>2
        <5>3. SubSeq(lines, z + 1 + 1, Len(lines)) = Lower
          <6> HIDE DEF z
          <6> QED
            BY <5>1 DEF Lower
        <5> QED
          BY <5>2, <5>3
      <4> QED
        BY <4>1, <4>2, <4>3, <4>4
    <3>7. Len(Lower) = m - 1
      BY <1>1, <1>6, <2>1
    <3>8. u = Lower
      BY <1>6, <3>4, <3>6, <3>7, SeqEqual
    <3> QED
      BY <3>8 DEF u
  <2>6. Below = Mid(SubSeq(Below, 1, 0), Below[1], SubSeq(Below, 2, m))
    BY <2>2
  <2> HIDE DEF m
  <2> QED
    BY <2>3, <2>4, <2>5, <2>6, Zenon
<1> QED
  BY <1>2, <1>4, <1>6, <1>7, <1>8

----------------------------------------------------------------------------
(* What each key makes of the buffer. *)
LEMMA OneChar ==
  ASSUME NEW c \in Chars, LineMax > 0 PROVE <<c>> \in GoodLines /\ Len(<<c>>) = 1
BY EditorAssumption DEF GoodLines

LEMMA InsertShape ==
  ASSUME IInv, NEW c \in Chars, ed_insert_char(c)
  PROVE  /\ Left \o <<c>> \in GoodLines
         /\ (Left \o <<c>>) \o Right \in GoodLines
         /\ Len((Left \o <<c>>) \o Right) = Len(Line) + 1
         /\ lines' = Mid(Above, (Left \o <<c>>) \o Right, Below)
<1>1. Shaped
  BY Shape
<1>2. Len(Line) < LineMax /\ LineMax \in Nat /\ Len(Left) + Len(Right) = Len(Line) /\ Len(Right) \in Nat
      /\ Len(Left) \in Nat
  BY <1>1, EditorAssumption DEF ed_insert_char, Shaped, GoodLines
<1>3. <<c>> \in GoodLines /\ Len(<<c>>) = 1
  BY <1>2, <1>1, OneChar DEF Shaped
<1> DEFINE m == Left \o <<c>>
            l == m \o Right
<1>4. m \in GoodLines /\ Len(m) = Len(Left) + 1
  <2>1. Len(Left) + Len(<<c>>) <= LineMax
    BY <1>2, <1>3
  <2> QED
    BY <1>1, <1>3, <2>1, ShortJoin DEF Shaped
<1>5. l \in GoodLines /\ Len(l) = Len(Line) + 1
  <2> HIDE DEF m
  <2>1. Len(m) + Len(Right) <= LineMax /\ Len(m) + Len(Right) = Len(Line) + 1
    BY <1>2, <1>4
  <2> QED
    BY <1>1, <1>4, <2>1, ShortJoin DEF Shaped
<1>6. lines' = [lines EXCEPT ![cy + 1] = l]
  BY DEF ed_insert_char
<1>7. lines \in Buffers /\ cy \in 0 .. Len(lines) - 1
  BY DEF IInv, Framed
<1> HIDE DEF l
<1>8. lines' = Mid(Above, l, Below)
  BY <1>5, <1>6, <1>7, Replaced DEF Above, Below
<1> QED
  BY <1>4, <1>5, <1>8 DEF l

(* Left of the cursor, without its last character. *)
Short == SubSeq(Line, 1, cx - 1)

LEMMA DeleteShape ==
  ASSUME IInv, cx > 0, lines' = [lines EXCEPT ![cy + 1] = SubSeq(Line, 1, cx - 1) \o Right]
  PROVE  /\ Short \in GoodLines /\ Len(Short) = cx - 1 /\ Line[cx] \in Chars
         /\ Left = Append(Short, Line[cx])
         /\ Short \o Right \in GoodLines /\ Len(Short \o Right) = Len(Line) - 1
         /\ lines' = Mid(Above, Short \o Right, Below)
<1>1. Shaped
  BY Shape
<1>2. /\ cx - 1 \in 0 .. Len(Line) /\ cx \in 1 .. Len(Line) /\ Line \in Seq(Chars) /\ Line \in GoodLines
      /\ Len(Line) \in Nat /\ Len(Line) <= LineMax /\ LineMax \in Nat /\ Len(Right) = Len(Line) - cx
      /\ Right \in GoodLines
  BY <1>1, EditorAssumption DEF IInv, Framed, Line, Shaped, GoodLines
<1>3. Short \in GoodLines /\ Len(Short) = cx - 1
  BY <1>2, LineCut DEF Short
<1>4. Left = Append(Short, Line[cx]) /\ Line[cx] \in Chars
  BY <1>2, PrefixStep DEF Left, Short
<1>5. Short \o Right \in GoodLines /\ Len(Short \o Right) = Len(Line) - 1
  <2>1. Len(Short) + Len(Right) <= LineMax /\ Len(Short) + Len(Right) = Len(Line) - 1
    BY <1>2, <1>3
  <2> QED
    BY <1>2, <1>3, <2>1, ShortJoin
<1>6. lines \in Buffers /\ cy \in 0 .. Len(lines) - 1
  BY DEF IInv, Framed
<1> DEFINE l == Short \o Right
<1>7. lines' = [lines EXCEPT ![cy + 1] = l]
  BY DEF Short
<1> HIDE DEF l
<1>8. lines' = Mid(Above, l, Below)
  BY <1>5, <1>6, <1>7, Replaced DEF Above, Below, l
<1> QED
  BY <1>3, <1>4, <1>5, <1>8 DEF l

LEMMA JoinShape ==
  ASSUME IInv, ed_join
  PROVE  /\ cy > 0 /\ cx = 0
         /\ Prev \o Line \in GoodLines /\ Len(Prev \o Line) = Len(Prev) + Len(Line)
         /\ lines' = Mid(Upper, Prev \o Line, Below)
<1>1. cy > 0 /\ cx = 0 /\ Len(Prev) + Len(Line) < LineMax
      /\ lines' = (Upper \o <<Prev \o Line>>) \o Below
  BY DEF ed_join, Prev, Upper
<1>2. Shaped /\ Prev \in GoodLines /\ Len(Prev) \in Nat
  BY <1>1, Shape, ShapeAbove
<1>3. Line \in GoodLines /\ Len(Prev) + Len(Line) <= LineMax
  BY <1>1, <1>2, EditorAssumption DEF Shaped
<1>4. Prev \o Line \in GoodLines /\ Len(Prev \o Line) = Len(Prev) + Len(Line)
  BY <1>2, <1>3, ShortJoin
<1> QED
  BY <1>1, <1>4 DEF Mid

LEMMA NewlineShape ==
  ASSUME IInv, ed_newline
  PROVE  /\ Append(Above, Left) \in Seq(GoodLines) /\ Len(Append(Above, Left)) = cy + 1
         /\ lines' = Mid(Append(Above, Left), Right, Below)
<1>1. Shaped
  BY Shape
<1> DEFINE a == Above
            l == Left
            r == Right
            b == Below
<1>2. a \in Seq(GoodLines) /\ l \in GoodLines /\ r \in GoodLines /\ Len(a) = cy /\ cy \in Nat
  BY <1>1 DEF Shaped
<1>3. lines' = (a \o <<l, r>>) \o b
  BY DEF ed_newline
<1> HIDE DEF a, l, r, b
<1>4. <<l, r>> = Append(<<l>>, r) /\ <<l>> \in Seq(GoodLines)
  BY <1>2
<1>5. a \o <<l, r>> = Append(a \o <<l>>, r) /\ a \o <<l>> \in Seq(GoodLines)
  <2>1. a \o Append(<<l>>, r) = Append(a \o <<l>>, r)
    BY <1>2, <1>4, JoinAppend
  <2> QED
    BY <1>2, <1>4, <2>1, ConcatProperties
<1>6. a \o <<l>> = Append(a, l) /\ Append(a, l) \in Seq(GoodLines) /\ Len(Append(a, l)) = cy + 1
  BY <1>2, AppendIsConcat, AppendProperties
<1>7. Append(Append(a, l), r) = Append(a, l) \o <<r>>
  BY <1>2, <1>6, AppendIsConcat
<1>8. lines' = (Append(a, l) \o <<r>>) \o b
  BY <1>3, <1>5, <1>6, <1>7, Zenon
<1>9. lines' = Mid(Append(a, l), r, b)
  BY <1>8, Zenon DEF Mid
<1> QED
  BY <1>6, <1>9, Zenon DEF a, l, r, b

LEMMA MidOfNone ==
  ASSUME NEW a \in Seq(GoodLines), NEW l \in GoodLines
  PROVE  Mid(a, l, <<>>) = Append(a, l)
<1>1. Append(a, l) = a \o <<l>> /\ Append(a, l) \in Seq(GoodLines)
  BY AppendIsConcat, AppendProperties
<1>2. Append(a, l) \o <<>> = Append(a, l)
  BY <1>1, ConcatEmptySeq
<1> QED
  BY <1>1, <1>2, Zenon DEF Mid

LEMMA MidOnto ==
  ASSUME NEW a \in Seq(GoodLines), NEW l \in GoodLines, NEW b \in Seq(GoodLines)
  PROVE  a \o Mid(<<>>, l, b) = Mid(a, l, b)
<1> DEFINE u == <<l>>
<1>1. u \in Seq(GoodLines) /\ Mid(<<>>, l, b) = (<<>> \o u) \o b /\ Mid(a, l, b) = (a \o u) \o b
  BY DEF Mid
<1> HIDE DEF u
<1>2. <<>> \o u = u
  BY <1>1, ConcatEmptySeq
<1>3. (a \o u) \o b = a \o (u \o b)
  BY <1>1, Assoc, SMTT(60)
<1> QED
  BY <1>1, <1>2, <1>3

LEMMA KillShape ==
  ASSUME IInv, ed_kill_line
  PROVE  /\ cx' = 0
         /\ \/ cy < Len(lines) - 1 /\ lines' = Mid(Above, Following, Lower) /\ cy' = cy
            \/ cy = Len(lines) - 1 /\ cy > 0 /\ lines' = Mid(Upper, Prev, <<>>) /\ cy' = cy - 1
            \/ cy = 0 /\ Len(lines) = 1 /\ lines' = Mid(<<>>, <<>>, <<>>) /\ cy' = 0
<1>1. /\ lines' = IF Len(lines) = 1 THEN <<<<>>>> ELSE Above \o Below
      /\ cy' = Min({cy, Len(lines') - 1}) /\ cx' = 0
  BY DEF ed_kill_line
<1>2. Shaped /\ Len(lines) \in Nat /\ cy \in 0 .. Len(lines) - 1 /\ cy \in Nat
  BY Shape DEF IInv, Framed, Buffers
<1> DEFINE n == Len(lines)
<1> HIDE DEF n
<1>7. n \in Nat /\ cy \in 0 .. n - 1 /\ cy \in Nat
  BY <1>2 DEF n
<1>3. CASE cy < Len(lines) - 1
  <2>1. /\ Above \in Seq(GoodLines) /\ Len(Above) = cy /\ Following \in GoodLines /\ Lower \in Seq(GoodLines)
        /\ Len(Lower) = Len(lines) - cy - 2 /\ Below = Mid(<<>>, Following, Lower)
    BY <1>2, <1>3, ShapeBelow DEF Shaped
  <2>0. cy < n - 1
    BY <1>3 DEF n
  <2>2. Len(lines) # 1
    <3>1. n # 1
      BY <1>7, <2>0
    <3> QED
      BY <3>1 DEF n
  <2>3. lines' = Mid(Above, Following, Lower)
    BY <1>1, <2>1, <2>2, MidOnto
  <2>4. Len(lines') = cy + 1 + Len(Lower)
    BY <2>1, <2>3, GoodMid
  <2>5. Len(lines') - 1 \in Int /\ cy <= Len(lines') - 1
    BY <1>2, <1>3, <2>1, <2>4
  <2>6. cy' = cy
    BY <1>1, <1>2, <2>5, MinOfTwo
  <2> QED
    BY <1>1, <1>3, <2>3, <2>6
<1>4. CASE cy = Len(lines) - 1 /\ cy > 0
  <2>1. /\ Above \in Seq(GoodLines) /\ Len(Above) = cy /\ Upper \in Seq(GoodLines) /\ Prev \in GoodLines
        /\ Above = Append(Upper, Prev) /\ Below \in Seq(GoodLines) /\ Len(Below) = 0
    <3>1. Upper \in Seq(GoodLines) /\ Prev \in GoodLines /\ Above = Append(Upper, Prev)
      BY <1>4, ShapeAbove
    <3>2. /\ Above \in Seq(GoodLines) /\ Len(Above) = cy /\ Below \in Seq(GoodLines)
          /\ Len(Below) = n - cy - 1
      BY <1>2 DEF Shaped, n
    <3>3. n - cy - 1 = 0
      BY <1>4, <1>7 DEF n
    <3> QED
      BY <3>1, <3>2, <3>3
  <2>2. Len(lines) # 1 /\ Below = <<>>
    BY <1>2, <1>4, <2>1
  <2>3. Above \o <<>> = Above
    BY <2>1, ConcatEmptySeq
  <2>4. lines' = Above
    BY <1>1, <2>2, <2>3
  <2>5. lines' = Mid(Upper, Prev, <<>>)
    BY <2>1, <2>4, MidOfNone
  <2>6. Len(lines') = cy
    BY <2>1, <2>4
  <2>7. cy' = cy - 1
    BY <1>1, <1>2, <2>6, MinOfTwo
  <2> QED
    BY <1>1, <1>4, <2>5, <2>7
<1>5. CASE cy = 0 /\ Len(lines) = 1
  <2>1. lines' = <<<<>>>> /\ Len(<<<<>>>>) = 1
    BY <1>1, <1>5
  <2>2. cy' = 0
    BY <1>1, <1>5, <2>1, MinOfTwo
  <2>3. <<<<>>>> = Mid(<<>>, <<>>, <<>>)
    <3>1. <<>> \in Seq(GoodLines)
      BY EmptySeq
    <3>2. Mid(<<>>, <<>>, <<>>) = Append(<<>>, <<>>)
      BY <3>1, NoLine, MidOfNone
    <3> QED
      BY <3>2, OneLine
  <2> QED
    BY <1>1, <1>5, <2>1, <2>2, <2>3
<1>6. cy < Len(lines) - 1 \/ (cy = Len(lines) - 1 /\ cy > 0) \/ (cy = 0 /\ Len(lines) = 1)
  <2>1. cy < n - 1 \/ (cy = n - 1 /\ cy > 0) \/ (cy = 0 /\ n = 1)
    BY <1>7
  <2> QED
    BY <2>1 DEF n
<1> QED
  BY <1>3, <1>4, <1>5, <1>6

----------------------------------------------------------------------------
(* The invariant is one of every step. *)
LEMMA Numbers ==
  /\ MaxLines \in Nat \ {0} /\ LineMax \in Nat /\ Rows \in Nat \ {0}
BY EditorAssumption

LEMMA WindowDown ==
  ASSUME NEW y \in 0 .. MaxLines - 2, scroll_y \in 0 .. MaxLines - 1, y - scroll_y < Rows
  PROVE  /\ Scrolled(y + 1) \in 0 .. MaxLines - 1
         /\ (y + 1) - Scrolled(y + 1) < Rows
BY Numbers DEF Scrolled

LEMMA WindowUp ==
  ASSUME NEW y \in 1 .. MaxLines - 1, scroll_y \in 0 .. MaxLines - 1, y - scroll_y < Rows,
         NEW s, s = IF y - 1 < scroll_y THEN scroll_y - 1 ELSE scroll_y
  PROVE  s \in 0 .. MaxLines - 1 /\ (y - 1) - s < Rows
BY Numbers

(* From the frame of the next state to the invariant, while the text is edited. *)
LEMMA Edited ==
  ASSUME IInv, Editing, NEW a \in Seq(GoodLines), NEW l \in GoodLines, NEW b \in Seq(GoodLines),
         lines' = Mid(a, l, b), cy' = Len(a), Len(a) + 1 + Len(b) <= MaxLines,
         cx' \in 0 .. Len(l), scroll_y' \in 0 .. MaxLines - 1, cy' - scroll_y' < Rows,
         dirty' \in BOOLEAN
  PROVE  IInv'
<1>1. Framed(Mid(a, l, b), Len(a), cx', scroll_y')
  BY FramedMid
<1>2. Framed(lines, cy, cx, scroll_y)'
  BY <1>1 DEF Framed
<1>3. mode' = "edit" /\ file' = file
  BY DEF Editing
<1> QED
  BY <1>2, <1>3 DEF IInv, FileOK

(* Where nothing but the cursor moves. *)
LEMMA Moved ==
  ASSUME IInv, Editing, UNCHANGED content,
         cy' \in 0 .. Len(lines) - 1, cx' \in 0 .. Len(lines[cy' + 1]),
         scroll_y' \in 0 .. MaxLines - 1, cy' - scroll_y' < Rows
  PROVE  IInv'
<1>1. lines' = lines /\ dirty' = dirty /\ mode' = "edit" /\ file' = file
  BY DEF content, Editing
<1>2. Framed(lines, cy, cx, scroll_y)'
  BY <1>1 DEF Framed, IInv
<1> QED
  BY <1>1, <1>2 DEF IInv, FileOK

(* The facts of the invariant that these proofs use. *)
LEMMA FrameFacts ==
  ASSUME IInv
  PROVE  /\ lines \in Buffers /\ Len(lines) \in Nat /\ Len(lines) <= MaxLines
         /\ cy \in 0 .. Len(lines) - 1 /\ cy \in Nat /\ cx \in 0 .. Len(Line) /\ cx \in Nat
         /\ scroll_y \in 0 .. MaxLines - 1 /\ cy - scroll_y < Rows
         /\ Len(Line) \in Nat /\ dirty \in BOOLEAN
BY Shape DEF IInv, Framed, Line, Buffers, Shaped

LEMMA InitIInv == Init => IInv
<1> SUFFICES ASSUME Init PROVE IInv
  OBVIOUS
<1>1. lines = <<<<>>>> /\ cx = 0 /\ cy = 0 /\ scroll_y = 0
  BY DEF Init
<1>2. lines \in Buffers /\ Len(lines) = 1 /\ Len(lines[1]) = 0
  BY <1>1, OneLine
<1>3. Framed(lines, cy, cx, scroll_y)
  BY <1>1, <1>2, Numbers DEF Framed
<1>4. FileOK
  BY EditorAssumption DEF Init, FileOK, Texts
<1> QED
  BY <1>3, <1>4 DEF Init, IInv

LEMMA OpenStep ==
  ASSUME IInv, Open PROVE IInv'
<1>1. lines' = ed_load(file) /\ cx' = 0 /\ cy' = 0 /\ scroll_y' = 0 /\ file' = file
      /\ mode' = "edit" /\ dirty' = FALSE
  BY DEF Open
<1>2. lines' \in Buffers /\ Len(lines') <= MaxLines
  BY <1>1, LoadType DEF IInv, FileOK
<1>3. Framed(lines, cy, cx, scroll_y)'
  <2>1. Len(lines') \in Nat \ {0}
    BY <1>2 DEF Buffers
  <2>2. Len(lines'[1]) \in Nat
    <3>1. lines'[1] \in GoodLines
      BY <1>2, <2>1 DEF Buffers
    <3> QED
      BY <3>1 DEF GoodLines
  <2> QED
    BY <1>1, <1>2, <2>1, <2>2, Numbers DEF Framed
<1> QED
  BY <1>1, <1>3 DEF IInv, FileOK

LEMMA InsertStep ==
  ASSUME IInv, NEW c \in Chars, ed_insert_char(c) PROVE IInv'
<1> DEFINE l == (Left \o <<c>>) \o Right
<1>1. l \in GoodLines /\ Len(l) = Len(Line) + 1 /\ lines' = Mid(Above, l, Below)
  BY InsertShape
<1>2. Editing /\ cx' = cx + 1 /\ cy' = cy /\ scroll_y' = scroll_y /\ dirty' = TRUE
  BY DEF ed_insert_char
<1> HIDE DEF l
<1>3. Shaped
  BY Shape
<1>4. cy' = Len(Above) /\ Len(Above) + 1 + Len(Below) <= MaxLines /\ cx' \in 0 .. Len(l)
  BY <1>1, <1>2, <1>3, FrameFacts DEF Shaped
<1> QED
  BY <1>1, <1>2, <1>3, <1>4, FrameFacts, Edited DEF Shaped

LEMMA DeleteStep ==
  ASSUME IInv, ed_delete_char PROVE IInv'
<1>1. CASE ~ ed_join
  <2>1. /\ Editing /\ cx > 0 /\ cx' = cx - 1 /\ cy' = cy /\ scroll_y' = scroll_y /\ dirty' = TRUE
        /\ lines' = [lines EXCEPT ![cy + 1] = SubSeq(Line, 1, cx - 1) \o Right]
    BY <1>1 DEF ed_delete_char
  <2> DEFINE l == Short \o Right
  <2>2. l \in GoodLines /\ Len(l) = Len(Line) - 1 /\ lines' = Mid(Above, l, Below)
    BY <2>1, DeleteShape
  <2> HIDE DEF l
  <2>3. Shaped
    BY Shape
  <2>4. cy' = Len(Above) /\ Len(Above) + 1 + Len(Below) <= MaxLines /\ cx' \in 0 .. Len(l)
    BY <2>1, <2>2, <2>3, FrameFacts DEF Shaped
  <2> QED
    BY <2>1, <2>2, <2>3, <2>4, FrameFacts, Edited DEF Shaped
<1>2. CASE ed_join
  <2> DEFINE l == Prev \o Line
  <2>1. /\ cy > 0 /\ l \in GoodLines /\ Len(l) = Len(Prev) + Len(Line)
        /\ lines' = Mid(Upper, l, Below)
    BY <1>2, JoinShape
  <2>2. Editing /\ cx' = Len(Prev) /\ cy' = cy - 1 /\ scroll_y' = scroll_y /\ dirty' = TRUE
    BY <1>2 DEF ed_join, Prev
  <2> HIDE DEF l
  <2>3. Shaped /\ Upper \in Seq(GoodLines) /\ Len(Upper) = cy - 1 /\ Len(Prev) \in Nat
    BY <2>1, Shape, ShapeAbove
  <2>4. /\ cy' = Len(Upper) /\ Len(Upper) + 1 + Len(Below) <= MaxLines /\ cx' \in 0 .. Len(l)
        /\ cy' - scroll_y' < Rows
    <3> DEFINE n == Len(lines)
    <3>1. n \in Nat /\ n <= MaxLines /\ Len(Below) = n - cy - 1 /\ Len(Line) \in Nat
          /\ scroll_y \in 0 .. MaxLines - 1 /\ cy - scroll_y < Rows /\ cy \in Nat
      BY <2>3, FrameFacts DEF Shaped
    <3> HIDE DEF n
    <3> QED
      BY <2>1, <2>2, <2>3, <3>1, Numbers
  <2> QED
    BY <2>1, <2>2, <2>3, <2>4, FrameFacts, Edited DEF Shaped
<1> QED
  BY <1>1, <1>2

LEMMA NewlineStep ==
  ASSUME IInv, ed_newline PROVE IInv'
<1> DEFINE a == Append(Above, Left)
<1>1. a \in Seq(GoodLines) /\ Len(a) = cy + 1 /\ lines' = Mid(a, Right, Below)
  BY NewlineShape
<1>2. /\ Editing /\ cx' = 0 /\ cy' = cy + 1 /\ scroll_y' = Scrolled(cy + 1) /\ dirty' = TRUE
      /\ Len(lines) < MaxLines
  BY DEF ed_newline
<1> HIDE DEF a
<1>3. Shaped
  BY Shape
<1>4. cy \in 0 .. MaxLines - 2
  BY <1>2, FrameFacts, Numbers
<1>5. scroll_y' \in 0 .. MaxLines - 1 /\ cy' - scroll_y' < Rows
  BY <1>2, <1>4, FrameFacts, WindowDown
<1>6. Len(Right) \in Nat
  BY <1>3 DEF Shaped, GoodLines
<1>7. cy' = Len(a) /\ Len(a) + 1 + Len(Below) <= MaxLines /\ cx' \in 0 .. Len(Right)
  BY <1>1, <1>2, <1>3, <1>6, FrameFacts, Numbers DEF Shaped
<1> QED
  BY <1>1, <1>2, <1>3, <1>5, <1>7, Edited DEF Shaped

LEMMA KillStep ==
  ASSUME IInv, ed_kill_line PROVE IInv'
<1>1. Editing /\ dirty' = TRUE /\ scroll_y' = scroll_y
  BY DEF ed_kill_line
<1>2. cx' = 0
  BY KillShape
<1>3. Shaped
  BY Shape
<1>4. CASE cy < Len(lines) - 1 /\ lines' = Mid(Above, Following, Lower) /\ cy' = cy
  <2>1. Following \in GoodLines /\ Lower \in Seq(GoodLines) /\ Len(Lower) = Len(lines) - cy - 2
        /\ Len(Following) \in Nat
    BY <1>4, ShapeBelow DEF GoodLines
  <2>2. /\ cy' = Len(Above) /\ Len(Above) + 1 + Len(Lower) <= MaxLines
        /\ cx' \in 0 .. Len(Following) /\ cy' - scroll_y' < Rows
    <3> DEFINE n == Len(lines)
    <3>1. n \in Nat /\ n <= MaxLines /\ Len(Lower) = n - cy - 2 /\ Len(Above) = cy
          /\ scroll_y \in 0 .. MaxLines - 1 /\ cy - scroll_y < Rows /\ cy \in Nat
      BY <1>3, <2>1, FrameFacts DEF Shaped
    <3> HIDE DEF n
    <3> QED
      BY <1>1, <1>2, <1>4, <2>1, <3>1, Numbers
  <2> QED
    BY <1>1, <1>3, <1>4, <2>1, <2>2, FrameFacts, Edited DEF Shaped
<1>5. CASE cy = Len(lines) - 1 /\ cy > 0 /\ lines' = Mid(Upper, Prev, <<>>) /\ cy' = cy - 1
  <2>1. Upper \in Seq(GoodLines) /\ Prev \in GoodLines /\ Len(Upper) = cy - 1 /\ Len(Prev) \in Nat
    BY <1>5, ShapeAbove
  <2>2. <<>> \in Seq(GoodLines) /\ Len(<<>>) = 0
    BY EmptySeq
  <2>3. /\ cy' = Len(Upper) /\ Len(Upper) + 1 + Len(<<>>) <= MaxLines
        /\ cx' \in 0 .. Len(Prev) /\ cy' - scroll_y' < Rows
    BY <1>1, <1>2, <1>5, <2>1, <2>2, FrameFacts, Numbers, SMTT(30)
  <2> QED
    BY <1>1, <1>5, <2>1, <2>2, <2>3, FrameFacts, Edited
<1>6. CASE cy = 0 /\ Len(lines) = 1 /\ lines' = Mid(<<>>, <<>>, <<>>) /\ cy' = 0
  <2>1. <<>> \in Seq(GoodLines) /\ <<>> \in GoodLines /\ Len(<<>>) = 0
    BY EmptySeq, NoLine
  <2>2. /\ cy' = Len(<<>>) /\ Len(<<>>) + 1 + Len(<<>>) <= MaxLines
        /\ cx' \in 0 .. Len(<<>>) /\ cy' - scroll_y' < Rows
    BY <1>1, <1>2, <1>6, <2>1, FrameFacts, Numbers
  <2> QED
    BY <1>1, <1>6, <2>1, <2>2, FrameFacts, Edited
<1> QED
  BY <1>4, <1>5, <1>6, KillShape

(* A move up or down by one line, to a column of that line. *)
LEMMA UpStep ==
  ASSUME IInv, Editing, UNCHANGED content, cy > 0, NEW x \in 0 .. Len(Prev), UpTo(cy - 1, x)
  PROVE  IInv'
<1> DEFINE n == Len(lines)
<1>1. n \in Nat /\ n <= MaxLines /\ cy \in 0 .. n - 1 /\ scroll_y \in 0 .. MaxLines - 1 /\ cy - scroll_y < Rows
  BY FrameFacts
<1>2. cy' = cy - 1 /\ cx' = x /\ scroll_y' = IF cy - 1 < scroll_y THEN scroll_y - 1 ELSE scroll_y
  BY DEF UpTo
<1> HIDE DEF n
<1>3. cy \in 1 .. MaxLines - 1 /\ cy' \in 0 .. n - 1 /\ cy' + 1 = cy
  BY <1>1, <1>2, Numbers
<1>4. scroll_y' \in 0 .. MaxLines - 1 /\ (cy - 1) - scroll_y' < Rows
  BY <1>1, <1>2, <1>3, WindowUp
<1>5. cx' \in 0 .. Len(lines[cy' + 1])
  BY <1>2, <1>3, Zenon DEF Prev
<1> QED
  BY <1>2, <1>3, <1>4, <1>5, Moved DEF n

LEMMA DownStep ==
  ASSUME IInv, Editing, UNCHANGED content, cy < Len(lines) - 1,
         NEW x \in 0 .. Len(Following), DownTo(cy + 1, x)
  PROVE  IInv'
<1> DEFINE n == Len(lines)
<1>1. n \in Nat /\ n <= MaxLines /\ cy \in 0 .. n - 1 /\ scroll_y \in 0 .. MaxLines - 1 /\ cy - scroll_y < Rows
      /\ cy < n - 1
  BY FrameFacts
<1>2. cy' = cy + 1 /\ cx' = x /\ scroll_y' = Scrolled(cy + 1)
  BY DEF DownTo
<1> HIDE DEF n
<1>3. cy \in 0 .. MaxLines - 2 /\ cy' \in 0 .. n - 1 /\ cy' + 1 = cy + 2
  BY <1>1, <1>2, Numbers
<1>4. scroll_y' \in 0 .. MaxLines - 1 /\ cy' - scroll_y' < Rows
  BY <1>1, <1>2, <1>3, WindowDown
<1>5. cx' \in 0 .. Len(lines[cy' + 1])
  BY <1>2, <1>3, Zenon DEF Following
<1> QED
  BY <1>3, <1>4, <1>5, Moved DEF n

LEMMA SideStep ==
  ASSUME IInv, Editing, UNCHANGED content, UNCHANGED <<cy, scroll_y>>, cx' \in 0 .. Len(Line)
  PROVE  IInv'
<1>1. cy' \in 0 .. Len(lines) - 1 /\ scroll_y' \in 0 .. MaxLines - 1 /\ cy' - scroll_y' < Rows
  BY FrameFacts
<1>2. cx' \in 0 .. Len(lines[cy' + 1])
  BY DEF Line
<1> QED
  BY <1>1, <1>2, Moved

(* The columns that Arrow takes the cursor to. *)
LEMMA ColumnUp ==
  ASSUME IInv, cy > 0
  PROVE  /\ Min({cx, Len(lines[cy])}) \in 0 .. Len(Prev) /\ Len(lines[cy]) \in 0 .. Len(Prev)
         /\ Min({cx, Len(Prev)}) = IF cx <= Len(Prev) THEN cx ELSE Len(Prev)
<1>1. Len(Prev) \in Nat /\ cx \in Nat /\ Prev = lines[cy]
  BY ShapeAbove, FrameFacts DEF Prev
<1>2. Min({cx, Len(Prev)}) = IF cx <= Len(Prev) THEN cx ELSE Len(Prev)
  BY <1>1, MinOfTwo
<1> QED
  BY <1>1, <1>2

LEMMA ColumnDown ==
  ASSUME IInv, cy < Len(lines) - 1
  PROVE  /\ Min({cx, Len(lines[cy + 2])}) \in 0 .. Len(Following) /\ 0 \in 0 .. Len(Following)
         /\ Min({cx, Len(Following)}) = IF cx <= Len(Following) THEN cx ELSE Len(Following)
<1>1. Len(Following) \in Nat /\ cx \in Nat /\ Following = lines[cy + 2]
  BY ShapeBelow, FrameFacts, SMTT(30) DEF Following, GoodLines
<1>2. Min({cx, Len(Following)}) = IF cx <= Len(Following) THEN cx ELSE Len(Following)
  BY <1>1, MinOfTwo, SMTT(30)
<1> QED
  BY <1>1, <1>2

LEMMA ArrowStep ==
  ASSUME IInv, Arrow PROVE IInv'
<1>1. Editing /\ UNCHANGED content
  BY DEF Arrow
<1>2. CASE cy > 0 /\ UpTo(cy - 1, Min({cx, Len(lines[cy])}))
  BY <1>1, <1>2, ColumnUp, UpStep
<1>3. CASE cy < Len(lines) - 1 /\ DownTo(cy + 1, Min({cx, Len(lines[cy + 2])}))
  BY <1>1, <1>3, ColumnDown, DownStep
<1>4. CASE cx > 0 /\ cx' = cx - 1 /\ UNCHANGED <<cy, scroll_y>>
  <2>1. cx' \in 0 .. Len(Line)
    BY <1>4, FrameFacts
  <2> QED
    BY <1>1, <1>4, <2>1, SideStep
<1>5. CASE cx = 0 /\ cy > 0 /\ UpTo(cy - 1, Len(lines[cy]))
  BY <1>1, <1>5, ColumnUp, UpStep
<1>6. CASE cx < Len(Line) /\ cx' = cx + 1 /\ UNCHANGED <<cy, scroll_y>>
  <2>1. cx' \in 0 .. Len(Line)
    BY <1>6, FrameFacts
  <2> QED
    BY <1>1, <1>6, <2>1, SideStep
<1>7. CASE cx = Len(Line) /\ cy < Len(lines) - 1 /\ DownTo(cy + 1, 0)
  BY <1>1, <1>7, ColumnDown, DownStep
<1> QED
  BY <1>2, <1>3, <1>4, <1>5, <1>6, <1>7 DEF Arrow

LEMMA HomeEndStep ==
  ASSUME IInv, HomeEnd PROVE IInv'
<1>1. Editing /\ UNCHANGED content /\ UNCHANGED <<cy, scroll_y>> /\ cx' \in {0, Len(Line)}
  BY DEF HomeEnd
<1>2. cx' \in 0 .. Len(Line)
  BY <1>1, FrameFacts
<1> QED
  BY <1>1, <1>2, SideStep

(* Where the buffer is left as it is. *)
LEMMA Kept ==
  ASSUME IInv, UNCHANGED <<lines, cursor>>,
         mode' \in {"shell", "edit", "ask"}, dirty' \in BOOLEAN, FileOK', mode' = "ask" => dirty'
  PROVE  IInv'
<1>1. Framed(lines, cy, cx, scroll_y)'
  BY DEF Framed, IInv, cursor
<1> QED
  BY <1>1 DEF IInv

LEMMA SaveFile ==
  ASSUME IInv, ed_save
  PROVE  FileOK' /\ dirty' \in BOOLEAN
<1>1. Saved \in Texts
  BY SavedType DEF IInv, Framed
<1> QED
  BY <1>1 DEF IInv, FileOK, ed_save

LEMMA SaveStep ==
  ASSUME IInv, Save PROVE IInv'
<1>1. mode = "edit" /\ ed_save /\ UNCHANGED <<mode, lines, cursor, room>>
  BY DEF Save
<1> QED
  BY <1>1, SaveFile, Kept

LEMMA QuitStep ==
  ASSUME IInv, Quit PROVE IInv'
<1>1. /\ UNCHANGED <<lines, dirty, cursor, file>>
      /\ mode' = IF dirty THEN "ask" ELSE "shell"
  BY DEF Quit, content
<1>2. FileOK'
  BY <1>1 DEF IInv, FileOK
<1> QED
  BY <1>1, <1>2, Kept DEF IInv

LEMMA AnswerStep ==
  ASSUME IInv, Answer PROVE IInv'
<1>1. UNCHANGED <<lines, cursor, room>> /\ mode' \in {"shell", "edit"}
  BY DEF Answer
<1>2. CASE ed_save
  BY <1>1, <1>2, SaveFile, Kept
<1>3. CASE UNCHANGED <<file, dirty>>
  <2>1. FileOK' /\ dirty' \in BOOLEAN
    BY <1>3 DEF IInv, FileOK
  <2> QED
    BY <1>1, <2>1, Kept
<1> QED
  BY <1>2, <1>3 DEF Answer

LEMMA NextIInv == IInv /\ [Next]_vars => IInv'
<1> SUFFICES ASSUME IInv, [Next]_vars PROVE IInv'
  OBVIOUS
<1>1. CASE Open
  BY <1>1, OpenStep
<1>2. ASSUME NEW c \in Chars, ed_insert_char(c) PROVE IInv'
  BY <1>2, InsertStep
<1>3. CASE ed_delete_char
  BY <1>3, DeleteStep
<1>4. CASE ed_newline
  BY <1>4, NewlineStep
<1>5. CASE ed_kill_line
  BY <1>5, KillStep
<1>6. CASE Arrow
  BY <1>6, ArrowStep
<1>7. CASE HomeEnd
  BY <1>7, HomeEndStep
<1>8. CASE Save
  BY <1>8, SaveStep
<1>9. CASE Quit
  BY <1>9, QuitStep
<1>10. CASE Answer
  BY <1>10, AnswerStep
<1>11. CASE UNCHANGED vars
  BY <1>11 DEF vars, IInv, Framed, FileOK
<1> QED
  BY <1>1, <1>2, <1>3, <1>4, <1>5, <1>6, <1>7, <1>8, <1>9, <1>10, <1>11 DEF Next

LEMMA Invariant == Spec => []IInv
BY InitIInv, NextIInv, PTL DEF Spec

(***************************************************************************)
(* For every limit and every file: the buffer is never empty and keeps its *)
(* limits, and the cursor is in the text and never below the window,       *)
(* whatever ed_join, ed_newline and ed_kill_line do around it.             *)
(***************************************************************************)
THEOREM TypeCorrect == Spec => []EditorTypeOK
<1>1. IInv => EditorTypeOK
  <2> SUFFICES ASSUME IInv PROVE EditorTypeOK
    OBVIOUS
  <2>1. Len(lines) \in 1 .. MaxLines /\ lines \in Seq(GoodLines) /\ DOMAIN lines = 1 .. Len(lines)
    BY Numbers DEF IInv, Framed, Buffers
  <2>2. \A i \in DOMAIN lines : lines[i] \in GoodLines
    BY <2>1
  <2>3. \A i \in DOMAIN lines : lines[i] \in Seq(Chars) /\ Len(lines[i]) <= LineMax
    BY <2>2 DEF GoodLines
  <2> QED
    BY <2>1, <2>3 DEF IInv, Framed, EditorTypeOK, Line
<1> QED
  BY <1>1, Invariant, PTL

----------------------------------------------------------------------------
(* What a save leaves in the file opens as the text that was saved. *)
Clean(f, ls) == ed_load(f) = ls \/ ed_load(f) = Append(ls, <<>>)

LEMMA SavedOpens ==
  ASSUME IInv, file' = Saved, Fits(lines)
  PROVE  Clean(file', lines)
<1>1. lines \in Buffers /\ Len(lines) <= MaxLines
  BY DEF IInv, Framed
<1>2. Saved = Serialized(lines)
  BY <1>1, SavedIs, Zenon
<1>3. ed_load(Serialized(lines)) \in {lines, Append(lines, <<>>)}
  BY <1>1, LoadSaved
<1>4. ed_load(file') \in {lines, Append(lines, <<>>)}
  BY <1>2, <1>3, Zenon
<1> QED
  BY <1>4, Zenon DEF Clean

LEMMA CleanInit == Init => CleanIsSaved
BY DEF Init, CleanIsSaved

LEMMA CleanNext == IInv /\ CleanIsSaved /\ [Next]_vars => CleanIsSaved'
<1> SUFFICES ASSUME IInv, CleanIsSaved, [Next]_vars,
                    mode' = "edit", ~dirty', file' # Directory, Fits(lines')
             PROVE  Clean(file', lines')
  BY DEF CleanIsSaved, Clean
<1>1. CASE Open
  BY <1>1, Zenon DEF Open, Clean
<1>2. ASSUME NEW c \in Chars, ed_insert_char(c) PROVE FALSE
  BY <1>2, Zenon DEF ed_insert_char
<1>3. CASE ed_delete_char
  BY <1>3, Zenon DEF ed_delete_char, ed_join
<1>4. CASE ed_newline
  BY <1>4, Zenon DEF ed_newline
<1>5. CASE ed_kill_line
  BY <1>5, Zenon DEF ed_kill_line
<1>6. CASE UNCHANGED <<mode, lines, dirty, file>>
  BY <1>6 DEF CleanIsSaved, Clean
<1>7. CASE Save
  <2>1. mode = "edit" /\ mode' = mode /\ lines' = lines /\ ed_save
    BY <1>7, Zenon DEF Save
  <2>2. CASE UNCHANGED <<file, dirty>>
    BY <1>6, <2>1, <2>2
  <2>3. CASE file' = Saved
    BY <2>1, <2>3, SavedOpens, Zenon
  <2>4. UNCHANGED <<file, dirty>> \/ file' = Saved
    BY <2>1 DEF ed_save
  <2> QED
    BY <2>2, <2>3, <2>4
<1>8. CASE Answer
  <2>1. mode = "ask" /\ UNCHANGED <<file, dirty>>
    BY <1>8, Zenon DEF Answer
  <2> QED
    BY <2>1 DEF IInv
<1>9. CASE Arrow \/ HomeEnd \/ Quit
  <2>1. UNCHANGED <<lines, dirty, file>>
    BY <1>9 DEF Arrow, HomeEnd, Quit, Editing, content
  <2>2. mode = "edit"
    BY <1>9 DEF Arrow, HomeEnd, Quit, Editing
  <2> QED
    BY <1>6, <2>1, <2>2
<1>10. CASE UNCHANGED vars
  BY <1>6, <1>10 DEF vars
<1> QED
  BY <1>1, <1>2, <1>3, <1>4, <1>5, <1>7, <1>8, <1>9, <1>10 DEF Next

(***************************************************************************)
(* For every limit and every file: a text that ed_save has written, or     *)
(* that was not changed since ed_load read it, is what ed_load finds in    *)
(* the file, line by line; the name of a directory and a text that does    *)
(* not fit the file excepted, leaving without a question loses nothing.    *)
(***************************************************************************)
THEOREM CleanIsSavedAlways == Spec => []CleanIsSaved
BY Invariant, CleanInit, CleanNext, PTL DEF Spec

----------------------------------------------------------------------------
(***************************************************************************)
(* The editor implements TextBuffer: its text is cut where the line of the *)
(* cursor begins and ends.  x, l and r are the text before, in and after   *)
(* that line.                                                              *)
(***************************************************************************)
Ends(x)   == x = <<>> \/ x[Len(x)] = NL
Starts(r) == r = <<>> \/ r[1] = NL

StartIn(t, p) == Max({i \in 0 .. p : i = 0 \/ t[i] = NL})
EndIn(t, p)   == Min({i \in p .. Len(t) : i = Len(t) \/ t[i + 1] = NL})

LEMMA LargestOne ==
  ASSUME NEW S \in SUBSET Int, NEW m \in S, \A y \in S : m >= y
  PROVE  Max(S) = m
<1> DEFINE n == Max(S)
<1>1. n \in S /\ \A y \in S : n >= y
  BY Zenon DEF Max
<1> HIDE DEF n
<1>2. n \in Int /\ m \in Int /\ m >= n /\ n >= m
  BY <1>1
<1>3. n = m
  BY <1>2
<1> QED
  BY <1>3, Zenon DEF n

LEMMA SmallestOne ==
  ASSUME NEW S \in SUBSET Int, NEW m \in S, \A y \in S : m =< y
  PROVE  Min(S) = m
<1> DEFINE n == Min(S)
<1>1. n \in S /\ \A y \in S : n =< y
  BY Zenon DEF Min
<1> HIDE DEF n
<1>2. n \in Int /\ m \in Int /\ m =< n /\ n =< m
  BY <1>1
<1>3. n = m
  BY <1>2
<1> QED
  BY <1>3, Zenon DEF n

LEMMA CatElements ==
  ASSUME NEW x \in Texts, NEW y \in Texts, NEW i \in 1 .. Len(x) + Len(y)
  PROVE  (x \o y)[i] = IF i <= Len(x) THEN x[i] ELSE y[i - Len(x)]
BY ConcatProperties DEF Texts

AsLine(t, x, l, r) ==
  /\ x \in Texts /\ l \in GoodLines /\ r \in Texts
  /\ Ends(x) /\ Starts(r)
  /\ t = (x \o l) \o r

LEMMA LineOf ==
  ASSUME NEW x, NEW l, NEW r, NEW t, AsLine(t, x, l, r), NEW p \in Len(x) .. Len(x \o l)
  PROVE  StartIn(t, p) = Len(x) /\ EndIn(t, p) = Len(x \o l)
<1>14. /\ x \in Texts /\ l \in GoodLines /\ r \in Texts /\ Ends(x) /\ Starts(r)
       /\ t = (x \o l) \o r
  BY Zenon DEF AsLine
<1> DEFINE a == Len(x)
            b == Len(x) + Len(l)
            h == x \o l
<1>0. p \in a .. Len(h)
  OBVIOUS
<1>1. l \in Texts /\ h \in Texts /\ Len(h) = b /\ a \in Nat /\ Len(l) \in Nat /\ b \in Nat
      /\ Len(r) \in Nat /\ Len(t) = b + Len(r)
  BY <1>14, GoodText, Cat
<1>2. \A i \in 1 .. b + Len(r) : t[i] = IF i <= b THEN h[i] ELSE r[i - b]
  <2> HIDE DEF b
  <2> QED
    BY <1>1, <1>14, CatElements
<1>3. \A i \in 1 .. b : h[i] = IF i <= a THEN x[i] ELSE l[i - a]
  BY <1>1, <1>14, CatElements
<1>4. b = a + Len(l) /\ p \in a .. b /\ b \in a .. b
  BY <1>0, <1>1
<1> HIDE DEF b, h
<1>5. \A i \in 1 .. Len(l) : l[i] # NL
  BY <1>14, EditorAssumption DEF GoodLines
<1>6. a > 0 => t[a] = NL
  <2> SUFFICES ASSUME a > 0 PROVE t[a] = NL
    OBVIOUS
  <2>1. x[a] = NL
    <3>1. x # <<>>
      <4>1. Len(<<>>) = 0
        OBVIOUS
      <4> QED
        BY <4>1
    <3> QED
      BY <1>14, <3>1, Zenon DEF Ends
  <2> HIDE DEF a
  <2>2. a \in 1 .. b /\ a <= b /\ a <= a /\ a \in 1 .. b + Len(r)
    BY <1>1, <1>4
  <2> QED
    BY <1>2, <1>3, <2>1, <2>2
<1>7. \A i \in a + 1 .. b : t[i] # NL
  <2> SUFFICES ASSUME NEW i \in a + 1 .. b PROVE t[i] # NL
    OBVIOUS
  <2> HIDE DEF a
  <2>1. i \in 1 .. b + Len(r) /\ i <= b /\ i \in 1 .. b /\ ~ (i <= a) /\ i - a \in 1 .. Len(l)
    BY <1>1, <1>4
  <2> QED
    BY <1>2, <1>3, <1>5, <2>1
<1>8. b < Len(t) => t[b + 1] = NL
  <2> SUFFICES ASSUME b < Len(t) PROVE t[b + 1] = NL
    OBVIOUS
  <2>1. b + 1 \in 1 .. b + Len(r) /\ ~ (b + 1 <= b) /\ (b + 1) - b = 1 /\ Len(r) # 0
    BY <1>1
  <2>2. r[1] = NL
    <3>1. r # <<>>
      BY <2>1
    <3> QED
      BY <1>14, <3>1, Zenon DEF Starts
  <2> QED
    BY <1>2, <2>1, <2>2
<1> HIDE DEF a
<1>9. StartIn(t, p) = a
  <2> DEFINE S == {i \in 0 .. p : i = 0 \/ t[i] = NL}
  <2>1. S \in SUBSET Int /\ a \in S
    BY <1>1, <1>4, <1>6
  <2>2. ASSUME NEW y \in S PROVE a >= y
    <3>1. y \in 0 .. p /\ (y = 0 \/ t[y] = NL)
      OBVIOUS
    <3>2. y \notin a + 1 .. b
      BY <1>1, <1>4, <1>7, <3>1
    <3> QED
      BY <1>1, <1>4, <3>1, <3>2
  <2> HIDE DEF S
  <2>3. Max(S) = a
    BY <2>1, <2>2, LargestOne
  <2> QED
    BY <2>3, Zenon DEF StartIn, S
<1>10. EndIn(t, p) = b
  <2> DEFINE S == {i \in p .. Len(t) : i = Len(t) \/ t[i + 1] = NL}
  <2>1. S \in SUBSET Int /\ b \in S
    BY <1>1, <1>4, <1>8
  <2>2. ASSUME NEW y \in S PROVE b <= y
    <3>1. y \in p .. Len(t) /\ (y = Len(t) \/ t[y + 1] = NL)
      OBVIOUS
    <3>2. CASE y = Len(t)
      BY <1>1, <3>2
    <3>3. CASE t[y + 1] = NL
      <4>1. y + 1 \notin a + 1 .. b
        BY <1>7, <3>3
      <4> QED
        BY <1>1, <1>4, <3>1, <4>1
    <3> QED
      BY <3>1, <3>2, <3>3
  <2> HIDE DEF S
  <2>3. Min(S) = b
    BY <2>1, <2>2, SmallestOne
  <2> QED
    BY <2>3, Zenon DEF EndIn, S
<1> QED
  BY <1>1, <1>9, <1>10, Zenon DEF a, h

LEMMA SerializedEnds ==
  ASSUME NEW ls \in Seq(GoodLines) PROVE Ends(Serialized(ls))
BY GoodSeq, SerializedEnd DEF Ends

LEMMA RestStarts ==
  ASSUME NEW b \in Seq(GoodLines) PROVE Starts(Rest(b))
<1>1. CASE b = <<>>
  BY <1>1, Zenon DEF Rest, Starts
<1>2. CASE b # <<>>
  <2> DEFINE t == TextOf(b)
              nl == <<NL>>
  <2>1. t \in Texts /\ nl \in Texts /\ Len(nl) = 1 /\ nl[1] = NL /\ Len(t) \in Nat
    BY <1>2, RestType, TextType, Newline DEF Texts
  <2>2. Rest(b) = nl \o t
    BY <1>2, Zenon DEF Rest
  <2> HIDE DEF t, nl
  <2>3. (nl \o t)[1] = NL
    <3>1. 1 \in 1 .. Len(nl) + Len(t) /\ 1 <= Len(nl)
      BY <2>1
    <3> QED
      BY <2>1, <3>1, CatElements
  <2> QED
    BY <2>2, <2>3, Zenon DEF Starts
<1> QED
  BY <1>1, <1>2

LEMMA PlaceOf ==
  ASSUME NEW a \in Seq(GoodLines), NEW l \in GoodLines, NEW b \in Seq(GoodLines),
         NEW p \in Len(Serialized(a)) .. Len(Serialized(a)) + Len(l),
         NEW t, t = TextOf(Mid(a, l, b))
  PROVE  /\ StartIn(t, p) = Len(Serialized(a))
         /\ EndIn(t, p) = Len(Serialized(a)) + Len(l)
<1> DEFINE x == Serialized(a)
            r == Rest(b)
<1>1. x \in Texts /\ r \in Texts /\ Ends(x) /\ Starts(r)
  BY SerializedGood, SerializedEnds, RestType, RestStarts
<1>2. t = (x \o l) \o r
  BY TextMid
<1>8. AsLine(t, x, l, r)
  BY <1>1, <1>2, Zenon DEF AsLine
<1>3. p \in Len(x) .. Len(x) + Len(l)
  OBVIOUS
<1> HIDE DEF x, r
<1>6. Len(x \o l) = Len(x) + Len(l)
  BY <1>1, GoodText, Cat
<1>7. p \in Len(x) .. Len(x \o l)
  BY <1>3, <1>6
<1>4. StartIn(t, p) = Len(x)
  BY <1>7, <1>8, LineOf
<1>5. EndIn(t, p) = Len(x) + Len(l)
  <2>1. EndIn(t, p) = Len(x \o l)
    BY <1>7, <1>8, LineOf
  <2> QED
    BY <1>6, <2>1, Zenon
<1> QED
  BY <1>4, <1>5, Zenon DEF x

(* The text and the cursor of the buffer, now and after a key. *)
Before == Serialized(Above)
After  == Rest(Below)

LEMMA Here ==
  ASSUME IInv
  PROVE  /\ Before \in Texts /\ Line \in Texts /\ After \in Texts
         /\ Len(Before) \in Nat /\ Len(Line) \in Nat /\ Len(After) \in Nat
         /\ BufferText = (Before \o Line) \o After /\ BufferText \in Texts
         /\ Len(BufferText) = Len(Before) + Len(Line) + Len(After)
         /\ BufferPos = Len(Before) + cx /\ cx \in 0 .. Len(Line)
         /\ StartIn(BufferText, BufferPos) = Len(Before)
         /\ EndIn(BufferText, BufferPos) = Len(Before) + Len(Line)
<1>1. Shaped
  BY Shape
<1>2. /\ Above \in Seq(GoodLines) /\ Line \in GoodLines /\ Below \in Seq(GoodLines)
      /\ lines = Mid(Above, Line, Below)
  BY <1>1 DEF Shaped
<1>3. Before \in Texts /\ Line \in Texts /\ After \in Texts
  BY <1>2, SerializedGood, GoodText, RestType DEF Before, After
<1>4. BufferText = TextOf(Mid(Above, Line, Below))
  BY <1>2, Zenon DEF BufferText, TextOf
<1>5. BufferText = (Before \o Line) \o After
  BY <1>2, <1>4, TextMid DEF Before, After
<1>6. /\ Before \o Line \in Texts /\ BufferText \in Texts
      /\ Len(Before) \in Nat /\ Len(Line) \in Nat /\ Len(After) \in Nat
      /\ Len(BufferText) = Len(Before) + Len(Line) + Len(After)
  BY <1>3, <1>5, Cat
<1>7. BufferPos = Len(Before) + cx /\ cx \in 0 .. Len(Line)
  BY FrameFacts DEF BufferPos, Before
<1>8. BufferPos \in Len(Serialized(Above)) .. Len(Serialized(Above)) + Len(Line)
  BY <1>6, <1>7 DEF Before
<1>9. /\ StartIn(BufferText, BufferPos) = Len(Before)
      /\ EndIn(BufferText, BufferPos) = Len(Before) + Len(Line)
  BY <1>2, <1>4, <1>8, PlaceOf DEF Before
<1> QED
  BY <1>3, <1>5, <1>6, <1>7, <1>9

LEMMA There ==
  ASSUME NEW a \in Seq(GoodLines), NEW l \in GoodLines, NEW b \in Seq(GoodLines),
         lines' = Mid(a, l, b), cy' = Len(a)
  PROVE  /\ BufferText' = (Serialized(a) \o l) \o Rest(b)
         /\ BufferPos' = Len(Serialized(a)) + cx'
<1>1. BufferText' = TextOf(Mid(a, l, b))
  BY DEF BufferText, TextOf
<1>2. SubSeq(Mid(a, l, b), 1, Len(a)) = a
  BY GoodMid
<1>3. Above' = a
  BY <1>2 DEF Above
<1> QED
  BY <1>1, <1>3, TextMid DEF BufferPos

----------------------------------------------------------------------------
(* A character goes in, or out, where the text is cut into u and v. *)
LEMMA CharIn ==
  ASSUME NEW u \in Texts, NEW v \in Texts, NEW c \in Chars \cup {NL},
         BufferText = u \o v, BufferPos = Len(u),
         BufferText' = (u \o <<c>>) \o v, BufferPos' = Len(u) + 1
  PROVE  Buffer!Insert(c)
<1>1. SubSeq(u \o v, 1, Len(u)) = u /\ SubSeq(u \o v, Len(u) + 1, Len(u \o v)) = v
  BY CutJoin DEF Texts
<1>2. Buffer!Upto(BufferPos) = u
  BY <1>1 DEF Buffer!Upto
<1>3. Buffer!From(BufferPos) = v
  BY <1>1 DEF Buffer!From
<1>4. BufferText' = (Buffer!Upto(BufferPos) \o <<c>>) \o Buffer!From(BufferPos)
  BY <1>2, <1>3
<1>5. BufferPos' = BufferPos + 1
  OBVIOUS
<1> QED
  BY <1>4, <1>5, Zenon DEF Buffer!Insert

LEMMA CharOut ==
  ASSUME NEW u \in Texts, NEW v \in Texts, NEW c \in Chars \cup {NL},
         BufferText = (u \o <<c>>) \o v, BufferPos = Len(u) + 1,
         BufferText' = u \o v, BufferPos' = Len(u)
  PROVE  Buffer!Erase
<1> DEFINE w == <<c>>
            h == u \o w
            k == Len(u) + 1
<1>1. /\ w \in Texts /\ h \in Texts /\ w \o v \in Texts /\ Len(h) = k /\ Len(u) \in Nat
      /\ k > 0 /\ k - 1 = Len(u)
  <2>1. w \in Texts /\ Len(w) = 1
    BY DEF Texts
  <2> HIDE DEF w
  <2>2. h \in Texts /\ w \o v \in Texts /\ Len(h) = Len(u) + Len(w) /\ Len(u) \in Nat
    BY <2>1, Cat
  <2> HIDE DEF h
  <2> QED
    BY <2>1, <2>2
<1>2. SubSeq(h \o v, 1 + Len(h), Len(h \o v)) = v
  <2> HIDE DEF h
  <2>1. SubSeq(h \o v, Len(h) + 1, Len(h \o v)) = v
    BY <1>1, CutJoin DEF Texts
  <2> QED
    BY <1>1, <2>1, SMTT(30)
<1>3. h \o v = u \o (w \o v)
  <2> HIDE DEF w
  <2> QED
    BY <1>1, Cat3, SMTT(30)
<1>4. SubSeq(h \o v, 1, Len(u)) = u
  <2> DEFINE z == w \o v
  <2>1. z \in Texts
    BY <1>1
  <2> HIDE DEF z
  <2>2. SubSeq(u \o z, 1, Len(u)) = u
    BY <2>1, CutJoin DEF Texts
  <2> QED
    BY <1>3, <2>2, Zenon DEF z
<1>5. BufferText = h \o v /\ BufferPos = k
  OBVIOUS
<1> HIDE DEF h, k
<1>6. Buffer!Upto(BufferPos - 1) = u
  BY <1>1, <1>4, <1>5 DEF Buffer!Upto
<1>7. Buffer!From(BufferPos) = v
  <2>1. k + 1 = 1 + Len(h)
    BY <1>1
  <2> QED
    BY <1>1, <1>2, <1>5, <2>1 DEF Buffer!From
<1> QED
  BY <1>1, <1>5, <1>6, <1>7 DEF Buffer!Erase

(* The text at the cursor: u and v are left and right of it. *)
LEMMA Regroup ==
  ASSUME NEW x \in Texts, NEW l \in Texts, NEW m \in Texts, NEW r \in Texts,
         NEW y, y = l \o m
  PROVE  (x \o y) \o r = (x \o l) \o (m \o r)
<1> DEFINE z == x \o l
            w == x \o y
<1>1. z \in Texts
  BY Cat
<1>2. w = z \o m
  BY Cat3
<1> HIDE DEF w, z
<1>3. (z \o m) \o r = z \o (m \o r)
  BY <1>1, Cat3
<1>4. w \o r = z \o (m \o r)
  BY <1>2, <1>3
<1> QED
  BY <1>4, Zenon DEF w, z

LEMMA AtCursor ==
  ASSUME IInv
  PROVE  /\ Before \o Left \in Texts /\ Right \o After \in Texts
         /\ BufferText = (Before \o Left) \o (Right \o After)
         /\ BufferPos = Len(Before \o Left)
<1>1. Left \in Texts /\ Right \in Texts /\ Line = Left \o Right /\ Len(Left) = cx
  BY Shape, GoodText DEF Shaped
<1>2. /\ Before \in Texts /\ After \in Texts /\ BufferPos = Len(Before) + cx
      /\ BufferText = (Before \o Line) \o After
  BY Here
<1>4. (Before \o Line) \o After = (Before \o Left) \o (Right \o After)
  <2>1. Left \in Texts /\ Right \in Texts /\ Before \in Texts /\ After \in Texts
    BY <1>1, <1>2
  <2>2. Line = Left \o Right
    BY <1>1
  <2> QED
    BY <2>1, <2>2, Regroup, SMTT(60)
<1>3. BufferText = (Before \o Left) \o (Right \o After)
  BY <1>2, <1>4, Zenon
<1> QED
  BY <1>1, <1>2, <1>3, Cat

LEMMA InsertSimulates ==
  ASSUME IInv, NEW c \in Chars, ed_insert_char(c)
  PROVE  Buffer!Insert(c)
<1> DEFINE w == <<c>>
            m == Left \o w
            l == m \o Right
            u == Before \o Left
            v == Right \o After
<1>1. l \in GoodLines /\ lines' = Mid(Above, l, Below)
  BY InsertShape
<1>2. w \in Texts /\ c \in Chars \cup {NL}
  BY DEF Texts
<1>3. l = m \o Right
  OBVIOUS
<1> HIDE DEF l
<1>4. cy' = Len(Above) /\ cx' = cx + 1 /\ Above \in Seq(GoodLines) /\ Below \in Seq(GoodLines) /\ cy' = cy
  BY Shape DEF Shaped, ed_insert_char
<1>5. BufferText' = (Before \o l) \o After /\ BufferPos' = Len(Before) + cx'
  BY <1>1, <1>4, There DEF Before, After
<1>6. /\ u \in Texts /\ v \in Texts /\ BufferText = u \o v /\ BufferPos = Len(u)
      /\ BufferPos = Len(Before) + cx /\ Len(Before) \in Nat /\ cx \in Nat
  BY AtCursor, Here, FrameFacts
<1>7. Before \in Texts /\ Left \in Texts /\ Right \in Texts /\ After \in Texts
  BY Here, Shape, GoodText DEF Shaped
<1> HIDE DEF w
<1>12. w \in Texts
  BY <1>2
<1>13. m \in Texts
  BY <1>7, <1>12, Cat
<1>8. (Before \o Left) \o w = Before \o (Left \o w)
  BY <1>7, <1>12, Cat3, SMTT(60)
<1> HIDE DEF m
<1>9. (Before \o l) \o After = (Before \o m) \o (Right \o After)
  <2>1. /\ Before \in Texts /\ m \in Texts /\ Right \in Texts /\ After \in Texts
        /\ l = m \o Right
    BY <1>3, <1>7, <1>13
  <2> QED
    BY <2>1, Regroup, SMTT(60)
<1> HIDE DEF u, v
<1>10. BufferText' = (u \o w) \o v
  BY <1>5, <1>8, <1>9, Zenon DEF u, v, m
<1>11. BufferPos' = Len(u) + 1
  BY <1>4, <1>5, <1>6
<1> QED
  BY <1>2, <1>6, <1>10, <1>11, CharIn DEF w

LEMMA NewlineSimulates ==
  ASSUME IInv, ed_newline
  PROVE  Buffer!Insert(NL)
<1> DEFINE w == <<NL>>
            a == Append(Above, Left)
            u == Before \o Left
            v == Right \o After
            x == u \o w
<1>1. a \in Seq(GoodLines) /\ Len(a) = cy + 1 /\ lines' = Mid(a, Right, Below)
  BY NewlineShape
<1>2. w \in Texts /\ NL \in Chars \cup {NL} /\ Len(w) = 1
  BY Newline
<1>4. cy' = cy + 1 /\ cx' = 0 /\ Below \in Seq(GoodLines) /\ Above \in Seq(GoodLines)
      /\ Left \in GoodLines /\ Right \in GoodLines
  BY Shape DEF Shaped, ed_newline
<1>3. Serialized(a) = x
  BY <1>4, SerializedMore DEF Before
<1> HIDE DEF w, a
<1>5. BufferText' = (x \o Right) \o After /\ BufferPos' = Len(x) + cx'
  BY <1>1, <1>3, <1>4, There DEF After
<1>6. u \in Texts /\ v \in Texts /\ BufferText = u \o v /\ BufferPos = Len(u) /\ Len(u) \in Nat
  BY AtCursor, Here, Cat
<1>7. Right \in Texts /\ After \in Texts
  BY Here, Shape, GoodText DEF Shaped
<1>12. v = Right \o After
  OBVIOUS
<1> HIDE DEF u, v
<1>8. x \in Texts /\ Len(x) = Len(u) + 1
  <2>1. u \in Texts /\ w \in Texts /\ Len(w) = 1
    BY <1>2, <1>6
  <2>2. x \in Texts /\ Len(x) = Len(u) + Len(w)
    BY <2>1, Cat, ZenonT(60)
  <2> HIDE DEF x
  <2> QED
    BY <2>1, <2>2
<1>9. (x \o Right) \o After = x \o v
  <2> HIDE DEF x
  <2> QED
    BY <1>7, <1>8, <1>12, Cat3
<1>10. BufferText' = (u \o w) \o v
  BY <1>5, <1>9, Zenon
<1>11. BufferPos' = Len(u) + 1
  <2> HIDE DEF x
  <2> QED
    BY <1>4, <1>5, <1>6, <1>8
<1> HIDE DEF x
<1> QED
  BY <1>2, <1>6, <1>10, <1>11, CharIn DEF w

LEMMA DeleteSimulates ==
  ASSUME IInv, ed_delete_char
  PROVE  Buffer!Erase
<1>1. CASE ~ ed_join
  <2> DEFINE c == Line[cx]
              w == <<c>>
              u == Before \o Short
              v == Right \o After
              l == Short \o Right
  <2>1. /\ cx > 0 /\ cx' = cx - 1 /\ cy' = cy
        /\ lines' = [lines EXCEPT ![cy + 1] = SubSeq(Line, 1, cx - 1) \o Right]
    BY <1>1 DEF ed_delete_char
  <2>2. /\ Short \in GoodLines /\ Len(Short) = cx - 1 /\ c \in Chars
        /\ Left = Append(Short, c) /\ l \in GoodLines
        /\ lines' = Mid(Above, l, Below)
    BY <2>1, DeleteShape
  <2>3. cy' = Len(Above) /\ Above \in Seq(GoodLines) /\ Below \in Seq(GoodLines)
        /\ Right \in GoodLines
    BY <2>1, Shape DEF Shaped
  <2>4. l = Short \o Right
    OBVIOUS
  <2> HIDE DEF l
  <2>5. BufferText' = (Before \o l) \o After /\ BufferPos' = Len(Before) + cx'
    BY <2>2, <2>3, There DEF Before, After
  <2>6. Before \in Texts /\ Short \in Texts /\ Right \in Texts /\ After \in Texts
    BY <2>2, <2>3, Here, GoodText
  <2>7. u \in Texts /\ v \in Texts /\ w \in Texts /\ c \in Chars \cup {NL}
        /\ Len(u) = Len(Before) + Len(Short) /\ Len(Before) \in Nat
    <3>1. w \in Texts /\ c \in Chars \cup {NL}
      BY <2>2 DEF Texts
    <3> QED
      BY <2>6, <3>1, Cat
  <2>8. Left = Short \o w
    <3> HIDE DEF c
    <3>1. Short \in Seq(Chars)
      BY <2>2 DEF GoodLines
    <3>2. Append(Short, c) = Short \o <<c>>
      BY <2>2, <3>1, AppendIsConcat
    <3> QED
      BY <2>2, <3>2, Zenon DEF w
  <2> HIDE DEF w
  <2>14. w \in Texts
    BY <2>7
  <2>15. (Before \o Short) \o w = Before \o (Short \o w)
    BY <2>6, <2>14, Cat3, SMTT(30)
  <2>9. Before \o Left = u \o w
    BY <2>8, <2>15, Zenon
  <2>10. BufferText = (u \o w) \o v
    BY <2>9, AtCursor
  <2>11. (Before \o l) \o After = u \o v
    BY <2>4, <2>6, Regroup, SMTT(60)
  <2> HIDE DEF u, v
  <2>12. BufferText' = u \o v
    BY <2>5, <2>11, Zenon
  <2>13. BufferPos = Len(u) + 1 /\ BufferPos' = Len(u)
    <3>1. BufferPos = Len(Before) + cx /\ cx \in Nat
      BY Here, FrameFacts
    <3>2. Len(u) = Len(Before) + (cx - 1) /\ Len(Before) \in Nat
      BY <2>2, <2>7
    <3>3. BufferPos' = Len(Before) + (cx - 1)
      BY <2>1, <2>5
    <3> QED
      BY <3>1, <3>2, <3>3
  <2> HIDE DEF c
  <2> QED
    BY <2>7, <2>10, <2>12, <2>13, CharOut DEF w
<1>2. CASE ed_join
  <2> DEFINE w == <<NL>>
              b == Serialized(Upper)
              u == b \o Prev
              v == Line \o After
              l == Prev \o Line
  <2>1. cy > 0 /\ cx = 0 /\ l \in GoodLines /\ lines' = Mid(Upper, l, Below)
    BY <1>2, JoinShape
  <2>2. cx' = Len(Prev) /\ cy' = cy - 1
    BY <1>2 DEF ed_join, Prev
  <2>3. /\ cy' = Len(Upper) /\ Upper \in Seq(GoodLines) /\ Below \in Seq(GoodLines)
        /\ Prev \in GoodLines /\ Above = Append(Upper, Prev)
    BY <2>1, <2>2, Shape, ShapeAbove DEF Shaped
  <2>4. l = Prev \o Line
    OBVIOUS
  <2> HIDE DEF l
  <2>5. BufferText' = (b \o l) \o After /\ BufferPos' = Len(b) + cx'
    BY <2>1, <2>3, There DEF After
  <2>6. b \in Texts /\ Prev \in Texts /\ Line \in Texts /\ After \in Texts
    BY <2>3, Here, GoodText, SerializedGood
  <2>7. u \in Texts /\ v \in Texts /\ w \in Texts /\ NL \in Chars \cup {NL}
        /\ Len(u) = Len(b) + Len(Prev) /\ Len(u) \in Nat /\ Len(w) = 1
    BY <2>6, Cat, Newline
  <2>8. Before = u \o w
    BY <2>3, SerializedMore DEF Before
  <2> HIDE DEF w
  <2>10. BufferText = (u \o w) \o v
    <3>1. BufferText = (Before \o Line) \o After /\ Before \in Texts
      BY Here
    <3>2. (Before \o Line) \o After = Before \o v
      BY <2>6, <3>1, Cat3
    <3> QED
      BY <2>8, <3>1, <3>2, Zenon
  <2>11. (b \o l) \o After = u \o v
    BY <2>4, <2>6, Regroup, SMTT(60)
  <2> HIDE DEF u, v, b
  <2>12. BufferText' = u \o v
    BY <2>5, <2>11, Zenon
  <2>13. BufferPos = Len(u) + 1 /\ BufferPos' = Len(u)
    <3>1. Len(u \o w) = Len(u) + 1
      BY <2>7, Cat
    <3>2. BufferPos = Len(Before) + 0
      BY <2>1, Here
    <3> QED
      BY <2>2, <2>5, <2>7, <2>8, <3>1, <3>2
  <2> QED
    BY <2>7, <2>10, <2>12, <2>13, CharOut DEF w
<1> QED
  BY <1>1, <1>2

(* The lines before and after the one of the cursor, in the text. *)
Outset == Serialized(Upper)

LEMMA LineBefore ==
  ASSUME IInv, cy > 0
  PROVE  /\ Outset \in Texts /\ Prev \in Texts /\ Len(Outset) \in Nat /\ Len(Prev) \in Nat
         /\ Before = (Outset \o Prev) \o <<NL>>
         /\ Len(Before) = Len(Outset) + Len(Prev) + 1
         /\ StartIn(BufferText, Len(Before) - 1) = Len(Outset)
<1> DEFINE w == <<NL>>
            u == Outset \o Prev
            v == Line \o After
            r == w \o v
            t == BufferText
<1>1. Upper \in Seq(GoodLines) /\ Prev \in GoodLines /\ Above = Append(Upper, Prev)
  BY ShapeAbove
<1>2. Outset \in Texts /\ Prev \in Texts /\ Ends(Outset)
  BY <1>1, SerializedGood, SerializedEnds, GoodText DEF Outset
<1>3. Line \in Texts /\ After \in Texts /\ Before \in Texts /\ t = (Before \o Line) \o After
  BY Here
<1>4. w \in Texts /\ Len(w) = 1 /\ w[1] = NL
  BY Newline
<1>5. v \in Texts
  BY <1>3, Cat
<1> HIDE DEF w, t
<1>6. u \in Texts /\ Len(Outset) \in Nat /\ Len(Prev) \in Nat /\ Len(u) = Len(Outset) + Len(Prev)
  BY <1>2, Cat
<1>7. Before = u \o w
  BY <1>1, SerializedMore DEF Before, Outset, w
<1>8. t = Before \o v
  BY <1>3, Cat3
<1> HIDE DEF u, v
<1>9. Len(u \o w) = Len(u) + 1
  BY <1>4, <1>6, Cat
<1>10. (u \o w) \o v = u \o r
  BY <1>4, <1>5, <1>6, Cat3
<1>11. r \in Texts /\ Starts(r)
  <2>1. r \in Texts
    BY <1>4, <1>5, Cat
  <2>2. 1 \in 1 .. Len(w) + Len(v) /\ 1 <= Len(w)
    <3>1. Len(v) \in Nat
      BY <1>5, Cat
    <3> QED
      BY <1>4, <3>1
  <2>3. r[1] = NL
    BY <1>4, <1>5, <2>2, CatElements
  <2> QED
    BY <2>1, <2>3, Zenon DEF Starts
<1> HIDE DEF r
<1>12. t = (Outset \o Prev) \o r
  BY <1>7, <1>8, <1>10, Zenon DEF u
<1>13. AsLine(t, Outset, Prev, r)
  BY <1>1, <1>2, <1>11, <1>12, Zenon DEF AsLine
<1> DEFINE p == Len(Before) - 1
<1>14. p \in Len(Outset) .. Len(Outset \o Prev)
  <2>1. Len(Before) = Len(u) + 1
    BY <1>7, <1>9
  <2>2. p = Len(Outset) + Len(Prev) /\ Len(Outset \o Prev) = Len(Outset) + Len(Prev)
    BY <1>6, <2>1 DEF u
  <2> QED
    BY <1>6, <2>2
<1> HIDE DEF p
<1>15. StartIn(t, p) = Len(Outset)
  BY <1>13, <1>14, LineOf
<1>16. Len(Before) = Len(Outset) + Len(Prev) + 1
  BY <1>6, <1>7, <1>9
<1>17. Before = (Outset \o Prev) \o <<NL>>
  BY <1>7, Zenon DEF u, w
<1> QED
  BY <1>2, <1>6, <1>15, <1>16, <1>17 DEF t, p

LEMMA LineAfter ==
  ASSUME IInv, cy < Len(lines) - 1
  PROVE  /\ Len(Serialized(Append(Above, Line))) = Len(Before) + Len(Line) + 1
         /\ Len(Following) \in Nat /\ Len(After) > 0
         /\ EndIn(BufferText, Len(Before) + Len(Line) + 1) = Len(Before) + Len(Line) + 1 + Len(Following)
<1> DEFINE a == Append(Above, Line)
            x == Before \o Line
            p == Len(Before) + Len(Line) + 1
<1>1. /\ Following \in GoodLines /\ Lower \in Seq(GoodLines) /\ a \in Seq(GoodLines)
      /\ lines = Mid(a, Following, Lower) /\ Below = Mid(<<>>, Following, Lower)
  BY ShapeBelow
<1>2. Above \in Seq(GoodLines) /\ Line \in GoodLines /\ Below \in Seq(GoodLines)
  BY Shape DEF Shaped
<1>3. Serialized(a) = x \o <<NL>>
  BY <1>2, SerializedMore DEF Before
<1>4. x \in Texts /\ Len(x) = Len(Before) + Len(Line) /\ Len(Before) \in Nat /\ Len(Line) \in Nat
  BY Here, Cat
<1>5. Len(Serialized(a)) = p
  <2> HIDE DEF x
  <2>1. Len(x \o <<NL>>) = Len(x) + 1
    BY <1>4, Newline, Cat
  <2> QED
    BY <1>3, <1>4, <2>1
<1>6. Len(Following) \in Nat
  BY <1>1 DEF GoodLines
<1>7. Len(After) > 0
  <2>1. Below # <<>>
    <3>1. Len(Below) # 0
      <4> DEFINE n == Len(lines)
      <4>1. Len(Below) = n - cy - 1 /\ n \in Nat /\ cy \in Nat /\ cy < n - 1
        BY Shape, FrameFacts DEF Shaped
      <4> HIDE DEF n
      <4> QED
        BY <4>1
    <3> QED
      BY <3>1
  <2>2. After # <<>> /\ After \in Texts
    BY <1>2, <2>1, RestType DEF After
  <2> QED
    BY <2>2 DEF Texts
<1>8. BufferText = TextOf(Mid(a, Following, Lower))
  <2> HIDE DEF a
  <2> QED
    BY <1>1, Zenon DEF BufferText, TextOf
<1> HIDE DEF a, p
<1>9. p \in Nat
  BY <1>4 DEF p
<1>10. p \in Len(Serialized(a)) .. Len(Serialized(a)) + Len(Following)
  BY <1>5, <1>6, <1>9
<1>11. EndIn(BufferText, p) = Len(Serialized(a)) + Len(Following)
  BY <1>1, <1>8, <1>10, PlaceOf
<1>12. EndIn(BufferText, p) = p + Len(Following)
  BY <1>5, <1>11
<1> QED
  BY <1>5, <1>6, <1>7, <1>12, Zenon DEF p, a

LEMMA BufferStart ==
  ASSUME NEW p PROVE Buffer!StartOf(p) = StartIn(BufferText, p)
BY Zenon DEF Buffer!StartOf, StartIn, Buffer!Max, Max

LEMMA BufferEndOf ==
  ASSUME NEW p PROVE Buffer!EndOf(p) = EndIn(BufferText, p)
BY Zenon DEF Buffer!EndOf, EndIn, Buffer!Min, Min

LEMMA BufferClip ==
  ASSUME NEW p \in Int, NEW q \in Int, BufferPos' = IF p <= q THEN p ELSE q
  PROVE  Buffer!Clip(p, q)
<1>1. Min({p, q}) = IF p <= q THEN p ELSE q
  BY MinOfTwo
<1>2. Buffer!Min({p, q}) = Min({p, q})
  BY Zenon DEF Buffer!Min, Min
<1> QED
  BY <1>1, <1>2, Zenon DEF Buffer!Clip

(* Moving leaves the text, and the cursor is at column cx' of line y. *)
LEMMA MovedTo ==
  ASSUME lines' = lines
  PROVE  /\ BufferText' = BufferText
         /\ BufferPos' = Len(Serialized(SubSeq(lines, 1, cy'))) + cx'
BY DEF BufferText, BufferPos, Above

LEMMA UpSimulates ==
  ASSUME IInv, cy > 0, lines' = lines, cy' = cy - 1, cx' \in Nat
  PROVE  /\ cx' = Min({cx, Len(Prev)}) => Buffer!Move
         /\ cx = 0 /\ cx' = Len(Prev) => Buffer!Move
<1> DEFINE s == Len(Before)
            o == Len(Outset)
            e == Len(Prev)
            p == BufferPos
<1>1. /\ o \in Nat /\ e \in Nat /\ s = o + e + 1 /\ StartIn(BufferText, s - 1) = o
  BY LineBefore
<1>2. p = s + cx /\ cx \in Nat /\ StartIn(BufferText, p) = s
  BY Here, FrameFacts
<1>3. BufferText' = BufferText /\ BufferPos' = o + cx'
  BY MovedTo DEF Outset, Upper
<1>4. Min({cx, e}) = IF cx <= e THEN cx ELSE e
  BY ColumnUp
<1>5. Buffer!StartOf(p) = s /\ Buffer!StartOf(s - 1) = o
  BY <1>1, <1>2, BufferStart
<1> HIDE DEF s, o, e, p
<1>8. p = BufferPos
  BY Zenon DEF p
<1>6. ASSUME cx' = Min({cx, e}) PROVE Buffer!Move
  <2> DEFINE q == o + (p - s)
  <2>1. q = o + cx /\ s - 1 = o + e /\ s > 0 /\ q \in Int /\ s - 1 \in Int
    BY <1>1, <1>2
  <2>2. BufferPos' = IF q <= s - 1 THEN q ELSE s - 1
    <3> HIDE DEF q
    <3> QED
      BY <1>1, <1>2, <1>3, <1>4, <1>6, <2>1
  <2> HIDE DEF q
  <2>3. Buffer!Clip(q, s - 1)
    BY <2>1, <2>2, BufferClip
  <2>4. Buffer!StartOf(BufferPos) > 0
        /\ Buffer!Clip(Buffer!StartOf(Buffer!StartOf(BufferPos) - 1) + (BufferPos - Buffer!StartOf(BufferPos)),
                       Buffer!StartOf(BufferPos) - 1)
    BY <1>5, <1>8, <2>1, <2>3, Zenon DEF q
  <2> QED
    BY <1>3, <2>4, Zenon DEF Buffer!Move
<1>7. ASSUME cx = 0, cx' = e PROVE Buffer!Move
  <2>1. BufferPos > 0 /\ BufferPos' = BufferPos - 1
    BY <1>1, <1>2, <1>3, <1>7, <1>8
  <2> QED
    BY <1>3, <2>1, Zenon DEF Buffer!Move
<1> QED
  BY <1>6, <1>7, Zenon DEF e

LEMMA DownSimulates ==
  ASSUME IInv, cy < Len(lines) - 1, lines' = lines, cy' = cy + 1, cx' \in Nat
  PROVE  /\ cx' = Min({cx, Len(Following)}) => Buffer!Move
         /\ cx = Len(Line) /\ cx' = 0 => Buffer!Move
<1> DEFINE s == Len(Before)
            l == Len(Line)
            f == Len(Following)
            p == BufferPos
            e == s + l
            n == Len(BufferText)
<1>1. /\ f \in Nat /\ EndIn(BufferText, e + 1) = e + 1 + f
      /\ Len(Serialized(Append(Above, Line))) = e + 1 /\ Len(After) > 0
  BY LineAfter
<1>2. /\ p = s + cx /\ cx \in Nat /\ l \in Nat /\ s \in Nat
      /\ StartIn(BufferText, p) = s /\ EndIn(BufferText, p) = e
      /\ n = e + Len(After) /\ Len(After) \in Nat
  BY Here, FrameFacts
<1>9. SubSeq(lines, 1, cy') = Append(Above, Line)
  <2> DEFINE m == Len(lines)
  <2>1. lines \in Seq(GoodLines) /\ m \in Nat /\ cy < m - 1 /\ cy \in Nat
    BY FrameFacts DEF Buffers
  <2>2. cy + 1 \in 1 .. m /\ (cy + 1) - 1 = cy
    <3> HIDE DEF m
    <3> QED
      BY <2>1
  <2> DEFINE z == cy + 1
  <2> HIDE DEF z
  <2>3. SubSeq(lines, 1, z) = Append(SubSeq(lines, 1, z - 1), lines[z])
    BY <2>1, <2>2, PrefixStep DEF z
  <2> QED
    BY <2>2, <2>3 DEF z, Above, Line
<1>3. BufferText' = BufferText /\ BufferPos' = e + 1 + cx'
  BY <1>1, <1>9, MovedTo
<1>4. Min({cx, f}) = IF cx <= f THEN cx ELSE f
  BY ColumnDown
<1>5. Buffer!StartOf(p) = s /\ Buffer!EndOf(p) = e /\ Buffer!EndOf(e + 1) = e + 1 + f
  BY <1>1, <1>2, BufferStart, BufferEndOf
<1> HIDE DEF s, l, f, p, n
<1>8. p = BufferPos /\ n = Len(BufferText) /\ e < n
  BY <1>1, <1>2 DEF p, n
<1>6. ASSUME cx' = Min({cx, f}) PROVE Buffer!Move
  <2> DEFINE q == e + 1 + (p - s)
              z == e + 1 + f
  <2>1. q = e + 1 + cx /\ q \in Int /\ z \in Int
    BY <1>1, <1>2
  <2>2. BufferPos' = IF q <= z THEN q ELSE z
    <3> HIDE DEF q
    <3> QED
      BY <1>1, <1>2, <1>3, <1>4, <1>6, <2>1, SMTT(30)
  <2> HIDE DEF q, z
  <2>3. Buffer!Clip(q, z)
    BY <2>1, <2>2, BufferClip
  <2> HIDE DEF e
  <2>4. Buffer!EndOf(BufferPos) < Len(BufferText)
        /\ Buffer!Clip(Buffer!EndOf(BufferPos) + 1 + (BufferPos - Buffer!StartOf(BufferPos)),
                       Buffer!EndOf(Buffer!EndOf(BufferPos) + 1))
    BY <1>5, <1>8, <2>3, Zenon DEF q, z
  <2> QED
    BY <1>3, <2>4, Zenon DEF Buffer!Move
<1>7. ASSUME cx = l, cx' = 0 PROVE Buffer!Move
  <2>1. BufferPos < Len(BufferText) /\ BufferPos' = BufferPos + 1
    BY <1>1, <1>2, <1>3, <1>7, <1>8
  <2> QED
    BY <1>3, <2>1, Zenon DEF Buffer!Move
<1> QED
  BY <1>6, <1>7, Zenon DEF f, l

LEMMA SideSimulates ==
  ASSUME IInv, lines' = lines, cy' = cy
  PROVE  /\ cx > 0 /\ cx' = cx - 1 => Buffer!Move
         /\ cx < Len(Line) /\ cx' = cx + 1 => Buffer!Move
         /\ cx' \in {0, Len(Line)} => Buffer!Move
<1> DEFINE s == Len(Before)
            l == Len(Line)
            e == s + l
<1>1. /\ BufferPos = s + cx /\ cx \in 0 .. l /\ l \in Nat /\ s \in Nat
      /\ StartIn(BufferText, BufferPos) = s /\ EndIn(BufferText, BufferPos) = e
      /\ Len(BufferText) = e + Len(After) /\ Len(After) \in Nat
  BY Here
<1>2. BufferText' = BufferText /\ BufferPos' = s + cx'
  BY MovedTo DEF Before, Above
<1>3. Buffer!StartOf(BufferPos) = s /\ Buffer!EndOf(BufferPos) = e
  BY <1>1, BufferStart, BufferEndOf
<1> DEFINE n == Len(BufferText)
<1> HIDE DEF s, l, n
<1>4. ASSUME cx > 0, cx' = cx - 1 PROVE Buffer!Move
  <2>1. BufferPos > 0 /\ BufferPos' = BufferPos - 1
    BY <1>1, <1>2, <1>4
  <2> QED
    BY <1>2, <2>1, Zenon DEF Buffer!Move
<1>5. ASSUME cx < l, cx' = cx + 1 PROVE Buffer!Move
  <2>1. BufferPos < Len(BufferText) /\ BufferPos' = BufferPos + 1
    BY <1>1, <1>2, <1>5
  <2> QED
    BY <1>2, <2>1, Zenon DEF Buffer!Move
<1>6. ASSUME cx' \in {0, l} PROVE Buffer!Move
  <2>1. BufferPos' \in {s, e}
    <3>1. CASE cx' = 0
      BY <1>1, <1>2, <3>1
    <3>2. CASE cx' = l
      BY <1>2, <3>2
    <3> QED
      BY <1>6, <3>1, <3>2
  <2>2. BufferPos' \in {Buffer!StartOf(BufferPos), Buffer!EndOf(BufferPos)}
    BY <1>3, <2>1, Zenon
  <2> QED
    BY <1>2, <2>2, Zenon DEF Buffer!Move
<1> QED
  BY <1>4, <1>5, <1>6, Zenon DEF l

LEMMA MoveSimulates ==
  ASSUME IInv, Arrow \/ HomeEnd
  PROVE  Buffer!Move
<1>1. lines' = lines
  BY DEF Arrow, HomeEnd, content
<1>2. CASE cy > 0 /\ UpTo(cy - 1, Min({cx, Len(lines[cy])}))
  <2>1. cy' = cy - 1 /\ cx' = Min({cx, Len(Prev)})
    BY <1>2, Zenon DEF UpTo, Prev
  <2>2. cx' \in Nat
    <3>1. Len(Prev) \in Nat /\ cx \in Nat /\ Min({cx, Len(Prev)}) = IF cx <= Len(Prev) THEN cx ELSE Len(Prev)
      BY <1>2, ShapeAbove, ColumnUp, FrameFacts
    <3> QED
      BY <2>1, <3>1
  <2> QED
    BY <1>1, <1>2, <2>1, <2>2, UpSimulates
<1>3. CASE cy < Len(lines) - 1 /\ DownTo(cy + 1, Min({cx, Len(lines[cy + 2])}))
  <2>1. cy' = cy + 1 /\ cx' = Min({cx, Len(Following)})
    BY <1>3, Zenon DEF DownTo, Following
  <2>2. cx' \in Nat
    BY <1>3, <2>1, LineAfter, ColumnDown, FrameFacts
  <2> QED
    BY <1>1, <1>3, <2>1, <2>2, DownSimulates
<1>4. CASE cx > 0 /\ cx' = cx - 1 /\ UNCHANGED <<cy, scroll_y>>
  BY <1>1, <1>4, SideSimulates
<1>5. CASE cx = 0 /\ cy > 0 /\ UpTo(cy - 1, Len(lines[cy]))
  <2>1. cy' = cy - 1 /\ cx' = Len(Prev) /\ cx' \in Nat
    BY <1>5, ShapeAbove DEF UpTo, Prev
  <2> QED
    BY <1>1, <1>5, <2>1, UpSimulates
<1>6. CASE cx < Len(Line) /\ cx' = cx + 1 /\ UNCHANGED <<cy, scroll_y>>
  BY <1>1, <1>6, SideSimulates
<1>7. CASE cx = Len(Line) /\ cy < Len(lines) - 1 /\ DownTo(cy + 1, 0)
  <2>1. cy' = cy + 1 /\ cx' = 0 /\ cx' \in Nat
    BY <1>7 DEF DownTo
  <2> QED
    BY <1>1, <1>7, <2>1, DownSimulates
<1>8. CASE HomeEnd
  <2>1. cy' = cy /\ cx' \in {0, Len(Line)}
    BY <1>8 DEF HomeEnd
  <2> QED
    BY <1>1, <2>1, SideSimulates
<1> QED
  BY <1>2, <1>3, <1>4, <1>5, <1>6, <1>7, <1>8 DEF Arrow

(* What goes of the text with a line: the rest of it, or the end before it. *)
LEMMA KillInside ==
  ASSUME IInv, cy < Len(lines) - 1, lines' = Mid(Above, Following, Lower), cy' = cy, cx' = 0
  PROVE  Buffer!Kill
<1> DEFINE x == Before
            w == <<NL>>
            m == TextOf(Below)
            h == x \o Line
            g == h \o w
            t == BufferText
            s == Len(x)
            e == s + Len(Line)
<1>1. /\ Following \in GoodLines /\ Lower \in Seq(GoodLines) /\ Below = Mid(<<>>, Following, Lower)
      /\ Above \in Seq(GoodLines) /\ Len(Above) = cy /\ Len(After) > 0 /\ Below \in Seq(GoodLines)
  BY ShapeBelow, Shape, LineAfter DEF Shaped
<1>2. /\ x \in Texts /\ Line \in Texts /\ s \in Nat /\ Len(Line) \in Nat
      /\ t = (x \o Line) \o After /\ Len(t) = e + Len(After) /\ Len(After) \in Nat
      /\ StartIn(t, BufferPos) = s /\ EndIn(t, BufferPos) = e
  BY Here
<1>3. Buffer!StartOf(BufferPos) = s /\ Buffer!EndOf(BufferPos) = e
  BY <1>2, BufferStart, BufferEndOf
<1>4. Below # <<>> /\ Below \in Buffers
  <2>1. Below # <<>>
    <3>1. Rest(<<>>) = <<>>
      BY DEF Rest
    <3>2. After # <<>>
      BY <1>1
    <3> QED
      BY <3>1, <3>2, Zenon DEF After
  <2> QED
    BY <1>1, <2>1, RestType
<1>5. m \in Texts /\ w \in Texts /\ Len(w) = 1 /\ After = w \o m
  BY <1>4, TextType, Newline DEF After, Rest
<1>6. BufferText' = (x \o Following) \o Rest(Lower) /\ BufferPos' = s + 0
  BY <1>1, There DEF Before
<1>7. Following \in Texts /\ Rest(Lower) \in Texts
  BY <1>1, GoodText, RestType
<1>8. m = Following \o Rest(Lower)
  <2> DEFINE y == Serialized(<<>>)
              z == Rest(Lower)
  <2>1. <<>> \in Seq(GoodLines)
    BY EmptySeq
  <2>2. m = (y \o Following) \o z
    BY <1>1, <2>1, TextMid
  <2>3. y = <<>>
    BY SerializedEmpty
  <2>4. <<>> \o Following = Following
    BY <1>7, ConcatEmptySeq DEF Texts
  <2> HIDE DEF y, m, z
  <2>5. y \o Following = Following
    BY <2>3, <2>4, Zenon
  <2> QED
    BY <2>2, <2>5, Zenon DEF z
<1> HIDE DEF w, m, t
<1>9. h \in Texts /\ Len(h) = e
  BY <1>2, Cat
<1> HIDE DEF h
<1>10. g \in Texts /\ Len(g) = e + 1
  BY <1>5, <1>9, Cat
<1>11. t = g \o m
  <2>1. t = h \o After
    BY <1>2, Zenon DEF h
  <2>2. (h \o w) \o m = h \o (w \o m)
    BY <1>5, <1>9, Cat3
  <2> QED
    BY <1>5, <2>1, <2>2, Zenon
<1> HIDE DEF g
<1>12. SubSeq(t, Len(g) + 1, Len(t)) = m
  BY <1>5, <1>10, <1>11, CutJoin DEF Texts
<1>13. Buffer!From(e + 1) = m
  BY <1>10, <1>12 DEF Buffer!From, t
<1>14. Buffer!Upto(s) = x
  <2> DEFINE v == Line \o After
  <2>1. v \in Texts /\ t = x \o v
    <3>1. x \in Texts /\ Line \in Texts /\ After \in Texts
      BY <1>2, Here
    <3>2. v \in Texts
      BY <3>1, Cat, SMTT(60)
    <3>3. (x \o Line) \o After = x \o (Line \o After)
      BY <3>1, Cat3, SMTT(60)
    <3> QED
      BY <1>2, <3>2, <3>3, SMTT(60)
  <2> HIDE DEF v
  <2>2. SubSeq(t, 1, Len(x)) = x
    BY <1>2, <2>1, CutJoin DEF Texts
  <2> QED
    BY <2>2 DEF Buffer!Upto, t
<1>15. (x \o Following) \o Rest(Lower) = x \o m
  BY <1>2, <1>7, <1>8, Cat3
<1>16. BufferText' = x \o m
  BY <1>6, <1>15, Zenon
<1>17. BufferPos' = s
  BY <1>2, <1>6
<1>18. e < Len(BufferText)
  BY <1>1, <1>2 DEF t
<1> HIDE DEF s, e, x
<1>19. /\ Buffer!EndOf(BufferPos) < Len(BufferText)
       /\ BufferText' = Buffer!Upto(Buffer!StartOf(BufferPos)) \o Buffer!From(Buffer!EndOf(BufferPos) + 1)
       /\ BufferPos' = Buffer!StartOf(BufferPos)
  BY <1>3, <1>13, <1>14, <1>16, <1>17, <1>18, Zenon
<1> QED
  BY <1>19 DEF Buffer!Kill

LEMMA NothingBelow ==
  ASSUME IInv, cy = Len(lines) - 1
  PROVE  After = <<>> /\ Len(After) = 0
<1> DEFINE n == Len(lines)
<1>1. Len(Below) = n - cy - 1 /\ Below \in Seq(GoodLines) /\ n \in Nat /\ cy = n - 1
  BY Shape, FrameFacts DEF Shaped
<1> HIDE DEF n
<1>2. Len(Below) = 0
  BY <1>1
<1>3. Below = <<>>
  BY <1>1, <1>2
<1>4. After = <<>>
  BY <1>3, Zenon DEF After, Rest
<1>5. Len(<<>>) = 0
  OBVIOUS
<1> QED
  BY <1>4, <1>5, Zenon

LEMMA NoneAfter ==
  ASSUME NEW x \in Texts PROVE x \o Rest(<<>>) = x
<1>1. Rest(<<>>) = <<>>
  BY Zenon DEF Rest
<1>2. x \o <<>> = x
  BY ConcatEmptySeq DEF Texts
<1> QED
  BY <1>1, <1>2, Zenon

LEMMA KillLast ==
  ASSUME IInv, cy = Len(lines) - 1, cy > 0, lines' = Mid(Upper, Prev, <<>>), cy' = cy - 1, cx' = 0
  PROVE  Buffer!Kill
<1> DEFINE w == <<NL>>
            u == Outset \o Prev
            v == Line \o After
            r == w \o v
            t == BufferText
            s == Len(Before)
            o == Len(Outset)
            e == s + Len(Line)
<1>1. /\ Outset \in Texts /\ Prev \in Texts /\ o \in Nat /\ Len(Prev) \in Nat
      /\ Before = u \o w /\ s = o + Len(Prev) + 1 /\ StartIn(t, s - 1) = o
  BY LineBefore
<1>2. /\ Before \in Texts /\ Line \in Texts /\ After \in Texts /\ Len(Line) \in Nat
      /\ t = (Before \o Line) \o After /\ Len(t) = e + Len(After)
      /\ StartIn(t, BufferPos) = s /\ EndIn(t, BufferPos) = e
  BY Here
<1>3. Buffer!StartOf(BufferPos) = s /\ Buffer!EndOf(BufferPos) = e /\ Buffer!StartOf(s - 1) = o
  BY <1>1, <1>2, BufferStart, BufferEndOf
<1>4. Len(After) = 0
  BY NothingBelow
<1>5. Upper \in Seq(GoodLines) /\ Len(Upper) = cy - 1 /\ Prev \in GoodLines
  BY ShapeAbove
<1>6. BufferText' = u \o Rest(<<>>) /\ BufferPos' = o + 0
  <2>1. <<>> \in Seq(GoodLines)
    BY EmptySeq
  <2> QED
    BY <1>5, <2>1, There DEF Outset
<1>7. u \in Texts /\ Len(u) = o + Len(Prev)
  BY <1>1, Cat
<1>8. w \in Texts /\ v \in Texts
  BY <1>2, Newline, Cat
<1> HIDE DEF t
<1>9. t = Before \o v
  BY <1>2, Cat3
<1> HIDE DEF u, v, w
<1>10. (u \o w) \o v = u \o r
  BY <1>7, <1>8, Cat3
<1>11. r \in Texts
  BY <1>8, Cat
<1> HIDE DEF r
<1>12. t = u \o r
  BY <1>1, <1>9, <1>10, Zenon
<1>13. SubSeq(t, 1, Len(u)) = u
  BY <1>7, <1>11, <1>12, CutJoin DEF Texts
<1>14. s - 1 = Len(u) /\ s > 0 /\ e \in Nat /\ ~(e < Len(t)) /\ BufferPos' = o
  BY <1>1, <1>2, <1>4, <1>6, <1>7, SMTT(30)
<1>15. Buffer!Upto(s - 1) = u
  BY <1>13, <1>14 DEF Buffer!Upto, t
<1>16. BufferText' = u
  BY <1>6, <1>7, NoneAfter
<1> HIDE DEF s, o, e
<1>17. /\ ~(Buffer!EndOf(BufferPos) < Len(BufferText)) /\ Buffer!StartOf(BufferPos) > 0
       /\ BufferText' = Buffer!Upto(Buffer!StartOf(BufferPos) - 1)
       /\ BufferPos' = Buffer!StartOf(Buffer!StartOf(BufferPos) - 1)
  BY <1>3, <1>14, <1>15, <1>16, Zenon DEF t
<1> QED
  BY <1>17, Zenon DEF Buffer!Kill

LEMMA KillOnly ==
  ASSUME IInv, cy = 0, Len(lines) = 1, lines' = Mid(<<>>, <<>>, <<>>), cy' = 0, cx' = 0
  PROVE  Buffer!Kill
<1> DEFINE s == Len(Before)
            e == s + Len(Line)
<1>1. /\ Len(Line) \in Nat /\ Len(BufferText) = e + Len(After)
      /\ StartIn(BufferText, BufferPos) = s /\ EndIn(BufferText, BufferPos) = e
  BY Here
<1>2. Buffer!StartOf(BufferPos) = s /\ Buffer!EndOf(BufferPos) = e
  BY <1>1, BufferStart, BufferEndOf
<1>3. Len(After) = 0
  BY NothingBelow
<1>4. s = 0
  <2>1. Above = <<>>
    BY Shape DEF Shaped
  <2>2. Before = <<>> /\ Len(<<>>) = 0
    BY <2>1, SerializedEmpty DEF Before
  <2> QED
    BY <2>2
<1>5. BufferText' = <<>> /\ BufferPos' = 0
  <2> DEFINE y == Serialized(<<>>)
  <2>1. <<>> \in Seq(GoodLines) /\ <<>> \in GoodLines /\ Len(<<>>) = 0 /\ <<>> \in Texts
    BY EmptySeq, NoLine, GoodText
  <2>2. BufferText' = (y \o <<>>) \o Rest(<<>>) /\ BufferPos' = Len(y) + cx'
    BY <2>1, There
  <2>3. y = <<>>
    BY SerializedEmpty
  <2>4. <<>> \o <<>> = <<>>
    OBVIOUS
  <2>5. <<>> \o Rest(<<>>) = <<>>
    BY <2>1, NoneAfter
  <2> HIDE DEF y
  <2>6. BufferText' = <<>>
    BY <2>2, <2>3, <2>4, <2>5, Zenon
  <2>7. BufferPos' = 0
    BY <2>1, <2>2, <2>3
  <2> QED
    BY <2>6, <2>7
<1>6. ~(e < Len(BufferText)) /\ ~(s > 0)
  BY <1>1, <1>3, <1>4
<1> HIDE DEF s, e
<1> QED
  BY <1>2, <1>5, <1>6, Zenon DEF Buffer!Kill

LEMMA KillSimulates ==
  ASSUME IInv, ed_kill_line
  PROVE  Buffer!Kill
BY KillShape, KillInside, KillLast, KillOnly, Zenon

----------------------------------------------------------------------------
(* The simulation: every step of the editor is one of TextBuffer's. *)
LEMMA InitSimulates == Init => Buffer!Init
<1> SUFFICES ASSUME Init PROVE Buffer!Init
  OBVIOUS
<1>1. lines = <<<<>>>> /\ cx = 0 /\ cy = 0 /\ mode = "shell"
  BY DEF Init
<1>2. BufferText \in Texts
  BY <1>1, OneLine, TextType DEF BufferText, TextOf
<1>3. BufferPos = 0
  <2>1. Above = <<>>
    BY <1>1 DEF Above
  <2>2. Len(Serialized(Above)) = 0
    <3>1. Serialized(Above) = <<>> /\ Len(<<>>) = 0
      BY <2>1, SerializedEmpty
    <3> QED
      BY <3>1
  <2> QED
    BY <1>1, <2>2 DEF BufferPos
<1> QED
  BY <1>1, <1>2, <1>3, Zenon DEF Buffer!Init, Buffer!Texts, Texts

LEMMA OpenSimulates ==
  ASSUME IInv, Open
  PROVE  Buffer!Open
<1>1. mode = "shell" /\ mode' = "edit" /\ lines' = ed_load(file) /\ cx' = 0 /\ cy' = 0
  BY DEF Open
<1>2. lines' \in Buffers
  BY <1>1, LoadType DEF IInv, FileOK
<1>3. BufferText' \in Texts
  BY <1>2, TextType DEF BufferText, TextOf
<1>4. BufferPos' = 0
  <2>1. SubSeq(lines', 1, 0) = <<>> /\ Len(<<>>) = 0
    BY SubSeqEmpty
  <2>2. Above' = <<>>
    BY <1>1, <2>1 DEF Above
  <2>3. Serialized(Above') = <<>>
    BY <2>2, SerializedEmpty
  <2> QED
    BY <1>1, <2>1, <2>3 DEF BufferPos
<1> QED
  BY <1>1, <1>3, <1>4, Zenon DEF Buffer!Open, Buffer!Texts, Texts

LEMMA SameText ==
  ASSUME UNCHANGED <<lines, cursor>>
  PROVE  BufferText' = BufferText /\ BufferPos' = BufferPos
BY DEF BufferText, BufferPos, Above, cursor

LEMMA LeaveSimulates ==
  ASSUME UNCHANGED <<lines, cursor>>, mode # "shell"
  PROVE  Buffer!Close \/ UNCHANGED <<BufferText, BufferPos, mode # "shell">>
<1>1. BufferText' = BufferText /\ BufferPos' = BufferPos
  BY SameText
<1> QED
  BY <1>1 DEF Buffer!Close

LEMMA EditSimulates ==
  ASSUME Editing, Buffer!Edit
  PROVE  Buffer!Next
BY DEF Editing, Buffer!Next

LEMMA StepSimulates ==
  IInv /\ [Next]_vars => [Buffer!Next]_<<BufferText, BufferPos, mode # "shell">>
<1> SUFFICES ASSUME IInv, [Next]_vars
             PROVE  Buffer!Next \/ UNCHANGED <<BufferText, BufferPos, mode # "shell">>
  OBVIOUS
<1>1. CASE Open
  BY <1>1, OpenSimulates DEF Buffer!Next
<1>2. ASSUME NEW c \in Chars, ed_insert_char(c) PROVE Buffer!Next
  <2>1. Buffer!Insert(c) /\ Editing
    BY <1>2, InsertSimulates DEF ed_insert_char
  <2> QED
    BY <2>1, EditSimulates, Zenon DEF Buffer!Edit
<1>3. CASE ed_delete_char
  <2>1. Buffer!Erase /\ Editing
    BY <1>3, DeleteSimulates DEF ed_delete_char, ed_join
  <2> QED
    BY <2>1, EditSimulates, Zenon DEF Buffer!Edit
<1>4. CASE ed_newline
  <2>1. Buffer!Insert(NL) /\ Editing /\ NL \in Chars \cup {NL}
    BY <1>4, NewlineSimulates DEF ed_newline
  <2> QED
    BY <2>1, EditSimulates, Zenon DEF Buffer!Edit
<1>5. CASE ed_kill_line
  <2>1. Buffer!Kill /\ Editing
    BY <1>5, KillSimulates DEF ed_kill_line
  <2> QED
    BY <2>1, EditSimulates, Zenon DEF Buffer!Edit
<1>6. CASE Arrow \/ HomeEnd
  <2>1. Buffer!Move /\ Editing
    BY <1>6, MoveSimulates DEF Arrow, HomeEnd
  <2> QED
    BY <2>1, EditSimulates, Zenon DEF Buffer!Edit
<1>7. CASE Save \/ Quit \/ Answer
  <2>1. UNCHANGED <<lines, cursor>> /\ mode # "shell"
    BY <1>7 DEF Save, Quit, Answer, content
  <2> QED
    BY <2>1, LeaveSimulates DEF Buffer!Next
<1>8. CASE UNCHANGED vars
  <2>1. UNCHANGED <<lines, cursor>> /\ UNCHANGED mode
    BY <1>8 DEF vars, cursor
  <2> QED
    BY <2>1, SameText
<1> QED
  BY <1>1, <1>2, <1>3, <1>4, <1>5, <1>6, <1>7, <1>8 DEF Next

(***************************************************************************)
(* For every limit and every file: every key does to the lines what        *)
(* TextBuffer does to one sequence of characters at its cursor.  What      *)
(* ed_insert_char, ed_newline, ed_delete_char and ed_join, ed_kill_line    *)
(* and the moves across the ends of the lines do is one insertion, one     *)
(* erasure, one line out, or one move in that sequence, and no other       *)
(* character of it changes.                                                *)
(***************************************************************************)
THEOREM EditorIsTextBuffer == Spec => ImplementsTextBuffer
BY InitSimulates, StepSimulates, Invariant, PTL DEF Spec, ImplementsTextBuffer, Buffer!Spec
=============================================================================
