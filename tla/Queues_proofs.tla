---------------------------- MODULE Queues_proofs ----------------------------
(***************************************************************************)
(* Proofs about the queues between threads, about seeks and about the      *)
(* registration, and about the five side by side, for every value of the   *)
(* constants.                                                              *)
(*                                                                         *)
(* Of the output queue, OutputInv is inductive: who holds what (ThreadInv, *)
(* NoThreadInv), why the thread may sleep (WakeInv) and what is left of    *)
(* before a flush (StaleInv).  What is held is a set from which every step *)
(* only takes, but for what a call adds (HeldStep); that is why nothing    *)
(* stale can come back.  Of the ring, SlotInv counts the threads between   *)
(* a semaphore and the ring, and says which object is in which slot.  Of   *)
(* the message queue, MsgInv says that a waiting worker has been woken.    *)
(* Of the registration, SetupInv says what is still in the changes that a  *)
(* call has to make, and in which order.  Of a seek, SeekingInv says what  *)
(* of the old range each of its calls may still meet.                      *)
(*                                                                         *)
(* That a queue is a channel follows from how the sequence of what is      *)
(* still to come out changes in each step (OutOf, Moves).  The operators   *)
(* that select from sequences and join them are recursive functions of the *)
(* library: what they do is proved by induction over numbers and over      *)
(* sequences, from the least counterexample (WFMin).                       *)
(***************************************************************************)
EXTENDS MCQueues, SequenceTheorems, FiniteSetTheorems, WellFoundedInduction, TLAPS

(***************************************************************************)
(* Induction, over sets of numbers and of sequences.                       *)
(***************************************************************************)

\* A set of numbers with 0, and with the next one of each, has them all.
LEMMA NumberInduction ==
  ASSUME NEW T \in SUBSET Nat, 0 \in T, \A n \in T : n + 1 \in T
  PROVE  T = Nat
<1> DEFINE B == Nat \ T
<1>1. SUFFICES ASSUME B # {} PROVE FALSE
  OBVIOUS
<1>2. B \subseteq Nat
  OBVIOUS
<1>3. PICK x \in B : \A y \in B : ~(<<y, x>> \in OpToRel(<, Nat))
  BY Zenon, <1>1, <1>2, NatLessThanWellFounded, WFMin
<1>4. x # 0 /\ x \in Nat
  BY <1>3
<1>5. x - 1 \in Nat /\ x - 1 < x
  BY <1>4
<1>6. <<x - 1, x>> \in OpToRel(<, Nat)
  BY Zenon, <1>4, <1>5 DEF OpToRel
<1>7. x - 1 \notin B
  BY <1>3, <1>6
<1>8. (x - 1) + 1 \in T
  BY <1>5, <1>7
<1> QED BY <1>4, <1>8

\* A set of sequences with the empty one, and with each one that is an element longer
\* than another, has them all.
LEMMA SequenceInduction ==
  ASSUME NEW A, NEW T \in SUBSET Seq(A), <<>> \in T,
         \A s \in T, x \in A : Append(s, x) \in T
  PROVE  T = Seq(A)
<1> DEFINE N == {n \in Nat : \A s \in Seq(A) : Len(s) = n => s \in T}
<1>1. 0 \in N
  OBVIOUS
<1>2. ASSUME NEW n \in N PROVE n + 1 \in N
  <2>1. n \in Nat /\ \A s \in Seq(A) : Len(s) = n => s \in T
    BY <1>2
  <2>2. ASSUME NEW s \in Seq(A), Len(s) = n + 1 PROVE s \in T
    <3>1. s # <<>>
      BY <2>1, <2>2
    <3>2. PICK r \in Seq(A), x \in A : s = Append(r, x)
      BY <3>1, SequenceEmptyOrAppend
    <3>3. Len(s) = Len(r) + 1
      BY <3>2, AppendProperties
    <3>4. Len(r) \in Nat
      OBVIOUS
    <3>5. Len(r) = n
      BY <2>1, <2>2, <3>3, <3>4
    <3> QED BY <2>1, <3>2, <3>5
  <2> QED BY <2>1, <2>2
<1>3. N = Nat
  <2>1. N \in SUBSET Nat
    OBVIOUS
  <2> HIDE DEF N
  <2> QED BY <1>1, <1>2, <2>1, NumberInduction
<1>4. \A s \in Seq(A) : Len(s) \in N
  BY <1>3
<1> QED BY <1>4

-----------------------------------------------------------------------------
(* What FlattenSeq is, whose recursive function exists.                     *)

Flattens(f, n, s) ==
  f = [i \in 1..n |-> IF i = 1 THEN s[i] ELSE f[i - 1] \o s[i]]

\* There is such a function for every number of pieces.
LEMMA FlattensExists ==
  ASSUME NEW s, NEW n \in Nat
  PROVE  \E f : Flattens(f, n, s)
<1> DEFINE T == {k \in Nat : \E f : Flattens(f, k, s)}
<1>1. 0 \in T
  <2>1. Flattens(<<>>, 0, s)
    BY DEF Flattens
  <2> QED BY <2>1
<1>2. ASSUME NEW k \in T PROVE k + 1 \in T
  <2>1. PICK f : Flattens(f, k, s)
    BY <1>2
  <2>2. k \in Nat
    BY <1>2
  <2> DEFINE next == IF k + 1 = 1 THEN s[k + 1] ELSE f[k] \o s[k + 1]
             g == [i \in 1..(k + 1) |-> IF i = k + 1 THEN next ELSE f[i]]
  <2>3. \A i \in 1..(k + 1) : i # 1 => i - 1 \in 1..k /\ g[i - 1] = f[i - 1]
    BY <2>2
  <2>4. \A i \in 1..(k + 1) : g[i] = IF i = 1 THEN s[i] ELSE g[i - 1] \o s[i]
    <3> TAKE i \in 1..(k + 1)
    <3>1. CASE i = k + 1
      BY <2>2, <2>3, <3>1
    <3>2. CASE i # k + 1
      <4>1. i \in 1..k
        BY <2>2, <3>2
      <4>2. f[i] = IF i = 1 THEN s[i] ELSE f[i - 1] \o s[i]
        BY <2>1, <4>1 DEF Flattens
      <4> HIDE DEF next
      <4> QED BY <2>3, <3>2, <4>1, <4>2
    <3> QED BY <3>1, <3>2
  <2>5. Flattens(g, k + 1, s)
    <3>1. g = [i \in 1..(k + 1) |-> g[i]]
      OBVIOUS
    <3> HIDE DEF g
    <3> QED BY <2>4, <3>1 DEF Flattens
  <2>6. k + 1 \in Nat
    BY <2>2
  <2> HIDE DEF g
  <2> QED BY <2>5, <2>6
<1>3. T = Nat
  <2>1. T \in SUBSET Nat
    OBVIOUS
  <2> HIDE DEF T
  <2> QED BY <1>1, <1>2, <2>1, NumberInduction
<1> QED BY <1>3

\* FlattenSeq, which chooses one, is its last value.
LEMMA FlattenSeqIs ==
  ASSUME NEW s, Len(s) \in Nat
  PROVE  \E f : /\ Flattens(f, Len(s), s)
               /\ FlattenSeq(s) = IF Len(s) = 0 THEN s ELSE f[Len(s)]
<1>1. \E f : Flattens(f, Len(s), s)
  BY FlattensExists
<1>2. Flattens(CHOOSE f : Flattens(f, Len(s), s), Len(s), s)
  BY <1>1
<1> QED BY <1>2 DEF FlattenSeq, Flattens

\* Two such functions agree where both are defined.
LEMMA FlattensAgree ==
  ASSUME NEW s, NEW t, NEW f, NEW g, NEW m \in Nat, NEW n \in Nat, m <= n,
         Flattens(f, m, s), Flattens(g, n, t), \A i \in 1..m : s[i] = t[i]
  PROVE  \A i \in 1..m : f[i] = g[i]
<1> DEFINE T == {k \in Nat : k \in 1..m => f[k] = g[k]}
<1>1. 0 \in T
  OBVIOUS
<1>2. ASSUME NEW k \in T PROVE k + 1 \in T
  <2>1. k \in Nat /\ (k \in 1..m => f[k] = g[k])
    BY <1>2
  <2>2. ASSUME k + 1 \in 1..m PROVE f[k + 1] = g[k + 1]
    <3>1. f[k + 1] = IF k + 1 = 1 THEN s[k + 1] ELSE f[(k + 1) - 1] \o s[k + 1]
      BY <2>1, <2>2 DEF Flattens
    <3>2. k + 1 \in 1..n
      BY <2>1, <2>2
    <3>3. g[k + 1] = IF k + 1 = 1 THEN t[k + 1] ELSE g[(k + 1) - 1] \o t[k + 1]
      BY <3>2 DEF Flattens
    <3>4. (k + 1) - 1 = k /\ (k + 1 # 1 => k \in 1..m)
      BY <2>1, <2>2
    <3> QED BY <2>1, <2>2, <3>1, <3>3, <3>4
  <2>3. k + 1 \in Nat
    BY <2>1
  <2> QED BY <2>2, <2>3
<1>3. T = Nat
  <2>1. T \in SUBSET Nat
    OBVIOUS
  <2> HIDE DEF T
  <2> QED BY <1>1, <1>2, <2>1, NumberInduction
<1> QED BY <1>3

\* One piece more comes at the end.
LEMMA FlattenAppend ==
  ASSUME NEW A, NEW s \in Seq(Seq(A)), NEW x \in Seq(A), FlattenSeq(s) \in Seq(A)
  PROVE  FlattenSeq(Append(s, x)) = FlattenSeq(s) \o x
<1> DEFINE t == Append(s, x)
           n == Len(s)
<1>1. n \in Nat /\ Len(t) = n + 1 /\ t[n + 1] = x /\ \A i \in 1..n : s[i] = t[i]
  OBVIOUS
<1>2. PICK f : Flattens(f, n, s) /\ FlattenSeq(s) = IF n = 0 THEN s ELSE f[n]
  <2>1. Len(s) \in Nat
    OBVIOUS
  <2> QED BY <2>1, FlattenSeqIs
<1> HIDE DEF t
<1>3. PICK g : /\ Flattens(g, n + 1, t)
               /\ FlattenSeq(t) = IF n + 1 = 0 THEN t ELSE g[n + 1]
  <2>1. Len(t) \in Nat
    BY <1>1
  <2> QED BY <1>1, <2>1, FlattenSeqIs
<1>4. FlattenSeq(t) = g[n + 1]
  BY <1>1, <1>3
<1>5. g[n + 1] = IF n + 1 = 1 THEN t[n + 1] ELSE g[(n + 1) - 1] \o t[n + 1]
  <2>1. n + 1 \in 1..(n + 1)
    BY <1>1
  <2> HIDE DEF n
  <2> QED BY <1>3, <2>1 DEF Flattens
<1>6. CASE n = 0
  <2>1. s = <<>> /\ <<>> \o x = x
    BY <1>6
  <2> QED BY <1>1, <1>2, <1>4, <1>5, <1>6, <2>1 DEF t
<1>7. CASE n # 0
  <2>1. n \in 1..n /\ n <= n + 1 /\ n + 1 \in Nat /\ n + 1 # 1 /\ (n + 1) - 1 = n
    BY <1>1, <1>7
  <2> HIDE DEF n
  <2>2. \A i \in 1..n : f[i] = g[i]
    <3>1. n \in Nat /\ \A i \in 1..n : s[i] = t[i]
      BY <1>1
    <3>2. Flattens(f, n, s) /\ Flattens(g, n + 1, t)
      BY <1>2, <1>3
    <3>3. n + 1 \in Nat /\ n <= n + 1
      BY <2>1
    <3> QED BY <3>1, <3>2, <3>3, FlattensAgree
  <2> QED BY <1>1, <1>2, <1>4, <1>5, <1>7, <2>1, <2>2 DEF t
<1> QED BY <1>6, <1>7

-----------------------------------------------------------------------------
(* What OfKinds selects.                                                    *)

Piece(kinds, x) == IF x.kind \in kinds THEN <<x>> ELSE <<>>

\* OfKinds is the flattening of one piece for each item: the item itself, or nothing.
LEMMA OfKindsIs ==
  ASSUME NEW A, NEW kinds, NEW s \in Seq(A)
  PROVE  /\ OfKinds(kinds, s) = FlattenSeq([n \in 1..Len(s) |-> Piece(kinds, s[n])])
         /\ [n \in 1..Len(s) |-> Piece(kinds, s[n])] \in Seq(Seq(A))
<1>1. \A x \in A : Piece(kinds, x) \in Seq(A)
  BY DEF Piece
<1>2. Len(s) \in Nat /\ \A n \in 1..Len(s) : s[n] \in A
  OBVIOUS
<1>3. \A n \in 1..Len(s) : Piece(kinds, s[n]) \in Seq(A)
  BY <1>1, <1>2
<1> QED BY <1>2, <1>3 DEF OfKinds, Piece

\* Of no items, nothing is selected.
LEMMA OfNoItems == \A kinds : OfKinds(kinds, <<>>) = <<>>
<1> TAKE kinds
<1>1. [n \in 1..Len(<<>>) |-> Piece(kinds, <<>>[n])] = <<>>
  OBVIOUS
<1>2. FlattenSeq(<<>>) = <<>>
  <2>1. Len(<<>>) = 0
    OBVIOUS
  <2>2. PICK f : FlattenSeq(<<>>) = IF Len(<<>>) = 0 THEN <<>> ELSE f[Len(<<>>)]
    BY <2>1, FlattenSeqIs
  <2> QED BY <2>1, <2>2
<1>3. OfKinds(kinds, <<>>) = FlattenSeq([n \in 1..Len(<<>>) |-> Piece(kinds, <<>>[n])])
  BY EmptySeq, OfKindsIs
<1> QED BY <1>1, <1>2, <1>3

\* One item more, where the pieces so far make a sequence.
LEMMA OfOneMore ==
  ASSUME NEW A, NEW kinds, NEW s \in Seq(A), NEW x \in A, OfKinds(kinds, s) \in Seq(A)
  PROVE  OfKinds(kinds, Append(s, x)) = OfKinds(kinds, s) \o Piece(kinds, x)
<1> DEFINE p == [n \in 1..Len(s) |-> Piece(kinds, s[n])]
           t == Append(s, x)
           q == [n \in 1..Len(t) |-> Piece(kinds, t[n])]
<1>1. OfKinds(kinds, s) = FlattenSeq(p) /\ p \in Seq(Seq(A))
  BY OfKindsIs
<1>2. t \in Seq(A) /\ Len(t) = Len(s) + 1 /\ t[Len(s) + 1] = x
      /\ \A n \in 1..Len(s) : t[n] = s[n]
  OBVIOUS
<1>3. OfKinds(kinds, t) = FlattenSeq(q) /\ q \in Seq(Seq(A))
  <2> HIDE DEF t
  <2> QED BY <1>2, OfKindsIs
<1>4. Piece(kinds, x) \in Seq(A)
  BY DEF Piece
<1>5. Len(p) = Len(s) /\ Len(q) = Len(s) + 1 /\ Len(s) \in Nat
  BY <1>2
<1>6. \A n \in 1..Len(s) : p[n] = q[n]
  BY <1>2
<1>7. q[Len(s) + 1] = Piece(kinds, x)
  BY <1>2
<1> HIDE DEF p, q, t
<1>8. q = Append(p, Piece(kinds, x))
  <2> DEFINE r == Append(p, Piece(kinds, x))
  <2>1. r \in Seq(Seq(A)) /\ Len(r) = Len(s) + 1
    BY <1>1, <1>4, <1>5
  <2>2. \A n \in 1..(Len(s) + 1) : q[n] = r[n]
    BY <1>1, <1>4, <1>5, <1>6, <1>7
  <2> HIDE DEF r
  <2>3. q = r
    BY <1>3, <1>5, <2>1, <2>2, SeqEqual
  <2> QED BY <2>3 DEF r
<1>9. FlattenSeq(Append(p, Piece(kinds, x))) = FlattenSeq(p) \o Piece(kinds, x)
  BY <1>1, <1>4, FlattenAppend
<1> QED BY <1>1, <1>3, <1>8, <1>9 DEF t

\* One item more is selected, or not.
LEMMA OfKindsAppend ==
  ASSUME NEW A, NEW kinds, NEW s \in Seq(A), NEW x \in A
  PROVE  /\ OfKinds(kinds, s) \in Seq(A)
         /\ OfKinds(kinds, Append(s, x)) =
              IF x.kind \in kinds THEN Append(OfKinds(kinds, s), x) ELSE OfKinds(kinds, s)
<1> DEFINE T == {r \in Seq(A) : OfKinds(kinds, r) \in Seq(A)}
<1>1. <<>> \in T
  <2>1. OfKinds(kinds, <<>>) = <<>> /\ <<>> \in Seq(A)
    BY OfNoItems, EmptySeq
  <2>2. OfKinds(kinds, <<>>) \in Seq(A)
    BY Zenon, <2>1
  <2> QED BY Zenon, <2>1, <2>2
<1>2. ASSUME NEW r \in T, NEW y \in A PROVE Append(r, y) \in T
  <2>1. r \in Seq(A) /\ OfKinds(kinds, r) \in Seq(A)
    BY <1>2
  <2>2. OfKinds(kinds, Append(r, y)) = OfKinds(kinds, r) \o Piece(kinds, y)
    BY <2>1, OfOneMore
  <2>3. Piece(kinds, y) \in Seq(A) /\ Append(r, y) \in Seq(A)
    BY <2>1 DEF Piece
  <2>4. OfKinds(kinds, r) \o Piece(kinds, y) \in Seq(A)
    BY <2>1, <2>3, ConcatProperties
  <2> QED BY <2>2, <2>3, <2>4
<1>3. T = Seq(A)
  <2>1. T \in SUBSET Seq(A)
    OBVIOUS
  <2> HIDE DEF T
  <2> QED BY <1>1, <1>2, <2>1, SequenceInduction
<1>4. OfKinds(kinds, s) \in Seq(A)
  BY <1>3
<1>5. OfKinds(kinds, Append(s, x)) = OfKinds(kinds, s) \o Piece(kinds, x)
  BY <1>4, OfOneMore
<1> QED BY <1>4, <1>5 DEF Piece

\* What is selected are items of the same set.
LEMMA OfKindsType ==
  ASSUME NEW A, NEW kinds, NEW s \in Seq(A)
  PROVE  OfKinds(kinds, s) \in Seq(A)
<1>1. CASE s = <<>>
  BY <1>1, OfNoItems
<1>2. CASE s # <<>>
  <2>1. s[1] \in A
    BY <1>2
  <2> QED BY <2>1, OfKindsAppend
<1> QED BY <1>1, <1>2

\* An element more at the end of a part at the end.
LEMMA ConcatAppend ==
  ASSUME NEW A, NEW s \in Seq(A), NEW t \in Seq(A), NEW x \in A
  PROVE  s \o Append(t, x) = Append(s \o t, x)
<1>1. Append(t, x) = t \o <<x>> /\ <<x>> \in Seq(A) /\ s \o t \in Seq(A)
  BY AppendIsConcat
<1> DEFINE u == s \o t
<1>2. Append(u, x) = u \o <<x>>
  <2> HIDE DEF u
  <2>1. u \in Seq(A)
    BY <1>1 DEF u
  <2> QED BY <2>1, AppendIsConcat
<1> QED BY <1>1, <1>2, ConcatAssociative

\* What is selected of two sequences after each other is what is selected of each.
LEMMA OfKindsCat ==
  ASSUME NEW A, NEW kinds, NEW s \in Seq(A), NEW t \in Seq(A)
  PROVE  OfKinds(kinds, s \o t) = OfKinds(kinds, s) \o OfKinds(kinds, t)
<1> DEFINE T == {r \in Seq(A) : OfKinds(kinds, s \o r) = OfKinds(kinds, s) \o OfKinds(kinds, r)}
<1>1. <<>> \in T
  <2>1. OfKinds(kinds, s) \in Seq(A)
    BY OfKindsType
  <2>2. s \o <<>> = s /\ OfKinds(kinds, s) \o <<>> = OfKinds(kinds, s)
    BY <2>1, ConcatEmptySeq
  <2>3. OfKinds(kinds, <<>>) = <<>> /\ <<>> \in Seq(A)
    BY OfNoItems, EmptySeq
  <2> QED BY Zenon, <2>2, <2>3
<1>2. ASSUME NEW r \in T, NEW x \in A PROVE Append(r, x) \in T
  <2>1. r \in Seq(A) /\ OfKinds(kinds, s \o r) = OfKinds(kinds, s) \o OfKinds(kinds, r)
    BY <1>2
  <2>2. s \o r \in Seq(A) /\ Append(r, x) \in Seq(A)
        /\ s \o Append(r, x) = Append(s \o r, x)
    BY <2>1
  <2>3. OfKinds(kinds, s) \in Seq(A) /\ OfKinds(kinds, r) \in Seq(A)
    BY <2>1, OfKindsType
  <2>4. OfKinds(kinds, Append(r, x)) =
          IF x.kind \in kinds THEN Append(OfKinds(kinds, r), x) ELSE OfKinds(kinds, r)
    BY <2>1, OfKindsAppend
  <2>5. OfKinds(kinds, Append(s \o r, x)) =
          IF x.kind \in kinds THEN Append(OfKinds(kinds, s \o r), x)
          ELSE OfKinds(kinds, s \o r)
    <3> DEFINE u == s \o r
    <3>1. u \in Seq(A)
      BY <2>2
    <3> HIDE DEF u
    <3>2. OfKinds(kinds, Append(u, x)) =
            IF x.kind \in kinds THEN Append(OfKinds(kinds, u), x) ELSE OfKinds(kinds, u)
      BY <3>1, OfKindsAppend
    <3> QED BY <3>2 DEF u
  <2>6. OfKinds(kinds, s) \o Append(OfKinds(kinds, r), x) =
          Append(OfKinds(kinds, s) \o OfKinds(kinds, r), x)
    BY <2>3, ConcatAppend
  <2> QED BY <2>1, <2>2, <2>3, <2>4, <2>5, <2>6
<1>3. T = Seq(A)
  <2>1. T \in SUBSET Seq(A)
    OBVIOUS
  <2> HIDE DEF T
  <2> QED BY <1>1, <1>2, <2>1, SequenceInduction
<1> QED BY <1>3

\* Of items of these kinds all are selected, ...
LEMMA OfKindsAll ==
  ASSUME NEW A, NEW kinds, NEW s \in Seq(A), \A i \in 1..Len(s) : s[i].kind \in kinds
  PROVE  OfKinds(kinds, s) = s
<1> DEFINE B == {x \in A : x.kind \in kinds}
           T == {r \in Seq(B) : OfKinds(kinds, r) = r}
<1>1. <<>> \in T
  BY OfNoItems
<1>2. ASSUME NEW r \in T, NEW x \in B PROVE Append(r, x) \in T
  <2>1. r \in Seq(B) /\ OfKinds(kinds, r) = r
    BY <1>2
  <2>2. x.kind \in kinds
    BY <1>2
  <2> HIDE DEF B
  <2>3. Append(r, x) \in Seq(B)
    BY <1>2, <2>1
  <2> QED BY <1>2, <2>1, <2>2, <2>3, OfKindsAppend
<1>3. T = Seq(B)
  <2>1. T \in SUBSET Seq(B)
    OBVIOUS
  <2> HIDE DEF T, B
  <2> QED BY <1>1, <1>2, <2>1, SequenceInduction
<1>4. s \in Seq(B)
  OBVIOUS
<1> QED BY <1>3, <1>4

\* ... of items of other kinds none is, ...
LEMMA OfKindsNone ==
  ASSUME NEW A, NEW kinds, NEW s \in Seq(A), \A i \in 1..Len(s) : s[i].kind \notin kinds
  PROVE  OfKinds(kinds, s) = <<>>
<1> DEFINE B == {x \in A : x.kind \notin kinds}
           T == {r \in Seq(B) : OfKinds(kinds, r) = <<>>}
<1>1. <<>> \in T
  BY OfNoItems
<1>2. ASSUME NEW r \in T, NEW x \in B PROVE Append(r, x) \in T
  <2>1. r \in Seq(B) /\ OfKinds(kinds, r) = <<>>
    BY <1>2
  <2>2. x.kind \notin kinds
    BY <1>2
  <2> HIDE DEF B
  <2>3. Append(r, x) \in Seq(B)
    BY <1>2, <2>1
  <2> QED BY <1>2, <2>1, <2>2, <2>3, OfKindsAppend
<1>3. T = Seq(B)
  <2>1. T \in SUBSET Seq(B)
    OBVIOUS
  <2> HIDE DEF T, B
  <2> QED BY <1>1, <1>2, <2>1, SequenceInduction
<1>4. s \in Seq(B)
  OBVIOUS
<1> QED BY <1>3, <1>4

\* ... and kinds that do not differ on the items select the same.
LEMMA OfSameKinds ==
  ASSUME NEW A, NEW kinds, NEW others, NEW s \in Seq(A),
         \A i \in 1..Len(s) : s[i].kind \in kinds <=> s[i].kind \in others
  PROVE  OfKinds(kinds, s) = OfKinds(others, s)
<1>1. [n \in 1..Len(s) |-> IF s[n].kind \in kinds THEN <<s[n]>> ELSE <<>>] =
        [n \in 1..Len(s) |-> IF s[n].kind \in others THEN <<s[n]>> ELSE <<>>]
  OBVIOUS
<1> QED BY <1>1 DEF OfKinds

(***************************************************************************)
(* The output queue: what its variables are                                *)
(***************************************************************************)

\* The least of some numbers is one of them, and no other is less.
LEMMA MinIs ==
  ASSUME NEW N \in SUBSET Nat, N # {}
  PROVE  Min(N) \in N /\ \A y \in N : Min(N) <= y
<1>1. PICK x \in N : \A y \in N : ~(<<y, x>> \in OpToRel(<, Nat))
  BY Zenon, NatLessThanWellFounded, WFMin
<1>2. ASSUME NEW y \in N PROVE x <= y
  <2>1. SUFFICES ASSUME y < x PROVE FALSE
    OBVIOUS
  <2>2. x \in Nat /\ y \in Nat
    OBVIOUS
  <2>3. <<y, x>> \in OpToRel(<, Nat)
    BY Zenon, <2>1, <2>2 DEF OpToRel
  <2> QED BY <1>1, <2>3
<1>3. \E z \in N : \A y \in N : z <= y
  BY <1>2
<1> QED BY Zenon, <1>3 DEF Min

Samples == [kind : {"sample"}, id : 1..MaxItems]
Enders == [kind : {"eos", "segment"}, id : 1..MaxItems]
Packets == {Message("send"), Message("reset")}
Queueable == Samples \cup Enders \cup Packets

QTyped ==
  /\ list \in Seq(Queueable)
  /\ batched \in Seq(Samples) /\ sending \in Seq(Samples)
  /\ pSample \in Enders \cup Packets \cup {Nothing}
  /\ out \in Seq(Things)

PlacesTyped ==
  /\ thread \in {"top", "waiting", "send", "receive", "act", "ended"}
  /\ producer \in {"out", "segment"}
  /\ control \in {"idle", "beginning", "flushing", "ending", "complete", "ended", "resetting",
                  "closing", "closed"}
FlagsTyped ==
  /\ m_hr \in {"S_OK", "S_FALSE"}
  /\ m_bFlushing \in BOOLEAN /\ m_bFlushed \in BOOLEAN /\ m_bTerminate \in BOOLEAN
  /\ evFlushComplete \in BOOLEAN
  /\ downFlushing \in BOOLEAN
  /\ early \in BOOLEAN
CountsTyped ==
  /\ m_lWaiting \in Nat /\ sem \in Nat
  /\ accepted \in 0..MaxItems /\ floor \in 0..accepted
  /\ flushes \in 0..MaxFlushes
  /\ producer = "segment" => accepted < MaxItems
OneTyped ==
  /\ setting \in UsualSettings /\ setting \in Settings
  /\ PlacesTyped /\ FlagsTyped /\ CountsTyped

QTypes == QTyped /\ OneTyped

\* What the queue holds: samples, what ends a batch, and packets, which do not come
\* out.
LEMMA ThingsAre ==
  /\ Things = Samples \cup Enders
  /\ \A x \in Samples : x.kind = "sample" /\ x.id \in 1..MaxItems
  /\ \A x \in Enders : x.kind \in {"eos", "segment"} /\ x.id \in 1..MaxItems
  /\ \A x \in Packets : x.kind \in {"send", "reset"} /\ x.id = 0
  /\ Nothing.kind = "nothing" /\ Nothing.id = 0
<1>1. \A x \in Samples : x.kind = "sample" /\ x.id \in 1..MaxItems
  BY DEF Samples
<1>2. \A x \in Enders : x.kind \in {"eos", "segment"} /\ x.id \in 1..MaxItems
  BY DEF Enders
<1>3. \A x \in Packets : x.kind \in {"send", "reset"} /\ x.id = 0
  BY DEF Packets, Message
<1>4. Nothing.kind = "nothing" /\ Nothing.id = 0
  BY DEF Nothing, Message
<1>5. Samples \cup Enders \subseteq Things
  BY DEF Things, Samples, Enders, Kinds
<1>6. Things \subseteq Samples \cup Enders
  BY DEF Things, Samples, Enders, Kinds
<1> QED BY <1>1, <1>2, <1>3, <1>4, <1>5, <1>6

\* Items that are in a set and of these kinds.
LEMMA OfKindsIn ==
  ASSUME NEW A, NEW kinds, NEW s \in Seq(A)
  PROVE  OfKinds(kinds, s) \in Seq({x \in A : x.kind \in kinds})
<1> DEFINE B == {x \in A : x.kind \in kinds}
           T == {r \in Seq(A) : OfKinds(kinds, r) \in Seq(B)}
<1>1. <<>> \in T
  <2> HIDE DEF B
  <2>1. <<>> \in Seq(A) /\ <<>> \in Seq(B)
    BY EmptySeq
  <2>2. OfKinds(kinds, <<>>) = <<>>
    BY OfNoItems
  <2> QED BY Zenon, <2>1, <2>2
<1>2. ASSUME NEW r \in T, NEW x \in A PROVE Append(r, x) \in T
  <2>1. r \in Seq(A) /\ OfKinds(kinds, r) \in Seq(B)
    BY <1>2
  <2>2. Append(r, x) \in Seq(A)
    BY <2>1
  <2>3. OfKinds(kinds, Append(r, x)) =
          IF x.kind \in kinds THEN Append(OfKinds(kinds, r), x) ELSE OfKinds(kinds, r)
    BY <2>1, OfKindsAppend
  <2>4. x.kind \in kinds => x \in B
    OBVIOUS
  <2> HIDE DEF B
  <2>5. OfKinds(kinds, Append(r, x)) \in Seq(B)
    BY <2>1, <2>3, <2>4
  <2> QED BY <2>2, <2>5
<1>3. T = Seq(A)
  <2>1. T \in SUBSET Seq(A)
    OBVIOUS
  <2> HIDE DEF T, B
  <2> QED BY <1>1, <1>2, <2>1, SequenceInduction
<1> QED BY <1>3

\* The samples of a list of items.
LEMMA SamplesOf ==
  ASSUME NEW s \in Seq(Queueable)
  PROVE  OfKinds({"sample"}, s) \in Seq(Samples)
<1>1. {x \in Queueable : x.kind \in {"sample"}} \subseteq Samples
  BY ThingsAre DEF Queueable
<1>2. OfKinds({"sample"}, s) \in Seq({x \in Queueable : x.kind \in {"sample"}})
  BY OfKindsIn
<1> QED BY <1>1, <1>2, SeqMonotonic

-----------------------------------------------------------------------------
(* What the thread takes.                                                   *)

\* Of list, taken goes and the rest stays.
TakenOff(taken) ==
  /\ taken \in Seq(Queueable) /\ list' \in Seq(Queueable) /\ list = taken \o list'
  /\ pSample' \in Enders \cup Packets \cup {Nothing}
  /\ pSample' = Nothing \/ \E i \in 1..Len(list) : pSample' = list[i]
  /\ OfKinds(Kinds, taken) = OfKinds({"sample"}, taken) \o Piece(Kinds, pSample')

\* A batch to send, or one that waits for more.
BatchReady(taken) ==
  /\ thread' = "send" /\ wait' = wait
  /\ sending' = batched \o OfKinds({"sample"}, taken) /\ batched' = <<>>
BatchKept(taken) ==
  /\ thread' = "waiting" /\ m_lWaiting' = m_lWaiting + 1
  /\ UNCHANGED <<sem, evFlushComplete, pSample, sending>>
  /\ list' = <<>> /\ batched' = batched \o OfKinds({"sample"}, taken)
  /\ (setting.exact \/ batched' = <<>>) /\ Len(batched') < setting.size

\* No item of a list ends the batch: it does not get full.
LEMMA BatchGrows ==
  ASSUME QTypes, Len(batched) < setting.size, NEW k \in 0..Len(list),
         \A n \in 1..k : ~Ends(n)
  PROVE  Len(Batch(k)) < setting.size
<1> DEFINE T == {n \in Nat : n <= k => Len(Batch(n)) < setting.size}
<1>1. 0 \in T
  <2>1. SubSeq(list, 1, 0) = <<>>
    BY DEF QTypes, QTyped, OneTyped, CountsTyped
  <2>2. Batch(0) = batched
    BY <2>1, OfNoItems, ConcatEmptySeq DEF Batch, QTypes, QTyped, OneTyped, CountsTyped
  <2> QED BY <2>2
<1>2. ASSUME NEW n \in T PROVE n + 1 \in T
  <2>1. n \in Nat /\ (n <= k => Len(Batch(n)) < setting.size) /\ n + 1 \in Nat
    BY <1>2
  <2>2. ASSUME n + 1 <= k PROVE Len(Batch(n + 1)) < setting.size
    <3> DEFINE l == SubSeq(list, 1, n)
               x == list[n + 1]
    <3>1. Len(list) \in Nat /\ n + 1 \in 1..Len(list) /\ n + 1 \in 1..k
      BY <2>1, <2>2 DEF QTypes, QTyped, OneTyped, CountsTyped
    <3>2. l \in Seq(Queueable) /\ x \in Queueable /\ SubSeq(list, 1, n + 1) = Append(l, x)
      BY <2>1, <3>1 DEF QTypes, QTyped, OneTyped, CountsTyped
    <3>3. OfKinds({"sample"}, Append(l, x)) =
            IF x.kind \in {"sample"} THEN Append(OfKinds({"sample"}, l), x)
            ELSE OfKinds({"sample"}, l)
      <4> HIDE DEF l, x
      <4> QED BY <3>2, OfKindsAppend
    <3> DEFINE o == OfKinds({"sample"}, l)
    <3>4. o \in Seq(Samples) /\ batched \in Seq(Samples)
      BY <3>2, SamplesOf DEF QTypes, QTyped, OneTyped, CountsTyped
    <3>5. Batch(n) = batched \o o
      BY DEF Batch
    <3>6. Batch(n + 1) = batched \o OfKinds({"sample"}, Append(l, x))
      BY <3>2 DEF Batch
    <3>7. CASE x.kind = "sample"
      <4>1. Batch(n + 1) = batched \o Append(o, x)
        BY <3>3, <3>6, <3>7
      <4>2. x \in Samples
        BY <3>2, <3>7, ThingsAre DEF Queueable
      <4>3. Len(Batch(n + 1)) = Len(Batch(n)) + 1
        <5> HIDE DEF o, x
        <5> QED BY <3>4, <3>5, <4>1, <4>2
      <4>4. Len(Batch(n + 1)) # setting.size
        BY <3>1, <3>7 DEF Ends
      <4>5. Len(Batch(n)) \in Nat
        <5> HIDE DEF o
        <5> QED BY <3>4, <3>5
      <4>6. setting.size \in Nat
        BY DEF QTypes, OneTyped, UsualSettings, AllSettings
      <4> QED BY <2>1, <2>2, <4>3, <4>4, <4>5, <4>6
    <3>8. CASE x.kind # "sample"
      <4>1. Batch(n + 1) = Batch(n)
        BY <3>3, <3>5, <3>6, <3>8
      <4> QED BY <2>1, <2>2, <4>1
    <3> QED BY <3>7, <3>8
  <2> QED BY <2>1, <2>2
<1>3. T = Nat
  <2>1. T \in SUBSET Nat
    OBVIOUS
  <2> HIDE DEF T
  <2> QED BY <1>1, <1>2, <2>1, NumberInduction
<1>4. k \in Nat /\ k <= k
  BY DEF QTypes, QTyped, OneTyped, CountsTyped
<1> HIDE DEF T
<1>5. k \in T
  BY <1>3, <1>4
<1> QED BY <1>4, <1>5 DEF T

\* The items before the one that ends the batch are samples, or say "send".
LEMMA TakeDoes ==
  ASSUME QTypes, NEW n \in 1..Len(list), Take(n), \A k \in 1..(n - 1) : ~Ends(k)
  PROVE  /\ TakenOff(SubSeq(list, 1, n))
         /\ sending' = batched \o OfKinds({"sample"}, SubSeq(list, 1, n))
         /\ batched' = <<>>
<1> DEFINE l == SubSeq(list, 1, n - 1)
           x == list[n]
<1>1. Len(list) \in Nat /\ n \in Nat /\ list \in Seq(Queueable)
  BY DEF QTypes, QTyped, OneTyped, CountsTyped
<1>2. l \in Seq(Queueable) /\ x \in Queueable /\ SubSeq(list, 1, n) = Append(l, x)
      /\ SubSeq(list, 1, n) \in Seq(Queueable)
  BY <1>1
<1>3. list' \in Seq(Queueable) /\ list = SubSeq(list, 1, n) \o list'
  <2>1. list' = SubSeq(list, n + 1, Len(list))
    BY DEF Take
  <2>2. ASSUME NEW s \in Seq(Queueable), NEW i \in 1..Len(s)
        PROVE  /\ SubSeq(s, i + 1, Len(s)) \in Seq(Queueable)
               /\ s = SubSeq(s, 1, i) \o SubSeq(s, i + 1, Len(s))
    BY <2>2
  <2> QED BY <1>1, <2>1, <2>2
<1>4. \A k \in 1..(n - 1) : list[k].kind \in {"sample", "send"}
  BY DEF Ends
<1>5. OfKinds(Kinds, l) = OfKinds({"sample"}, l)
  <2>1. \A k \in 1..Len(l) : l[k].kind \in {"sample", "send"}
    BY <1>1, <1>4
  <2>2. PICK others : others = {"sample"}
    OBVIOUS
  <2>3. \A k \in 1..Len(l) : l[k].kind \in Kinds <=> l[k].kind \in others
    BY <2>1, <2>2 DEF Kinds
  <2> HIDE DEF l
  <2>4. OfKinds(Kinds, l) = OfKinds(others, l)
    BY <1>2, <2>3, OfSameKinds
  <2> QED BY <2>2, <2>4
<1> DEFINE o == OfKinds({"sample"}, l)
<1>6. o \in Seq(Queueable)
  BY <1>2, OfKindsType
<1> HIDE DEF l
<1>7. /\ OfKinds({"sample"}, Append(l, x)) = IF x.kind \in {"sample"} THEN Append(o, x) ELSE o
      /\ OfKinds(Kinds, Append(l, x)) = IF x.kind \in Kinds THEN Append(o, x) ELSE o
  <2>1. OfKinds({"sample"}, Append(l, x)) = IF x.kind \in {"sample"} THEN Append(o, x) ELSE o
    <3> HIDE DEF x
    <3> QED BY <1>2, OfKindsAppend DEF o
  <2>2. OfKinds(Kinds, Append(l, x)) = IF x.kind \in Kinds THEN Append(o, x) ELSE o
    <3> HIDE DEF x
    <3> QED BY <1>2, <1>5, OfKindsAppend DEF o
  <2> QED BY <2>1, <2>2
<1> HIDE DEF o
<1>8. pSample' \in Enders \cup Packets \cup {Nothing}
      /\ (pSample' = Nothing \/ \E i \in 1..Len(list) : pSample' = list[i])
  BY <1>2, ThingsAre DEF Take, Queueable
<1>9. OfKinds(Kinds, Append(l, x)) = OfKinds({"sample"}, Append(l, x)) \o Piece(Kinds, pSample')
  <2>1. CASE x.kind = "sample"
    <3>1. Piece(Kinds, pSample') = <<>>
      BY <2>1, ThingsAre DEF Take, Piece, Kinds
    <3>2. x.kind \in Kinds /\ x.kind \in {"sample"}
      BY <2>1 DEF Kinds
    <3>3. Append(o, x) \o <<>> = Append(o, x)
      BY <1>2, <1>6
    <3> QED BY Zenon, <1>7, <3>1, <3>2, <3>3
  <2>2. CASE x.kind # "sample"
    <3>1. pSample' = x
      BY <2>2 DEF Take
    <3>2. OfKinds({"sample"}, Append(l, x)) = o
      BY <1>7, <2>2
    <3>3. CASE x.kind \in Kinds
      <4>1. OfKinds(Kinds, Append(l, x)) = Append(o, x) /\ Piece(Kinds, pSample') = <<x>>
        BY <1>7, <3>1, <3>3 DEF Piece
      <4> QED BY <1>2, <1>6, <3>2, <4>1, AppendIsConcat
    <3>4. CASE x.kind \notin Kinds
      <4>1. OfKinds(Kinds, Append(l, x)) = o /\ Piece(Kinds, pSample') = <<>>
        BY <1>7, <3>1, <3>4 DEF Piece
      <4> QED BY <1>6, <3>2, <4>1, ConcatEmptySeq
    <3> QED BY <3>3, <3>4
  <2> QED BY <2>1, <2>2
<1>10. sending' = batched \o OfKinds({"sample"}, SubSeq(list, 1, n)) /\ batched' = <<>>
  BY DEF Take, Batch
<1>11. OfKinds(Kinds, SubSeq(list, 1, n)) =
         OfKinds({"sample"}, SubSeq(list, 1, n)) \o Piece(Kinds, pSample')
  BY <1>2, <1>9
<1> QED BY <1>2, <1>3, <1>8, <1>10, <1>11 DEF TakenOff

\* The thread drops everything, or takes the items up to the one that ends the batch.
LEMMA GetBatchDoes ==
  ASSUME QTypes, GetBatch, pSample = Nothing, Len(batched) < setting.size
  PROVE  \/ /\ m_bTerminate \/ m_bFlushing
            /\ FreeSamples
         \/ /\ ~m_bTerminate /\ ~m_bFlushing
            /\ \E taken : TakenOff(taken) /\ (BatchReady(taken) \/ BatchKept(taken))
<1>1. CASE m_bTerminate \/ m_bFlushing
  BY <1>1 DEF GetBatch
<1> DEFINE N == {n \in DOMAIN list : Ends(n)}
<1>2. CASE ~m_bTerminate /\ ~m_bFlushing /\ N # {}
  <2>1. N \in SUBSET Nat
    BY DEF QTypes, QTyped, OneTyped, CountsTyped
  <2>2. PICK n \in N : n = Min(N) /\ \A y \in N : n <= y
    <3> HIDE DEF N
    <3>1. Min(N) \in N /\ \A y \in N : Min(N) <= y
      BY <1>2, <2>1, MinIs
    <3> QED BY <3>1
  <2>3. n \in 1..Len(list) /\ \A k \in 1..(n - 1) : ~Ends(k)
    <3>1. Len(list) \in Nat /\ DOMAIN list = 1..Len(list)
      BY DEF QTypes, QTyped, OneTyped, CountsTyped
    <3>2. n \in 1..Len(list) /\ n \in Nat
      BY <2>2, <3>1
    <3>3. ASSUME NEW k \in 1..(n - 1) PROVE ~Ends(k)
      <4>1. k \in DOMAIN list /\ ~(n <= k)
        BY <3>1, <3>2
      <4> QED BY <2>2, <4>1
    <3> QED BY <3>2, <3>3
  <2>4. Take(n) /\ thread' = "send" /\ wait' = wait
    BY <1>2, <2>2 DEF GetBatch
  <2>5. TakenOff(SubSeq(list, 1, n)) /\ BatchReady(SubSeq(list, 1, n))
    BY <2>3, <2>4, TakeDoes DEF BatchReady
  <2> QED BY <1>2, <2>5
<1>3. CASE ~m_bTerminate /\ ~m_bFlushing /\ N = {}
  <2> DEFINE n == Len(list)
  <2>1. n \in Nat /\ SubSeq(list, 1, n) = list /\ list \in Seq(Queueable) /\ list \o <<>> = list
    BY DEF QTypes, QTyped, OneTyped, CountsTyped
  <2>2. \A k \in 1..n : ~Ends(k)
    BY <1>3 DEF QTypes, QTyped, OneTyped, CountsTyped
  <2>3. Len(Batch(n)) < setting.size
    BY <2>1, <2>2, BatchGrows
  <2>4. list' = <<>> /\ UNCHANGED <<pSample, evFlushComplete>>
    BY <1>3 DEF GetBatch
  <2>5. OfKinds(Kinds, list) = OfKinds({"sample"}, list)
    <3>1. \A k \in 1..n : list[k].kind \in {"sample", "send"}
      BY <2>2 DEF Ends
    <3> QED BY <2>1, <3>1, OfSameKinds DEF Kinds
  <2>6. OfKinds({"sample"}, list) \o Piece(Kinds, pSample') = OfKinds({"sample"}, list)
    <3>1. Piece(Kinds, pSample') = <<>>
      BY <2>4, ThingsAre DEF Piece, Kinds
    <3>2. OfKinds({"sample"}, list) \in Seq(Samples)
      BY <2>1, SamplesOf
    <3> QED BY <3>1, <3>2, ConcatEmptySeq
  <2>7. TakenOff(list)
    BY <2>1, <2>4, <2>5, <2>6 DEF TakenOff
  <2>8. BatchReady(list) \/ BatchKept(list)
    <3>1. Batch(n) = batched \o OfKinds({"sample"}, list)
      BY <2>1 DEF Batch
    <3>2. CASE setting.exact \/ Batch(n) = <<>>
      <4>1. batched' = Batch(n) /\ UNCHANGED sending /\ PrepareToWait
        BY <1>3, <3>2 DEF GetBatch
      <4> QED BY <2>3, <2>4, <3>1, <3>2, <4>1 DEF BatchKept, PrepareToWait
    <3>3. CASE ~(setting.exact \/ Batch(n) = <<>>)
      <4>1. sending' = Batch(n) /\ batched' = <<>> /\ thread' = "send"
            /\ UNCHANGED <<m_lWaiting, sem>>
        BY <1>3, <3>3 DEF GetBatch
      <4> QED BY <2>4, <3>1, <4>1 DEF BatchReady, wait
    <3> QED BY <3>2, <3>3
  <2> QED BY <1>3, <2>7, <2>8
<1> QED BY <1>1, <1>2, <1>3

\* The thread holds things only while it deals with them, ...
WaitCounted == m_lWaiting + sem = IF thread = "waiting" THEN 1 ELSE 0
HandsInv ==
  /\ sending # <<>> => thread \in {"send", "receive"}
  /\ pSample # Nothing => thread \in {"send", "receive", "act"}
  /\ IsQueued /\ thread \in {"send", "receive", "act"} => batched = <<>>
  /\ IsQueued => Len(batched) < setting.size
EndInv ==
  /\ control = "closing" => IsQueued
  /\ m_bTerminate <=> control = "closing" \/ (control = "closed" /\ IsQueued)
  /\ thread = "ended" /\ IsQueued => m_bTerminate
FlushInv ==
  /\ control \in {"complete", "ended", "closing", "closed", "ending"} => producer = "out"
  /\ control \in {"flushing", "ending", "complete"} => m_bFlushing
  /\ IsQueued /\ control = "beginning" => m_bFlushing
ThreadInv == WaitCounted /\ HandsInv /\ EndInv /\ FlushInv

\* ... and a queue without one keeps a batch that is not full, until it cannot be sent.
NoThreadInv ==
  ~IsQueued =>
    /\ thread = "ended" /\ list = <<>> /\ control \notin {"resetting", "closing"}
    /\ ~setting.exact => batched = <<>>
    /\ m_hr # "S_OK" /\ batched # <<>> => control \in {"flushing", "ending"}
    /\ control \in {"complete", "ended", "closed"} => batched = <<>>
    /\ Len(batched) < setting.size
    /\ ~evFlushComplete

\* The items that a call puts into the queue are of these kinds, ...
LEMMA NewItems ==
  /\ accepted \in Nat /\ MaxItems \in Nat /\ accepted < MaxItems =>
       Item("sample") \in Samples /\ Item("eos") \in Enders /\ Item("segment") \in Enders
  /\ Message("send") \in Packets /\ Message("reset") \in Packets
<1>1. ASSUME accepted \in Nat, MaxItems \in Nat, accepted < MaxItems
      PROVE  Item("sample") \in Samples /\ Item("eos") \in Enders /\ Item("segment") \in Enders
  <2>1. accepted + 1 \in 1..MaxItems
    BY <1>1
  <2> QED BY <2>1 DEF Item, Samples, Enders
<1>2. Message("send") \in Packets /\ Message("reset") \in Packets
  BY DEF Packets
<1> QED BY <1>1, <1>2

\* The variables have values of their kinds at first.
LEMMA TypesStart ==
  ASSUME OutputQueueAssumption, Settings \subseteq UsualSettings, Init
  PROVE  QTypes /\ ThreadInv /\ NoThreadInv
<1>1. setting \in UsualSettings /\ setting.size \in {1, 2} /\ setting.queued \in BOOLEAN
  BY DEF OutputQueueAssumption, Init, AllSettings, UsualSettings
<1>2. QTypes
  <2>1. QTyped
    BY EmptySeq DEF QTyped, Init
  <2>2. PlacesTyped /\ FlagsTyped
    BY DEF PlacesTyped, FlagsTyped, Init
  <2>3. CountsTyped
    BY DEF CountsTyped, Init, OutputQueueAssumption
  <2>4. setting \in Settings
    BY DEF Init
  <2> QED BY <1>1, <2>1, <2>2, <2>3, <2>4 DEF QTypes, OneTyped
<1>3. ThreadInv
  BY <1>1 DEF ThreadInv, WaitCounted, HandsInv, EndInv, FlushInv, Init, IsQueued
<1>4. NoThreadInv
  BY <1>1 DEF NoThreadInv, Init, IsQueued
<1> QED BY <1>2, <1>3, <1>4

\* What goes out of a batch.
LEMMA TakenIs ==
  ASSUME NEW b \in Seq(Samples), NEW n \in 0..Len(b), NEW t \in {<<>>} \cup {<<x>> : x \in Enders},
         out \in Seq(Things)
  PROVE  out \o SubSeq(b, 1, n) \in Seq(Things) /\ out \o SubSeq(b, 1, n) \o t \in Seq(Things)
<1>1. Samples \subseteq Things /\ Enders \subseteq Things
  BY ThingsAre
<1>2. SubSeq(b, 1, n) \in Seq(Samples)
  OBVIOUS
<1> DEFINE s == SubSeq(b, 1, n)
<1>3. s \in Seq(Things) /\ t \in Seq(Things)
  <2>1. s \in Seq(Samples)
    BY <1>2
  <2>2. t \in Seq(Things)
    <3>1. CASE t = <<>>
      BY <3>1, EmptySeq
    <3>2. CASE t # <<>>
      <4>1. PICK x \in Enders : t = <<x>>
        BY <3>2
      <4>2. x \in Things
        BY <1>1
      <4> QED BY <4>1, <4>2
    <3> QED BY <3>1, <3>2
  <2> HIDE DEF s
  <2> QED BY <1>1, <2>1, <2>2, SeqMonotonic
<1> HIDE DEF s
<1>4. out \o s \in Seq(Things) /\ out \o s \o t \in Seq(Things)
  BY <1>3
<1> QED BY <1>4 DEF s

\* ... as long as there is room for one more.
LEMMA ItemsFit ==
  ASSUME OutputQueueAssumption, QTypes
  PROVE  /\ accepted < MaxItems =>
              Item("sample") \in Samples /\ Item("eos") \in Enders /\ Item("segment") \in Enders
         /\ Message("send") \in Packets /\ Message("reset") \in Packets
<1>1. accepted \in Nat /\ MaxItems \in Nat
  BY DEF QTypes, OneTyped, CountsTyped, OutputQueueAssumption
<1> QED BY <1>1, NewItems

\* Receive without a thread, ...
LEMMA DirectBatch ==
  ASSUME OutputQueueAssumption, QTypes, ReceiveDirect
  PROVE  batched' \in Seq(Samples) /\ out' \in Seq(Things) /\ m_hr' \in {"S_OK", "S_FALSE"}
<1> DEFINE b == Append(batched, Item("sample"))
<1>1. b \in Seq(Samples)
  <2>1. Item("sample") \in Samples
    BY ItemsFit DEF ReceiveDirect, MayAdd
  <2> QED BY <2>1 DEF QTypes, QTyped
<1> HIDE DEF b
<1>2. CASE Len(b) < setting.size
  BY <1>1, <1>2 DEF ReceiveDirect, QTypes, QTyped, OneTyped, b
<1>3. CASE ~(Len(b) < setting.size)
  <2>1. PICK n \in 0..Len(b), hr \in {"S_OK", "S_FALSE"} :
          out' = out \o SubSeq(b, 1, n) /\ m_hr' = hr /\ batched' = <<>>
    BY Zenon, <1>3 DEF ReceiveDirect, b
  <2>2. out \o SubSeq(b, 1, n) \in Seq(Things)
    BY <1>1, TakenIs DEF QTypes, QTyped
  <2> QED BY <2>1, <2>2, EmptySeq
<1> QED BY <1>2, <1>3

\* ... a message that may send the batch, ...
LEMMA DirectSend ==
  ASSUME OutputQueueAssumption, QTypes, NEW now \in BOOLEAN,
         NEW t \in {<<>>} \cup {<<x>> : x \in Enders}, SendThen(now, t)
  PROVE  batched' \in Seq(Samples) /\ out' \in Seq(Things) /\ m_hr' \in {"S_OK", "S_FALSE"}
<1>1. PICK n \in 0..Len(batched), hr \in {"S_OK", "S_FALSE"} :
        /\ batched' = <<>> \/ batched' = batched
        /\ m_hr' = hr
        /\ out' = out \o SubSeq(batched, 1, n) \o IF hr = "S_OK" /\ ~downFlushing THEN t ELSE <<>>
  BY Zenon DEF SendThen
<1>2. out' \in Seq(Things)
  BY <1>1, TakenIs DEF QTypes, QTyped
<1> QED BY <1>1, <1>2, EmptySeq DEF QTypes, QTyped

\* ... and a new segment leave sequences of samples and of things.
LEMMA DirectSegment ==
  ASSUME OutputQueueAssumption, QTypes, accepted < MaxItems, SendSegment
  PROVE  batched' \in Seq(Samples) /\ out' \in Seq(Things) /\ m_hr' \in {"S_OK", "S_FALSE"}
<1>1. PICK n \in 0..Len(batched), hr \in {"S_OK", "S_FALSE"} :
        /\ batched' = <<>> \/ batched' = batched
        /\ m_hr' = hr
        /\ out' = out \o SubSeq(batched, 1, n) \o <<Item("segment")>>
  BY Zenon DEF SendSegment
<1>2. out' \in Seq(Things)
  BY <1>1, ItemsFit, TakenIs DEF QTypes, QTyped
<1> QED BY <1>1, <1>2, EmptySeq DEF QTypes, QTyped

\* So does the thread when it takes a batch, ...
LEMMA ThreadTakes ==
  ASSUME QTypes, ThreadInv, NoThreadInv, GetBatch
  PROVE  /\ list' \in Seq(Queueable) /\ batched' \in Seq(Samples) /\ sending' \in Seq(Samples)
         /\ pSample' \in Enders \cup Packets \cup {Nothing}
<1>1. pSample = Nothing /\ Len(batched) < setting.size
  BY DEF ThreadInv, HandsInv, NoThreadInv, GetBatch
<1>2. CASE FreeSamples
  BY <1>2, EmptySeq DEF FreeSamples, QTypes, QTyped
<1>3. CASE \E taken : TakenOff(taken) /\ (BatchReady(taken) \/ BatchKept(taken))
  <2>1. PICK taken : TakenOff(taken) /\ (BatchReady(taken) \/ BatchKept(taken))
    BY <1>3
  <2>2. OfKinds({"sample"}, taken) \in Seq(Samples)
    BY <2>1, SamplesOf DEF TakenOff
  <2> DEFINE o == OfKinds({"sample"}, taken)
  <2> HIDE DEF o
  <2>3. batched \o o \in Seq(Samples)
    BY <2>2 DEF QTypes, QTyped, o
  <2> QED BY <2>1, <2>3, EmptySeq DEF TakenOff, BatchReady, BatchKept, QTypes, QTyped, o
<1> QED BY <1>1, <1>2, <1>3, GetBatchDoes

\* ... and so does every step.
LEMMA SequencesStep ==
  ASSUME OutputQueueAssumption, QTypes, ThreadInv, NoThreadInv, [Next]_vars
  PROVE  QTyped'
<1>1. /\ accepted < MaxItems =>
            Item("sample") \in Samples /\ Item("eos") \in Enders /\ Item("segment") \in Enders
      /\ Message("send") \in Packets /\ Message("reset") \in Packets
  BY ItemsFit
<1>2. Samples \subseteq Things /\ Enders \subseteq Things
  BY ThingsAre
<1>3. QTyped
  BY DEF QTypes
<1> USE DEF data, unmoved, MayCall, MayAdd
<1>4. CASE ReceiveQueued
  BY <1>1, <1>3, <1>4 DEF QTyped, ReceiveQueued, Queueable
<1>5. CASE ReceiveDirect
  <2>1. UNCHANGED <<list, sending, pSample>>
    BY <1>5 DEF ReceiveDirect
  <2>2. batched' \in Seq(Samples) /\ out' \in Seq(Things)
    BY <1>5, DirectBatch
  <2> QED BY <1>3, <2>1, <2>2 DEF QTyped
<1>6. CASE SendAnyway
  <2>1. CASE IsQueued
    <3>1. list' = Append(list, Message("send")) /\ UNCHANGED <<batched, sending, pSample, out>>
      BY <1>6, <2>1 DEF SendAnyway
    <3>2. Message("send") \in Queueable
      BY <1>1 DEF Queueable
    <3> QED BY <1>3, <3>1, <3>2 DEF QTyped
  <2>2. CASE ~IsQueued
    BY <1>3, <1>6, <2>2, DirectSend DEF QTyped, SendAnyway
  <2> QED BY <2>1, <2>2
<1>7. CASE EOS
  <2>1. CASE IsQueued
    <3>1. accepted < MaxItems /\ list' = Append(list, Item("eos"))
          /\ UNCHANGED <<batched, sending, pSample, out>>
      BY <1>7, <2>1 DEF EOS
    <3>2. Item("eos") \in Queueable
      BY <1>1, <3>1 DEF Queueable
    <3> QED BY <1>3, <3>1, <3>2 DEF QTyped
  <2>2. CASE ~IsQueued
    <3>1. setting.exact \in BOOLEAN /\ <<Item("eos")>> \in {<<>>} \cup {<<x>> : x \in Enders}
      BY <1>1, <1>7 DEF EOS, QTypes, OneTyped, UsualSettings, AllSettings
    <3> QED BY <1>3, <1>7, <2>2, <3>1, DirectSend DEF QTyped, EOS
  <2> QED BY <2>1, <2>2
<1>8. CASE QueueSegment
  <2>1. accepted < MaxItems
    BY <1>8 DEF QTypes, OneTyped, CountsTyped, QueueSegment
  <2>2. CASE IsQueued
    <3>1. list' = Append(list, Item("segment")) /\ UNCHANGED <<batched, sending, pSample, out>>
      BY <1>8, <2>2 DEF QueueSegment
    <3>2. Item("segment") \in Queueable
      BY <1>1, <2>1 DEF Queueable
    <3> QED BY <1>3, <3>1, <3>2 DEF QTyped
  <2>3. CASE ~IsQueued
    BY <1>3, <1>8, <2>1, <2>3, DirectSegment DEF QTyped, QueueSegment
  <2> QED BY <2>2, <2>3
<1>9. CASE GetBatch
  BY <1>3, <1>9, ThreadTakes DEF QTyped, GetBatch
<1>10. CASE Send
  BY <1>3, <1>10, EmptySeq DEF QTyped, Send
<1>11. CASE Delivered
  <2>1. PICK n \in 0..Len(sending) : out' = out \o SubSeq(sending, 1, n)
    BY Zenon, <1>11 DEF Delivered
  <2>2. out' \in Seq(Things)
    BY <1>3, <2>1, TakenIs DEF QTyped
  <2> QED BY <1>3, <1>11, <2>2, EmptySeq DEF QTyped, Delivered
<1>12. CASE Act
  <2>1. pSample.kind \in {"eos", "segment"} => pSample \in Things
    BY <1>2, <1>3, ThingsAre DEF QTyped
  <2> QED BY <1>3, <1>12, <2>1 DEF QTyped, Act
<1>13. CASE FlushComplete \/ Delete
  <2>1. /\ UNCHANGED <<sending, pSample, out>>
        /\ list' = <<>> \/ list' = list
        /\ batched' = <<>> \/ batched' = batched
    BY <1>13 DEF FlushComplete, Delete
  <2> QED BY <1>3, <2>1, EmptySeq DEF QTyped
<1>14. CASE Reset
  <2>1. /\ UNCHANGED <<batched, sending, pSample, out>>
        /\ list' = Append(list, Message("reset")) \/ list' = list
    BY <1>14 DEF Reset
  <2>2. Message("reset") \in Queueable
    BY <1>1 DEF Queueable
  <2>3. list' \in Seq(Queueable)
    <3> DEFINE x == Message("reset")
    <3>1. x \in Queueable /\ (list' = Append(list, x) \/ list' = list)
      BY Zenon, <2>1, <2>2
    <3>2. list \in Seq(Queueable)
      BY <1>3 DEF QTyped
    <3> HIDE DEF x
    <3>3. Append(list, x) \in Seq(Queueable)
      BY <3>1, <3>2
    <3> QED BY Zenon, <3>1, <3>2, <3>3
  <2> QED BY <1>3, <2>1, <2>3 DEF QTyped
<1>15. CASE NewSegment \/ Wake \/ BeginFlush \/ FlushDownstream \/ EndFlush \/ Flushed
            \/ EndFlushDownstream \/ ResetReturns \/ Deleted \/ Gone \/ UNCHANGED vars
  <2>1. UNCHANGED <<list, batched, sending, pSample, out>>
    BY Zenon, <1>15 DEF NewSegment, Wake, BeginFlush, FlushDownstream, EndFlush, Flushed,
                 EndFlushDownstream, ResetReturns, Deleted, Gone, vars
  <2> QED BY <1>3, <2>1 DEF QTyped
<1> QED BY Zenon, <1>4, <1>5, <1>6, <1>7, <1>8, <1>9, <1>10, <1>11, <1>12, <1>13, <1>14, <1>15
        DEF Next, ThreadProc

\* A step leaves the threads and the calls at places of theirs, ...
LEMMA PlacesStep == ASSUME PlacesTyped, [Next]_vars PROVE PlacesTyped'
<1> USE DEF PlacesTyped, vars, where, unmoved, PrepareToWait
<1> SUFFICES ASSUME Next PROVE PlacesTyped'
  OBVIOUS
<1>1. CASE ReceiveQueued \/ ReceiveDirect \/ SendAnyway \/ EOS \/ NewSegment \/ QueueSegment
  BY <1>1 DEF ReceiveQueued, ReceiveDirect, SendAnyway, EOS, NewSegment, QueueSegment
<1>2. CASE ThreadProc \/ Delivered
  BY <1>2 DEF ThreadProc, GetBatch, Wake, Send, Act, Delivered
<1>3. CASE BeginFlush \/ FlushDownstream \/ EndFlush \/ FlushComplete \/ Flushed \/ EndFlushDownstream
  BY <1>3 DEF BeginFlush, FlushDownstream, EndFlush, FlushComplete, Flushed, EndFlushDownstream
<1>4. CASE Reset \/ ResetReturns \/ Delete \/ Deleted \/ Gone
  BY <1>4 DEF Reset, ResetReturns, Delete, Deleted, Gone
<1> QED BY <1>1, <1>2, <1>3, <1>4 DEF Next

\* ... the flags true or false, ...
LEMMA FlagsStep == ASSUME FlagsTyped, [Next]_vars, m_hr' \in {"S_OK", "S_FALSE"} PROVE FlagsTyped'
<1> USE DEF FlagsTyped, vars, code, wait, marks, unmoved, PrepareToWait, NotifyThread
<1> SUFFICES ASSUME Next PROVE FlagsTyped'
  OBVIOUS
<1>1. CASE ReceiveQueued \/ ReceiveDirect \/ SendAnyway \/ EOS \/ NewSegment \/ QueueSegment
  BY <1>1 DEF ReceiveQueued, ReceiveDirect, SendAnyway, EOS, NewSegment, QueueSegment
<1>2. CASE ThreadProc \/ Delivered
  BY <1>2 DEF ThreadProc, GetBatch, Wake, Send, Act, Delivered
<1>3. CASE BeginFlush \/ FlushDownstream \/ EndFlush \/ FlushComplete \/ Flushed \/ EndFlushDownstream
  BY <1>3 DEF BeginFlush, FlushDownstream, EndFlush, FlushComplete, Flushed, EndFlushDownstream
<1>4. CASE Reset \/ ResetReturns \/ Delete \/ Deleted \/ Gone
  BY <1>4 DEF Reset, ResetReturns, Delete, Deleted, Gone
<1> QED BY <1>1, <1>2, <1>3, <1>4 DEF Next

\* ... the counts within their bounds, ...
LEMMA CountsStep == ASSUME CountsTyped, [Next]_vars, MaxItems \in Nat, MaxFlushes \in Nat PROVE CountsTyped'
<1> USE DEF CountsTyped, vars, where, wait, marks, unmoved, PrepareToWait, NotifyThread, data, MayCall, MayAdd
<1> SUFFICES ASSUME Next PROVE CountsTyped'
  OBVIOUS
<1>1. CASE ReceiveQueued \/ ReceiveDirect \/ SendAnyway \/ EOS \/ NewSegment \/ QueueSegment
  <2>1. CASE ReceiveQueued
    BY <2>1 DEF ReceiveQueued
  <2>2. CASE ReceiveDirect
    BY <2>2 DEF ReceiveDirect
  <2>3. CASE SendAnyway
    <3>1. /\ UNCHANGED <<accepted, floor, flushes, producer>>
          /\ UNCHANGED <<m_lWaiting, sem>> \/ (sem' = sem + m_lWaiting /\ m_lWaiting' = 0)
      BY <2>3 DEF SendAnyway
    <3> QED BY <3>1
  <2>4. CASE EOS
    BY <2>4 DEF EOS
  <2>5. CASE NewSegment
    BY <2>5 DEF NewSegment
  <2>6. CASE QueueSegment
    BY <2>6 DEF QueueSegment
  <2> QED BY <1>1, <2>1, <2>2, <2>3, <2>4, <2>5, <2>6
<1>2. CASE ThreadProc \/ Delivered
  BY <1>2 DEF ThreadProc, GetBatch, Wake, Send, Act, Delivered
<1>3. CASE BeginFlush \/ FlushDownstream \/ EndFlush \/ FlushComplete \/ Flushed \/ EndFlushDownstream
  BY <1>3 DEF BeginFlush, FlushDownstream, EndFlush, FlushComplete, Flushed, EndFlushDownstream
<1>4. CASE Reset \/ ResetReturns \/ Delete \/ Deleted \/ Gone
  BY <1>4 DEF Reset, ResetReturns, Delete, Deleted, Gone
<1> QED BY <1>1, <1>2, <1>3, <1>4 DEF Next

\* ... the result of the last delivery one of two, ...
LEMMA ResultStep ==
  ASSUME OutputQueueAssumption, QTypes, [Next]_vars
  PROVE  m_hr' \in {"S_OK", "S_FALSE"}
<1>1. m_hr \in {"S_OK", "S_FALSE"}
  BY DEF QTypes, OneTyped, FlagsTyped
<1> SUFFICES ASSUME Next PROVE m_hr' \in {"S_OK", "S_FALSE"}
  BY <1>1 DEF vars, code
<1> USE DEF code
<1>2. CASE ReceiveDirect
  BY <1>2, DirectBatch
<1>3. CASE SendAnyway
  BY <1>1, <1>3, DirectSend DEF SendAnyway
<1>4. CASE EOS
  <2>1. setting.exact \in BOOLEAN /\ <<Item("eos")>> \in {<<>>} \cup {<<x>> : x \in Enders}
    BY <1>4, ItemsFit DEF EOS, MayAdd, QTypes, OneTyped, UsualSettings, AllSettings
  <2> QED BY <1>1, <1>4, <2>1, DirectSend DEF EOS
<1>5. CASE QueueSegment
  <2>1. accepted < MaxItems
    BY <1>5 DEF QueueSegment, QTypes, OneTyped, CountsTyped
  <2> QED BY <1>1, <1>5, <2>1, DirectSegment DEF QueueSegment
<1>6. CASE ReceiveQueued \/ NewSegment \/ ThreadProc \/ Delivered
  BY <1>1, <1>6 DEF ReceiveQueued, NewSegment, ThreadProc, GetBatch, Wake, Send, Act, Delivered
<1>7. CASE BeginFlush \/ FlushDownstream \/ EndFlush \/ FlushComplete \/ Flushed \/ EndFlushDownstream
  BY <1>1, <1>7 DEF BeginFlush, FlushDownstream, EndFlush, FlushComplete, Flushed, EndFlushDownstream
<1>8. CASE Reset \/ ResetReturns \/ Delete \/ Deleted \/ Gone
  BY <1>1, <1>8 DEF Reset, ResetReturns, Delete, Deleted, Gone, vars
<1> QED BY <1>2, <1>3, <1>4, <1>5, <1>6, <1>7, <1>8 DEF Next

\* ... and the parameters as they were.
LEMMA SettingStays == ASSUME [Next]_vars PROVE setting' = setting
<1> SUFFICES ASSUME Next PROVE setting' = setting
  BY DEF vars
<1> USE DEF unmoved
<1>1. CASE ReceiveQueued \/ ReceiveDirect \/ SendAnyway \/ EOS \/ NewSegment \/ QueueSegment
  BY <1>1 DEF ReceiveQueued, ReceiveDirect, SendAnyway, EOS, NewSegment, QueueSegment
<1>2. CASE ThreadProc \/ Delivered
  BY <1>2 DEF ThreadProc, GetBatch, Wake, Send, Act, Delivered
<1>3. CASE BeginFlush \/ FlushDownstream \/ EndFlush \/ FlushComplete \/ Flushed \/ EndFlushDownstream
  BY <1>3 DEF BeginFlush, FlushDownstream, EndFlush, FlushComplete, Flushed, EndFlushDownstream
<1>4. CASE Reset \/ ResetReturns \/ Delete \/ Deleted \/ Gone
  BY <1>4 DEF Reset, ResetReturns, Delete, Deleted, Gone, vars
<1> QED BY <1>1, <1>2, <1>3, <1>4 DEF Next

\* So every variable keeps a value of its kind.
LEMMA TypesStep ==
  ASSUME OutputQueueAssumption, QTypes, ThreadInv, NoThreadInv, [Next]_vars
  PROVE  QTypes'
<1>1. PlacesTyped /\ FlagsTyped /\ CountsTyped
  BY DEF QTypes, OneTyped
<1>2. MaxItems \in Nat /\ MaxFlushes \in Nat
  BY DEF OutputQueueAssumption
<1>3. PlacesTyped' /\ FlagsTyped' /\ CountsTyped'
  BY <1>1, <1>2, PlacesStep, FlagsStep, CountsStep, ResultStep
<1>4. QTyped'
  BY SequencesStep
<1>5. (setting \in UsualSettings /\ setting \in Settings)'
  BY SettingStays DEF QTypes, OneTyped
<1> QED BY <1>3, <1>4, <1>5 DEF QTypes, OneTyped

\* The count of waiters and the semaphore say together whether the thread waits.
LEMMA WaitCountedStep == ASSUME CountsTyped, WaitCounted, [Next]_vars PROVE WaitCounted'
<1> USE DEF WaitCounted, CountsTyped, vars, where, wait, unmoved, PrepareToWait, NotifyThread
<1> SUFFICES ASSUME Next PROVE WaitCounted'
  OBVIOUS
<1>1. CASE ReceiveQueued \/ ReceiveDirect \/ SendAnyway \/ EOS \/ NewSegment \/ QueueSegment
  <2>1. /\ thread' = thread
        /\ UNCHANGED wait \/ NotifyThread
    BY Zenon, <1>1 DEF ReceiveQueued, ReceiveDirect, SendAnyway, EOS, NewSegment, QueueSegment
  <2> QED BY <2>1
<1>2. CASE ThreadProc \/ Delivered
  BY <1>2 DEF ThreadProc, GetBatch, Wake, Send, Act, Delivered
<1>3. CASE BeginFlush \/ FlushDownstream \/ EndFlush \/ FlushComplete \/ Flushed \/ EndFlushDownstream
  BY <1>3 DEF BeginFlush, FlushDownstream, EndFlush, FlushComplete, Flushed, EndFlushDownstream
<1>4. CASE Reset \/ ResetReturns \/ Delete \/ Deleted \/ Gone
  BY <1>4 DEF Reset, ResetReturns, Delete, Deleted, Gone
<1> QED BY <1>1, <1>2, <1>3, <1>4 DEF Next

\* The thread is told to end by the destructor, and by nothing else.
LEMMA EndStep == ASSUME FlagsTyped, EndInv, [Next]_vars PROVE EndInv'
<1> USE DEF EndInv, FlagsTyped, vars, where, code, unmoved, PrepareToWait, IsQueued
<1> SUFFICES ASSUME Next PROVE EndInv'
  OBVIOUS
<1>1. CASE ReceiveQueued \/ ReceiveDirect \/ SendAnyway \/ EOS \/ NewSegment \/ QueueSegment
  <2>1. UNCHANGED <<setting, thread, control, m_bTerminate>>
    BY Zenon, <1>1 DEF ReceiveQueued, ReceiveDirect, SendAnyway, EOS, NewSegment, QueueSegment
  <2> QED BY <2>1
<1>2. CASE ThreadProc \/ Delivered
  BY <1>2 DEF ThreadProc, GetBatch, Wake, Send, Act, Delivered
<1>3. CASE BeginFlush \/ FlushDownstream \/ EndFlush \/ FlushComplete \/ Flushed \/ EndFlushDownstream
  BY <1>3 DEF BeginFlush, FlushDownstream, EndFlush, FlushComplete, Flushed, EndFlushDownstream
<1>4. CASE Reset \/ ResetReturns \/ Delete \/ Deleted \/ Gone
  <2>1. CASE Reset \/ ResetReturns
    BY <2>1 DEF Reset, ResetReturns
  <2>2. CASE Delete
    <3>1. CASE setting.queued
      BY <2>2, <3>1 DEF Delete
    <3>2. CASE ~setting.queued
      <4>1. ~m_bTerminate /\ m_bTerminate' = m_bTerminate /\ control' = "closed" /\ setting' = setting
        BY <2>2, <3>2 DEF Delete
      <4>2. thread' = thread
        BY <2>2 DEF Delete
      <4> QED BY <3>2, <4>1, <4>2
    <3> QED BY <3>1, <3>2
  <2>3. CASE Deleted
    BY <2>3 DEF Deleted
  <2>4. CASE Gone
    BY <2>4 DEF Gone
  <2> QED BY <1>4, <2>1, <2>2, <2>3, <2>4
<1> QED BY <1>1, <1>2, <1>3, <1>4 DEF Next

\* The calls of a flush come in their order, and no other call comes between them.
LEMMA FlushStep == ASSUME FlagsTyped, FlushInv, [Next]_vars PROVE FlushInv'
<1> USE DEF FlushInv, FlagsTyped, vars, where, code, unmoved, IsQueued, MayCall, MayAdd
<1> SUFFICES ASSUME Next PROVE FlushInv'
  OBVIOUS
<1>1. CASE ReceiveQueued \/ ReceiveDirect \/ SendAnyway \/ EOS \/ NewSegment \/ QueueSegment
  BY <1>1 DEF ReceiveQueued, ReceiveDirect, SendAnyway, EOS, NewSegment, QueueSegment
<1>2. CASE ThreadProc \/ Delivered
  BY <1>2 DEF ThreadProc, GetBatch, Wake, Send, Act, Delivered
<1>3. CASE BeginFlush \/ FlushDownstream \/ EndFlush \/ FlushComplete \/ Flushed \/ EndFlushDownstream
  BY <1>3 DEF BeginFlush, FlushDownstream, EndFlush, FlushComplete, Flushed, EndFlushDownstream
<1>4. CASE Reset \/ ResetReturns \/ Delete \/ Deleted \/ Gone
  BY <1>4 DEF Reset, ResetReturns, Delete, Deleted, Gone
<1> QED BY <1>1, <1>2, <1>3, <1>4 DEF Next

\* The thread holds things only while it deals with them.
LEMMA HandsStep ==
  ASSUME QTypes, HandsInv, NoThreadInv, [Next]_vars
  PROVE  HandsInv'
<1>0. setting.size \in {1, 2}
  BY DEF QTypes, OneTyped, UsualSettings, AllSettings
<1>1. thread # "ended" => IsQueued
  BY DEF NoThreadInv
<1> USE DEF HandsInv, vars, data, where, unmoved, IsQueued
<1> SUFFICES ASSUME Next PROVE HandsInv'
  OBVIOUS
<1>2. CASE ReceiveQueued \/ ReceiveDirect \/ SendAnyway \/ EOS \/ NewSegment \/ QueueSegment
  BY <1>1, <1>2 DEF ReceiveQueued, ReceiveDirect, SendAnyway, EOS, NewSegment, QueueSegment
<1>3. CASE GetBatch
  <2>1. pSample = Nothing /\ sending = <<>> /\ IsQueued /\ Len(batched) < setting.size
    BY <1>1, <1>3 DEF GetBatch
  <2>2. CASE m_bTerminate \/ m_bFlushing
    <3>1. FreeSamples /\ thread' \in {"ended", "waiting"} /\ setting' = setting
      BY <1>3, <2>2 DEF GetBatch, PrepareToWait
    <3> QED BY <1>0, <2>1, <3>1 DEF FreeSamples
  <2>3. CASE ~(m_bTerminate \/ m_bFlushing)
    <3>1. PICK taken : TakenOff(taken) /\ (BatchReady(taken) \/ BatchKept(taken))
      BY <1>3, <2>1, <2>3, GetBatchDoes
    <3>2. setting' = setting
      BY <1>3 DEF GetBatch
    <3> QED BY <1>0, <2>1, <3>1, <3>2 DEF BatchReady, BatchKept
  <2> QED BY <2>2, <2>3
<1>4. CASE Wake \/ Send \/ Act \/ Delivered
  BY <1>1, <1>4 DEF Wake, Send, Act, Delivered
<1>5. CASE BeginFlush \/ FlushDownstream \/ EndFlush \/ FlushComplete \/ Flushed \/ EndFlushDownstream
  BY <1>0, <1>1, <1>5 DEF BeginFlush, FlushDownstream, EndFlush, FlushComplete, Flushed, EndFlushDownstream
<1>6. CASE Reset \/ ResetReturns \/ Delete \/ Deleted \/ Gone
  BY <1>0, <1>1, <1>6 DEF Reset, ResetReturns, Delete, Deleted, Gone
<1> QED BY <1>2, <1>3, <1>4, <1>5, <1>6 DEF Next, ThreadProc

\* A queue without a thread keeps at most a batch that is not full.
LEMMA NoThreadStep ==
  ASSUME OutputQueueAssumption, QTypes, NoThreadInv, FlushInv, [Next]_vars
  PROVE  NoThreadInv'
<1>0. setting.size \in {1, 2} /\ setting.queued \in BOOLEAN /\ (setting.exact => setting.size > 1)
      /\ (~setting.queued => setting.size = 1 \/ setting.exact)
  BY DEF QTypes, OneTyped, UsualSettings, AllSettings
<1>1. setting' = setting
  BY SettingStays
<1>2. m_hr \in {"S_OK", "S_FALSE"} /\ batched \in Seq(Samples)
  BY DEF QTypes, QTyped, OneTyped, FlagsTyped
<1>3. CASE setting.queued
  BY <1>1, <1>3 DEF NoThreadInv, IsQueued
<1>4. CASE ~setting.queued
  <2> SUFFICES ASSUME Next PROVE NoThreadInv'
    BY DEF NoThreadInv, vars, data, code, wait, where, IsQueued
  <2> USE DEF NoThreadInv, IsQueued, data, code, wait, where, unmoved, MayCall, MayAdd
  <2>1. CASE ReceiveQueued \/ NewSegment \/ ThreadProc \/ Delivered
    BY <1>1, <1>4, <2>1 DEF ReceiveQueued, NewSegment, ThreadProc, GetBatch, Wake, Send, Act, Delivered
  <2>2. CASE ReceiveDirect
    <3>1. batched' = <<>> \/ (Len(batched') < setting.size /\ m_hr' = "S_OK" /\ setting.exact)
      <4>1. CASE Len(Append(batched, Item("sample"))) < setting.size
        <5>1. batched' = Append(batched, Item("sample")) /\ m_hr' = m_hr /\ m_hr = "S_OK"
          BY <2>2, <4>1 DEF ReceiveDirect
        <5>2. Len(Append(batched, Item("sample"))) >= 1
          <6> DEFINE x == Item("sample")
          <6>1. x \in Samples
            BY <2>2, ItemsFit DEF ReceiveDirect
          <6> HIDE DEF x
          <6>2. Len(Append(batched, x)) = Len(batched) + 1 /\ Len(batched) \in Nat
            BY <1>2, <6>1
          <6> QED BY <6>2 DEF x
        <5>3. setting.exact
          BY <5>2, <4>1, <1>0, <1>4
        <5> QED BY <4>1, <5>1, <5>3
      <4>2. CASE ~(Len(Append(batched, Item("sample"))) < setting.size)
        BY <2>2, <4>2 DEF ReceiveDirect
      <4> QED BY <4>1, <4>2
    <3>2. UNCHANGED <<list, thread, control, evFlushComplete>> /\ control \in {"idle", "beginning", "resetting"}
      BY <2>2 DEF ReceiveDirect
    <3> QED BY <1>0, <1>1, <1>4, <3>1, <3>2
  <2>3. CASE SendAnyway
    <3>1. batched' = <<>>
      BY <1>4, <2>3 DEF SendAnyway, SendThen
    <3> QED BY <1>0, <1>1, <1>4, <2>3, <3>1 DEF SendAnyway
  <2>4. CASE EOS
    <3>1. batched' = <<>>
      BY <1>4, <2>4 DEF EOS, SendThen
    <3> QED BY <1>0, <1>1, <1>4, <2>4, <3>1 DEF EOS
  <2>5. CASE QueueSegment
    <3>1. batched' = <<>> \/ (m_hr # "S_OK" /\ m_hr' = m_hr /\ batched' = batched)
      BY <1>4, <2>5 DEF QueueSegment, SendSegment
    <3> QED BY <1>0, <1>1, <1>4, <2>5, <3>1 DEF QueueSegment
  <2>6. CASE BeginFlush \/ FlushDownstream \/ EndFlush
    BY <1>0, <1>1, <1>2, <1>4, <2>6 DEF BeginFlush, FlushDownstream, EndFlush
  <2>7. CASE FlushComplete \/ Flushed \/ EndFlushDownstream
    <3>1. CASE FlushComplete
      BY <1>0, <1>1, <1>2, <1>4, <3>1 DEF FlushComplete
    <3>2. CASE Flushed
      BY <1>0, <1>1, <1>2, <1>4, <3>2 DEF Flushed
    <3>3. CASE EndFlushDownstream
      BY <1>0, <1>1, <1>2, <1>4, <3>3 DEF EndFlushDownstream
    <3> QED BY <2>7, <3>1, <3>2, <3>3
  <2>8. CASE Reset \/ ResetReturns \/ Delete \/ Deleted \/ Gone
    <3>1. CASE Reset
      BY <1>0, <1>1, <1>2, <1>4, <3>1 DEF Reset
    <3>2. CASE ResetReturns \/ Deleted
      BY <1>0, <1>1, <1>2, <1>4, <3>2 DEF ResetReturns, Deleted
    <3>3. CASE Delete
      BY <1>0, <1>1, <1>2, <1>4, <3>3 DEF Delete
    <3>4. CASE Gone
      BY <1>0, <1>1, <1>2, <1>4, <3>4 DEF Gone, vars
    <3> QED BY <2>8, <3>1, <3>2, <3>3, <3>4
  <2> QED BY <2>1, <2>2, <2>3, <2>4, <2>5, <2>6, <2>7, <2>8 DEF Next
<1> QED BY <1>3, <1>4

(***************************************************************************)
(* The output queue: what its thread sleeps on, and what it holds          *)
(***************************************************************************)

SamplesOnly == \A i \in 1..Len(list) : list[i].kind = "sample"
WakeInv ==
  thread = "waiting" /\ sem = 0 =>
    /\ ~m_bTerminate
    /\ control \in {"beginning", "ending"} \/ (control = "flushing" /\ ~(setting.opt /\ m_bFlushed))
         => evFlushComplete
    /\ SamplesOnly
    /\ list # <<>> => setting.exact /\ Len(batched) + Len(list) < setting.size

\* A thread that nobody has woken is asleep for good reasons after a step, if it was before.
LEMMA WakeStep ==
  ASSUME OutputQueueAssumption, QTypes, ThreadInv, NoThreadInv, WakeInv, [Next]_vars
  PROVE  WakeInv'
<1>0. setting.size \in {1, 2} /\ setting' = setting /\ batched \in Seq(Samples)
      /\ list \in Seq(Queueable) /\ m_lWaiting \in Nat /\ sem \in Nat
  BY SettingStays DEF QTypes, OneTyped, QTyped, CountsTyped, UsualSettings, AllSettings
<1>1. m_lWaiting + sem = IF thread = "waiting" THEN 1 ELSE 0
  BY DEF ThreadInv, WaitCounted
<1>2. thread # "ended" => IsQueued
  BY DEF NoThreadInv
<1> SUFFICES ASSUME Next, thread' = "waiting", sem' = 0 PROVE WakeInv'
  BY DEF WakeInv, SamplesOnly, vars, data, code, wait, where
<1> USE DEF WakeInv, data, code, wait, where, unmoved
<1>3. CASE ReceiveQueued
  <2>1. thread = "waiting" /\ m_lWaiting = 1 /\ sem = 0
    BY <1>0, <1>1, <1>3 DEF ReceiveQueued, NotifyThread
  <2>2. setting.exact /\ Len(batched) + Len(list') < setting.size
    <3>1. Len(batched) \in Nat /\ Len(list') \in Nat
      <4>1. list' = Append(list, Item("sample")) /\ Item("sample") \in Samples
        BY <1>3, ItemsFit DEF ReceiveQueued, MayAdd
      <4> DEFINE x == Item("sample")
      <4> HIDE DEF x
      <4>2. list' = Append(list, x) /\ x \in Queueable
        BY <4>1 DEF x, Queueable
      <4> QED BY <1>0, <4>2
    <3>2. ~NotifyThread
      BY <2>1 DEF NotifyThread
    <3> QED BY <1>0, <1>3, <3>1, <3>2 DEF ReceiveQueued
  <2>3. SamplesOnly'
    <3> DEFINE x == Item("sample")
    <3>1. list' = Append(list, x) /\ x.kind = "sample" /\ SamplesOnly
      BY <1>3, <2>1 DEF ReceiveQueued, Item
    <3>2. Len(list') = Len(list) + 1 /\ Len(list) \in Nat /\ \A i \in 1..Len(list) : list'[i] = list[i]
      <4> HIDE DEF x
      <4> QED BY <1>0, <3>1
    <3>3. list'[Len(list) + 1] = x
      <4> HIDE DEF x
      <4> QED BY <1>0, <3>1
    <3> HIDE DEF x
    <3> QED BY <3>1, <3>2, <3>3 DEF SamplesOnly
  <2>4. UNCHANGED <<setting, batched, m_bTerminate, control, evFlushComplete>>
    BY <1>3 DEF ReceiveQueued, NotifyThread
  <2>5. ~m_bTerminate /\ (control \in {"beginning", "ending"} => evFlushComplete)
        /\ control # "flushing"
    BY <1>3, <2>1 DEF ReceiveQueued, MayAdd, MayCall
  <2> QED BY <1>0, <2>2, <2>3, <2>4, <2>5
<1>4. CASE ReceiveDirect
  BY <1>2, <1>4 DEF ReceiveDirect
<1>5. CASE SendAnyway \/ EOS \/ QueueSegment
  <2>1. IsQueued /\ thread = "waiting"
    BY <1>2, <1>5 DEF SendAnyway, EOS, QueueSegment
  <2>2. sem' = sem + m_lWaiting
    BY <1>5, <2>1 DEF SendAnyway, EOS, QueueSegment, NotifyThread
  <2> QED BY <1>0, <1>1, <2>1, <2>2
<1>6. CASE NewSegment
  BY <1>0, <1>6 DEF NewSegment, SamplesOnly
<1>7. CASE GetBatch
  <2>1. pSample = Nothing /\ Len(batched) < setting.size
    BY <1>2, <1>7 DEF GetBatch, ThreadInv, HandsInv
  <2>2. ~m_bTerminate
    BY <1>7 DEF GetBatch
  <2>3. list' = <<>>
    BY <1>7, <2>2 DEF GetBatch, FreeSamples
  <2>4. m_bFlushing => evFlushComplete'
    BY <1>7, <2>2 DEF GetBatch
  <2>5. control' = control /\ m_bTerminate' = m_bTerminate
    BY <1>7 DEF GetBatch
  <2>6. control \in {"beginning", "flushing", "ending"} => m_bFlushing
    BY <1>2, <1>7 DEF GetBatch, ThreadInv, FlushInv
  <2> QED BY <1>0, <2>2, <2>3, <2>4, <2>5, <2>6 DEF SamplesOnly
<1>8. CASE Wake \/ Send \/ Act \/ Delivered
  BY <1>8 DEF Wake, Send, Act, Delivered
<1>9. CASE BeginFlush
  BY <1>0, <1>1, <1>2, <1>9 DEF BeginFlush, SamplesOnly
<1>10. CASE FlushDownstream
  BY <1>0, <1>10 DEF FlushDownstream, SamplesOnly
<1>11. CASE EndFlush
  BY <1>0, <1>2, <1>11 DEF EndFlush, SamplesOnly
<1>12. CASE FlushComplete
  BY <1>0, <1>2, <1>12 DEF FlushComplete, SamplesOnly
<1>13. CASE Flushed \/ EndFlushDownstream
  BY <1>0, <1>13 DEF Flushed, EndFlushDownstream, SamplesOnly
<1>14. CASE Reset
  BY <1>0, <1>1, <1>2, <1>14 DEF Reset, NotifyThread
<1>15. CASE ResetReturns \/ Deleted
  BY <1>0, <1>15 DEF ResetReturns, Deleted, SamplesOnly
<1>16. CASE Delete
  BY <1>0, <1>1, <1>2, <1>16 DEF Delete, NotifyThread
<1>17. CASE Gone
  BY <1>0, <1>17 DEF Gone, vars, SamplesOnly
<1> QED BY <1>3, <1>4, <1>5, <1>6, <1>7, <1>8, <1>9, <1>10, <1>11, <1>12, <1>13, <1>14, <1>15,
           <1>16, <1>17 DEF Next, ThreadProc

-----------------------------------------------------------------------------
(* What the queue holds, wherever it is.                                    *)

Held(H) ==
  /\ sending \in Seq(H) /\ batched \in Seq(H) /\ list \in Seq(H)
  /\ pSample \in H

Fresh(n) == {x \in Queueable \cup {Nothing} : x.kind \in {"sample", "eos"} => x.id > n}
Unflushed == {x \in Queueable \cup {Nothing} : x.kind \notin {"sample", "eos"}}
NoResets == {x \in Queueable \cup {Nothing} : x.kind # "reset"}

\* What is added to it in a step.
Added(H) ==
  /\ ReceiveQueued \/ ReceiveDirect => Item("sample") \in H
  /\ EOS => Item("eos") \in H
  /\ QueueSegment => Item("segment") \in H
  /\ SendAnyway => Message("send") \in H
  /\ Reset /\ IsQueued => Message("reset") \in H

\* What the thread takes was in the queue.
LEMMA HeldByThread ==
  ASSUME QTypes, ThreadInv, NoThreadInv, NEW H, Held(H), Nothing \in H, GetBatch
  PROVE  Held(H)'
<1>1. pSample = Nothing /\ Len(batched) < setting.size
  BY DEF ThreadInv, HandsInv, NoThreadInv, GetBatch
<1>2. CASE FreeSamples
  BY <1>2, EmptySeq DEF FreeSamples, Held
<1>3. CASE \E taken : TakenOff(taken) /\ (BatchReady(taken) \/ BatchKept(taken))
  <2>1. PICK taken : TakenOff(taken) /\ (BatchReady(taken) \/ BatchKept(taken))
    BY <1>3
  <2>2. taken \in Seq(Queueable) /\ list' \in Seq(Queueable) /\ list = taken \o list' /\ list \in Seq(H)
    BY <2>1 DEF TakenOff, Held
  <2>3. taken \in Seq(H) /\ list' \in Seq(H)
    <3>1. /\ Len(list) = Len(taken) + Len(list') /\ Len(taken) \in Nat /\ Len(list') \in Nat
          /\ \A i \in 1..Len(taken) : list[i] = taken[i]
          /\ \A i \in 1..Len(list') : list[Len(taken) + i] = list'[i]
      BY <2>2
    <3>2. \A i \in 1..Len(list) : list[i] \in H
      BY <2>2
    <3>3. \A i \in 1..Len(taken) : taken[i] \in H
      BY <3>1, <3>2
    <3>4. \A i \in 1..Len(list') : list'[i] \in H
      <4> TAKE i \in 1..Len(list')
      <4>1. Len(taken) + i \in 1..Len(list)
        BY <3>1
      <4> QED BY <3>1, <3>2, <4>1
    <3> QED BY <2>2, <3>3, <3>4
  <2> DEFINE o == OfKinds({"sample"}, taken)
  <2>4. o \in Seq(H)
    BY <2>3, OfKindsType
  <2> HIDE DEF o
  <2>5. batched \o o \in Seq(H)
    BY <2>4 DEF Held
  <2>6. pSample' \in H
    <3>1. \A i \in 1..Len(list) : list[i] \in H
      BY <2>2
    <3> QED BY <2>1, <3>1 DEF TakenOff
  <2>7. CASE BatchReady(taken)
    BY <2>3, <2>5, <2>6, <2>7, EmptySeq DEF BatchReady, Held, o
  <2>8. CASE BatchKept(taken)
    BY <2>3, <2>5, <2>6, <2>8, EmptySeq DEF BatchKept, Held, o
  <2> QED BY <2>1, <2>7, <2>8
<1> QED BY <1>1, <1>2, <1>3, GetBatchDoes

\* What the queue holds after a step it held before, or the call added it.
LEMMA HeldStep ==
  ASSUME QTypes, ThreadInv, NoThreadInv, NEW H, Held(H), Nothing \in H, Added(H), [Next]_vars
  PROVE  Held(H)'
<1> USE DEF data, unmoved
<1>1. CASE ReceiveQueued
  <2> DEFINE x == Item("sample")
  <2>1. x \in H /\ list' = Append(list, x) /\ UNCHANGED <<sending, batched, pSample>>
    BY <1>1 DEF ReceiveQueued, Added
  <2> HIDE DEF x
  <2> QED BY <2>1 DEF Held
<1>2. CASE ReceiveDirect
  <2> DEFINE x == Item("sample")
  <2>1. /\ x \in H /\ UNCHANGED <<sending, list, pSample>>
        /\ batched' = Append(batched, x) \/ batched' = <<>>
    BY <1>2 DEF ReceiveDirect, Added
  <2> HIDE DEF x
  <2>2. Append(batched, x) \in Seq(H)
    BY <2>1 DEF Held
  <2>3. batched' \in Seq(H)
    BY <2>1, <2>2, EmptySeq
  <2> QED BY <2>1, <2>3 DEF Held
<1>3. CASE SendAnyway \/ EOS \/ QueueSegment \/ Reset
  <2>1. /\ UNCHANGED <<sending, pSample>>
        /\ batched' = <<>> \/ batched' = batched
        /\ list' = list \/ \E x \in H : list' = Append(list, x)
    <3>1. CASE SendAnyway
      BY <3>1 DEF SendAnyway, Added, SendThen
    <3>2. CASE EOS
      BY <3>2 DEF EOS, Added, SendThen
    <3>3. CASE QueueSegment
      BY <3>3 DEF QueueSegment, Added, SendSegment
    <3>4. CASE Reset
      BY <3>4 DEF Reset, Added
    <3> QED BY <1>3, <3>1, <3>2, <3>3, <3>4
  <2>2. batched' \in Seq(H)
    BY <2>1, EmptySeq DEF Held
  <2>3. list' \in Seq(H)
    <3>1. CASE list' = list
      BY <3>1 DEF Held
    <3>2. CASE \E x \in H : list' = Append(list, x)
      BY <3>2 DEF Held
    <3> QED BY <2>1, <3>1, <3>2
  <2> QED BY <2>1, <2>2, <2>3 DEF Held
<1>4. CASE GetBatch
  BY <1>4, HeldByThread
<1>5. CASE Send \/ Delivered \/ Act \/ FlushComplete \/ Delete
  <2>1. /\ sending' \in {<<>>, sending} /\ batched' \in {<<>>, batched} /\ list' \in {<<>>, list}
        /\ pSample' \in {Nothing, pSample}
    BY <1>5 DEF Send, Delivered, Act, FlushComplete, Delete
  <2> QED BY <2>1, EmptySeq DEF Held
<1>6. CASE NewSegment \/ Wake \/ BeginFlush \/ FlushDownstream \/ EndFlush \/ Flushed
           \/ EndFlushDownstream \/ ResetReturns \/ Deleted \/ Gone \/ UNCHANGED vars
  <2>1. UNCHANGED <<list, batched, sending, pSample>>
    BY Zenon, <1>6 DEF NewSegment, Wake, BeginFlush, FlushDownstream, EndFlush, Flushed,
                EndFlushDownstream, ResetReturns, Deleted, Gone, vars
  <2> QED BY <2>1 DEF Held
<1> QED BY <1>1, <1>2, <1>3, <1>4, <1>5, <1>6 DEF Next, ThreadProc

\* What is in a set is in a greater one.
LEMMA HeldMore == ASSUME NEW H, NEW T, H \subseteq T, Held(H) PROVE Held(T)
<1>1. Seq(H) \subseteq Seq(T)
  BY SeqMonotonic
<1> QED BY <1>1 DEF Held

\* What comes out is what was held, or what the call gives.
OutGrows(H) == \E s \in Seq(H) : out' = out \o s

\* The first items of a batch, and one after them.
LEMMA FirstOf ==
  ASSUME NEW H, NEW b \in Seq(H), NEW n \in 0..Len(b)
  PROVE  SubSeq(b, 1, n) \in Seq(H) /\ \A x \in H : SubSeq(b, 1, n) \o <<x>> \in Seq(H)
<1> DEFINE s == SubSeq(b, 1, n)
<1>1. s \in Seq(H)
  OBVIOUS
<1> HIDE DEF s
<1>2. \A x \in H : s \o <<x>> \in Seq(H)
  BY <1>1
<1> QED BY <1>1, <1>2 DEF s

\* What a step delivers was held before, or the call gave it.
LEMMA OutStep ==
  ASSUME OutputQueueAssumption, QTypes, NEW H, Held(H), Added(H), [Next]_vars
  PROVE  OutGrows(H)
<1> USE DEF OutGrows, data, unmoved
<1>0. out \in Seq(Things)
  BY DEF QTypes, QTyped
<1>1. out \o <<>> = out /\ <<>> \in Seq(H)
  BY <1>0, ConcatEmptySeq, EmptySeq
<1>2. CASE out' = out
  BY Zenon, <1>1, <1>2
<1>3. CASE ReceiveDirect
  <2> DEFINE b == Append(batched, Item("sample"))
  <2>1. b \in Seq(H)
    <3> DEFINE x == Item("sample")
    <3>1. x \in H
      BY <1>3 DEF Added
    <3> HIDE DEF x
    <3>2. Append(batched, x) \in Seq(H)
      BY <3>1 DEF Held
    <3> QED BY <3>2 DEF x
  <2>2. out' = out \/ \E n \in 0..Len(b) : out' = out \o SubSeq(b, 1, n)
    BY Zenon, <1>3 DEF ReceiveDirect
  <2> HIDE DEF b
  <2> QED BY <1>2, <2>1, <2>2, FirstOf
<1>4. CASE SendAnyway
  <2>1. out' = out \/ \E n \in 0..Len(batched) : out' = out \o SubSeq(batched, 1, n) \o <<>>
    BY <1>4 DEF SendAnyway, SendThen
  <2>2. ASSUME NEW n \in 0..Len(batched), out' = out \o SubSeq(batched, 1, n) \o <<>>
        PROVE  OutGrows(H)
    <3> DEFINE s == SubSeq(batched, 1, n)
    <3>1. s \in Seq(H) /\ s \in Seq(Samples)
      BY FirstOf DEF Held, QTypes, QTyped
    <3>2. out' = out \o s \o <<>>
      BY <2>2
    <3> HIDE DEF s
    <3>3. s \in Seq(Things)
      BY <3>1, ThingsAre, SeqMonotonic
    <3>4. out' = out \o s
      BY <1>0, <3>2, <3>3
    <3> QED BY <3>1, <3>4
  <2> QED BY <1>2, <2>1, <2>2
<1>5. ASSUME NEW x \in H, NEW n \in 0..Len(batched), x \in Things,
             \/ out' = out \o SubSeq(batched, 1, n) \o <<>>
             \/ out' = out \o SubSeq(batched, 1, n) \o <<x>>
      PROVE  OutGrows(H)
  <2> DEFINE s == SubSeq(batched, 1, n)
  <2>1. s \in Seq(H) /\ s \o <<x>> \in Seq(H) /\ s \in Seq(Samples)
    BY <1>5, FirstOf DEF Held, QTypes, QTyped
  <2>2. out' = out \o s \o <<>> \/ out' = out \o s \o <<x>>
    BY <1>5
  <2> HIDE DEF s
  <2>3. s \in Seq(Things) /\ <<x>> \in Seq(Things)
    BY <1>5, <2>1, ThingsAre, SeqMonotonic
  <2>4. out' = out \o s \/ out' = out \o (s \o <<x>>)
    <3>1. out \o s \o <<>> = out \o s
      BY <1>0, <2>3
    <3>2. (out \o s) \o <<x>> = out \o (s \o <<x>>)
      BY <1>0, <2>3, ConcatAssociative
    <3> QED BY Zenon, <2>2, <3>1, <3>2
  <2> QED BY <2>1, <2>4
<1>6. CASE EOS
  <2> DEFINE x == Item("eos")
  <2>1. x \in H
    BY <1>6 DEF Added
  <2>2. \/ out' = out
        \/ \E n \in 0..Len(batched) : \/ out' = out \o SubSeq(batched, 1, n) \o <<>>
                                      \/ out' = out \o SubSeq(batched, 1, n) \o <<x>>
    BY <1>6 DEF EOS, SendThen
  <2>3. x \in Things
    <3>1. accepted < MaxItems
      BY <1>6 DEF EOS, MayAdd, QTypes, OneTyped, CountsTyped
    <3> QED BY <3>1, ItemsFit, ThingsAre
  <2> HIDE DEF x
  <2> QED BY <1>2, <1>5, <2>1, <2>2, <2>3
<1>7. CASE QueueSegment
  <2> DEFINE x == Item("segment")
  <2>1. x \in H
    BY <1>7 DEF Added
  <2>2. \/ out' = out
        \/ \E n \in 0..Len(batched) : out' = out \o SubSeq(batched, 1, n) \o <<x>>
    BY <1>7 DEF QueueSegment, SendSegment
  <2>3. x \in Things
    <3>1. accepted < MaxItems
      BY <1>7 DEF QueueSegment, QTypes, OneTyped, CountsTyped
    <3> QED BY <3>1, ItemsFit, ThingsAre
  <2> HIDE DEF x
  <2> QED BY <1>2, <1>5, <2>1, <2>2, <2>3
<1>8. CASE Delivered
  <2>1. \E n \in 0..Len(sending) : out' = out \o SubSeq(sending, 1, n)
    BY Zenon, <1>8 DEF Delivered
  <2> QED BY <2>1, FirstOf DEF Held
<1>9. CASE Act
  <2>1. out' = out \/ out' = Append(out, pSample)
    BY <1>9 DEF Act
  <2>2. pSample \in H /\ <<pSample>> \in Seq(H)
    BY DEF Held
  <2>3. CASE out' = Append(out, pSample) /\ out' # out
    <3>1. pSample.kind \in {"eos", "segment"}
      BY <1>9, <2>3 DEF Act
    <3>2. pSample \in Things
      BY <3>1, ThingsAre DEF QTypes, QTyped
    <3>3. out' = out \o <<pSample>>
      BY <1>0, <2>3, <3>2, AppendIsConcat
    <3> QED BY Zenon, <2>2, <3>3
  <2> QED BY <1>2, <2>1, <2>3
<1>10. CASE ReceiveQueued \/ NewSegment \/ GetBatch \/ Wake \/ Send
  BY <1>2, <1>10 DEF ReceiveQueued, NewSegment, GetBatch, Wake, Send
<1>11. CASE BeginFlush \/ FlushDownstream \/ EndFlush \/ FlushComplete \/ Flushed \/ EndFlushDownstream
  BY <1>2, <1>11 DEF BeginFlush, FlushDownstream, EndFlush, FlushComplete, Flushed, EndFlushDownstream
<1>12. CASE Reset \/ ResetReturns \/ Delete \/ Deleted \/ Gone \/ UNCHANGED vars
  BY <1>2, <1>12 DEF Reset, ResetReturns, Delete, Deleted, Gone, vars
<1> QED BY <1>3, <1>4, <1>6, <1>7, <1>8, <1>9, <1>10, <1>11, <1>12 DEF Next, ThreadProc

-----------------------------------------------------------------------------
(* Nothing of before a flush comes out after it.                            *)

\* The flush is over for the thread, or there is nothing to flush.
Calm ==
  \/ m_bFlushed \/ control = "complete"
  \/ control \in {"beginning", "flushing", "ending"} /\ evFlushComplete
ClosedInv ==
  /\ control = "ended" => m_bFlushed
  /\ IsQueued /\ control \in {"beginning", "flushing", "ending", "complete", "ended"} =>
       m_hr = "S_FALSE"
StaleInv ==
  ~early =>
    /\ Held(Fresh(floor))
    /\ control # "resetting" => Held(NoResets)
    /\ Calm => Held(Unflushed)
    /\ ClosedInv

\* What a call adds: nothing of before the last flush, a reset only in Reset, and no
\* sample or end of the stream but in Receive and EOS.
LEMMA SetsOfItems ==
  ASSUME OutputQueueAssumption, QTypes, Next
  PROVE  /\ Added(Fresh(floor))
         /\ control' # "resetting" => Added(NoResets)
         /\ ~(ReceiveQueued \/ ReceiveDirect \/ EOS) => Added(Unflushed)
         /\ \A n : Unflushed \subseteq Fresh(n) /\ Nothing \in Fresh(n)
         /\ Nothing \in NoResets /\ Nothing \in Unflushed
<1>0. /\ Nothing.kind = "nothing"
      /\ \A k : Item(k).kind = k /\ Item(k).id = accepted + 1 /\ Message(k).kind = k
  BY ThingsAre DEF Item, Message
<1>1. \A n : Unflushed \subseteq Fresh(n) /\ Nothing \in Fresh(n)
  BY <1>0 DEF Fresh, Unflushed
<1>2. Nothing \in NoResets /\ Nothing \in Unflushed
  BY <1>0 DEF NoResets, Unflushed
<1>3. accepted \in Nat /\ floor \in Nat /\ floor <= accepted /\ accepted + 1 > floor
  BY DEF QTypes, OneTyped, CountsTyped
<1>4. /\ ReceiveQueued \/ ReceiveDirect \/ EOS \/ QueueSegment => accepted < MaxItems
  BY DEF ReceiveQueued, ReceiveDirect, EOS, QueueSegment, MayAdd, QTypes, OneTyped, CountsTyped
<1>5. /\ ReceiveQueued \/ ReceiveDirect => Item("sample") \in Queueable
      /\ EOS => Item("eos") \in Queueable
      /\ QueueSegment => Item("segment") \in Queueable
      /\ Message("send") \in Queueable /\ Message("reset") \in Queueable
  BY <1>4, ItemsFit DEF Queueable
<1>6. Added(Fresh(floor))
  BY Zenon, <1>0, <1>3, <1>5 DEF Added, Fresh
<1>7. ASSUME control' # "resetting" PROVE Added(NoResets)
  <2>1. ~(Reset /\ IsQueued)
    BY <1>7 DEF Reset
  <2>2. "sample" # "reset" /\ "eos" # "reset" /\ "segment" # "reset" /\ "send" # "reset"
    OBVIOUS
  <2> QED BY Zenon, <1>0, <1>5, <2>1, <2>2 DEF Added, NoResets
<1>8. ASSUME ~(ReceiveQueued \/ ReceiveDirect \/ EOS) PROVE Added(Unflushed)
  <2>2. "send" \notin {"sample", "eos"} /\ "segment" \notin {"sample", "eos"}
        /\ "reset" \notin {"sample", "eos"}
    OBVIOUS
  <2> QED BY Zenon, <1>0, <1>5, <1>8, <2>2 DEF Added, Unflushed
<1> QED BY <1>1, <1>2, <1>6, <1>7, <1>8

\* Once the thread has flushed, or the flush is over without it, the queue holds no
\* sample and no end of the stream.
LEMMA CalmStep ==
  ASSUME OutputQueueAssumption, QTypes, ThreadInv, NoThreadInv, StaleInv, ~early, Next, Calm'
  PROVE  Held(Unflushed)'
<1>0. Nothing \in Unflushed
  BY SetsOfItems
<1>1. m_bFlushed \in BOOLEAN /\ m_bFlushed' \in BOOLEAN /\ evFlushComplete \in BOOLEAN
  <2>1. FlagsTyped'
    BY TypesStep DEF QTypes, OneTyped
  <2> QED BY <2>1 DEF QTypes, OneTyped, FlagsTyped
<1> USE DEF Calm, data, code, wait, where, unmoved
<1>2. CASE ReceiveQueued \/ ReceiveDirect \/ EOS
  <2>1. ~m_bFlushed' /\ control' = control /\ control \in {"idle", "beginning", "resetting"}
        /\ evFlushComplete' = evFlushComplete /\ m_hr = "S_OK"
    BY <1>2 DEF ReceiveQueued, ReceiveDirect, EOS, MayAdd, MayCall, NotifyThread
  <2>2. control = "beginning" /\ evFlushComplete
    BY <2>1
  <2> QED BY <2>1, <2>2 DEF NoThreadInv, StaleInv, ClosedInv
<1>3. CASE Calm /\ ~(ReceiveQueued \/ ReceiveDirect \/ EOS)
  <2>1. Held(Unflushed) /\ Added(Unflushed)
    BY <1>3, SetsOfItems DEF StaleInv
  <2> QED BY <1>0, <2>1, HeldStep
<1>4. CASE ~Calm /\ GetBatch
  <2>1. pSample = Nothing /\ sending = <<>>
    BY <1>4 DEF GetBatch, ThreadInv, HandsInv
  <2>2. FreeSamples
    BY <1>4 DEF GetBatch
  <2> QED BY <1>0, <2>1, <2>2, EmptySeq DEF FreeSamples, Held
<1>5. CASE ~Calm /\ Act
  <2>1. pSample.kind = "reset"
    BY <1>4, <1>5 DEF Act
  <2>2. control = "resetting"
    BY <2>1 DEF StaleInv, Held, NoResets
  <2> QED BY <1>5, <2>2 DEF Act
<1>6. CASE ~Calm /\ FlushComplete
  <2>1. ~IsQueued
    BY <1>6 DEF FlushComplete
  <2>2. pSample = Nothing /\ sending = <<>> /\ list' = <<>> /\ batched' = <<>>
    BY <1>6, <2>1 DEF FlushComplete, NoThreadInv, ThreadInv, HandsInv
  <2>3. sending' = sending /\ pSample' = pSample
    BY <1>6 DEF FlushComplete
  <2> QED BY <1>0, <2>2, <2>3, EmptySeq DEF Held
<1>7. CASE ~Calm /\ (SendAnyway \/ NewSegment \/ QueueSegment \/ Wake \/ Send \/ Delivered)
  <2>1. m_bFlushed' => m_bFlushed
    <3>1. CASE SendAnyway \/ NewSegment \/ Wake \/ Send \/ Delivered
      BY <1>1, <3>1 DEF SendAnyway, NewSegment, Wake, Send, Delivered
    <3>2. CASE QueueSegment
      <4>1. m_bFlushed' = m_bFlushed \/ m_bFlushed' = (m_bFlushed /\ ~(setting.exact /\ m_hr = "S_OK"))
        BY <3>2 DEF QueueSegment
      <4> QED BY Zenon, <1>1, <4>1
    <3> QED BY <1>7, <3>1, <3>2
  <2>2. UNCHANGED <<control, evFlushComplete>>
    BY <1>7 DEF SendAnyway, NewSegment, QueueSegment, Wake, Send, Delivered, NotifyThread
  <2> QED BY <1>7, <2>1, <2>2
<1>8. CASE ~Calm /\ (BeginFlush \/ FlushDownstream \/ EndFlush \/ Flushed \/ EndFlushDownstream)
  BY <1>8 DEF BeginFlush, FlushDownstream, EndFlush, Flushed, EndFlushDownstream, NoThreadInv
<1>9. CASE ~Calm /\ (Reset \/ ResetReturns \/ Delete \/ Deleted \/ Gone)
  BY <1>9 DEF Reset, ResetReturns, Delete, Deleted, Gone, vars
<1> QED BY <1>2, <1>3, <1>4, <1>5, <1>6, <1>7, <1>8, <1>9 DEF Next, ThreadProc

\* Until then its deliveries fail, when it has a thread.
LEMMA ClosedStep ==
  ASSUME OutputQueueAssumption, QTypes, ThreadInv, NoThreadInv, StaleInv, ~early, Next
  PROVE  ClosedInv'
<1>1. ClosedInv /\ (control # "resetting" => pSample.kind # "reset")
  BY DEF StaleInv, Held, NoResets
<1>2. setting' = setting
  BY SettingStays
<1> USE DEF ClosedInv, data, code, wait, where, unmoved, MayCall, MayAdd, IsQueued
<1>3. CASE ReceiveQueued \/ ReceiveDirect \/ SendAnyway \/ EOS
  BY <1>1, <1>2, <1>3 DEF ReceiveQueued, ReceiveDirect, SendAnyway, EOS
<1>4. CASE NewSegment \/ QueueSegment
  BY <1>1, <1>2, <1>4 DEF NewSegment, QueueSegment, ThreadInv, FlushInv
<1>5. CASE ThreadProc \/ Delivered
  BY <1>1, <1>2, <1>5 DEF ThreadProc, GetBatch, Wake, Send, Act, Delivered
<1>6. CASE BeginFlush \/ FlushDownstream \/ EndFlush \/ FlushComplete \/ Flushed \/ EndFlushDownstream
  BY <1>1, <1>2, <1>6 DEF BeginFlush, FlushDownstream, EndFlush, FlushComplete, Flushed, EndFlushDownstream
<1>7. CASE Reset \/ ResetReturns \/ Delete \/ Deleted \/ Gone
  BY <1>1, <1>2, <1>7 DEF Reset, ResetReturns, Delete, Deleted, Gone, vars
<1> QED BY <1>3, <1>4, <1>5, <1>6, <1>7 DEF Next

\* A reset is in the queue only while Reset waits for it.
LEMMA NoResetsStep ==
  ASSUME OutputQueueAssumption, QTypes, ThreadInv, NoThreadInv, StaleInv, ~early, Next,
         ~early', control' # "resetting"
  PROVE  Held(NoResets)'
<1>1. Nothing \in NoResets /\ Added(NoResets)
  BY SetsOfItems
<1>2. CASE control # "resetting"
  <2>1. Held(NoResets)
    BY <1>2 DEF StaleInv
  <2> QED BY <1>1, <2>1, HeldStep
<1>3. CASE control = "resetting"
  <2>1. ResetReturns
    <3> USE DEF where, unmoved
    <3>1. ~(ReceiveQueued \/ ReceiveDirect \/ SendAnyway \/ EOS \/ NewSegment \/ QueueSegment)
      BY <1>3 DEF ReceiveQueued, ReceiveDirect, SendAnyway, EOS, NewSegment, QueueSegment
    <3>2. ~(ThreadProc \/ Delivered)
      BY <1>3 DEF ThreadProc, GetBatch, Wake, Send, Act, Delivered
    <3>3. ~(BeginFlush \/ FlushDownstream \/ EndFlush \/ FlushComplete \/ Flushed \/ EndFlushDownstream)
      BY <1>3 DEF BeginFlush, FlushDownstream, EndFlush, FlushComplete, Flushed, EndFlushDownstream
    <3>4. ~(Reset \/ Delete \/ Deleted \/ Gone)
      BY <1>3 DEF Reset, Delete, Deleted, Gone, vars
    <3> QED BY <3>1, <3>2, <3>3, <3>4 DEF Next
  <2>2. ResetIsDealtWith
    BY <2>1 DEF ResetReturns, FlagsTyped
  <2>3. list \in Seq(Queueable) /\ batched \in Seq(Samples) /\ sending \in Seq(Samples)
        /\ pSample \in Queueable \cup {Nothing}
    BY DEF QTypes, QTyped, Queueable
  <2>4. pSample.kind # "reset" /\ \A i \in 1..Len(list) : list[i].kind # "reset"
    <3> DEFINE a == <<pSample>> \o list
    <3>1. /\ DOMAIN a = 1..(Len(list) + 1) /\ a[1] = pSample /\ Len(list) \in Nat
          /\ \A i \in 1..Len(list) : a[i + 1] = list[i]
      BY <2>3
    <3>2. \A i \in DOMAIN a : a[i].kind # "reset"
      BY Zenon, <2>2 DEF ResetIsDealtWith
    <3> HIDE DEF a
    <3>3. a[1].kind # "reset"
      BY <3>1, <3>2
    <3>4. ASSUME NEW i \in 1..Len(list) PROVE list[i].kind # "reset"
      <4>1. i + 1 \in DOMAIN a
        BY <3>1
      <4> QED BY <3>1, <3>2, <4>1
    <3> QED BY <3>1, <3>3, <3>4
  <2>5. Samples \subseteq NoResets
    BY ThingsAre DEF NoResets, Queueable
  <2>6. batched \in Seq(NoResets) /\ sending \in Seq(NoResets)
    BY <2>3, <2>5, SeqMonotonic
  <2>7. pSample \in NoResets /\ \A i \in 1..Len(list) : list[i] \in NoResets
    BY <2>3, <2>4 DEF NoResets
  <2>8. list \in Seq(NoResets)
    BY <2>3, <2>7
  <2> QED BY <2>1, <2>6, <2>7, <2>8 DEF ResetReturns, Held
<1> QED BY <1>2, <1>3

\* So StaleInv is kept by every step.
LEMMA StaleStep ==
  ASSUME OutputQueueAssumption, QTypes, ThreadInv, NoThreadInv, StaleInv, [Next]_vars
  PROVE  StaleInv'
<1>1. SUFFICES ASSUME ~early', Next PROVE StaleInv'
  <2>1. CASE UNCHANGED vars
    BY <2>1 DEF vars, data, code, wait, where, marks, StaleInv, ClosedInv, Calm, Held, IsQueued, Fresh
  <2>2. CASE early'
    BY <2>2 DEF StaleInv
  <2> QED BY <2>1, <2>2
<1> USE DEF marks, unmoved
<1>2. ~early
  <2>1. early' = early \/ ResetReturns
    BY <1>1 DEF Next, ReceiveQueued, ReceiveDirect, SendAnyway, EOS, NewSegment, QueueSegment,
       ThreadProc, GetBatch, Wake, Send, Act, Delivered, BeginFlush, FlushDownstream, EndFlush,
       FlushComplete, Flushed, EndFlushDownstream, Reset, Delete, Deleted, Gone, vars
  <2>2. CASE ResetReturns
    BY <1>1, <2>2 DEF ResetReturns
  <2> QED BY <1>1, <2>1, <2>2
<1>3. Held(Fresh(floor))'
  <2> DEFINE H == Fresh(floor)
  <2>1. Held(H) /\ Nothing \in H /\ Added(H)
    BY <1>1, <1>2, SetsOfItems DEF StaleInv
  <2>2. sending' \in Seq(H) /\ batched' \in Seq(H) /\ list' \in Seq(H) /\ pSample' \in H
    <3> PICK T : T = H
      OBVIOUS
    <3> HIDE DEF H
    <3> QED BY <1>1, <2>1, HeldStep DEF Held
  <2>3. CASE floor' = floor
    BY <2>2, <2>3 DEF Held, Fresh
  <2>4. CASE floor' # floor
    <3>1. Calm'
      <4>1. EndFlush \/ EndFlushDownstream
        BY <1>1, <2>4 DEF Next, ReceiveQueued, ReceiveDirect, SendAnyway, EOS, NewSegment,
           QueueSegment, ThreadProc, GetBatch, Wake, Send, Act, Delivered, BeginFlush,
           FlushDownstream, FlushComplete, Flushed, Reset, ResetReturns, Delete, Deleted, Gone, vars
      <4>2. m_bFlushed /\ m_bFlushed' = m_bFlushed
        BY <1>2, <2>4, <4>1 DEF EndFlush, EndFlushDownstream, StaleInv, ClosedInv
      <4> QED BY <4>2 DEF Calm
    <3>2. Held(Unflushed)'
      BY <1>1, <1>2, <3>1, CalmStep
    <3>3. Unflushed \subseteq Fresh(floor')
      BY <1>1, SetsOfItems
    <3>4. Seq(Unflushed) \subseteq Seq(Fresh(floor'))
      BY <3>3, SeqMonotonic
    <3>5. /\ sending' \in Seq(Fresh(floor')) /\ batched' \in Seq(Fresh(floor'))
          /\ list' \in Seq(Fresh(floor')) /\ pSample' \in Fresh(floor')
      BY <3>2, <3>3, <3>4 DEF Held, Unflushed
    <3> QED BY <3>5 DEF Held, Fresh
  <2> QED BY <2>3, <2>4
<1>4. (control # "resetting" => Held(NoResets))'
  BY <1>1, <1>2, NoResetsStep
<1>5. (Calm => Held(Unflushed))'
  BY <1>1, <1>2, CalmStep
<1>6. ClosedInv'
  BY <1>1, <1>2, ClosedStep
<1> QED BY <1>3, <1>4, <1>5, <1>6 DEF StaleInv

(***************************************************************************)
(* The output queue: the whole invariant, and what it says                 *)
(***************************************************************************)

OutputInv == QTypes /\ ThreadInv /\ NoThreadInv /\ WakeInv /\ StaleInv

\* The invariant of the output queue holds at first ...
LEMMA OutputStart ==
  ASSUME OutputQueueAssumption, Settings \subseteq UsualSettings, Init
  PROVE  OutputInv
<1>1. QTypes /\ ThreadInv /\ NoThreadInv
  BY TypesStart
<1>2. WakeInv
  BY DEF WakeInv, Init, IsQueued
<1>3. Nothing.kind = "nothing"
  BY ThingsAre
<1>4. Nothing \in Unflushed /\ Nothing \in NoResets /\ Nothing \in Fresh(floor)
  BY <1>3 DEF Unflushed, NoResets, Fresh
<1>5. ASSUME NEW H, Nothing \in H PROVE Held(H)
  BY <1>5, EmptySeq DEF Held, Init
<1>6. ClosedInv
  BY DEF ClosedInv, Init
<1>7. StaleInv
  BY <1>4, <1>5, <1>6 DEF StaleInv
<1> QED BY <1>1, <1>2, <1>7 DEF OutputInv

\* ... and every step keeps it.
LEMMA OutputStep ==
  ASSUME OutputQueueAssumption, OutputInv, [Next]_vars
  PROVE  OutputInv'
<1>1. CountsTyped /\ FlagsTyped
  BY DEF OutputInv, QTypes, OneTyped
<1>2. QTypes' /\ WakeInv' /\ StaleInv'
  BY TypesStep, WakeStep, StaleStep DEF OutputInv
<1>3. WaitCounted' /\ EndInv' /\ FlushInv' /\ HandsInv'
  BY <1>1, WaitCountedStep, EndStep, FlushStep, HandsStep DEF OutputInv, ThreadInv
<1>4. NoThreadInv'
  BY NoThreadStep DEF OutputInv, ThreadInv
<1> QED BY <1>2, <1>3, <1>4 DEF OutputInv, ThreadInv

\* It says that the variables have values of their kinds, ...
LEMMA OutputTypes == ASSUME OutputQueueAssumption, OutputInv PROVE TypeOK
<1>1. MaxItems \in Nat /\ MaxFlushes \in Nat /\ setting.size \in {1, 2}
  BY DEF OutputQueueAssumption, OutputInv, QTypes, OneTyped, UsualSettings, AllSettings
<1>2. Queueable \subseteq [kind : {"sample", "eos", "segment", "send", "reset"}, id : 0..MaxItems]
  BY <1>1 DEF Queueable, Samples, Enders, Packets, Message
<1>3. list \in Seq([kind : {"sample", "eos", "segment", "send", "reset"}, id : 0..MaxItems])
  BY <1>2, SeqMonotonic DEF OutputInv, QTypes, QTyped
<1>4. Samples \subseteq Things
  BY ThingsAre
<1>5. batched \in Seq(Things) /\ sending \in Seq(Things) /\ out \in Seq(Things)
  BY <1>4, SeqMonotonic DEF OutputInv, QTypes, QTyped
<1>6. Len(batched) <= setting.size
  <2>1. Len(batched) \in Nat
    BY DEF OutputInv, QTypes, QTyped
  <2>2. Len(batched) < setting.size
    BY DEF OutputInv, ThreadInv, HandsInv, NoThreadInv
  <2> QED BY <1>1, <2>1, <2>2
<1>7. m_lWaiting \in 0..1 /\ sem \in 0..1
  BY DEF OutputInv, ThreadInv, WaitCounted, QTypes, OneTyped, CountsTyped
<1>8. PlacesTyped /\ FlagsTyped /\ CountsTyped /\ setting \in Settings
  BY DEF OutputInv, QTypes, OneTyped
<1> QED BY <1>3, <1>5, <1>6, <1>7, <1>8 DEF TypeOK, PlacesTyped, FlagsTyped, CountsTyped

\* ... that the thread does not sleep on something to do, ...
LEMMA OutputWakes == ASSUME OutputInv PROVE NoLostWakeup
<1>1. m_lWaiting \in Nat /\ sem \in Nat /\ (m_lWaiting + sem = IF thread = "waiting" THEN 1 ELSE 0)
  BY DEF OutputInv, ThreadInv, WaitCounted, QTypes, OneTyped, CountsTyped
<1>2. SUFFICES ASSUME thread = "waiting", sem = 0 PROVE NoLostWakeup
  BY DEF NoLostWakeup
<1>3. m_lWaiting = 1
  BY <1>1, <1>2
<1>4. DOMAIN list = 1..Len(list)
  BY DEF OutputInv, QTypes, QTyped
<1> QED BY <1>2, <1>3, <1>4 DEF NoLostWakeup, OutputInv, WakeInv, SamplesOnly

\* OfKindsCat for all sequences at once.
LEMMA OfKindsCats ==
  \A kinds, A : \A s, t \in Seq(A) :
    OfKinds(kinds, s \o t) = OfKinds(kinds, s) \o OfKinds(kinds, t)
BY OfKindsCat

\* What is selected of one item.
LEMMA OfOne ==
  ASSUME NEW A, NEW kinds, NEW x \in A
  PROVE  OfKinds(kinds, <<x>>) = Piece(kinds, x)
<1> DEFINE e == <<>>
<1>1. e \in Seq(A) /\ <<x>> = Append(e, x) /\ OfKinds(kinds, e) = <<>>
  BY OfNoItems
<1>2. Append(e, x) = <<x>>
  OBVIOUS
<1> HIDE DEF e
<1>3. OfKinds(kinds, Append(e, x)) =
        IF x.kind \in kinds THEN Append(OfKinds(kinds, e), x) ELSE OfKinds(kinds, e)
  BY <1>1, OfKindsAppend
<1> QED BY <1>1, <1>2, <1>3 DEF Piece, e

Holdable == Queueable \cup {Nothing}

\* What is still to come out, piece by piece.
LEMMA PendingIs ==
  ASSUME QTypes
  PROVE  /\ IsQueued \/ m_hr = "S_OK" =>
              pending = sending \o (Piece(Kinds, pSample) \o (batched \o OfKinds(Kinds, list)))
         /\ sending \in Seq(Things) /\ Piece(Kinds, pSample) \in Seq(Things)
         /\ batched \in Seq(Things) /\ OfKinds(Kinds, list) \in Seq(Things)
         /\ pending \in Seq(Things)
<1>1. /\ pSample \in Holdable /\ batched \in Seq(Holdable) /\ list \in Seq(Holdable)
      /\ batched \in Seq(Samples) /\ list \in Seq(Queueable)
  <2>1. Samples \subseteq Holdable /\ Queueable \subseteq Holdable /\ pSample \in Holdable
    BY DEF QTypes, QTyped, Queueable, Holdable
  <2> QED BY <2>1, SeqMonotonic DEF QTypes, QTyped
<1>2. OfKinds(Kinds, <<pSample>> \o batched \o list) =
        Piece(Kinds, pSample) \o (batched \o OfKinds(Kinds, list))
  <2>1. <<pSample>> \in Seq(Holdable) /\ OfKinds(Kinds, <<pSample>>) = Piece(Kinds, pSample)
    BY <1>1, OfOne
  <2>2. OfKinds(Kinds, batched) = batched
    <3>1. \A i \in 1..Len(batched) : batched[i].kind \in Kinds
      BY <1>1, ThingsAre DEF Kinds
    <3> QED BY <1>1, <3>1, OfKindsAll
  <2>3. batched \o list \in Seq(Holdable)
    BY <1>1, ConcatProperties
  <2>4. <<pSample>> \o batched \o list = <<pSample>> \o (batched \o list)
    BY <1>1, <2>1, ConcatAssociative
  <2>5. OfKinds(Kinds, batched \o list) = OfKinds(Kinds, batched) \o OfKinds(Kinds, list)
    BY <1>1, OfKindsCats
  <2>6. OfKinds(Kinds, <<pSample>> \o (batched \o list)) =
          OfKinds(Kinds, <<pSample>>) \o OfKinds(Kinds, batched \o list)
    <3>1. PICK a, b : a = <<pSample>> /\ b = batched \o list
      OBVIOUS
    <3>2. a \in Seq(Holdable) /\ b \in Seq(Holdable)
      BY <2>1, <2>3, <3>1
    <3>3. OfKinds(Kinds, a \o b) = OfKinds(Kinds, a) \o OfKinds(Kinds, b)
      BY <3>2, OfKindsCat
    <3> QED BY <3>1, <3>3
  <2> QED BY Zenon, <2>1, <2>2, <2>4, <2>5, <2>6
<1>7. /\ sending \in Seq(Things) /\ Piece(Kinds, pSample) \in Seq(Things)
      /\ batched \in Seq(Things)
  <2>1. Samples \subseteq Things /\ (pSample.kind \in Kinds => pSample \in Things)
    BY ThingsAre DEF QTypes, QTyped, Kinds
  <2>2. Piece(Kinds, pSample) \in Seq(Things)
    BY <2>1 DEF Piece
  <2> QED BY <1>1, <2>1, <2>2, SeqMonotonic DEF QTypes, QTyped
<1>8. OfKinds(Kinds, list) \in Seq(Things)
  <2>1. {x \in Queueable : x.kind \in Kinds} \subseteq Things
    BY ThingsAre DEF Queueable, Kinds
  <2>2. OfKinds(Kinds, list) \in Seq({x \in Queueable : x.kind \in Kinds})
    BY <1>1, OfKindsIn
  <2> QED BY <2>1, <2>2, SeqMonotonic
<1>10. sending \o (Piece(Kinds, pSample) \o (batched \o OfKinds(Kinds, list))) \in Seq(Things)
  BY <1>7, <1>8
<1>11. pending = IF IsQueued \/ m_hr = "S_OK"
                 THEN sending \o (Piece(Kinds, pSample) \o (batched \o OfKinds(Kinds, list)))
                 ELSE <<>>
  BY Zenon, <1>2 DEF pending
<1> QED BY <1>7, <1>8, <1>10, <1>11, EmptySeq

\* ... that a queue that says that it is idle has nothing left, ...
LEMMA OutputIdle == ASSUME OutputInv PROVE IdleMeansDone
<1>1. SUFFICES ASSUME ~setting.exact, IsIdle PROVE pending = <<>>
  BY DEF IdleMeansDone
<1>2. batched = <<>> /\ list = <<>> /\ sending = <<>> /\ pSample = Nothing
  <2>1. CASE IsQueued
    <3>1. thread = "waiting" /\ sem = 0
      BY <1>1, <2>1 DEF IsIdle, OutputInv, ThreadInv, WaitCounted, QTypes, OneTyped, CountsTyped
    <3> QED BY <1>1, <3>1 DEF IsIdle, OutputInv, ThreadInv, HandsInv, WakeInv
  <2>2. CASE ~IsQueued
    BY <1>1, <2>2 DEF IsIdle, OutputInv, ThreadInv, HandsInv, NoThreadInv
  <2> QED BY <2>1, <2>2
<1>3. Piece(Kinds, pSample) = <<>>
  BY <1>2, ThingsAre DEF Piece, Kinds
<1>4. OfKinds(Kinds, list) = <<>>
  BY <1>2, OfNoItems
<1>5. IsQueued \/ m_hr = "S_OK" =>
        pending = sending \o (Piece(Kinds, pSample) \o (batched \o OfKinds(Kinds, list)))
  BY PendingIs DEF OutputInv
<1>6. <<>> \o (<<>> \o (<<>> \o <<>>)) = <<>>
  OBVIOUS
<1> QED BY Zenon, <1>2, <1>3, <1>4, <1>5, <1>6 DEF pending

\* ... and that what comes out after a flush was given after it.
LEMMA OutputFresh ==
  ASSUME OutputQueueAssumption, OutputInv, [Next]_vars, ~early
  PROVE  \A i \in DOMAIN out' \ DOMAIN out : out'[i].kind # "segment" => out'[i].id > floor
<1>1. CASE UNCHANGED vars
  BY <1>1 DEF vars, data
<1>2. CASE Next
  <2>1. OutGrows(Fresh(floor))
    BY <1>2, SetsOfItems, OutStep DEF OutputInv, StaleInv
  <2>2. PICK s \in Seq(Fresh(floor)) : out' = out \o s
    BY <2>1 DEF OutGrows
  <2>3. out \in Seq(Things) /\ out' \in Seq(Things)
    BY OutputStep DEF OutputInv, QTypes, QTyped
  <2>4. \A i \in 1..Len(s) : s[i] \in Fresh(floor)
    OBVIOUS
  <2>5. Len(s) \in Nat /\ s \in Seq(Fresh(floor))
    OBVIOUS
  <2> TAKE i \in DOMAIN out' \ DOMAIN out
  <2>6. i - Len(out) \in 1..Len(s) /\ out'[i] = s[i - Len(out)] /\ out'[i] \in Things
    BY <2>2, <2>3, <2>5
  <2>7. out'[i] \in Fresh(floor)
    BY <2>4, <2>6
  <2>8. out'[i].kind \in {"sample", "eos", "segment"}
    BY <2>6, ThingsAre
  <2> QED BY <2>7, <2>8 DEF Fresh
<1> QED BY <1>1, <1>2

(***************************************************************************)
(* Channels                                                                *)
(***************************************************************************)

\* Some of a sequence, in order.
OutOf(s, g) ==
  \E m \in 0..Len(g) : \E place \in [1..m -> 1..Len(g)] :
    /\ \A i, j \in DOMAIN place : i < j => place[i] < place[j]
    /\ s = [i \in 1..m |-> g[place[i]]]

\* The first ones come out, ...
LEMMA FirstOut ==
  ASSUME NEW A, NEW g \in Seq(A), NEW c \in 0..Len(g)
  PROVE  OutOf(SubSeq(g, 1, c), g)
<1> DEFINE place == [i \in 1..c |-> i]
<1>1. c \in Nat /\ Len(g) \in Nat /\ c <= Len(g)
  OBVIOUS
<1>2. place \in [1..c -> 1..Len(g)] /\ \A i, j \in DOMAIN place : i < j => place[i] < place[j]
  BY <1>1
<1>3. SubSeq(g, 1, c) = [i \in 1..c |-> g[place[i]]]
  <2>1. SubSeq(g, 1, c) = [i \in 1..c |-> g[i]]
    BY <1>1
  <2> QED BY <2>1
<1> HIDE DEF place
<1> QED BY <1>2, <1>3 DEF OutOf

\* ... or the first ones and the last.
LEMMA FirstAndLastOut ==
  ASSUME NEW A, NEW h \in Seq(A), NEW x \in A, NEW c \in 0..Len(h)
  PROVE  /\ OutOf(SubSeq(h, 1, c), h \o <<x>>)
         /\ OutOf(SubSeq(h, 1, c) \o <<x>>, h \o <<x>>)
<1> DEFINE g == h \o <<x>>
           last == Len(h) + 1
           place == [i \in 1..(c + 1) |-> IF i <= c THEN i ELSE last]
<1>1. c \in Nat /\ Len(h) \in Nat /\ c <= Len(h)
  OBVIOUS
<1>2. g \in Seq(A) /\ Len(g) = last /\ g[last] = x /\ \A i \in 1..Len(h) : g[i] = h[i]
  BY <1>1
<1>3. SubSeq(h, 1, c) = SubSeq(g, 1, c)
  <2>1. SubSeq(h, 1, c) = [i \in 1..c |-> h[i]]
    BY <1>1
  <2>2. SubSeq(g, 1, c) = [i \in 1..c |-> g[i]]
    <3> HIDE DEF g
    <3> QED BY <1>1, <1>2
  <2>3. \A i \in 1..c : h[i] = g[i]
    BY <1>1, <1>2
  <2> HIDE DEF g
  <2> QED BY <2>1, <2>2, <2>3
<1>4. OutOf(SubSeq(g, 1, c), g)
  <2> HIDE DEF g
  <2>1. c \in 0..Len(g)
    BY <1>1, <1>2
  <2> QED BY <1>2, <2>1, FirstOut
<1>5. place \in [1..(c + 1) -> 1..last] /\ \A i, j \in DOMAIN place : i < j => place[i] < place[j]
  BY <1>1
<1>6. SubSeq(h, 1, c) \o <<x>> = [i \in 1..(c + 1) |-> g[place[i]]]
  <2> DEFINE s == SubSeq(h, 1, c)
             t == s \o <<x>>
  <2>1. s \in Seq(A) /\ Len(s) = c /\ \A i \in 1..c : s[i] = h[i]
    BY <1>1
  <2> HIDE DEF s
  <2>2. t \in Seq(A) /\ Len(t) = c + 1 /\ t[c + 1] = x /\ \A i \in 1..c : t[i] = h[i]
    BY <1>1, <2>1
  <2>3. t = [i \in 1..(c + 1) |-> t[i]]
    <3> HIDE DEF t
    <3> QED BY <2>2
  <2>4. \A i \in 1..(c + 1) : t[i] = g[place[i]]
    <3> TAKE i \in 1..(c + 1)
    <3>1. CASE i <= c
      <4>1. i \in 1..c /\ i \in 1..Len(h) /\ place[i] = i
        BY <1>1, <3>1
      <4> HIDE DEF t, g, place
      <4> QED BY <1>2, <2>2, <4>1
    <3>2. CASE ~(i <= c)
      <4>1. i = c + 1 /\ place[i] = last
        BY <1>1, <3>2
      <4> HIDE DEF t, g, place
      <4> QED BY <1>2, <2>2, <4>1
    <3> QED BY <3>1, <3>2
  <2> HIDE DEF t, g, place
  <2>5. t = [i \in 1..(c + 1) |-> g[place[i]]]
    BY <2>3, <2>4
  <2> QED BY <2>5 DEF t, s
<1>7. c + 1 \in 0..Len(g) /\ Len(g) = last
  BY <1>1, <1>2
<1>8. OutOf(SubSeq(h, 1, c) \o <<x>>, g)
  <2> HIDE DEF g, place, last
  <2> QED BY <1>5, <1>6, <1>7 DEF OutOf
<1> QED BY <1>3, <1>4, <1>8

\* A step of a channel, for the channels of all three queues.
Moved(kinds, n, p, o, nn, pp, oo) ==
  \E new \in {<<>>} \cup {<<[kind |-> k, id |-> n + 1]>> : k \in kinds} :
    LET all == p \o new IN
    \E gone \in 0..Len(all) :
      /\ nn = n + Len(new)
      /\ pp = SubSeq(all, gone + 1, Len(all))
      /\ \E m \in 0..gone : \E place \in [1..m -> 1..gone] :
           /\ \A i, j \in DOMAIN place : i < j => place[i] < place[j]
           /\ oo = o \o [i \in 1..m |-> all[place[i]]]

\* Something may go in; of what goes some comes out, and the rest stays: a step of a
\* channel.
LEMMA Moves ==
  ASSUME NEW kinds, NEW n, NEW p, NEW o, NEW nn, NEW pp, NEW oo, NEW A,
         NEW new \in {<<>>} \cup {<<[kind |-> k, id |-> n + 1]>> : k \in kinds},
         NEW g \in Seq(A), NEW r \in Seq(A), NEW s,
         p \o new = g \o r, OutOf(s, g), nn = n + Len(new), pp = r, oo = o \o s
  PROVE  Moved(kinds, n, p, o, nn, pp, oo)
<1> DEFINE all == p \o new
           gone == Len(g)
<1>1. /\ Len(all) = gone + Len(r) /\ gone \in Nat /\ Len(r) \in Nat
      /\ \A i \in 1..gone : all[i] = g[i]
  <2>1. all = g \o r
    OBVIOUS
  <2> QED BY <2>1
<1>2. pp = SubSeq(all, gone + 1, Len(all))
  <2>1. all = g \o r
    OBVIOUS
  <2>2. SubSeq(g \o r, gone + 1, Len(g \o r)) = r
    <3> DEFINE u == g \o r
    <3>1. u \in Seq(A) /\ Len(u) = gone + Len(r) /\ \A i \in 1..Len(r) : u[gone + i] = r[i]
      OBVIOUS
    <3> HIDE DEF u
    <3>2. SubSeq(u, gone + 1, Len(u)) \in Seq(A) /\ Len(SubSeq(u, gone + 1, Len(u))) = Len(r)
          /\ \A i \in 1..Len(r) : SubSeq(u, gone + 1, Len(u))[i] = r[i]
      BY <1>1, <3>1
    <3>3. SubSeq(u, gone + 1, Len(u)) = r
      <4> PICK v : v = SubSeq(u, gone + 1, Len(u))
        OBVIOUS
      <4>1. v \in Seq(A) /\ Len(v) = Len(r) /\ \A i \in 1..Len(r) : v[i] = r[i]
        BY <3>2
      <4>2. v = r
        BY <4>1, SeqEqual
      <4> QED BY <4>2
    <3> QED BY <3>3 DEF u
  <2> QED BY <2>1, <2>2
<1>3. PICK m \in 0..gone : \E place \in [1..m -> 1..gone] :
        /\ \A i, j \in DOMAIN place : i < j => place[i] < place[j]
        /\ s = [i \in 1..m |-> g[place[i]]]
  BY DEF OutOf
<1>4. PICK place \in [1..m -> 1..gone] :
        /\ \A i, j \in DOMAIN place : i < j => place[i] < place[j]
        /\ s = [i \in 1..m |-> g[place[i]]]
  BY <1>3
<1>5. s = [i \in 1..m |-> all[place[i]]]
  <2>1. \A i \in 1..m : g[place[i]] = all[place[i]]
    <3> HIDE DEF all, gone
    <3> QED BY <1>1, <1>4
  <2> HIDE DEF all
  <2> QED BY <1>4, <2>1
<1>6. gone \in 0..Len(all)
  <2> HIDE DEF all, gone
  <2> QED BY <1>1
<1>7. oo = o \o [i \in 1..m |-> all[place[i]]]
  <2> HIDE DEF all
  <2> QED BY <1>5
<1> HIDE DEF all, gone
<1>8. \E u \in 0..Len(all) :
        /\ nn = n + Len(new)
        /\ pp = SubSeq(all, u + 1, Len(all))
        /\ \E l \in 0..u : \E q \in [1..l -> 1..u] :
             /\ \A i, j \in DOMAIN q : i < j => q[i] < q[j]
             /\ oo = o \o [i \in 1..l |-> all[q[i]]]
  BY Zenon, <1>2, <1>3, <1>4, <1>6, <1>7
<1> QED BY Zenon, <1>8 DEF Moved, all

(***************************************************************************)
(* The output queue as a channel                                           *)
(***************************************************************************)

ThingsMove == Moved(Kinds, accepted, pending, out, accepted', pending', out')
NothingMoves == accepted' = accepted /\ pending' = pending /\ out' = out

\* What may be new, and where it gets.
LEMMA OldThings ==
  ASSUME NEW g \in Seq(Things), NEW r \in Seq(Things), NEW c \in 0..Len(g),
         pending = g \o r, pending \in Seq(Things), out \in Seq(Things),
         accepted' = accepted, accepted \in Nat, pending' = r,
         out' = out \o SubSeq(g, 1, c)
  PROVE  ThingsMove
<1>1. OutOf(SubSeq(g, 1, c), g)
  BY FirstOut
<1>2. pending \o <<>> = g \o r /\ Len(<<>>) = 0 /\ accepted' = accepted + 0
  BY ConcatEmptySeq
<1>3. accepted' = accepted + Len(<<>>)
  BY <1>2
<1>4. <<>> \in {<<>>} \cup {<<[kind |-> k, id |-> accepted + 1]>> : k \in Kinds}
  OBVIOUS
<1> PICK n, p, o, nn, pp, oo, new :
      /\ n = accepted /\ p = pending /\ o = out /\ nn = accepted' /\ pp = pending' /\ oo = out'
      /\ new = <<>>
  OBVIOUS
<1>5. Moved(Kinds, n, p, o, nn, pp, oo)
  BY <1>1, <1>2, <1>3, <1>4, Moves
<1> QED BY Zenon, <1>5 DEF ThingsMove

\* Everything may be lost.
LEMMA ThingLost ==
  ASSUME QTypes, QTypes', pending' = <<>>, accepted' = accepted, out' = out
  PROVE  ThingsMove
<1>1. pending \in Seq(Things) /\ out \in Seq(Things) /\ accepted \in Nat
  BY PendingIs DEF QTypes, QTyped, OneTyped, CountsTyped
<1> DEFINE g == pending
<1>2. pending = g \o <<>> /\ <<>> \in Seq(Things) /\ g \in Seq(Things) /\ 0 \in 0..Len(g)
  BY <1>1, ConcatEmptySeq, EmptySeq
<1>3. SubSeq(g, 1, 0) = <<>> /\ out \o <<>> = out
  BY <1>1, ConcatEmptySeq
<1>4. out' = out \o SubSeq(g, 1, 0)
  BY <1>3
<1> QED BY <1>1, <1>2, <1>4, OldThings

\* One thing goes in, and stays.
LEMMA ThingIn ==
  ASSUME QTypes, QTypes', NEW k \in Kinds, accepted < MaxItems, MaxItems \in Nat,
         accepted' = accepted + 1, pending' = Append(pending, Item(k)), out' = out
  PROVE  ThingsMove
<1>1. pending \in Seq(Things) /\ out \in Seq(Things) /\ accepted \in Nat
  BY PendingIs DEF QTypes, QTyped, OneTyped, CountsTyped
<1>2. Item(k) \in Things /\ Item(k) = [kind |-> k, id |-> accepted + 1]
  BY <1>1 DEF Item, Things
<1> DEFINE x == Item(k)
           new == <<x>>
<1>3. new \in {<<>>} \cup {<<[kind |-> l, id |-> accepted + 1]>> : l \in Kinds}
  BY <1>2
<1>4. pending' = pending \o new /\ pending' \in Seq(Things)
  <2>1. x \in Things /\ pending' = Append(pending, x)
    BY <1>2
  <2> HIDE DEF x
  <2>2. Append(pending, x) = pending \o <<x>> /\ pending \o <<x>> \in Seq(Things)
    BY <1>1, <2>1, AppendIsConcat
  <2> QED BY Zenon, <2>1, <2>2
<1>5. pending \o new = <<>> \o (pending \o new) /\ <<>> \in Seq(Things)
  <2>1. pending \o new \in Seq(Things)
    BY Zenon, <1>4
  <2> HIDE DEF new
  <2> QED BY <2>1, ConcatEmptySeq, EmptySeq
<1>6. OutOf(<<>>, <<>>)
  <2>1. SubSeq(<<>>, 1, 0) = <<>> /\ <<>> \in Seq(Things) /\ 0 \in 0..Len(<<>>)
    BY EmptySeq
  <2> QED BY <2>1, FirstOut
<1>7. out' = out \o <<>> /\ accepted' = accepted + Len(new)
  <2>1. Len(new) = 1
    OBVIOUS
  <2> HIDE DEF new
  <2> QED BY <1>1, <2>1, ConcatEmptySeq
<1> HIDE DEF new
<1>8. pending \o new \in Seq(Things)
  BY Zenon, <1>4
<1> PICK n, p, o, nn, pp, oo, w, r, s :
      /\ n = accepted /\ p = pending /\ o = out /\ nn = accepted' /\ pp = pending' /\ oo = out'
      /\ w = new /\ s = <<>> /\ r = pending \o new
  OBVIOUS
<1>9. Moved(Kinds, n, p, o, nn, pp, oo)
  BY <1>3, <1>4, <1>5, <1>6, <1>7, <1>8, Moves
<1> QED BY Zenon, <1>9 DEF ThingsMove

\* One thing goes in, everything goes out, or is lost but for the first things.
LEMMA ThingThrough ==
  ASSUME QTypes, QTypes', NEW k \in Kinds, accepted < MaxItems, MaxItems \in Nat,
         accepted' = accepted + 1, pending' = <<>>, NEW c \in 0..Len(pending),
         \/ out' = out \o SubSeq(pending, 1, c)
         \/ out' = out \o (SubSeq(pending, 1, c) \o <<Item(k)>>)
  PROVE  ThingsMove
<1>1. pending \in Seq(Things) /\ out \in Seq(Things) /\ accepted \in Nat
  BY PendingIs DEF QTypes, QTyped, OneTyped, CountsTyped
<1>2. Item(k) \in Things /\ Item(k) = [kind |-> k, id |-> accepted + 1]
  BY <1>1 DEF Item, Things
<1> DEFINE x == Item(k)
           new == <<x>>
<1>3. new \in {<<>>} \cup {<<[kind |-> l, id |-> accepted + 1]>> : l \in Kinds}
  BY <1>2
<1>4. pending \o new \in Seq(Things) /\ pending \o new = (pending \o new) \o <<>>
      /\ <<>> \in Seq(Things)
  <2>1. x \in Things
    BY <1>2
  <2> HIDE DEF x
  <2>2. pending \o new \in Seq(Things)
    BY <1>1, <2>1
  <2> QED BY <2>2, ConcatEmptySeq, EmptySeq
<1>5. OutOf(SubSeq(pending, 1, c), pending \o new)
      /\ OutOf(SubSeq(pending, 1, c) \o new, pending \o new)
  <2>1. x \in Things
    BY <1>2
  <2> HIDE DEF x
  <2> QED BY <1>1, <2>1, FirstAndLastOut
<1>6. accepted' = accepted + Len(new)
  <2>1. Len(new) = 1
    OBVIOUS
  <2> HIDE DEF new
  <2> QED BY <1>1, <2>1
<1>7. PICK s : out' = out \o s /\ OutOf(s, pending \o new)
  BY Zenon, <1>5
<1> HIDE DEF new
<1> PICK n, p, o, nn, pp, oo, w, g, r :
      /\ n = accepted /\ p = pending /\ o = out /\ nn = accepted' /\ pp = pending' /\ oo = out'
      /\ w = new /\ r = <<>> /\ g = pending \o new
  OBVIOUS
<1>8. Moved(Kinds, n, p, o, nn, pp, oo)
  BY <1>3, <1>4, <1>6, <1>7, Moves
<1> QED BY Zenon, <1>8 DEF ThingsMove

\* What is still to come out of a queue without a thread.
LEMMA DirectPending ==
  ASSUME QTypes, ThreadInv, NoThreadInv, ~IsQueued
  PROVE  pending = IF m_hr = "S_OK" THEN batched ELSE <<>>
<1>1. CASE m_hr = "S_OK"
  <2>1. pending = sending \o (Piece(Kinds, pSample) \o (batched \o OfKinds(Kinds, list)))
    BY <1>1, PendingIs
  <2>2. sending = <<>> /\ pSample = Nothing /\ list = <<>>
    BY DEF ThreadInv, HandsInv, NoThreadInv
  <2>3. Piece(Kinds, pSample) = <<>> /\ OfKinds(Kinds, list) = <<>>
    BY <2>2, ThingsAre, OfNoItems DEF Piece, Kinds
  <2>4. <<>> \o (<<>> \o (batched \o <<>>)) = batched
    BY ConcatEmptySeq DEF QTypes, QTyped
  <2> QED BY Zenon, <1>1, <2>1, <2>2, <2>3, <2>4
<1>2. CASE m_hr # "S_OK"
  BY <1>2 DEF pending
<1> QED BY <1>1, <1>2

\* Without a thread: the flush and the failure lose what is kept.
LEMMA DirectMoves ==
  ASSUME OutputQueueAssumption, OutputInv, OutputInv', ~IsQueued, Next
  PROVE  ThingsMove \/ NothingMoves
<1>0. /\ setting' = setting /\ QTypes /\ QTypes' /\ batched \in Seq(Samples)
      /\ (~IsQueued)' /\ MaxItems \in Nat /\ setting.exact \in BOOLEAN
      /\ m_hr \in {"S_OK", "S_FALSE"}
  BY SettingStays DEF OutputInv, IsQueued, QTypes, QTyped, OneTyped, FlagsTyped, OutputQueueAssumption,
     UsualSettings, AllSettings
<1>1. pending = IF m_hr = "S_OK" THEN batched ELSE <<>>
  BY DirectPending DEF OutputInv
<1>2. pending' = IF m_hr' = "S_OK" THEN batched' ELSE <<>>
  <2>1. (QTypes /\ ThreadInv /\ NoThreadInv /\ ~IsQueued =>
           pending = IF m_hr = "S_OK" THEN batched ELSE <<>>)'
    BY DirectPending, PTL
  <2> QED BY <1>0, <2>1 DEF OutputInv
<1>3. "sample" \in Kinds /\ "eos" \in Kinds /\ "segment" \in Kinds
  BY DEF Kinds
<1> USE DEF data, code, wait, where, unmoved, MayCall, MayAdd
<1>5. CASE ReceiveDirect
  <2> DEFINE b == Append(batched, Item("sample"))
  <2>1. accepted < MaxItems /\ m_hr = "S_OK" /\ accepted' = accepted + 1 /\ pending = batched
    BY <1>1, <1>5 DEF ReceiveDirect, OutputInv, QTypes, OneTyped, CountsTyped
  <2>2. CASE Len(b) < setting.size
    <3>1. batched' = b /\ m_hr' = m_hr /\ out' = out
      BY <1>5, <2>2 DEF ReceiveDirect
    <3>2. pending' = Append(pending, Item("sample"))
      BY <1>2, <2>1, <3>1
    <3> QED BY <1>0, <1>3, <2>1, <3>1, <3>2, ThingIn
  <2>3. CASE ~(Len(b) < setting.size)
    <3>1. PICK n \in 0..Len(b) : out' = out \o SubSeq(b, 1, n) /\ batched' = <<>>
      BY <1>5, <2>3 DEF ReceiveDirect
    <3>2. pending' = <<>>
      BY <1>2, <3>1
    <3> DEFINE x == Item("sample")
    <3>3. x \in Samples
      BY <2>1, ItemsFit DEF OutputInv
    <3>4. \/ n \in 0..Len(pending) /\ SubSeq(b, 1, n) = SubSeq(pending, 1, n)
          \/ SubSeq(b, 1, n) = SubSeq(pending, 1, Len(pending)) \o <<x>>
      <4> HIDE DEF x
      <4> SUFFICES ASSUME NEW p, p = pending, p \in Seq(Samples), NEW q, q = Append(p, x)
                   PROVE  \/ n \in 0..Len(p) /\ SubSeq(q, 1, n) = SubSeq(p, 1, n)
                          \/ SubSeq(q, 1, n) = SubSeq(p, 1, Len(p)) \o <<x>>
        BY <1>0, <2>1 DEF x
      <4>1. Len(q) = Len(p) + 1 /\ Len(p) \in Nat /\ q \in Seq(Samples)
            /\ (\A i \in 1..Len(p) : q[i] = p[i]) /\ q = p \o <<x>>
        BY <3>3, AppendIsConcat
      <4>2. n \in 0..Len(q)
        BY <2>1, <3>1 DEF x
      <4>3. CASE n = Len(q)
        <5>1. SubSeq(q, 1, n) = q /\ SubSeq(p, 1, Len(p)) = p
          BY <4>1, <4>3
        <5> QED BY <4>1, <5>1
      <4>4. CASE n # Len(q)
        <5>1. n \in 0..Len(p)
          BY <4>1, <4>2, <4>4
        <5>2. SubSeq(q, 1, n) = [i \in 1..n |-> q[i]] /\ SubSeq(p, 1, n) = [i \in 1..n |-> p[i]]
          BY <4>1, <5>1
        <5>3. \A i \in 1..n : q[i] = p[i]
          BY <4>1, <5>1
        <5> QED BY <5>1, <5>2, <5>3
      <4> QED BY <4>3, <4>4
    <3>5. Len(pending) \in 0..Len(pending)
      BY <1>0, <2>1
    <3>6. \E c \in 0..Len(pending) :
            \/ out' = out \o SubSeq(pending, 1, c)
            \/ out' = out \o (SubSeq(pending, 1, c) \o <<Item("sample")>>)
      BY Zenon, <3>1, <3>4, <3>5
    <3> QED BY <1>0, <1>3, <2>1, <3>2, <3>6, ThingThrough
  <2> QED BY <2>2, <2>3
<1>6. CASE SendAnyway
  <2>1. accepted' = accepted /\ m_hr = "S_OK" /\ batched' = <<>> /\ pending = batched
    BY <1>1, <1>6 DEF SendAnyway, SendThen
  <2>2. PICK n \in 0..Len(batched) : out' = out \o SubSeq(batched, 1, n) \o <<>>
    BY <1>6, <2>1 DEF SendAnyway, SendThen
  <2>3. batched \in Seq(Things) /\ out \in Seq(Things) /\ pending \in Seq(Things) /\ accepted \in Nat
    BY <1>0, PendingIs DEF OutputInv, QTypes, QTyped, OneTyped, CountsTyped
  <2>4. out' = out \o SubSeq(batched, 1, n)
    <3> DEFINE s == SubSeq(batched, 1, n)
    <3>1. s \in Seq(Things)
      BY <2>3
    <3> HIDE DEF s
    <3>2. out \o s \o <<>> = out \o s
      BY <2>3, <3>1, ConcatEmptySeq
    <3> QED BY Zenon, <2>2, <3>2 DEF s
  <2>5. pending = batched \o <<>> /\ <<>> \in Seq(Things) /\ pending' = <<>>
    BY <1>2, <2>1, <2>3, ConcatEmptySeq, EmptySeq
  <2> QED BY <2>1, <2>3, <2>4, <2>5, OldThings
<1>7. ASSUME NEW k \in Kinds, accepted < MaxItems, accepted' = accepted + 1, pending' = <<>>,
             NEW n \in 0..Len(pending),
             \/ out' = out \o SubSeq(pending, 1, n) \o <<>>
             \/ out' = out \o SubSeq(pending, 1, n) \o <<Item(k)>>
      PROVE  ThingsMove
  <2>1. pending \in Seq(Things) /\ out \in Seq(Things) /\ accepted \in Nat
    BY <1>0, PendingIs DEF OutputInv, QTypes, QTyped, OneTyped, CountsTyped
  <2> DEFINE s == SubSeq(pending, 1, n)
             x == Item(k)
  <2>2. s \in Seq(Things)
    BY <2>1
  <2>3. x \in Things
    BY <1>0, <1>7, <2>1 DEF Item, Things
  <2> HIDE DEF s, x
  <2>4. out \o s \o <<>> = out \o s /\ out \o s \o <<x>> = out \o (s \o <<x>>)
    <3>1. out \o s \in Seq(Things) /\ <<x>> \in Seq(Things)
      BY <2>1, <2>2, <2>3, ConcatProperties
    <3>2. out \o s \o <<>> = out \o s
      BY <3>1, ConcatEmptySeq
    <3>3. out \o s \o <<x>> = out \o (s \o <<x>>)
      BY <2>1, <2>2, <3>1, ConcatAssociative
    <3> QED BY <3>2, <3>3
  <2>5. \/ out' = out \o SubSeq(pending, 1, n)
        \/ out' = out \o (SubSeq(pending, 1, n) \o <<Item(k)>>)
    BY Zenon, <1>7, <2>4 DEF s, x
  <2> QED BY <1>0, <1>7, <2>5, ThingThrough
<1>8. CASE EOS
  <2>1. accepted < MaxItems /\ m_hr = "S_OK" /\ accepted' = accepted + 1 /\ pending = batched
    BY <1>1, <1>8 DEF EOS, OutputInv, QTypes, OneTyped, CountsTyped
  <2>2. SendThen(setting.exact, <<Item("eos")>>)
    BY <1>8 DEF EOS
  <2>3. batched' = <<>>
    BY <2>2 DEF SendThen, OutputInv, NoThreadInv
  <2>4. \E n \in 0..Len(batched) : \/ out' = out \o SubSeq(batched, 1, n) \o <<>>
                                   \/ out' = out \o SubSeq(batched, 1, n) \o <<Item("eos")>>
    BY Zenon, <2>2 DEF SendThen
  <2>5. pending' = <<>>
    BY <1>2, <2>3
  <2> QED BY <1>3, <1>7, <2>1, <2>4, <2>5
<1>9. CASE QueueSegment
  <2>1. accepted < MaxItems /\ accepted' = accepted + 1
    BY <1>9 DEF QueueSegment, OutputInv, QTypes, OneTyped, CountsTyped
  <2>2. SendSegment
    BY <1>9 DEF QueueSegment
  <2>3. CASE m_hr = "S_OK"
    <3>1. batched' = <<>>
      BY <2>2, <2>3 DEF SendSegment, OutputInv, NoThreadInv
    <3>2. pending' = <<>> /\ pending = batched
      BY <1>1, <1>2, <2>3, <3>1
    <3>3. \E n \in 0..Len(batched) : out' = out \o SubSeq(batched, 1, n) \o <<Item("segment")>>
      BY Zenon, <2>2 DEF SendSegment
    <3> QED BY <1>3, <1>7, <2>1, <3>2, <3>3
  <2>4. CASE m_hr # "S_OK"
    <3>1. pending = <<>> /\ pending' = <<>>
      BY <1>1, <1>2, <2>2, <2>4 DEF SendSegment
    <3>2. out' = out \o SubSeq(batched, 1, 0) \o <<Item("segment")>>
      BY <2>2, <2>4 DEF SendSegment
    <3>3. SubSeq(batched, 1, 0) = <<>> /\ SubSeq(pending, 1, 0) = <<>> /\ 0 \in 0..Len(pending)
      BY <1>0, <3>1
    <3> QED BY <1>3, <1>7, <2>1, <3>1, <3>2, <3>3
  <2> QED BY <1>0, <2>3, <2>4
<1>10. CASE /\ accepted' = accepted /\ out' = out
            /\ batched' = batched \/ batched' = <<>>
            /\ m_hr = "S_OK" \/ m_hr' # "S_OK" \/ batched' = <<>>
  <2>1. pending' = <<>> \/ pending' = pending
    BY <1>1, <1>2, <1>10
  <2> QED BY <1>0, <1>10, <2>1, ThingLost DEF NothingMoves
<1>11. CASE ReceiveQueued \/ NewSegment \/ ThreadProc \/ Delivered
  <2>1. ~(ReceiveQueued \/ ThreadProc \/ Delivered)
    BY DEF ReceiveQueued, ThreadProc, GetBatch, Wake, Send, Act, Delivered, OutputInv, NoThreadInv
  <2>2. UNCHANGED <<accepted, out, batched, m_hr>>
    BY <1>11, <2>1 DEF NewSegment
  <2> QED BY <1>0, <1>10, <2>2
<1>12. CASE BeginFlush \/ FlushDownstream \/ EndFlush \/ FlushComplete \/ Flushed \/ EndFlushDownstream
  <2>1. accepted' = accepted /\ out' = out
    BY <1>12 DEF BeginFlush, FlushDownstream, EndFlush, FlushComplete, Flushed, EndFlushDownstream
  <2>2. /\ batched' = batched \/ batched' = <<>>
        /\ m_hr = "S_OK" \/ m_hr' # "S_OK" \/ batched' = <<>>
    BY <1>0, <1>12 DEF BeginFlush, FlushDownstream, EndFlush, FlushComplete, Flushed, EndFlushDownstream,
       OutputInv, NoThreadInv
  <2> QED BY <1>10, <2>1, <2>2
<1>13. CASE Reset \/ ResetReturns \/ Delete \/ Deleted \/ Gone
  <2>1. accepted' = accepted /\ out' = out
    BY <1>13 DEF Reset, ResetReturns, Delete, Deleted, Gone, vars
  <2>2. /\ batched' = batched \/ batched' = <<>>
        /\ m_hr = "S_OK" \/ m_hr' # "S_OK" \/ batched' = <<>>
    BY <1>0, <1>13 DEF Reset, ResetReturns, Delete, Deleted, Gone, vars, OutputInv, NoThreadInv
  <2> QED BY <1>10, <2>1, <2>2
<1> QED BY <1>5, <1>6, <1>8, <1>9, <1>11, <1>12, <1>13 DEF Next

\* Of sequences of things only these rules are used.
Cat(s, t) == s \o t
Add(s, x) == Append(s, x)

\* Sequences of things can be put after each other, in any grouping, and grow at their
\* end.
LEMMA CatRules ==
  /\ \A s, t \in Seq(Things) : Cat(s, t) \in Seq(Things)
  /\ \A s, t, u \in Seq(Things) : Cat(Cat(s, t), u) = Cat(s, Cat(t, u))
  /\ \A s, t \in Seq(Things), x \in Things : Cat(s, Add(t, x)) = Add(Cat(s, t), x)
<1>1. \A s, t \in Seq(Things) : Cat(s, t) \in Seq(Things)
  BY ConcatProperties DEF Cat
<1>2. \A s, t, u \in Seq(Things) : Cat(Cat(s, t), u) = Cat(s, Cat(t, u))
  BY ConcatAssociative DEF Cat
<1>3. \A s, t \in Seq(Things), x \in Things : Cat(s, Add(t, x)) = Add(Cat(s, t), x)
  BY ConcatAppend DEF Cat, Add
<1> QED BY <1>1, <1>2, <1>3

\* Nothing, before a sequence, is not seen.
LEMMA CatNothing == \A s \in Seq(Things) : Cat(<<>>, s) = s
BY ConcatEmptySeq DEF Cat

\* An item more in the list is a thing more to come out, or a packet.
LEMMA ListGrows ==
  ASSUME QTypes, QTypes', IsQueued, setting' = setting, NEW x \in Queueable,
         list' = Append(list, x), UNCHANGED <<sending, pSample, batched>>
  PROVE  pending' = IF x.kind \in Kinds THEN Append(pending, x) ELSE pending
<1>1. pending = sending \o (Piece(Kinds, pSample) \o (batched \o OfKinds(Kinds, list)))
      /\ sending \in Seq(Things) /\ Piece(Kinds, pSample) \in Seq(Things)
      /\ batched \in Seq(Things) /\ OfKinds(Kinds, list) \in Seq(Things)
  BY PendingIs
<1>2. (IsQueued)'
  BY DEF IsQueued
<1>3. pending' = sending \o (Piece(Kinds, pSample) \o (batched \o OfKinds(Kinds, list')))
  <2>1. (QTypes /\ IsQueued =>
           pending = sending \o (Piece(Kinds, pSample) \o (batched \o OfKinds(Kinds, list))))'
    BY PendingIs, PTL
  <2> QED BY Zenon, <1>2, <2>1
<1>4. OfKinds(Kinds, list') =
        IF x.kind \in Kinds THEN Append(OfKinds(Kinds, list), x) ELSE OfKinds(Kinds, list)
  BY OfKindsAppend DEF QTypes, QTyped
<1>5. CASE x.kind \in Kinds
  <2>1. x \in Things
    BY <1>5, ThingsAre DEF Queueable, Kinds
  <2> DEFINE a == sending
             b == Piece(Kinds, pSample)
             c == batched
             o == OfKinds(Kinds, list)
  <2>2. a \in Seq(Things) /\ b \in Seq(Things) /\ c \in Seq(Things) /\ o \in Seq(Things)
    BY <1>1
  <2> HIDE DEF a, b, c, o
  <2>5. Cat(a, Cat(b, Cat(c, Add(o, x)))) = Add(Cat(a, Cat(b, Cat(c, o))), x)
    BY <2>1, <2>2, CatRules
  <2>6. pending = Cat(a, Cat(b, Cat(c, o))) /\ pending' = Cat(a, Cat(b, Cat(c, Add(o, x))))
    BY Zenon, <1>1, <1>3, <1>4, <1>5 DEF a, b, c, o, Cat, Add
  <2> QED BY Zenon, <1>5, <2>5, <2>6 DEF Add
<1>6. CASE x.kind \notin Kinds
  BY <1>1, <1>3, <1>4, <1>6
<1> QED BY <1>5, <1>6

\* The thread takes a batch: what is to come out is the same, in another place.
LEMMA BatchMoves ==
  ASSUME QTypes, QTypes', IsQueued, setting' = setting, sending = <<>>, pSample = Nothing,
         NEW taken, TakenOff(taken), BatchReady(taken) \/ BatchKept(taken)
  PROVE  pending' = pending
<1>1. pending = sending \o (Piece(Kinds, pSample) \o (batched \o OfKinds(Kinds, list)))
      /\ batched \in Seq(Things)
  BY PendingIs
<1>2. (IsQueued)'
  BY DEF IsQueued
<1>3. pending' = sending' \o (Piece(Kinds, pSample') \o (batched' \o OfKinds(Kinds, list')))
      /\ Piece(Kinds, pSample') \in Seq(Things) /\ OfKinds(Kinds, list') \in Seq(Things)
  <2>1. (QTypes /\ IsQueued =>
           pending = sending \o (Piece(Kinds, pSample) \o (batched \o OfKinds(Kinds, list)))
           /\ Piece(Kinds, pSample) \in Seq(Things) /\ OfKinds(Kinds, list) \in Seq(Things))'
    BY PendingIs, PTL
  <2> QED BY Zenon, <1>2, <2>1
<1>4. Piece(Kinds, Nothing) = <<>>
  BY ThingsAre DEF Piece, Kinds
<1>5. OfKinds(Kinds, list) = OfKinds(Kinds, taken) \o OfKinds(Kinds, list')
  <2>1. taken \in Seq(Queueable) /\ list' \in Seq(Queueable) /\ list = taken \o list'
    BY DEF TakenOff
  <2> QED BY <2>1, OfKindsCats
<1> DEFINE b == batched
           o == OfKinds({"sample"}, taken)
           e == Piece(Kinds, pSample')
           r == OfKinds(Kinds, list')
<1>6. o \in Seq(Things)
  <2>1. o \in Seq(Samples)
    BY SamplesOf DEF TakenOff
  <2> HIDE DEF o
  <2> QED BY <2>1, ThingsAre, SeqMonotonic
<1>7. b \in Seq(Things) /\ e \in Seq(Things) /\ r \in Seq(Things)
  BY <1>1, <1>3
<1>8. OfKinds(Kinds, taken) = o \o e
  BY DEF TakenOff
<1>9. pending = Cat(<<>>, Cat(<<>>, Cat(b, Cat(Cat(o, e), r))))
  BY Zenon, <1>1, <1>4, <1>5, <1>8 DEF Cat
<1>10. Cat(b, Cat(Cat(o, e), r)) \in Seq(Things) /\ Cat(Cat(b, o), r) \in Seq(Things)
       /\ Cat(Cat(b, o), Cat(e, r)) = Cat(b, Cat(Cat(o, e), r))
       /\ Cat(Cat(b, o), r) = Cat(b, Cat(o, r))
  <2> HIDE DEF b, o, e, r
  <2> QED BY <1>6, <1>7, CatRules
<1>11. pending = Cat(b, Cat(Cat(o, e), r))
  BY Zenon, <1>9, <1>10, CatNothing
<1>12. CASE BatchReady(taken)
  <2>1. pending' = Cat(Cat(b, o), Cat(e, Cat(<<>>, r)))
    BY Zenon, <1>3, <1>12 DEF BatchReady, Cat
  <2>2. Cat(<<>>, r) = r
    BY Zenon, <1>7, CatNothing
  <2> QED BY Zenon, <1>10, <1>11, <2>1, <2>2
<1>13. CASE BatchKept(taken)
  <2>1. e = <<>>
    BY <1>4, <1>13 DEF BatchKept
  <2>2. pending' = Cat(<<>>, Cat(<<>>, Cat(Cat(b, o), r)))
    BY Zenon, <1>3, <1>13, <2>1 DEF BatchKept, Cat
  <2>3. pending' = Cat(Cat(b, o), r)
    BY Zenon, <1>10, <2>2, CatNothing
  <2>4. Cat(o, e) = o
    <3>1. o \o <<>> = o
      <4> HIDE DEF o
      <4> QED BY <1>6, ConcatEmptySeq
    <3> QED BY Zenon, <2>1, <3>1 DEF Cat
  <2> QED BY Zenon, <1>10, <1>11, <2>3, <2>4
<1> QED BY <1>12, <1>13

\* What the thread holds goes out first.
LEMMA HandsEmpty ==
  ASSUME QTypes, QTypes', IsQueued, setting' = setting, UNCHANGED <<batched, list, accepted>>,
         NEW c,
         \/ /\ sending' = <<>> /\ pSample' = pSample /\ c \in 0..Len(sending)
            /\ out' = out \o SubSeq(sending, 1, c)
         \/ /\ sending = <<>> /\ sending' = <<>> /\ pSample' = Nothing
            /\ c \in 0..Len(Piece(Kinds, pSample))
            /\ out' = out \o SubSeq(Piece(Kinds, pSample), 1, c)
  PROVE  ThingsMove
<1>1. pending = sending \o (Piece(Kinds, pSample) \o (batched \o OfKinds(Kinds, list)))
      /\ sending \in Seq(Things) /\ Piece(Kinds, pSample) \in Seq(Things)
      /\ batched \in Seq(Things) /\ OfKinds(Kinds, list) \in Seq(Things)
      /\ pending \in Seq(Things) /\ out \in Seq(Things) /\ accepted \in Nat
  <2>1. out \in Seq(Things) /\ accepted \in Nat
    BY DEF QTypes, QTyped, OneTyped, CountsTyped
  <2> QED BY <2>1, PendingIs
<1>2. (IsQueued)'
  BY DEF IsQueued
<1>3. pending' = sending' \o (Piece(Kinds, pSample') \o (batched \o OfKinds(Kinds, list)))
  <2>1. (QTypes /\ IsQueued =>
           pending = sending \o (Piece(Kinds, pSample) \o (batched \o OfKinds(Kinds, list))))'
    BY PendingIs, PTL
  <2> QED BY Zenon, <1>2, <2>1
<1> DEFINE b == Piece(Kinds, pSample)
           r == batched \o OfKinds(Kinds, list)
<1>4. r \in Seq(Things) /\ b \in Seq(Things)
  BY <1>1
<1>5. Piece(Kinds, Nothing) = <<>>
  BY ThingsAre DEF Piece, Kinds
<1>6. pending = sending \o (b \o r) /\ b \o r \in Seq(Things)
  <2>1. b \o r \in Seq(Things)
    <3> HIDE DEF b, r
    <3> QED BY <1>4
  <2> QED BY <1>1, <2>1
<1>7. CASE /\ sending' = <<>> /\ pSample' = pSample /\ c \in 0..Len(sending)
           /\ out' = out \o SubSeq(sending, 1, c)
  <2>1. pending' = <<>> \o (b \o r)
    BY Zenon, <1>3, <1>7
  <2>2. pending' = b \o r
    <3> HIDE DEF b, r
    <3> QED BY <1>6, <2>1, ConcatEmptySeq
  <2> HIDE DEF b, r
  <2> QED BY <1>1, <1>6, <1>7, <2>2, OldThings
<1>8. CASE /\ sending = <<>> /\ sending' = <<>> /\ pSample' = Nothing
           /\ c \in 0..Len(Piece(Kinds, pSample))
           /\ out' = out \o SubSeq(Piece(Kinds, pSample), 1, c)
  <2>1. pending' = <<>> \o (<<>> \o r) /\ pending = <<>> \o (b \o r)
    BY Zenon, <1>3, <1>5, <1>6, <1>8
  <2>2. c \in 0..Len(b) /\ out' = out \o SubSeq(b, 1, c)
    BY <1>8
  <2> HIDE DEF b, r
  <2>3. pending' = r /\ pending = b \o r
    BY <1>4, <1>6, <2>1, ConcatEmptySeq
  <2> QED BY <1>1, <1>4, <2>2, <2>3, OldThings
<1> QED BY <1>7, <1>8

\* With a thread.
LEMMA QueuedMoves ==
  ASSUME OutputQueueAssumption, OutputInv, OutputInv', IsQueued, Next
  PROVE  ThingsMove \/ NothingMoves
<1>0. /\ setting' = setting /\ QTypes /\ QTypes' /\ (IsQueued)' /\ MaxItems \in Nat
      /\ out \in Seq(Things) /\ accepted \in Nat /\ sending \in Seq(Things)
      /\ Piece(Kinds, pSample) \in Seq(Things)
  BY SettingStays, PendingIs DEF OutputInv, IsQueued, QTypes, QTyped, OneTyped, CountsTyped,
     OutputQueueAssumption
<1> USE DEF data, unmoved, MayCall, MayAdd
<1>1. CASE UNCHANGED <<sending, pSample, batched, list, accepted, out>>
  <2>1. pending' = pending
    BY <1>0, <1>1 DEF pending, IsQueued, OfKinds
  <2> QED BY <1>1, <2>1 DEF NothingMoves
<1>2. ASSUME NEW k \in Kinds, accepted < MaxItems, list' = Append(list, Item(k)),
             Item(k) \in Queueable,
             UNCHANGED <<sending, pSample, batched, out>>, accepted' = accepted + 1
      PROVE  ThingsMove
  <2>1. Item(k).kind \in Kinds
    BY DEF Item
  <2>2. pending' = Append(pending, Item(k))
    BY <1>0, <1>2, <2>1, ListGrows
  <2> QED BY <1>0, <1>2, <2>2, ThingIn
<1>3. ASSUME NEW k \in {"send", "reset"}, list' = Append(list, Message(k)),
             UNCHANGED <<sending, pSample, batched, out, accepted>>
      PROVE  NothingMoves
  <2>1. Message(k) \in Queueable /\ Message(k).kind \notin Kinds
    BY DEF Queueable, Packets, Message, Kinds
  <2>2. pending' = pending
    BY <1>0, <1>3, <2>1, ListGrows
  <2> QED BY <1>3, <2>2 DEF NothingMoves
<1>4. /\ accepted < MaxItems => /\ Item("sample") \in Queueable /\ Item("eos") \in Queueable
                                /\ Item("segment") \in Queueable
      /\ "sample" \in Kinds /\ "eos" \in Kinds /\ "segment" \in Kinds
  BY <1>0, ItemsFit DEF Queueable, Kinds
<1>5. CASE ReceiveQueued
  <2>1. accepted < MaxItems
    BY <1>5 DEF ReceiveQueued, OutputInv, QTypes, OneTyped, CountsTyped
  <2>2. list' = Append(list, Item("sample")) /\ UNCHANGED <<sending, pSample, batched, out>>
        /\ accepted' = accepted + 1
    BY <1>5 DEF ReceiveQueued
  <2> QED BY <1>2, <1>4, <2>1, <2>2
<1>6. CASE SendAnyway
  BY <1>3, <1>6 DEF SendAnyway
<1>7. CASE EOS
  <2>1. accepted < MaxItems
    BY <1>7 DEF EOS, OutputInv, QTypes, OneTyped, CountsTyped
  <2>2. list' = Append(list, Item("eos")) /\ UNCHANGED <<sending, pSample, batched, out>>
        /\ accepted' = accepted + 1
    BY <1>7 DEF EOS
  <2> QED BY <1>2, <1>4, <2>1, <2>2
<1>8. CASE QueueSegment
  <2>1. accepted < MaxItems
    BY <1>8 DEF QueueSegment, OutputInv, QTypes, OneTyped, CountsTyped
  <2>2. list' = Append(list, Item("segment")) /\ UNCHANGED <<sending, pSample, batched, out>>
        /\ accepted' = accepted + 1
    BY <1>8 DEF QueueSegment
  <2> QED BY <1>2, <1>4, <2>1, <2>2
<1>9. CASE GetBatch
  <2>1. /\ pSample = Nothing /\ sending = <<>> /\ Len(batched) < setting.size
        /\ accepted' = accepted /\ out' = out
    BY <1>9 DEF GetBatch, OutputInv, ThreadInv, HandsInv
  <2>2. CASE FreeSamples
    <3>1. sending' = <<>> /\ pSample' = Nothing /\ batched' = <<>> /\ list' = <<>>
      BY <2>1, <2>2 DEF FreeSamples
    <3>2. (QTypes /\ IsQueued =>
             pending = sending \o (Piece(Kinds, pSample) \o (batched \o OfKinds(Kinds, list))))'
      BY PendingIs, PTL
    <3>3. Piece(Kinds, Nothing) = <<>> /\ OfKinds(Kinds, <<>>) = <<>>
      BY ThingsAre, OfNoItems DEF Piece, Kinds
    <3>4. <<>> \o (<<>> \o (<<>> \o <<>>)) = <<>>
      OBVIOUS
    <3>5. pending' = <<>>
      BY Zenon, <1>0, <3>1, <3>2, <3>3, <3>4
    <3> QED BY <1>0, <2>1, <3>5, ThingLost
  <2>3. CASE \E taken : TakenOff(taken) /\ (BatchReady(taken) \/ BatchKept(taken))
    <3>1. pending' = pending
      BY <1>0, <2>1, <2>3, BatchMoves
    <3> QED BY <2>1, <3>1 DEF NothingMoves
  <2> QED BY <1>0, <1>9, <2>1, <2>2, <2>3, GetBatchDoes
<1>10. ASSUME \A s \in Seq(Things) : SubSeq(s, 1, 0) = <<>> /\ 0 \in 0..Len(s) /\ out \o SubSeq(s, 1, 0) = out
       PROVE  Send \/ Delivered \/ Act => ThingsMove \/ NothingMoves
  <2>1. CASE Send
    <3>1. CASE sending' = sending
      <4>1. UNCHANGED <<sending, pSample, batched, list, accepted, out>>
        BY <2>1, <3>1 DEF Send
      <4> QED BY <1>1, <4>1
    <3>2. CASE sending' = <<>>
      <4>1. UNCHANGED <<batched, list, accepted>> /\ pSample' = pSample /\ out' = out
        BY <2>1 DEF Send
      <4>2. 0 \in 0..Len(sending) /\ out' = out \o SubSeq(sending, 1, 0)
        BY <1>0, <1>10, <4>1
      <4> QED BY <1>0, <3>2, <4>1, <4>2, HandsEmpty
    <3> QED BY <2>1, <3>1, <3>2 DEF Send
  <2>2. CASE Delivered
    <3>1. PICK n \in 0..Len(sending) : out' = out \o SubSeq(sending, 1, n)
      BY Zenon, <2>2 DEF Delivered
    <3>2. UNCHANGED <<batched, list, accepted>> /\ pSample' = pSample /\ sending' = <<>>
      BY <2>2 DEF Delivered
    <3> QED BY <1>0, <3>1, <3>2, HandsEmpty
  <2>3. CASE Act
    <3>1. /\ UNCHANGED <<batched, list, accepted>> /\ pSample' = Nothing
          /\ sending = <<>> /\ sending' = <<>>
      BY <2>3 DEF Act, OutputInv, ThreadInv, HandsInv
    <3>2. CASE out' = out
      <4>1. 0 \in 0..Len(Piece(Kinds, pSample)) /\ out' = out \o SubSeq(Piece(Kinds, pSample), 1, 0)
        BY <1>0, <1>10, <3>2
      <4> QED BY <1>0, <3>1, <4>1, HandsEmpty
    <3>3. CASE out' # out
      <4>1. pSample.kind \in Kinds /\ out' = Append(out, pSample)
        BY <2>3, <3>3 DEF Act, Kinds
      <4>2. Piece(Kinds, pSample) = <<pSample>> /\ pSample \in Things
        <5>1. pSample \in Things
          BY <1>0, <4>1, ThingsAre DEF QTypes, QTyped, Kinds
        <5> QED BY <4>1, <5>1 DEF Piece
      <4>3. out' = out \o <<pSample>> /\ SubSeq(<<pSample>>, 1, 1) = <<pSample>>
            /\ 1 \in 0..Len(<<pSample>>)
        <5> PICK x : x = pSample
          OBVIOUS
        <5>1. x \in Things /\ out' = Append(out, x)
          BY <4>1, <4>2
        <5>2. out' = out \o <<x>>
          BY <1>0, <5>1, AppendIsConcat
        <5>3. SubSeq(<<x>>, 1, 1) = <<x>>
          <6> PICK t : t = <<x>>
            OBVIOUS
          <6>1. t \in Seq(Things) /\ Len(t) = 1
            BY <5>1
          <6>2. SubSeq(t, 1, Len(t)) = t
            BY <6>1, SubSeqFull
          <6> QED BY Zenon, <6>1, <6>2
        <5>4. 1 \in 0..Len(<<x>>)
          <6>1. Len(<<x>>) = 1
            OBVIOUS
          <6> QED BY <6>1
        <5> QED BY Zenon, <5>2, <5>3, <5>4
      <4>4. 1 \in 0..Len(Piece(Kinds, pSample)) /\ out' = out \o SubSeq(Piece(Kinds, pSample), 1, 1)
        BY Zenon, <4>2, <4>3
      <4> QED BY <1>0, <3>1, <4>4, HandsEmpty
    <3> QED BY <3>2, <3>3
  <2> QED BY <2>1, <2>2, <2>3
<1>11. \A s \in Seq(Things) : SubSeq(s, 1, 0) = <<>> /\ 0 \in 0..Len(s) /\ out \o SubSeq(s, 1, 0) = out
  <2>1. \A s \in Seq(Things) : SubSeq(s, 1, 0) = <<>> /\ 0 \in 0..Len(s)
    OBVIOUS
  <2>2. out \o <<>> = out
    BY <1>0, ConcatEmptySeq
  <2> QED BY Zenon, <2>1, <2>2
<1>12. CASE NewSegment \/ Wake
  <2>1. UNCHANGED <<sending, pSample, batched, list, accepted, out>>
    BY <1>12 DEF NewSegment, Wake
  <2> QED BY <1>1, <2>1
<1>13. CASE BeginFlush \/ FlushDownstream \/ EndFlush \/ FlushComplete \/ Flushed \/ EndFlushDownstream
  <2>1. UNCHANGED <<sending, pSample, batched, list, accepted, out>>
    BY <1>13 DEF BeginFlush, FlushDownstream, EndFlush, FlushComplete, Flushed, EndFlushDownstream
  <2> QED BY <1>1, <2>1
<1>14. CASE Reset
  <2>1. list' = Append(list, Message("reset"))
        /\ UNCHANGED <<sending, pSample, batched, out, accepted>>
    BY <1>14 DEF Reset
  <2> QED BY <1>3, <2>1
<1>15. CASE ResetReturns \/ Delete \/ Deleted \/ Gone
  <2>1. UNCHANGED <<sending, pSample, batched, list, accepted, out>>
    BY <1>15 DEF ResetReturns, Delete, Deleted, Gone, vars
  <2> QED BY <1>1, <2>1
<1>16. CASE ReceiveDirect
  BY <1>16 DEF ReceiveDirect
<1> QED BY <1>5, <1>6, <1>7, <1>8, <1>9, <1>10, <1>11, <1>12, <1>13, <1>14, <1>15, <1>16
        DEF Next, ThreadProc

\* Every step of the output queue is one of the channel, or none of it.
LEMMA OutputMoves ==
  ASSUME OutputQueueAssumption, OutputInv, [Next]_vars
  PROVE  [Promise!Move]_<<accepted, pending, out>>
<1>1. OutputInv'
  BY OutputStep
<1>2. ThingsMove \/ NothingMoves
  <2>1. CASE Next
    BY <1>1, <2>1, QueuedMoves, DirectMoves
  <2>2. CASE UNCHANGED vars
    BY <2>2 DEF vars, data, code, NothingMoves, pending, IsQueued, OfKinds
  <2> QED BY <2>1, <2>2
<1>3. ThingsMove => Promise!Move
  BY Zenon DEF ThingsMove, Moved, Promise!Move, Promise!InOrder
<1> QED BY <1>2, <1>3 DEF NothingMoves

\* The output queue begins as an empty channel.
LEMMA OutputChannelStart == ASSUME Init, Settings \subseteq UsualSettings, OutputQueueAssumption PROVE Promise!Init
<1>1. OutputInv
  BY OutputStart
<1>2. pending = <<>>
  <2>1. IsQueued \/ m_hr = "S_OK" =>
          pending = sending \o (Piece(Kinds, pSample) \o (batched \o OfKinds(Kinds, list)))
    BY <1>1, PendingIs DEF OutputInv
  <2>2. Piece(Kinds, Nothing) = <<>> /\ OfKinds(Kinds, <<>>) = <<>>
    BY ThingsAre, OfNoItems DEF Piece, Kinds
  <2>3. <<>> \o (<<>> \o (<<>> \o <<>>)) = <<>>
    OBVIOUS
  <2> QED BY Zenon, <2>1, <2>2, <2>3 DEF Init
<1> QED BY <1>2 DEF Init, Promise!Init

(***************************************************************************)
(* The message queue                                                       *)
(***************************************************************************)

MsgTyped ==
  /\ m_ThreadQueue \in Seq(M!Messages) /\ handled \in Seq(M!Messages)
  /\ m_hSem \in Nat /\ m_lMsgWaiting \in Nat /\ sent \in 0..MaxMessages
  /\ msgThread \in {"none", "get", "wait", "ended"}
  /\ owner \in {"running", "deleting", "deleted"}

MsgWaiting ==
  /\ m_lMsgWaiting + m_hSem = IF msgThread = "wait" THEN 1 ELSE 0
  /\ msgThread = "wait" /\ m_ThreadQueue # <<>> => m_hSem = 1

MsgInv == MsgTyped /\ MsgWaiting

\* The invariant of the message queue holds at first.
LEMMA MsgStart == ASSUME M!MessagesAssumption, M!Init PROVE MsgInv
  BY DEF M!MessagesAssumption, M!Init, MsgInv, MsgTyped, MsgWaiting

\* The first message and the others.
LEMMA MsgHead ==
  ASSUME MsgTyped, m_ThreadQueue # <<>>
  PROVE  /\ Head(m_ThreadQueue) \in M!Messages /\ Tail(m_ThreadQueue) \in Seq(M!Messages)
         /\ m_ThreadQueue = <<Head(m_ThreadQueue)>> \o Tail(m_ThreadQueue)
  BY HeadTailProperties DEF MsgTyped

\* What PutThreadMsg and the destructor put is a message.
LEMMA MsgNew ==
  ASSUME M!MessagesAssumption, MsgTyped, sent < MaxMessages, NEW kind \in {"work", "quit"}
  PROVE  M!Message(kind, sent + 1) \in M!Messages /\ sent + 1 \in 0..MaxMessages
  BY DEF M!MessagesAssumption, MsgTyped, M!Message, M!Messages

\* Every step keeps the invariant of the message queue.
LEMMA MsgStep ==
  ASSUME M!MessagesAssumption, MsgInv, [M!Next]_messages
  PROVE  MsgInv'
<1> USE DEF MsgInv
<1>1. CASE M!Put
  <2>1. PICK kind \in {"work", "quit"} : M!PutThreadMsg(kind)
    BY <1>1 DEF M!Put
  <2>2. PICK x : x = M!Message(kind, sent + 1)
    OBVIOUS
  <2>3. x \in M!Messages /\ sent + 1 \in 0..MaxMessages
    BY <2>1, <2>2, MsgNew DEF M!PutThreadMsg
  <2>4. m_ThreadQueue' = Append(m_ThreadQueue, x) /\ m_ThreadQueue' \in Seq(M!Messages)
        /\ m_ThreadQueue' # <<>>
    BY <2>1, <2>2, <2>3 DEF M!PutThreadMsg, MsgTyped
  <2>5. MsgTyped'
    BY <2>1, <2>3, <2>4 DEF M!PutThreadMsg, MsgTyped
  <2>6. MsgWaiting'
    BY <2>1, <2>4 DEF M!PutThreadMsg, MsgTyped, MsgWaiting
  <2> QED BY <2>5, <2>6
<1>2. CASE M!GetThreadMsg
  <2>1. Head(m_ThreadQueue) \in M!Messages /\ Tail(m_ThreadQueue) \in Seq(M!Messages)
    BY <1>2, MsgHead DEF M!GetThreadMsg
  <2>2. PICK x : x = Head(m_ThreadQueue)
    OBVIOUS
  <2>3. handled' = Append(handled, x) /\ handled' \in Seq(M!Messages)
        /\ msgThread' \in {"get", "ended"}
    BY <1>2, <2>1, <2>2 DEF M!GetThreadMsg, MsgTyped
  <2>4. MsgTyped'
    BY <1>2, <2>1, <2>3 DEF M!GetThreadMsg, MsgTyped
  <2>5. MsgWaiting'
    BY <1>2, <2>3 DEF M!GetThreadMsg, MsgTyped, MsgWaiting
  <2> QED BY <2>4, <2>5
<1>3. CASE M!PrepareToWait \/ M!Wake
  BY <1>3 DEF M!PrepareToWait, M!Wake, MsgTyped, MsgWaiting
<1>4. CASE M!CreateThread \/ M!Delete
  BY <1>4 DEF M!CreateThread, M!Delete, MsgTyped, MsgWaiting
<1>5. CASE M!Deleted
  <2>1. m_ThreadQueue' = <<>> /\ <<>> \in Seq(M!Messages)
    BY <1>5 DEF M!Deleted
  <2> QED BY <1>5, <2>1 DEF M!Deleted, MsgTyped, MsgWaiting
<1>6. CASE M!Idle \/ UNCHANGED messages
  BY <1>6 DEF M!Idle, M!vars, messages, MsgTyped, MsgWaiting
<1> QED BY <1>1, <1>2, <1>3, <1>4, <1>5, <1>6 DEF M!Next, M!Worker

\* It says that the variables have values of their kinds ...
LEMMA MsgTypes == ASSUME MsgInv PROVE M!TypeOK
  BY DEF MsgInv, MsgTyped, MsgWaiting, M!TypeOK

\* ... and that the worker does not sleep on a message.
LEMMA MsgWakes == ASSUME MsgInv PROVE M!NoLostWakeup
  BY DEF MsgInv, MsgTyped, MsgWaiting, M!NoLostWakeup

\* Every step of the message queue is one of a channel, or none of it.
LEMMA MsgMoves ==
  ASSUME M!MessagesAssumption, MsgInv, [M!Next]_messages
  PROVE  [M!Promise!Move]_<<sent, M!pending, M!out>>
<1> DEFINE kinds == {"work", "quit"}
           A == M!Messages
<1>0. /\ m_ThreadQueue \in Seq(A) /\ handled \in Seq(A) /\ sent \in Nat
      /\ MsgTyped
  BY DEF MsgInv, MsgTyped, M!MessagesAssumption
<1>1. CASE UNCHANGED <<sent, m_ThreadQueue, handled>>
  BY <1>1 DEF M!pending, M!out
<1>2. ASSUME Moved(kinds, sent, m_ThreadQueue, handled, sent', m_ThreadQueue', handled')
      PROVE  M!Promise!Move
  BY Zenon, <1>2 DEF Moved, M!Promise!Move, M!Promise!InOrder, M!pending, M!out
<1>3. OutOf(<<>>, <<>>) /\ \A g \in Seq(A) : OutOf(<<>>, g) /\ OutOf(g, g)
  <2>1. ASSUME NEW g \in Seq(A) PROVE OutOf(<<>>, g) /\ OutOf(g, g)
    <3>1. 0 \in 0..Len(g) /\ Len(g) \in 0..Len(g)
      OBVIOUS
    <3>2. SubSeq(g, 1, 0) = <<>>
      OBVIOUS
    <3>3. SubSeq(g, 1, Len(g)) = g
      BY SubSeqFull
    <3> QED BY Zenon, <3>1, <3>2, <3>3, FirstOut
  <2>2. <<>> \in Seq(A)
    OBVIOUS
  <2> QED BY Zenon, <2>1, <2>2
<1>4. CASE M!Put
  <2>1. PICK kind \in {"work", "quit"} : M!PutThreadMsg(kind)
    BY <1>4 DEF M!Put
  <2>2. PICK x : x = M!Message(kind, sent + 1)
    OBVIOUS
  <2>3. x \in A /\ x = [kind |-> kind, id |-> sent + 1]
    BY <2>1, <2>2, MsgNew, <1>0 DEF M!PutThreadMsg, M!Message
  <2>4. sent' = sent + 1 /\ handled' = handled /\ m_ThreadQueue' = Append(m_ThreadQueue, x)
    BY <2>1, <2>2 DEF M!PutThreadMsg
  <2>5. PICK new : new = <<x>>
    OBVIOUS
  <2>6. new \in {<<>>} \cup {<<[kind |-> k, id |-> sent + 1]>> : k \in kinds}
    BY Zenon, <2>1, <2>3, <2>5
  <2>7. Len(new) = 1 /\ m_ThreadQueue \o new = m_ThreadQueue' /\ m_ThreadQueue' \in Seq(A)
    <3>1. Append(m_ThreadQueue, x) = m_ThreadQueue \o <<x>> /\ Append(m_ThreadQueue, x) \in Seq(A)
      BY <1>0, <2>3, AppendIsConcat
    <3> QED BY <2>4, <2>5, <3>1
  <2>8. m_ThreadQueue \o new = <<>> \o m_ThreadQueue' /\ handled' = handled \o <<>> /\ <<>> \in Seq(A)
    BY <1>0, <2>4, <2>7, ConcatEmptySeq
  <2>9. sent' = sent + Len(new)
    BY <2>4, <2>7
  <2> HIDE DEF A, kinds
  <2>10. PICK n, p, o, nn, pp, oo :
           /\ n = sent /\ p = m_ThreadQueue /\ o = handled
           /\ nn = sent' /\ pp = m_ThreadQueue' /\ oo = handled'
    OBVIOUS
  <2>11. Moved(kinds, n, p, o, nn, pp, oo)
    BY <1>3, <2>6, <2>7, <2>8, <2>9, <2>10, Moves
  <2> QED BY Zenon, <1>2, <2>10, <2>11
<1>5. ASSUME NEW g \in Seq(A), NEW r \in Seq(A), NEW s, m_ThreadQueue = g \o r, OutOf(s, g),
             sent' = sent, m_ThreadQueue' = r, handled' = handled \o s
      PROVE  M!Promise!Move
  <2>1. PICK new : new = <<>>
    OBVIOUS
  <2>2. new \in {<<>>} \cup {<<[kind |-> k, id |-> sent + 1]>> : k \in kinds}
    BY <2>1
  <2>3. m_ThreadQueue \o new = g \o r /\ sent' = sent + Len(new)
    BY <1>0, <1>5, <2>1, ConcatEmptySeq
  <2> HIDE DEF A, kinds
  <2>4. PICK n, p, o, nn, pp, oo :
           /\ n = sent /\ p = m_ThreadQueue /\ o = handled
           /\ nn = sent' /\ pp = m_ThreadQueue' /\ oo = handled'
    OBVIOUS
  <2>5. Moved(kinds, n, p, o, nn, pp, oo)
    BY <1>5, <2>2, <2>3, <2>4, Moves
  <2> QED BY Zenon, <1>2, <2>4, <2>5
<1>6. CASE M!GetThreadMsg
  <2>1. /\ Head(m_ThreadQueue) \in A /\ Tail(m_ThreadQueue) \in Seq(A)
        /\ m_ThreadQueue = <<Head(m_ThreadQueue)>> \o Tail(m_ThreadQueue)
    BY <1>0, <1>6, MsgHead DEF M!GetThreadMsg
  <2>2. PICK x : x = Head(m_ThreadQueue)
    OBVIOUS
  <2>3. handled' = handled \o <<x>>
    <3>1. handled' = Append(handled, x)
      BY <1>6, <2>2 DEF M!GetThreadMsg
    <3> QED BY <1>0, <2>1, <2>2, <3>1, AppendIsConcat
  <2>4. sent' = sent /\ m_ThreadQueue' = Tail(m_ThreadQueue)
    BY <1>6 DEF M!GetThreadMsg
  <2>5. <<x>> \in Seq(A)
    BY <2>1, <2>2
  <2> HIDE DEF A
  <2>6. OutOf(<<x>>, <<x>>)
    BY <1>3, <2>5
  <2> QED BY <1>5, <2>1, <2>2, <2>3, <2>4, <2>5, <2>6
<1>7. CASE M!Deleted
  <2>1. sent' = sent /\ handled' = handled /\ m_ThreadQueue' = <<>>
    BY <1>7 DEF M!Deleted
  <2>2. m_ThreadQueue = m_ThreadQueue \o <<>> /\ handled = handled \o <<>> /\ <<>> \in Seq(A)
    BY <1>0, ConcatEmptySeq
  <2> HIDE DEF A
  <2> QED BY <1>0, <1>3, <1>5, <2>1, <2>2
<1>8. CASE M!PrepareToWait \/ M!Wake \/ M!CreateThread \/ M!Delete \/ M!Idle \/ UNCHANGED messages
  <2>1. UNCHANGED <<sent, m_ThreadQueue, handled>>
    BY <1>8 DEF M!PrepareToWait, M!Wake, M!CreateThread, M!Delete, M!Idle, M!vars, messages
  <2> QED BY <1>1, <2>1
<1> QED BY <1>4, <1>6, <1>7, <1>8 DEF M!Next, M!Worker

\* The message queue begins as an empty channel.
LEMMA MsgChannelStart == ASSUME M!Init PROVE M!Promise!Init
  BY DEF M!Init, M!Promise!Init, M!pending, M!out

(***************************************************************************)
(* The ring of objects                                                     *)
(***************************************************************************)

AtPlace(f, T, p) == Cardinality({t \in T : f[t] = p})

\* The counts after a putter or a getter went.
Shift(was, place, v) == (IF v = place THEN 1 ELSE 0) - (IF was = place THEN 1 ELSE 0)
Went(f, h, T, t, v) == t \in T /\ \A u \in T : h[u] = IF u = t THEN v ELSE f[u]

\* A thread that goes is counted where it gets, and no longer where it was.
LEMMA Goes ==
  ASSUME NEW T, NEW f, NEW h, NEW t, NEW v, NEW x,
         IsFiniteSet(T), Went(f, h, T, t, v)
  PROVE  /\ AtPlace(f, T, x) \in Nat /\ AtPlace(h, T, x) \in Nat
         /\ AtPlace(h, T, x) = AtPlace(f, T, x) + Shift(f[t], x, v)
<1> USE DEF Went, Shift
<1> DEFINE A == {u \in T : f[u] = x}
           B == {u \in T : h[u] = x}
<1>1. IsFiniteSet(A) /\ IsFiniteSet(B)
  BY FS_Subset
<1>2. Cardinality(A) \in Nat /\ Cardinality(B) \in Nat
  BY <1>1, FS_CardinalityType
<1>3. ASSUME v = x, f[t] # x PROVE Cardinality(B) = Cardinality(A) + 1
  <2>1. B = A \cup {t} /\ t \notin A
    BY <1>3
  <2> HIDE DEF A, B
  <2> QED BY <1>1, <2>1, FS_AddElement
<1>4. ASSUME v # x, f[t] = x PROVE Cardinality(B) = Cardinality(A) - 1
  <2>1. A = B \cup {t} /\ t \notin B
    BY <1>4
  <2> HIDE DEF A, B
  <2>2. Cardinality(A) = Cardinality(B) + 1
    BY <1>1, <2>1, FS_AddElement
  <2> QED BY <1>2, <2>2
<1>5. ASSUME v = x <=> f[t] = x PROVE B = A
  BY <1>5
<1> HIDE DEF A, B
<1>6. AtPlace(f, T, x) = Cardinality(A) /\ AtPlace(h, T, x) = Cardinality(B)
  BY DEF AtPlace, A, B
<1> QED BY <1>2, <1>3, <1>4, <1>5, <1>6

\* The quotient and the remainder.
LEMMA Remainder ==
  ASSUME NEW a \in Int, NEW m \in Nat, m > 0
  PROVE  /\ a % m \in 0..(m - 1)
         /\ a \div m \in Int
         /\ a = m * (a \div m) + (a % m)
<1>1. a % m \in 0..(m - 1)
  OBVIOUS
<1>2. a \div m \in Int
  OBVIOUS
<1>3. a = m * (a \div m) + (a % m)
  OBVIOUS
<1> QED BY <1>1, <1>2, <1>3

\* Less than a whole ring apart, two numbers have slots of their own.
LEMMA OtherSlot ==
  ASSUME NEW a \in Int, NEW b \in Int, NEW m \in Nat, m > 0, a < b, b - a < m
  PROVE  a % m # b % m
<1> DEFINE p == a \div m
           q == b \div m
           r == a % m
           s == b % m
<1>1. p \in Int /\ r \in 0..(m - 1) /\ a = m * p + r
  BY Remainder
<1>2. q \in Int /\ s \in 0..(m - 1) /\ b = m * q + s
  BY Remainder
<1> HIDE DEF p, q, r, s
<1>3. SUFFICES ASSUME r = s PROVE FALSE
  BY DEF r, s
<1>4. m * (q - p) = b - a
  BY <1>1, <1>2, <1>3
<1>5. q - p >= 1
  <2> SUFFICES ASSUME q - p <= 0 PROVE FALSE
    BY <1>1, <1>2
  <2>1. m * (q - p) <= 0
    BY <1>1, <1>2
  <2> QED BY <1>4, <2>1
<1>6. m * (q - p) >= m
  BY <1>1, <1>2, <1>5
<1> QED BY <1>4, <1>6

Puts(p) == AtPlace(at, Putters, p)
Gets(p) == AtPlace(at, Getters, p)

CountsOfSlots ==
  /\ hSemPut \in Nat /\ hSemGet \in Nat /\ iNextPut \in Nat /\ iNextGet \in Nat
  /\ Puts("slot") \in Nat /\ Puts("signal") \in Nat
  /\ Gets("slot") \in Nat /\ Gets("signal") \in Nat

SlotTyped ==
  /\ QueueObjects \in [0..(nMax - 1) -> 0..MaxObjects]
  /\ at \in [S!Threads -> {"out", "slot", "signal"}]
  /\ got = [i \in 1..iNextGet |-> i]

SlotCounts ==
  /\ hSemPut + Puts("slot") + Puts("signal") + hSemGet + Gets("slot") + Gets("signal") = nMax
  /\ iNextPut = iNextGet + Puts("signal") + hSemGet + Gets("slot")
  /\ put = iNextPut /\ put + Puts("slot") <= MaxObjects

SlotRing == \A i \in iNextGet..(iNextPut - 1) : QueueObjects[i % nMax] = i + 1

SlotInv == CountsOfSlots /\ SlotTyped /\ SlotCounts /\ SlotRing

\* The invariant of the ring holds at first.
LEMMA SlotStart == ASSUME S!QueueAssumption, S!Init PROVE SlotInv
<1>1. \A t \in Putters \cup Getters : at[t] = "out"
  BY DEF S!Init, S!Threads
<1>2. \A T \in {Putters, Getters} : \A p \in {"slot", "signal"} : {t \in T : at[t] = p} = {}
  BY <1>1
<1>3. \A T \in {Putters, Getters} : \A p \in {"slot", "signal"} : AtPlace(at, T, p) = 0
  BY Zenon, <1>2, FS_EmptySet DEF AtPlace
<1>4. /\ Puts("slot") = 0 /\ Puts("signal") = 0 /\ Gets("slot") = 0 /\ Gets("signal") = 0
  BY Zenon, <1>3 DEF Puts, Gets
<1>5. CountsOfSlots /\ SlotCounts
  BY <1>4 DEF S!Init, S!QueueAssumption, CountsOfSlots, SlotCounts
<1>6. SlotTyped
  <2>1. got = <<>> /\ iNextGet = 0
    BY DEF S!Init
  <2>2. <<>> = [i \in 1..0 |-> i]
    OBVIOUS
  <2>3. got = [i \in 1..iNextGet |-> i]
    BY Zenon, <2>1, <2>2
  <2> QED BY <2>3 DEF S!Init, S!QueueAssumption, S!Empty, SlotTyped
<1>7. SlotRing
  BY DEF S!Init, SlotRing
<1> QED BY <1>5, <1>6, <1>7 DEF SlotInv

\* When a putter goes, the putters that are counted change, and the getters do not.
LEMMA PutterGoes ==
  ASSUME S!QueueAssumption, SlotTyped, NEW t \in Putters, NEW v \in {"out", "slot", "signal"}, S!Go(t, v)
  PROVE  /\ at' \in [S!Threads -> {"out", "slot", "signal"}]
         /\ \A p : /\ Puts(p) \in Nat /\ Puts(p)' \in Nat /\ Gets(p) \in Nat
                   /\ Puts(p)' = Puts(p) + Shift(at[t], p, v)
                   /\ Gets(p)' = Gets(p)
<1>1. at' \in [S!Threads -> {"out", "slot", "signal"}]
  BY DEF SlotTyped, S!Go
<1>2. \A u \in Putters : at'[u] = IF u = t THEN v ELSE at[u]
  BY DEF SlotTyped, S!Go, S!Threads
<1>3. \A u \in Getters : at'[u] = at[u]
  BY DEF SlotTyped, S!Go, S!Threads, S!QueueAssumption
<1>4. IsFiniteSet(Putters) /\ IsFiniteSet(Getters)
  BY DEF S!QueueAssumption, S!IsFiniteSet, IsFiniteSet
<1>5. ASSUME NEW p
      PROVE  /\ Puts(p) \in Nat /\ Puts(p)' \in Nat /\ Gets(p) \in Nat
             /\ Puts(p)' = Puts(p) + Shift(at[t], p, v)
             /\ Gets(p)' = Gets(p)
  <2>1. PICK f, h : f = at /\ h = at'
    OBVIOUS
  <2>2. /\ AtPlace(f, Putters, p) \in Nat /\ AtPlace(h, Putters, p) \in Nat
        /\ AtPlace(h, Putters, p) = AtPlace(f, Putters, p) + Shift(f[t], p, v)
    <3>1. Went(f, h, Putters, t, v)
      BY Zenon, <1>2, <2>1 DEF Went
    <3>2. IsFiniteSet(Putters)
      BY <1>4
    <3>3. \A T, d, e, u, w, x : IsFiniteSet(T) /\ Went(d, e, T, u, w) =>
            /\ AtPlace(d, T, x) \in Nat /\ AtPlace(e, T, x) \in Nat
            /\ AtPlace(e, T, x) = AtPlace(d, T, x) + Shift(d[u], x, w)
      BY Goes
    <3> QED BY <3>1, <3>2, <3>3
  <2>3. {u \in Getters : at'[u] = p} = {u \in Getters : at[u] = p}
    BY <1>3
  <2>4. Gets(p)' = Gets(p)
    BY Zenon, <2>3 DEF Gets, AtPlace
  <2>5. Gets(p) \in Nat
    <3>1. IsFiniteSet({u \in Getters : at[u] = p})
      BY <1>4, FS_Subset
    <3> QED BY <3>1, FS_CardinalityType DEF Gets, AtPlace
  <2>6. Puts(p) = AtPlace(f, Putters, p) /\ Puts(p)' = AtPlace(h, Putters, p) /\ f[t] = at[t]
    BY Zenon, <2>1 DEF Puts
  <2> QED BY <2>2, <2>4, <2>5, <2>6 DEF Shift
<1> QED BY <1>1, <1>5

\* When a getter goes, the getters that are counted change, and the putters do not.
LEMMA GetterGoes ==
  ASSUME S!QueueAssumption, SlotTyped, NEW t \in Getters, NEW v \in {"out", "slot", "signal"}, S!Go(t, v)
  PROVE  /\ at' \in [S!Threads -> {"out", "slot", "signal"}]
         /\ \A p : /\ Gets(p) \in Nat /\ Gets(p)' \in Nat /\ Puts(p) \in Nat
                   /\ Gets(p)' = Gets(p) + Shift(at[t], p, v)
                   /\ Puts(p)' = Puts(p)
<1>1. at' \in [S!Threads -> {"out", "slot", "signal"}]
  BY DEF SlotTyped, S!Go
<1>2. \A u \in Getters : at'[u] = IF u = t THEN v ELSE at[u]
  BY DEF SlotTyped, S!Go, S!Threads
<1>3. \A u \in Putters : at'[u] = at[u]
  BY DEF SlotTyped, S!Go, S!Threads, S!QueueAssumption
<1>4. IsFiniteSet(Putters) /\ IsFiniteSet(Getters)
  BY DEF S!QueueAssumption, S!IsFiniteSet, IsFiniteSet
<1>5. ASSUME NEW p
      PROVE  /\ Gets(p) \in Nat /\ Gets(p)' \in Nat /\ Puts(p) \in Nat
             /\ Gets(p)' = Gets(p) + Shift(at[t], p, v)
             /\ Puts(p)' = Puts(p)
  <2>1. PICK f, h : f = at /\ h = at'
    OBVIOUS
  <2>2. /\ AtPlace(f, Getters, p) \in Nat /\ AtPlace(h, Getters, p) \in Nat
        /\ AtPlace(h, Getters, p) = AtPlace(f, Getters, p) + Shift(f[t], p, v)
    <3>1. Went(f, h, Getters, t, v)
      BY Zenon, <1>2, <2>1 DEF Went
    <3>2. IsFiniteSet(Getters)
      BY <1>4
    <3>3. \A T, d, e, u, w, x : IsFiniteSet(T) /\ Went(d, e, T, u, w) =>
            /\ AtPlace(d, T, x) \in Nat /\ AtPlace(e, T, x) \in Nat
            /\ AtPlace(e, T, x) = AtPlace(d, T, x) + Shift(d[u], x, w)
      BY Goes
    <3> QED BY <3>1, <3>2, <3>3
  <2>3. {u \in Putters : at'[u] = p} = {u \in Putters : at[u] = p}
    BY <1>3
  <2>4. Puts(p)' = Puts(p)
    BY Zenon, <2>3 DEF Puts, AtPlace
  <2>5. Puts(p) \in Nat
    <3>1. IsFiniteSet({u \in Putters : at[u] = p})
      BY <1>4, FS_Subset
    <3> QED BY <3>1, FS_CardinalityType DEF Puts, AtPlace
  <2>6. Gets(p) = AtPlace(f, Getters, p) /\ Gets(p)' = AtPlace(h, Getters, p) /\ f[t] = at[t]
    BY Zenon, <2>1 DEF Gets
  <2> QED BY <2>2, <2>4, <2>5, <2>6 DEF Shift
<1> QED BY <1>1, <1>5

\* The steps of a thread that change a count.
LEMMA ShiftsAre ==
  /\ Shift("out", "slot", "slot") = 1 /\ Shift("out", "signal", "slot") = 0
  /\ Shift("slot", "slot", "signal") = -1 /\ Shift("slot", "signal", "signal") = 1
  /\ Shift("signal", "slot", "out") = 0 /\ Shift("signal", "signal", "out") = -1
  BY DEF Shift

\* The steps of a putter keep the invariant of the ring, ...
LEMMA SlotPutStep ==
  ASSUME S!QueueAssumption, SlotInv, NEW t \in Putters, S!PutStep(t)
  PROVE  SlotInv'
<1> USE DEF SlotInv
<1>1. CASE S!WaitToPut(t)
  <2>1. S!Go(t, "slot") /\ at[t] = "out"
    BY <1>1 DEF S!WaitToPut
  <2>2. /\ at' \in [S!Threads -> {"out", "slot", "signal"}]
        /\ \A p : /\ Puts(p) \in Nat /\ Puts(p)' \in Nat /\ Gets(p) \in Nat
                  /\ Puts(p)' = Puts(p) + Shift(at[t], p, "slot")
                  /\ Gets(p)' = Gets(p)
    BY <2>1, PutterGoes
  <2>3. /\ Puts("slot")' = Puts("slot") + 1 /\ Puts("signal")' = Puts("signal")
        /\ Gets("slot")' = Gets("slot") /\ Gets("signal")' = Gets("signal")
    BY <2>1, <2>2, ShiftsAre
  <2>4. Cardinality({u \in Putters : at[u] = "slot"}) = Puts("slot")
    BY Zenon DEF Puts, AtPlace
  <2>5. S!Cardinality({u \in Putters : at[u] = "slot"}) = Puts("slot")
    BY Zenon, <2>4 DEF S!Cardinality, Cardinality
  <2>6. put + Puts("slot") < MaxObjects
    BY <1>1, <2>5 DEF S!WaitToPut
  <2>7. /\ hSemPut > 0 /\ hSemPut' = hSemPut - 1
        /\ UNCHANGED <<hSemGet, iNextPut, iNextGet, QueueObjects, put, got>>
    BY <1>1 DEF S!WaitToPut
  <2>8. CountsOfSlots' /\ SlotCounts'
    BY <2>2, <2>3, <2>6, <2>7 DEF CountsOfSlots, SlotCounts, S!QueueAssumption
  <2>9. SlotTyped' /\ SlotRing'
    BY <2>2, <2>7 DEF SlotTyped, SlotRing
  <2> QED BY <2>8, <2>9
<1>2. CASE S!Put(t)
  <2>1. S!Go(t, "signal") /\ at[t] = "slot"
    BY <1>2 DEF S!Put
  <2>2. /\ at' \in [S!Threads -> {"out", "slot", "signal"}]
        /\ \A p : /\ Puts(p) \in Nat /\ Puts(p)' \in Nat /\ Gets(p) \in Nat
                  /\ Puts(p)' = Puts(p) + Shift(at[t], p, "signal")
                  /\ Gets(p)' = Gets(p)
    BY <2>1, PutterGoes
  <2>3. /\ Puts("slot")' = Puts("slot") - 1 /\ Puts("signal")' = Puts("signal") + 1
        /\ Gets("slot")' = Gets("slot") /\ Gets("signal")' = Gets("signal")
        /\ Puts("slot") >= 1
    BY <2>1, <2>2, ShiftsAre
  <2>4. /\ QueueObjects' = [QueueObjects EXCEPT ![iNextPut % nMax] = put + 1]
        /\ iNextPut' = iNextPut + 1 /\ put' = put + 1
        /\ UNCHANGED <<hSemPut, hSemGet, iNextGet, got>>
    BY <1>2 DEF S!Put
  <2>5. CountsOfSlots' /\ SlotCounts'
    BY <2>2, <2>3, <2>4 DEF CountsOfSlots, SlotCounts, S!QueueAssumption
  <2>6. /\ nMax \in Nat /\ nMax > 0 /\ iNextPut \in Nat /\ iNextGet \in Nat /\ MaxObjects \in Nat
        /\ iNextGet <= iNextPut /\ iNextPut - iNextGet < nMax /\ put = iNextPut /\ put < MaxObjects
    BY <2>3 DEF CountsOfSlots, SlotCounts, S!QueueAssumption
  <2>7. iNextPut % nMax \in 0..(nMax - 1)
    BY <2>6, Remainder
  <2>8. SlotTyped'
    <3>1. put + 1 \in 0..MaxObjects
      BY <2>6
    <3> QED BY <2>2, <2>4, <2>7, <3>1 DEF SlotTyped
  <2>9. SlotRing'
    <3>1. \A i \in iNextGet..(iNextPut - 1) : i % nMax # iNextPut % nMax /\ i % nMax \in 0..(nMax - 1)
      <4> TAKE i \in iNextGet..(iNextPut - 1)
      <4>1. i \in Int /\ i < iNextPut /\ iNextPut - i < nMax /\ iNextPut \in Int
        BY <2>6
      <4> QED BY <2>6, <4>1, OtherSlot, Remainder
    <3>2. \A i \in iNextGet..(iNextPut - 1) : QueueObjects'[i % nMax] = i + 1
      <4> TAKE i \in iNextGet..(iNextPut - 1)
      <4>1. QueueObjects[i % nMax] = i + 1
        BY DEF SlotRing
      <4>2. i % nMax # iNextPut % nMax /\ i % nMax \in 0..(nMax - 1)
        BY <3>1
      <4>3. PICK k, l : k = i % nMax /\ l = iNextPut % nMax
        OBVIOUS
      <4> QED BY <2>4, <4>1, <4>2, <4>3 DEF SlotTyped
    <3>3. QueueObjects'[iNextPut % nMax] = iNextPut + 1
      <4>1. PICK l : l = iNextPut % nMax
        OBVIOUS
      <4> QED BY <2>4, <2>6, <2>7, <4>1 DEF SlotTyped
    <3>4. \A i \in iNextGet..iNextPut : i \in iNextGet..(iNextPut - 1) \/ i = iNextPut
      BY <2>6
    <3>5. \A i \in iNextGet..iNextPut : QueueObjects'[i % nMax] = i + 1
      BY <3>2, <3>3, <3>4
    <3>6. iNextGet' = iNextGet /\ iNextPut' - 1 = iNextPut
      BY <2>4, <2>6
    <3> QED BY Zenon, <3>5, <3>6 DEF SlotRing, S!QueueAssumption
  <2> QED BY <2>5, <2>8, <2>9
<1>3. CASE S!SignalPut(t)
  <2>1. S!Go(t, "out") /\ at[t] = "signal"
    BY <1>3 DEF S!SignalPut
  <2>2. /\ at' \in [S!Threads -> {"out", "slot", "signal"}]
        /\ \A p : /\ Puts(p) \in Nat /\ Puts(p)' \in Nat /\ Gets(p) \in Nat
                  /\ Puts(p)' = Puts(p) + Shift(at[t], p, "out")
                  /\ Gets(p)' = Gets(p)
    BY <2>1, PutterGoes
  <2>3. /\ Puts("slot")' = Puts("slot") /\ Puts("signal")' = Puts("signal") - 1
        /\ Gets("slot")' = Gets("slot") /\ Gets("signal")' = Gets("signal")
    BY <2>1, <2>2, ShiftsAre
  <2>4. /\ hSemGet' = hSemGet + 1
        /\ UNCHANGED <<hSemPut, iNextPut, iNextGet, QueueObjects, put, got>>
    BY <1>3 DEF S!SignalPut
  <2>5. CountsOfSlots' /\ SlotCounts'
    BY <2>2, <2>3, <2>4 DEF CountsOfSlots, SlotCounts, S!QueueAssumption
  <2>6. SlotTyped' /\ SlotRing'
    BY <2>2, <2>4 DEF SlotTyped, SlotRing
  <2> QED BY <2>5, <2>6
<1> QED BY <1>1, <1>2, <1>3 DEF S!PutStep

\* ... those of a getter do, ...
LEMMA SlotGetStep ==
  ASSUME S!QueueAssumption, SlotInv, NEW t \in Getters, S!GetStep(t)
  PROVE  SlotInv'
<1> USE DEF SlotInv
<1>1. CASE S!WaitToGet(t)
  <2>1. S!Go(t, "slot") /\ at[t] = "out"
    BY <1>1 DEF S!WaitToGet
  <2>2. /\ at' \in [S!Threads -> {"out", "slot", "signal"}]
        /\ \A p : /\ Gets(p) \in Nat /\ Gets(p)' \in Nat /\ Puts(p) \in Nat
                  /\ Gets(p)' = Gets(p) + Shift(at[t], p, "slot")
                  /\ Puts(p)' = Puts(p)
    BY <2>1, GetterGoes
  <2>3. /\ Gets("slot")' = Gets("slot") + 1 /\ Gets("signal")' = Gets("signal")
        /\ Puts("slot")' = Puts("slot") /\ Puts("signal")' = Puts("signal")
    BY <2>1, <2>2, ShiftsAre
  <2>7. /\ hSemGet > 0 /\ hSemGet' = hSemGet - 1
        /\ UNCHANGED <<hSemPut, iNextPut, iNextGet, QueueObjects, put, got>>
    BY <1>1 DEF S!WaitToGet
  <2>8. CountsOfSlots' /\ SlotCounts'
    BY <2>2, <2>3, <2>7 DEF CountsOfSlots, SlotCounts, S!QueueAssumption
  <2>9. SlotTyped' /\ SlotRing'
    BY <2>2, <2>7 DEF SlotTyped, SlotRing
  <2> QED BY <2>8, <2>9
<1>2. CASE S!Get(t)
  <2>1. S!Go(t, "signal") /\ at[t] = "slot"
    BY <1>2 DEF S!Get
  <2>2. /\ at' \in [S!Threads -> {"out", "slot", "signal"}]
        /\ \A p : /\ Gets(p) \in Nat /\ Gets(p)' \in Nat /\ Puts(p) \in Nat
                  /\ Gets(p)' = Gets(p) + Shift(at[t], p, "signal")
                  /\ Puts(p)' = Puts(p)
    BY <2>1, GetterGoes
  <2>3. /\ Gets("slot")' = Gets("slot") - 1 /\ Gets("signal")' = Gets("signal") + 1
        /\ Puts("slot")' = Puts("slot") /\ Puts("signal")' = Puts("signal")
        /\ Gets("slot") >= 1
    BY <2>1, <2>2, ShiftsAre
  <2>4. /\ got' = Append(got, QueueObjects[iNextGet % nMax])
        /\ iNextGet' = iNextGet + 1
        /\ UNCHANGED <<hSemPut, hSemGet, iNextPut, QueueObjects, put>>
    BY <1>2 DEF S!Get
  <2>5. CountsOfSlots' /\ SlotCounts'
    <3>1. iNextGet' = iNextGet + 1 /\ UNCHANGED <<hSemPut, hSemGet, iNextPut, put>>
      BY <2>4
    <3> HIDE <2>4, <1>2
    <3> QED BY <2>2, <2>3, <3>1 DEF CountsOfSlots, SlotCounts, S!QueueAssumption
  <2>6. /\ iNextPut \in Nat /\ iNextGet \in Nat /\ iNextGet < iNextPut
    BY <2>3 DEF CountsOfSlots, SlotCounts, S!QueueAssumption
  <2>7. QueueObjects[iNextGet % nMax] = iNextGet + 1
    BY <2>6 DEF SlotRing
  <2>8. got' = [i \in 1..iNextGet' |-> i]
    <3>1. got = [i \in 1..iNextGet |-> i] /\ got' = Append(got, iNextGet + 1)
      BY <2>4, <2>7 DEF SlotTyped
    <3>2. got \in Seq(Nat) /\ Len(got) = iNextGet
      BY <2>6, <3>1
    <3>3. got' = [i \in 1..(iNextGet + 1) |-> i]
      BY <2>6, <3>1, <3>2
    <3> QED BY <2>4, <3>3
  <2>9. SlotTyped' /\ SlotRing'
    BY <2>2, <2>4, <2>6, <2>8 DEF SlotTyped, SlotRing
  <2> QED BY <2>5, <2>9
<1>3. CASE S!SignalGet(t)
  <2>1. S!Go(t, "out") /\ at[t] = "signal"
    BY <1>3 DEF S!SignalGet
  <2>2. /\ at' \in [S!Threads -> {"out", "slot", "signal"}]
        /\ \A p : /\ Gets(p) \in Nat /\ Gets(p)' \in Nat /\ Puts(p) \in Nat
                  /\ Gets(p)' = Gets(p) + Shift(at[t], p, "out")
                  /\ Puts(p)' = Puts(p)
    BY <2>1, GetterGoes
  <2>3. /\ Gets("slot")' = Gets("slot") /\ Gets("signal")' = Gets("signal") - 1
        /\ Puts("slot")' = Puts("slot") /\ Puts("signal")' = Puts("signal")
    BY <2>1, <2>2, ShiftsAre
  <2>4. /\ hSemPut' = hSemPut + 1
        /\ UNCHANGED <<hSemGet, iNextPut, iNextGet, QueueObjects, put, got>>
    BY <1>3 DEF S!SignalGet
  <2>5. CountsOfSlots' /\ SlotCounts'
    BY <2>2, <2>3, <2>4 DEF CountsOfSlots, SlotCounts, S!QueueAssumption
  <2>6. SlotTyped' /\ SlotRing'
    BY <2>2, <2>4 DEF SlotTyped, SlotRing
  <2> QED BY <2>5, <2>6
<1> QED BY <1>1, <1>2, <1>3 DEF S!GetStep

\* ... and so does every step.
LEMMA SlotStep ==
  ASSUME S!QueueAssumption, SlotInv, [S!Next]_slots
  PROVE  SlotInv'
<1>1. CASE S!Done \/ UNCHANGED slots
  <2>1. UNCHANGED <<hSemPut, hSemGet, iNextPut, iNextGet, QueueObjects, at, put, got>>
    BY <1>1 DEF S!Done, S!vars, slots
  <2>2. \A p : Puts(p)' = Puts(p) /\ Gets(p)' = Gets(p)
    BY Zenon, <2>1 DEF Puts, Gets
  <2> QED BY <2>1, <2>2 DEF SlotInv, CountsOfSlots, SlotTyped, SlotCounts, SlotRing
<1> QED BY <1>1, SlotPutStep, SlotGetStep DEF S!Next

\* It says that the variables have values of their kinds.
LEMMA SlotTypes == ASSUME S!QueueAssumption, SlotInv PROVE S!TypeOK
<1>1. /\ nMax \in Nat /\ MaxObjects \in Nat /\ CountsOfSlots /\ SlotCounts /\ SlotTyped
  BY DEF SlotInv, S!QueueAssumption
<1>2. /\ hSemPut \in 0..nMax /\ hSemGet \in 0..nMax
      /\ iNextPut \in 0..MaxObjects /\ iNextGet \in 0..MaxObjects /\ put \in 0..MaxObjects
  BY <1>1 DEF CountsOfSlots, SlotCounts
<1>3. got \in Seq(1..MaxObjects)
  BY <1>1, <1>2 DEF SlotTyped
<1> QED BY <1>1, <1>2, <1>3 DEF S!TypeOK, SlotTyped

(***************************************************************************)
(* The ring as a channel                                                   *)
(***************************************************************************)

\* The next d objects after the first a.
Objects(a, d) == [i \in 1..d |-> S!Object(a + i)]
AllObjects == [kind : {"object"}, id : Nat]

\* Such objects are a sequence of objects of that length.
LEMMA ObjectsAre ==
  ASSUME NEW a \in Nat, NEW d \in Nat
  PROVE  /\ Objects(a, d) \in Seq(AllObjects) /\ Len(Objects(a, d)) = d
         /\ \A i \in 1..d : Objects(a, d)[i] = S!Object(a + i)
         /\ S!Object(a + 1) \in AllObjects /\ S!Object(a + d + 1) \in AllObjects
<1>1. \A i \in Nat : S!Object(a + i) \in AllObjects /\ S!Object(a + d + 1) \in AllObjects
  BY DEF S!Object, AllObjects
<1>2. Objects(a, d) \in [1..d -> AllObjects]
  BY <1>1 DEF Objects
<1>3. Objects(a, d) \in Seq(AllObjects)
  BY <1>2
<1>4. Len(Objects(a, d)) = d
  BY <1>2, <1>3
<1> QED BY <1>1, <1>3, <1>4 DEF Objects

\* One object more, ...
LEMMA ObjectsGrow ==
  ASSUME NEW a \in Nat, NEW d \in Nat
  PROVE  Objects(a, d) \o <<S!Object(a + d + 1)>> = Objects(a, d + 1)
<1> DEFINE x == S!Object(a + d + 1)
<1>1. PICK s, t : s = Objects(a, d) /\ t = Objects(a, d + 1)
  OBVIOUS
<1>2. s \in Seq(AllObjects) /\ Len(s) = d /\ \A i \in 1..d : s[i] = S!Object(a + i)
  BY <1>1, ObjectsAre
<1>3. t \in Seq(AllObjects) /\ Len(t) = d + 1 /\ \A i \in 1..(d + 1) : t[i] = S!Object(a + i)
  <2>1. d + 1 \in Nat
    OBVIOUS
  <2> QED BY <1>1, <2>1, ObjectsAre
<1>4. x \in AllObjects
  BY ObjectsAre
<1>5. t[d + 1] = x
  <2>1. a + (d + 1) = a + d + 1
    OBVIOUS
  <2> QED BY <1>3, <2>1
<1> HIDE DEF x
<1>6. PICK u : u = s \o <<x>>
  OBVIOUS
<1>7. u \in Seq(AllObjects) /\ Len(u) = d + 1 /\ u[d + 1] = x /\ \A i \in 1..d : u[i] = s[i]
  <2>1. s \in Seq(AllObjects) /\ Len(s) = d
    BY <1>2
  <2> HIDE <1>1, <1>2, <1>3, <1>5
  <2> QED BY <1>4, <1>6, <2>1
<1>8. \A i \in 1..(d + 1) : u[i] = t[i]
  BY <1>2, <1>3, <1>5, <1>7
<1>9. u = t
  BY <1>3, <1>7, <1>8, SeqEqual
<1> QED BY Zenon, <1>1, <1>6, <1>9 DEF x

\* ... and one object less.
LEMMA ObjectsShrink ==
  ASSUME NEW a \in Nat, NEW d \in Nat, d > 0
  PROVE  Objects(a, d) = <<S!Object(a + 1)>> \o Objects(a + 1, d - 1)
<1> DEFINE x == S!Object(a + 1)
<1>1. PICK s, t : s = Objects(a, d) /\ t = Objects(a + 1, d - 1)
  OBVIOUS
<1>2. s \in Seq(AllObjects) /\ Len(s) = d /\ \A i \in 1..d : s[i] = S!Object(a + i)
  BY <1>1, ObjectsAre
<1>3. t \in Seq(AllObjects) /\ Len(t) = d - 1 /\ \A i \in 1..(d - 1) : t[i] = S!Object(a + 1 + i)
  <2>1. a + 1 \in Nat /\ d - 1 \in Nat
    OBVIOUS
  <2> QED BY <1>1, <2>1, ObjectsAre
<1>4. x \in AllObjects /\ s[1] = x
  <2>1. x \in AllObjects
    BY ObjectsAre
  <2>2. s[1] = x
    BY <1>2
  <2> QED BY <2>1, <2>2
<1>5. \A i \in 1..(d - 1) : s[1 + i] = t[i]
  <2> TAKE i \in 1..(d - 1)
  <2>1. 1 + i \in 1..d /\ a + (1 + i) = a + 1 + i
    OBVIOUS
  <2>2. s[1 + i] = S!Object(a + (1 + i)) /\ t[i] = S!Object(a + 1 + i)
    BY <1>2, <1>3, <2>1
  <2> QED BY <2>1, <2>2
<1> HIDE DEF x
<1>6. PICK u : u = <<x>> \o t
  OBVIOUS
<1>7. u \in Seq(AllObjects) /\ Len(u) = d /\ u[1] = x /\ \A i \in 1..(d - 1) : u[1 + i] = t[i]
  BY <1>3, <1>4, <1>6
<1>8. \A i \in 1..d : s[i] = u[i]
  <2> TAKE i \in 1..d
  <2>1. i = 1 \/ (i - 1 \in 1..(d - 1) /\ i = 1 + (i - 1))
    OBVIOUS
  <2> QED BY <1>4, <1>5, <1>7, <2>1
<1>9. s = u
  BY <1>2, <1>7, <1>8, SeqEqual
<1> QED BY Zenon, <1>1, <1>6, <1>9 DEF x

\* What is in the ring are the objects between the two places, and what came out are
\* those before.
LEMMA SlotPendingIs ==
  ASSUME S!QueueAssumption, SlotInv
  PROVE  /\ iNextGet \in Nat /\ iNextPut - iNextGet \in Nat /\ put = iNextPut
         /\ S!pending = Objects(iNextGet, iNextPut - iNextGet)
         /\ S!out = Objects(0, iNextGet)
<1>1. /\ iNextGet \in Nat /\ iNextPut \in Nat /\ iNextPut - iNextGet \in Nat /\ put = iNextPut
  BY DEF SlotInv, CountsOfSlots, SlotCounts
<1>2. S!pending = Objects(iNextGet, iNextPut - iNextGet)
  <2>1. \A i \in 1..(iNextPut - iNextGet) : QueueObjects[(iNextGet + i - 1) % nMax] = iNextGet + i
    <3> TAKE i \in 1..(iNextPut - iNextGet)
    <3>1. PICK j : j = iNextGet + i - 1
      OBVIOUS
    <3>2. j \in iNextGet..(iNextPut - 1) /\ j + 1 = iNextGet + i
      BY <1>1, <3>1
    <3>3. QueueObjects[j % nMax] = j + 1
      BY <3>2 DEF SlotInv, SlotRing
    <3> QED BY <3>1, <3>2, <3>3
  <2> QED BY Zenon, <2>1 DEF S!pending, Objects
<1>3. S!out = Objects(0, iNextGet)
  <2>1. got = [i \in 1..iNextGet |-> i]
    BY DEF SlotInv, SlotTyped
  <2>2. DOMAIN got = 1..iNextGet /\ \A i \in 1..iNextGet : got[i] = 0 + i
    BY <1>1, <2>1
  <2> QED BY Zenon, <2>2 DEF S!out, Objects
<1> QED BY <1>1, <1>2, <1>3

\* Every step of the ring is one of a channel, or none of it.
LEMMA SlotMoves ==
  ASSUME S!QueueAssumption, SlotInv, [S!Next]_slots
  PROVE  [S!Promise!Move]_<<put, S!pending, S!out>>
<1> DEFINE kinds == {"object"}
           d == iNextPut - iNextGet
<1>0. /\ iNextGet \in Nat /\ iNextPut \in Nat /\ d \in Nat /\ put = iNextPut
      /\ S!pending = Objects(iNextGet, d) /\ S!out = Objects(0, iNextGet)
  BY SlotPendingIs DEF SlotInv, CountsOfSlots
<1>1. /\ put' = iNextPut' /\ S!pending' = Objects(iNextGet', d') /\ S!out' = Objects(0, iNextGet')
  <2>1. SlotInv'
    BY SlotStep
  <2>2. S!QueueAssumption'
    BY DEF S!QueueAssumption
  <2>3. (S!QueueAssumption /\ SlotInv =>
           /\ iNextGet \in Nat /\ iNextPut - iNextGet \in Nat /\ put = iNextPut
           /\ S!pending = Objects(iNextGet, iNextPut - iNextGet)
           /\ S!out = Objects(0, iNextGet))'
    BY SlotPendingIs, PTL
  <2> QED BY <2>1, <2>2, <2>3
<1>2. ASSUME iNextPut' = iNextPut, iNextGet' = iNextGet
      PROVE  UNCHANGED <<put, S!pending, S!out>>
  BY <1>0, <1>1, <1>2
<1>3. ASSUME Moved(kinds, put, S!pending, S!out, put', S!pending', S!out')
      PROVE  S!Promise!Move
  BY Zenon, <1>3 DEF Moved, S!Promise!Move, S!Promise!InOrder
<1>4. /\ Objects(iNextGet, d) \in Seq(AllObjects) /\ Objects(0, iNextGet) \in Seq(AllObjects)
      /\ S!Object(iNextGet + 1) \in AllObjects /\ S!Object(iNextGet + d + 1) \in AllObjects
  BY <1>0, ObjectsAre
<1>5. ASSUME NEW t, S!Put(t) PROVE S!Promise!Move
  <2>1. iNextPut' = iNextPut + 1 /\ iNextGet' = iNextGet /\ put' = put + 1
    BY <1>5 DEF S!Put
  <2>2. d' = d + 1 /\ iNextGet + d + 1 = put + 1
    BY <1>0, <2>1
  <2>3. PICK x, new : x = S!Object(put + 1) /\ new = <<x>>
    OBVIOUS
  <2>4. new \in {<<>>} \cup {<<[kind |-> k, id |-> put + 1]>> : k \in kinds}
    BY Zenon, <2>3 DEF S!Object
  <2>5. S!pending' = S!pending \o new
    <3>1. Objects(iNextGet, d) \o <<S!Object(iNextGet + d + 1)>> = Objects(iNextGet, d + 1)
      BY <1>0, ObjectsGrow
    <3> HIDE DEF d
    <3> QED BY <1>0, <1>1, <2>1, <2>2, <2>3, <3>1
  <2>6. S!pending' \in Seq(AllObjects) /\ Len(new) = 1 /\ put' = put + Len(new)
    <3>1. d + 1 \in Nat
      BY <1>0
    <3>2. Objects(iNextGet, d + 1) \in Seq(AllObjects)
      BY <1>0, <3>1, ObjectsAre
    <3> HIDE DEF d
    <3> QED BY <1>1, <2>1, <2>2, <2>3, <3>2
  <2>7. S!out' = S!out
    BY <1>0, <1>1, <2>1
  <2>8. S!pending \o new = <<>> \o S!pending' /\ S!out' = S!out \o <<>> /\ <<>> \in Seq(AllObjects)
    BY <1>0, <1>4, <2>5, <2>6, <2>7, ConcatEmptySeq
  <2>9. OutOf(<<>>, <<>>)
    <3>1. <<>> \in Seq(AllObjects) /\ 0 \in 0..Len(<<>>) /\ SubSeq(<<>>, 1, 0) = <<>>
      OBVIOUS
    <3> QED BY Zenon, <3>1, FirstOut
  <2> HIDE DEF kinds
  <2>10. PICK n, p, o, nn, pp, oo :
           /\ n = put /\ p = S!pending /\ o = S!out
           /\ nn = put' /\ pp = S!pending' /\ oo = S!out'
    OBVIOUS
  <2>11. Moved(kinds, n, p, o, nn, pp, oo)
    BY <2>4, <2>6, <2>8, <2>9, <2>10, Moves
  <2> QED BY Zenon, <1>3, <2>10, <2>11
<1>6. ASSUME NEW t \in Getters, S!Get(t) PROVE S!Promise!Move
  <2>1. iNextPut' = iNextPut /\ iNextGet' = iNextGet + 1 /\ put' = put
    BY <1>6 DEF S!Get
  <2>2. d > 0
    <3>1. SlotInv'
      BY SlotStep
    <3>2. d' \in Nat /\ d' = d - 1
      BY <1>0, <2>1, <3>1 DEF SlotInv, CountsOfSlots, SlotCounts
    <3> QED BY <1>0, <3>2
  <2>3. PICK g, new : g = <<S!Object(iNextGet + 1)>> /\ new = <<>>
    OBVIOUS
  <2>4. new \in {<<>>} \cup {<<[kind |-> k, id |-> put + 1]>> : k \in kinds}
    BY <2>3
  <2>5. S!pending = g \o S!pending'
    <3>1. Objects(iNextGet, d) = <<S!Object(iNextGet + 1)>> \o Objects(iNextGet + 1, d - 1)
      BY <1>0, <2>2, ObjectsShrink
    <3>2. d' = d - 1
      BY <1>0, <2>1 DEF SlotInv, CountsOfSlots
    <3> HIDE DEF d
    <3> QED BY <1>0, <1>1, <2>1, <2>3, <3>1, <3>2
  <2>6. S!out' = S!out \o g
    <3>1. Objects(0, iNextGet) \o <<S!Object(0 + iNextGet + 1)>> = Objects(0, iNextGet + 1)
      BY <1>0, ObjectsGrow
    <3>2. 0 + iNextGet + 1 = iNextGet + 1
      BY <1>0
    <3> HIDE DEF d
    <3> QED BY <1>0, <1>1, <2>1, <2>3, <3>1, <3>2
  <2>7. /\ S!pending' \in Seq(AllObjects) /\ S!pending \in Seq(AllObjects)
        /\ g \in Seq(AllObjects) /\ Len(new) = 0 /\ put' = put + Len(new)
    <3>1. d - 1 \in Nat /\ d' = d - 1 /\ iNextGet + 1 \in Nat
      BY <1>0, <2>1, <2>2 DEF SlotInv, CountsOfSlots
    <3>2. Objects(iNextGet + 1, d - 1) \in Seq(AllObjects)
      BY <3>1, ObjectsAre
    <3>3. put \in Nat /\ put + 0 = put
      BY DEF SlotInv, CountsOfSlots, SlotCounts
    <3> HIDE DEF d
    <3> QED BY <1>0, <1>1, <1>4, <2>1, <2>3, <3>1, <3>2, <3>3
  <2>8. S!pending \o new = g \o S!pending'
    BY <2>3, <2>5, <2>7, ConcatEmptySeq
  <2>9. OutOf(g, g)
    <3>1. Len(g) \in 0..Len(g) /\ SubSeq(g, 1, Len(g)) = g
      BY <2>7, SubSeqFull
    <3> QED BY <2>7, <3>1, FirstOut
  <2> HIDE DEF kinds
  <2>10. PICK n, p, o, nn, pp, oo :
           /\ n = put /\ p = S!pending /\ o = S!out
           /\ nn = put' /\ pp = S!pending' /\ oo = S!out'
    OBVIOUS
  <2>11. Moved(kinds, n, p, o, nn, pp, oo)
    <3>1. /\ p \o new = g \o pp /\ oo = o \o g /\ nn = n + Len(new)
          /\ g \in Seq(AllObjects) /\ pp \in Seq(AllObjects)
      BY Zenon, <2>6, <2>7, <2>8, <2>10
    <3>2. new \in {<<>>} \cup {<<[kind |-> k, id |-> n + 1]>> : k \in kinds}
      BY Zenon, <2>4, <2>10
    <3> HIDE <2>3, <2>4, <2>5, <2>6, <2>7, <2>8, <2>10
    <3> QED BY <2>9, <3>1, <3>2, Moves
  <2> QED BY Zenon, <1>3, <2>10, <2>11
<1>7. ASSUME NEW t, S!WaitToPut(t) \/ S!SignalPut(t) \/ S!WaitToGet(t) \/ S!SignalGet(t)
      PROVE  iNextPut' = iNextPut /\ iNextGet' = iNextGet
  BY <1>7 DEF S!WaitToPut, S!SignalPut, S!WaitToGet, S!SignalGet
<1>8. CASE S!Done \/ UNCHANGED slots
  BY <1>2, <1>8 DEF S!Done, S!vars, slots
<1> HIDE DEF d, kinds
<1> QED BY <1>2, <1>5, <1>6, <1>7, <1>8 DEF S!Next, S!PutStep, S!GetStep

\* The ring begins as an empty channel.
LEMMA SlotChannelStart == ASSUME S!QueueAssumption, S!Init PROVE S!Promise!Init
<1>1. SlotInv
  BY SlotStart
<1>2. S!pending = Objects(iNextGet, iNextPut - iNextGet) /\ S!out = Objects(0, iNextGet)
  BY <1>1, SlotPendingIs
<1>3. iNextPut - iNextGet = 0 /\ iNextGet = 0 /\ put = 0
  BY DEF S!Init
<1>4. Objects(0, 0) = <<>>
  BY DEF Objects
<1>5. S!pending = <<>> /\ S!out = <<>>
  BY Zenon, <1>2, <1>3, <1>4
<1> QED BY <1>3, <1>5 DEF S!Promise!Init

(***************************************************************************)
(* Seeking                                                                 *)
(***************************************************************************)

\* The position that the renderer tells, if it tells one, is in the range.
PositionFits ==
  ~m_bReset => m_StartMedia = m_rtStop \/ (0 <= m_StartMedia /\ m_StartMedia < m_rtStop - m_rtStart)

\* The source streams the segment that was asked for.
SourceFits == stream = "fill" => segment = m_rtStart

\* Nothing of what the seek has changed is still to be flushed.
SeekSettled ==
  \/ seek \in {"idle", "set", "release"}
  \/ seek = "change" /\ changes = {}

SeekingNumbers ==
  /\ m_rtStart \in 0..Length /\ m_rtStop \in 0..Length
  /\ m_StartMedia \in 0..Length /\ from \in 0..Length /\ seeks \in 0..MaxSeeks
  /\ segment \in 0..from

SeekingFlags ==
  /\ m_bReset \in BOOLEAN /\ m_bEOS \in BOOLEAN /\ m_EndOfStreamTimer \in BOOLEAN
  /\ flushing \in BOOLEAN /\ refused \in BOOLEAN /\ m_Connected \in BOOLEAN

SeekingPlaces ==
  /\ sourceLock \in K!Callers \cup {K!Nobody} /\ rendererLock \in K!Callers \cup {K!Nobody}
  /\ seek \in {"idle", "set", "change", "begin flush", "reset", "stop", "end flush",
               "run", "release"}
  /\ stream \in {"stopped", "fill", "notify", "ask", "done"}
  /\ timer \in {"idle", "notify", "ask"}
  /\ changes \subseteq {"stop", "start"}

SeekingOrder ==
  /\ ~refused /\ SeekSettled => PositionFits /\ SourceFits
  /\ seek = "end flush" => stream = "stopped"
  /\ seek = "run" => stream = "stopped" /\ m_bReset

SeekingInv == SeekingNumbers /\ SeekingFlags /\ SeekingPlaces /\ SeekingOrder

\* The invariant of a seek holds at first.
LEMMA SeekingStart == ASSUME K!SeekingAssumption, K!Init PROVE SeekingInv
<1> USE DEF K!Init, K!SeekingAssumption
<1>1. SeekingNumbers
  BY DEF SeekingNumbers
<1>2. SeekingFlags
  BY DEF SeekingFlags
<1>3. SeekingPlaces
  BY DEF SeekingPlaces, K!Nobody
<1>4. SeekingOrder
  BY DEF SeekingOrder, PositionFits, SourceFits
<1> QED BY <1>1, <1>2, <1>3, <1>4 DEF SeekingInv

\* Every step keeps it.
LEMMA SeekingStep ==
  ASSUME K!SeekingAssumption, SeekingInv, [K!Next]_seeking
  PROVE  SeekingInv'
<1> USE DEF K!positions, K!source, K!media, K!eos, K!locks, K!pending, K!seekVars, K!threads
<1>1. CASE K!Disconnect
  <2>1. SeekingNumbers'
    BY <1>1 DEF SeekingInv, SeekingNumbers, K!SeekingAssumption, K!Disconnect
  <2>2. SeekingFlags'
    BY <1>1 DEF SeekingInv, SeekingFlags, K!Disconnect
  <2>3. SeekingPlaces'
    BY <1>1 DEF SeekingInv, SeekingPlaces, K!Callers, K!Nobody, K!Disconnect
  <2>4. SeekingOrder'
    BY <1>1 DEF SeekingInv, SeekingNumbers, SeekingPlaces, SeekingOrder, SeekSettled, PositionFits, SourceFits, K!Disconnect
  <2> QED BY <2>1, <2>2, <2>3, <2>4 DEF SeekingInv
<1>2. CASE K!SetPositions
  <2>1. SeekingNumbers'
    BY <1>2 DEF SeekingInv, SeekingNumbers, K!SeekingAssumption, K!SetPositions
  <2>2. SeekingFlags'
    BY <1>2 DEF SeekingInv, SeekingFlags, K!SetPositions
  <2>3. SeekingPlaces'
    BY <1>2 DEF SeekingInv, SeekingPlaces, K!Callers, K!Nobody, K!SetPositions
  <2>4. SeekingOrder'
    BY <1>2 DEF SeekingInv, SeekingNumbers, SeekingPlaces, SeekingOrder, SeekSettled, PositionFits, SourceFits, K!SetPositions
  <2> QED BY <2>1, <2>2, <2>3, <2>4 DEF SeekingInv
<1>3. CASE K!Assign
  <2>1. SeekingNumbers'
    BY <1>3 DEF SeekingInv, SeekingNumbers, K!SeekingAssumption, K!Assign
  <2>2. SeekingFlags'
    BY <1>3 DEF SeekingInv, SeekingFlags, K!Assign
  <2>3. SeekingPlaces'
    BY <1>3 DEF SeekingInv, SeekingPlaces, K!Callers, K!Nobody, K!Assign
  <2>4. SeekingOrder'
    BY <1>3 DEF SeekingInv, SeekingNumbers, SeekingPlaces, SeekingOrder, SeekSettled, PositionFits, SourceFits, K!Assign
  <2> QED BY <2>1, <2>2, <2>3, <2>4 DEF SeekingInv
<1>4. CASE K!Change
  <2>1. SeekingNumbers'
    BY <1>4 DEF SeekingInv, SeekingNumbers, K!SeekingAssumption, K!Change
  <2>2. SeekingFlags'
    BY <1>4 DEF SeekingInv, SeekingFlags, K!Change
  <2>3. SeekingPlaces'
    BY <1>4 DEF SeekingInv, SeekingPlaces, K!Callers, K!Nobody, K!Change
  <2>4. SeekingOrder'
    BY <1>4 DEF SeekingInv, SeekingNumbers, SeekingPlaces, SeekingOrder, SeekSettled, PositionFits, SourceFits, K!Change
  <2> QED BY <2>1, <2>2, <2>3, <2>4 DEF SeekingInv
<1>5. CASE K!BeginFlush
  <2>1. SeekingNumbers'
    BY <1>5 DEF SeekingInv, SeekingNumbers, K!SeekingAssumption, K!BeginFlush
  <2>2. SeekingFlags'
    BY <1>5 DEF SeekingInv, SeekingFlags, K!BeginFlush
  <2>3. SeekingPlaces'
    BY <1>5 DEF SeekingInv, SeekingPlaces, K!Callers, K!Nobody, K!BeginFlush
  <2>4. SeekingOrder'
    BY <1>5 DEF SeekingInv, SeekingNumbers, SeekingPlaces, SeekingOrder, SeekSettled, PositionFits, SourceFits, K!BeginFlush
  <2> QED BY <2>1, <2>2, <2>3, <2>4 DEF SeekingInv
<1>6. CASE K!ResetEndOfStream
  <2>1. SeekingNumbers'
    BY <1>6 DEF SeekingInv, SeekingNumbers, K!SeekingAssumption, K!ResetEndOfStream
  <2>2. SeekingFlags'
    BY <1>6 DEF SeekingInv, SeekingFlags, K!ResetEndOfStream
  <2>3. SeekingPlaces'
    BY <1>6 DEF SeekingInv, SeekingPlaces, K!Callers, K!Nobody, K!ResetEndOfStream
  <2>4. SeekingOrder'
    BY <1>6 DEF SeekingInv, SeekingNumbers, SeekingPlaces, SeekingOrder, SeekSettled, PositionFits, SourceFits, K!ResetEndOfStream
  <2> QED BY <2>1, <2>2, <2>3, <2>4 DEF SeekingInv
<1>7. CASE K!StopStream
  <2>1. SeekingNumbers'
    BY <1>7 DEF SeekingInv, SeekingNumbers, K!SeekingAssumption, K!StopStream
  <2>2. SeekingFlags'
    BY <1>7 DEF SeekingInv, SeekingFlags, K!StopStream
  <2>3. SeekingPlaces'
    BY <1>7 DEF SeekingInv, SeekingPlaces, K!Callers, K!Nobody, K!StopStream
  <2>4. SeekingOrder'
    BY <1>7 DEF SeekingInv, SeekingNumbers, SeekingPlaces, SeekingOrder, SeekSettled, PositionFits, SourceFits, K!StopStream
  <2> QED BY <2>1, <2>2, <2>3, <2>4 DEF SeekingInv
<1>8. CASE K!EndFlush
  <2>1. SeekingNumbers'
    <3>1. m_StartMedia' = 0 /\ UNCHANGED <<m_rtStart, m_rtStop, from, segment, seeks>>
      BY <1>8 DEF K!EndFlush
    <3>2. 0 \in 0..Length
      BY DEF K!SeekingAssumption
    <3> QED BY <3>1, <3>2 DEF SeekingInv, SeekingNumbers
  <2>2. SeekingFlags'
    BY <1>8 DEF SeekingInv, SeekingFlags, K!EndFlush
  <2>3. SeekingPlaces'
    BY <1>8 DEF SeekingInv, SeekingPlaces, K!Callers, K!Nobody, K!EndFlush
  <2>4. SeekingOrder'
    BY <1>8 DEF SeekingInv, SeekingNumbers, SeekingPlaces, SeekingOrder, SeekSettled, PositionFits, SourceFits, K!EndFlush
  <2> QED BY <2>1, <2>2, <2>3, <2>4 DEF SeekingInv
<1>9. CASE K!RunStream
  <2>1. SeekingNumbers'
    BY <1>9 DEF SeekingInv, SeekingNumbers, K!SeekingAssumption, K!RunStream
  <2>2. SeekingFlags'
    BY <1>9 DEF SeekingInv, SeekingFlags, K!RunStream
  <2>3. SeekingPlaces'
    BY <1>9 DEF SeekingInv, SeekingPlaces, K!Callers, K!Nobody, K!RunStream
  <2>4. SeekingOrder'
    BY <1>9 DEF SeekingInv, SeekingNumbers, SeekingPlaces, SeekingOrder, SeekSettled, PositionFits, SourceFits, K!RunStream
  <2> QED BY <2>1, <2>2, <2>3, <2>4 DEF SeekingInv
<1>10. CASE K!Return
  <2>1. SeekingNumbers'
    BY <1>10 DEF SeekingInv, SeekingNumbers, K!SeekingAssumption, K!Return
  <2>2. SeekingFlags'
    BY <1>10 DEF SeekingInv, SeekingFlags, K!Return
  <2>3. SeekingPlaces'
    BY <1>10 DEF SeekingInv, SeekingPlaces, K!Callers, K!Nobody, K!Return
  <2>4. SeekingOrder'
    BY <1>10 DEF SeekingInv, SeekingNumbers, SeekingPlaces, SeekingOrder, SeekSettled, PositionFits, SourceFits, K!Return
  <2> QED BY <2>1, <2>2, <2>3, <2>4 DEF SeekingInv
<1>11. CASE K!Receive
  <2>1. SeekingNumbers'
    BY <1>11 DEF SeekingInv, SeekingNumbers, K!SeekingAssumption, K!Receive
  <2>2. SeekingFlags'
    BY <1>11 DEF SeekingInv, SeekingFlags, K!Receive
  <2>3. SeekingPlaces'
    BY <1>11 DEF SeekingInv, SeekingPlaces, K!Callers, K!Nobody, K!Receive
  <2>4. SeekingOrder'
    <3>1. /\ stream = "fill" /\ from < m_rtStop /\ from' = from + 1
          /\ UNCHANGED <<m_rtStart, m_rtStop, segment, seek, changes, refused>>
          /\ \/ UNCHANGED <<m_StartMedia, m_bReset>> /\ stream' = "done"
             \/ m_StartMedia' = from - segment /\ m_bReset' = FALSE /\ stream' = stream
      BY <1>11 DEF K!Receive
    <3>2. m_rtStart \in Int /\ m_rtStop \in Int /\ from \in Int /\ segment \in Int /\ segment <= from
      BY DEF SeekingInv, SeekingNumbers
    <3>3. SeekSettled' <=> SeekSettled
      BY Zenon, <3>1 DEF SeekSettled
    <3>4. SeekingOrder
      BY DEF SeekingInv
    <3>5. (seek = "end flush" => stream' = "stopped") /\ (seek = "run" => stream' = "stopped" /\ m_bReset')
      BY <3>1, <3>4 DEF SeekingOrder
    <3>6. ASSUME ~refused, SeekSettled PROVE PositionFits' /\ SourceFits'
      <4>1. PositionFits /\ segment = m_rtStart
        BY <3>1, <3>4, <3>6 DEF SeekingOrder, SourceFits
      <4> QED BY <3>1, <3>2, <4>1 DEF PositionFits, SourceFits
    <3>7. seek' = seek /\ refused' = refused
      BY <3>1
    <3> QED BY Zenon, <3>3, <3>5, <3>6, <3>7 DEF SeekingOrder
  <2> QED BY <2>1, <2>2, <2>3, <2>4 DEF SeekingInv
<1>12. CASE K!EndOfStream
  <2>1. SeekingNumbers'
    BY <1>12 DEF SeekingInv, SeekingNumbers, K!SeekingAssumption, K!EndOfStream
  <2>2. SeekingFlags'
    BY <1>12 DEF SeekingInv, SeekingFlags, K!EndOfStream
  <2>3. SeekingPlaces'
    BY <1>12 DEF SeekingInv, SeekingPlaces, K!Callers, K!Nobody, K!EndOfStream
  <2>4. SeekingOrder'
    BY <1>12 DEF SeekingInv, SeekingNumbers, SeekingPlaces, SeekingOrder, SeekSettled, PositionFits, SourceFits, K!EndOfStream
  <2> QED BY <2>1, <2>2, <2>3, <2>4 DEF SeekingInv
<1>13. CASE K!EndOfStreamTimer
  <2>1. SeekingNumbers'
    BY <1>13 DEF SeekingInv, SeekingNumbers, K!SeekingAssumption, K!EndOfStreamTimer
  <2>2. SeekingFlags'
    BY <1>13 DEF SeekingInv, SeekingFlags, K!EndOfStreamTimer
  <2>3. SeekingPlaces'
    BY <1>13 DEF SeekingInv, SeekingPlaces, K!Callers, K!Nobody, K!EndOfStreamTimer
  <2>4. SeekingOrder'
    BY <1>13 DEF SeekingInv, SeekingNumbers, SeekingPlaces, SeekingOrder, SeekSettled, PositionFits, SourceFits, K!EndOfStreamTimer
  <2> QED BY <2>1, <2>2, <2>3, <2>4 DEF SeekingInv
<1>14. ASSUME NEW who \in {"stream", "timer"}, K!EOS(who) PROVE SeekingInv'
  <2>1. SeekingNumbers'
    BY <1>14 DEF SeekingInv, SeekingNumbers, K!SeekingAssumption, K!EOS, K!At, K!Go
  <2>2. SeekingFlags'
    BY <1>14 DEF SeekingInv, SeekingFlags, K!EOS, K!At, K!Go
  <2>3. SeekingPlaces'
    BY <1>14 DEF SeekingInv, SeekingPlaces, K!Callers, K!Nobody, K!EOS, K!At, K!Go
  <2>4. SeekingOrder'
    BY <1>14 DEF SeekingInv, SeekingNumbers, SeekingPlaces, SeekingOrder, SeekSettled, PositionFits, SourceFits, K!EOS, K!At, K!Go
  <2> QED BY <2>1, <2>2, <2>3, <2>4 DEF SeekingInv
<1>15. ASSUME NEW who \in {"stream", "timer"}, K!GetStopPosition(who) PROVE SeekingInv'
  <2>1. SeekingNumbers'
    BY <1>15 DEF SeekingInv, SeekingNumbers, K!SeekingAssumption, K!GetStopPosition, K!At, K!Go
  <2>2. SeekingFlags'
    BY <1>15 DEF SeekingInv, SeekingFlags, K!GetStopPosition, K!At, K!Go
  <2>3. SeekingPlaces'
    BY <1>15 DEF SeekingInv, SeekingPlaces, K!Callers, K!Nobody, K!GetStopPosition, K!At, K!Go
  <2>4. SeekingOrder'
    BY <1>15 DEF SeekingInv, SeekingNumbers, SeekingPlaces, SeekingOrder, SeekSettled, PositionFits, SourceFits, K!GetStopPosition, K!At, K!Go
  <2> QED BY <2>1, <2>2, <2>3, <2>4 DEF SeekingInv
<1>16. CASE UNCHANGED seeking
  <2>1. SeekingNumbers'
    BY <1>16 DEF SeekingInv, SeekingNumbers, K!SeekingAssumption, seeking
  <2>2. SeekingFlags'
    BY <1>16 DEF SeekingInv, SeekingFlags, seeking
  <2>3. SeekingPlaces'
    BY <1>16 DEF SeekingInv, SeekingPlaces, K!Callers, K!Nobody, seeking
  <2>4. SeekingOrder'
    BY <1>16 DEF SeekingInv, SeekingNumbers, SeekingPlaces, SeekingOrder, SeekSettled, PositionFits, SourceFits, seeking
  <2> QED BY <2>1, <2>2, <2>3, <2>4 DEF SeekingInv
<1> QED BY <1>1, <1>2, <1>3, <1>4, <1>5, <1>6, <1>7, <1>8, <1>9, <1>10, <1>11, <1>12, <1>13, <1>14, <1>15, <1>16 DEF K!Next, K!Seek, K!Notify

\* It says that the variables have values of their kinds and that the renderer tells a
\* position of the range that was asked for.
LEMMA SeekingFits ==
  ASSUME K!SeekingAssumption, SeekingInv PROVE K!SeekingTypeOK /\ K!PositionIsCurrent
<1>1. segment \in 0..Length
  BY DEF SeekingInv, SeekingNumbers, K!SeekingAssumption
<1>2. K!SeekingTypeOK
  BY <1>1 DEF SeekingInv, SeekingNumbers, SeekingFlags, SeekingPlaces, K!SeekingTypeOK
<1>3. K!PositionIsCurrent
  BY DEF SeekingInv, SeekingOrder, K!PositionIsCurrent, SeekSettled, PositionFits
<1> QED BY <1>2, <1>3

(***************************************************************************)
(* The registration: sequences of changes                                  *)
(***************************************************************************)

\* FlattenSeq is the same under the name it has in the instance.
LEMMA SameFlatten == \A s : R!FlattenSeq(s) = FlattenSeq(s)
  BY Zenon DEF R!FlattenSeq, FlattenSeq

Has(s, x) == \E i \in 1..Len(s) : s[i] = x
Before(s, x, y) == \A i \in 1..Len(s) : s[i] = y => \E j \in 1..(i - 1) : s[j] = x
After(s, x, y) == \A i \in 1..Len(s) : s[i] = x => \E j \in (i + 1)..Len(s) : s[j] = y

\* What two sequences after each other contain, and in which order.
LEMMA CatHas ==
  ASSUME NEW A, NEW s \in Seq(A), NEW t \in Seq(A)
  PROVE  /\ s \o t \in Seq(A)
         /\ \A x : Has(s \o t, x) <=> Has(s, x) \/ Has(t, x)
         /\ \A x, y : Before(s, x, y) /\ (Has(s, x) \/ Before(t, x, y)) => Before(s \o t, x, y)
         /\ \A x, y : After(t, x, y) /\ (Has(t, y) \/ After(s, x, y)) => After(s \o t, x, y)
<1>1. PICK u : u = s \o t
  OBVIOUS
<1>2. /\ Len(s) \in Nat /\ Len(t) \in Nat /\ u \in Seq(A) /\ Len(u) = Len(s) + Len(t)
      /\ \A i \in 1..Len(s) : u[i] = s[i]
      /\ \A i \in 1..Len(t) : u[Len(s) + i] = t[i]
  BY <1>1
<1>3. PICK m, n : m = Len(s) /\ n = Len(t)
  OBVIOUS
<1>4. /\ m \in Nat /\ n \in Nat /\ Len(u) = m + n
      /\ \A i \in 1..m : u[i] = s[i]
      /\ \A i \in 1..n : u[m + i] = t[i]
  BY <1>2, <1>3
<1>5. \A i \in 1..(m + n) : i \in 1..m \/ (i - m \in 1..n /\ u[i] = t[i - m])
  <2> TAKE i \in 1..(m + n)
  <2>1. CASE i <= m
    BY <1>4, <2>1
  <2>2. CASE ~(i <= m)
    <3>1. i - m \in 1..n /\ m + (i - m) = i
      BY <1>4, <2>2
    <3> QED BY <1>4, <3>1
  <2> QED BY <2>1, <2>2
<1>6. /\ \A i \in 1..m : i \in 1..(m + n)
      /\ \A i \in 1..n : m + i \in 1..(m + n)
  BY <1>4
<1>7. \A x : Has(u, x) <=> Has(s, x) \/ Has(t, x)
  BY <1>3, <1>4, <1>5, <1>6 DEF Has
<1>8. ASSUME NEW x, NEW y, Before(s, x, y), Has(s, x) \/ Before(t, x, y) PROVE Before(u, x, y)
  <2> SUFFICES ASSUME NEW i \in 1..(m + n), u[i] = y PROVE \E j \in 1..(i - 1) : u[j] = x
    BY <1>4 DEF Before
  <2>1. CASE i \in 1..m
    <3>1. PICK j \in 1..(i - 1) : s[j] = x
      BY <1>3, <1>4, <1>8, <2>1 DEF Before
    <3> QED BY <1>4, <2>1, <3>1
  <2>2. CASE i \notin 1..m
    <3>1. i - m \in 1..n /\ t[i - m] = y /\ i > m
      BY <1>4, <1>5, <2>2
    <3>2. CASE Has(s, x)
      <4>1. PICK j \in 1..m : s[j] = x
        BY <1>3, <3>2 DEF Has
      <4>2. j \in 1..(i - 1)
        BY <1>4, <3>1, <4>1
      <4> QED BY <1>4, <4>1, <4>2
    <3>3. CASE Before(t, x, y)
      <4>1. PICK j \in 1..((i - m) - 1) : t[j] = x
        BY <1>3, <3>1, <3>3 DEF Before
      <4>2. j \in 1..n /\ m + j \in 1..(i - 1)
        BY <1>4, <3>1, <4>1
      <4> QED BY <1>4, <4>1, <4>2
    <3> QED BY <1>8, <3>2, <3>3
  <2> QED BY <2>1, <2>2
<1>9. ASSUME NEW x, NEW y, After(t, x, y), Has(t, y) \/ After(s, x, y) PROVE After(u, x, y)
  <2> SUFFICES ASSUME NEW i \in 1..(m + n), u[i] = x PROVE \E j \in (i + 1)..(m + n) : u[j] = y
    BY <1>4 DEF After
  <2>1. CASE i \notin 1..m
    <3>1. i - m \in 1..n /\ t[i - m] = x
      BY <1>5, <2>1
    <3>2. PICK j \in ((i - m) + 1)..n : t[j] = y
      BY <1>3, <1>9, <3>1 DEF After
    <3>3. j \in 1..n /\ m + j \in (i + 1)..(m + n)
      BY <1>4, <3>1, <3>2
    <3> QED BY <1>4, <3>2, <3>3
  <2>2. CASE i \in 1..m
    <3>1. CASE Has(t, y)
      <4>1. PICK j \in 1..n : t[j] = y
        BY <1>3, <3>1 DEF Has
      <4>2. m + j \in (i + 1)..(m + n)
        BY <1>4, <2>2, <4>1
      <4> QED BY <1>4, <4>1, <4>2
    <3>2. CASE After(s, x, y)
      <4>1. PICK j \in (i + 1)..m : s[j] = y
        BY <1>3, <1>4, <2>2, <3>2 DEF After
      <4>2. j \in 1..m /\ j \in (i + 1)..(m + n)
        BY <1>4, <2>2, <4>1
      <4> QED BY <1>4, <4>1, <4>2
    <3> QED BY <1>9, <3>1, <3>2
  <2> QED BY <2>1, <2>2
<1> QED BY <1>1, <1>2, <1>7, <1>8, <1>9

\* What is in one of the pieces is in the whole, and what comes before something in
\* each of them in which that is comes before it in the whole.
Flat(A, s) ==
  /\ FlattenSeq(s) \in Seq(A)
  /\ \A x : Has(FlattenSeq(s), x) <=> \E k \in 1..Len(s) : Has(s[k], x)
  /\ \A x, y : (\A k \in 1..Len(s) : Before(s[k], x, y)) => Before(FlattenSeq(s), x, y)
  /\ \A x, y : (\A k \in 1..Len(s) : After(s[k], x, y)) => After(FlattenSeq(s), x, y)

\* So it is for any number of pieces.
LEMMA AllFlat == ASSUME NEW A, NEW s \in Seq(Seq(A)) PROVE Flat(A, s)
<1> DEFINE T == {r \in Seq(Seq(A)) : Flat(A, r)}
<1>1. <<>> \in T
  <2>1. FlattenSeq(<<>>) = <<>>
    <3>1. Len(<<>>) = 0
      OBVIOUS
    <3>2. PICK f : FlattenSeq(<<>>) = IF Len(<<>>) = 0 THEN <<>> ELSE f[Len(<<>>)]
      BY <3>1, FlattenSeqIs
    <3> QED BY <3>1, <3>2
  <2>2. <<>> \in Seq(A) /\ <<>> \in Seq(Seq(A)) /\ Len(<<>>) = 0
    OBVIOUS
  <2>3. \A x, y : ~Has(<<>>, x) /\ Before(<<>>, x, y) /\ After(<<>>, x, y)
    BY DEF Has, Before, After
  <2>4. \A x : ~\E k \in 1..Len(<<>>) : Has((<<>>)[k], x)
    BY <2>2
  <2>5. Flat(A, <<>>)
    BY Zenon, <2>1, <2>2, <2>3, <2>4 DEF Flat
  <2> QED BY <2>2, <2>5
<1>2. ASSUME NEW r \in T, NEW p \in Seq(A) PROVE Append(r, p) \in T
  <2>1. r \in Seq(Seq(A)) /\ Flat(A, r)
    BY <1>2
  <2>2. PICK q : q = Append(r, p)
    OBVIOUS
  <2>3. PICK n : n = Len(r)
    OBVIOUS
  <2>4. /\ q \in Seq(Seq(A)) /\ n \in Nat /\ Len(q) = n + 1 /\ q[n + 1] = p
        /\ \A k \in 1..n : q[k] = r[k]
    BY <2>1, <2>2, <2>3
  <2>5. PICK f, g : f = FlattenSeq(r) /\ g = FlattenSeq(q)
    OBVIOUS
  <2>6. f \in Seq(A) /\ g = f \o p
    BY <2>1, <2>2, <2>5, FlattenAppend DEF Flat
  <2>7. /\ g \in Seq(A)
        /\ \A x : Has(g, x) <=> Has(f, x) \/ Has(p, x)
        /\ \A x, y : Before(f, x, y) /\ (Has(f, x) \/ Before(p, x, y)) => Before(g, x, y)
        /\ \A x, y : After(p, x, y) /\ (Has(p, y) \/ After(f, x, y)) => After(g, x, y)
    BY <2>6, CatHas
  <2>8. \A k \in 1..(n + 1) : k \in 1..n \/ k = n + 1
    BY <2>4
  <2>9. n + 1 \in 1..(n + 1) /\ \A k \in 1..n : k \in 1..(n + 1)
    BY <2>4
  <2>10. /\ \A x : Has(f, x) <=> \E k \in 1..n : Has(r[k], x)
         /\ \A x, y : (\A k \in 1..n : Before(r[k], x, y)) => Before(f, x, y)
         /\ \A x, y : (\A k \in 1..n : After(r[k], x, y)) => After(f, x, y)
    BY Zenon, <2>1, <2>3, <2>5 DEF Flat
  <2>11. \A x : Has(g, x) <=> \E k \in 1..(n + 1) : Has(q[k], x)
    BY Zenon, <2>4, <2>7, <2>8, <2>9, <2>10
  <2>12. \A x, y : (\A k \in 1..(n + 1) : Before(q[k], x, y)) => Before(g, x, y)
    BY Zenon, <2>4, <2>7, <2>8, <2>9, <2>10
  <2>13. \A x, y : (\A k \in 1..(n + 1) : After(q[k], x, y)) => After(g, x, y)
    BY Zenon, <2>4, <2>7, <2>8, <2>9, <2>10
  <2>14. Flat(A, q)
    BY Zenon, <2>4, <2>5, <2>7, <2>11, <2>12, <2>13 DEF Flat
  <2> QED BY <2>2, <2>4, <2>14
<1>3. T \in SUBSET Seq(Seq(A))
  OBVIOUS
<1> HIDE DEF T
<1>4. T = Seq(Seq(A))
  BY <1>1, <1>2, <1>3, SequenceInduction
<1> QED BY <1>4 DEF T

\* What the first element and the others contain, and in which order.
LEMMA HeadHas ==
  ASSUME NEW A, NEW s \in Seq(A), s # <<>>
  PROVE  /\ Head(s) \in A /\ Tail(s) \in Seq(A)
         /\ \A x : Has(s, x) <=> Head(s) = x \/ Has(Tail(s), x)
         /\ \A x, y : Before(s, x, y) => Head(s) # y /\ (Head(s) # x => Before(Tail(s), x, y))
         /\ \A x, y : After(s, x, y) => After(Tail(s), x, y) /\ (Head(s) = x => Has(Tail(s), y))
<1>1. PICK h, t : h = Head(s) /\ t = Tail(s)
  OBVIOUS
<1>2. /\ h \in A /\ t \in Seq(A) /\ Len(s) \in Nat /\ Len(s) > 0 /\ Len(t) = Len(s) - 1
      /\ s[1] = h /\ \A i \in 1..Len(t) : t[i] = s[i + 1]
  BY <1>1
<1>3. PICK n : n = Len(t)
  OBVIOUS
<1>4. /\ n \in Nat /\ Len(s) = n + 1 /\ s[1] = h /\ \A i \in 1..n : t[i] = s[i + 1]
  BY <1>2, <1>3
<1>5. \A i \in 1..(n + 1) : i = 1 \/ (i - 1 \in 1..n /\ s[i] = t[i - 1])
  <2> TAKE i \in 1..(n + 1)
  <2>1. i = 1 \/ (i - 1 \in 1..n /\ (i - 1) + 1 = i)
    BY <1>4
  <2> QED BY <1>4, <2>1
<1>6. \A x : Has(s, x) <=> h = x \/ Has(t, x)
  <2>1. 1 \in 1..(n + 1) /\ \A i \in 1..n : i + 1 \in 1..(n + 1)
    BY <1>4
  <2> QED BY <1>3, <1>4, <1>5, <2>1 DEF Has
<1>7. ASSUME NEW x, NEW y, Before(s, x, y) PROVE h # y /\ (h # x => Before(t, x, y))
  <2>1. \A i \in 1..(n + 1) : s[i] = y => \E j \in 1..(i - 1) : s[j] = x
    BY <1>4, <1>7 DEF Before
  <2>2. h # y
    BY <1>4, <2>1
  <2>3. ASSUME h # x PROVE Before(t, x, y)
    <3> SUFFICES ASSUME NEW i \in 1..n, t[i] = y PROVE \E j \in 1..(i - 1) : t[j] = x
      BY <1>3 DEF Before
    <3>1. PICK j \in 1..i : s[j] = x
      BY <1>4, <2>1
    <3>2. j # 1
      BY <1>4, <2>3, <3>1
    <3>3. j - 1 \in 1..(i - 1) /\ j \in 1..(n + 1)
      BY <1>4, <3>1, <3>2
    <3> QED BY <1>5, <3>1, <3>2, <3>3
  <2> QED BY <2>2, <2>3
<1>8. ASSUME NEW x, NEW y, After(s, x, y) PROVE After(t, x, y) /\ (h = x => Has(t, y))
  <2>1. \A i \in 1..(n + 1) : s[i] = x => \E j \in (i + 1)..(n + 1) : s[j] = y
    BY <1>4, <1>8 DEF After
  <2>2. ASSUME h = x PROVE Has(t, y)
    <3>1. PICK j \in 2..(n + 1) : s[j] = y
      BY <1>4, <2>1, <2>2
    <3>2. j - 1 \in 1..n /\ t[j - 1] = y
      BY <1>4, <1>5, <3>1
    <3> QED BY <1>3, <3>2 DEF Has
  <2>3. After(t, x, y)
    <3> SUFFICES ASSUME NEW i \in 1..n, t[i] = x PROVE \E j \in (i + 1)..n : t[j] = y
      BY <1>3 DEF After
    <3>1. PICK j \in (i + 2)..(n + 1) : s[j] = y
      BY <1>4, <2>1
    <3>2. j - 1 \in (i + 1)..n /\ j \in 1..(n + 1) /\ j # 1
      BY <1>4, <3>1
    <3> QED BY <1>5, <3>1, <3>2
  <2> QED BY <2>2, <2>3
<1> QED BY <1>1, <1>2, <1>6, <1>7, <1>8

(***************************************************************************)
(* The registration: what is left of a call                                *)
(***************************************************************************)

\* The keys and values, and the changes that a call may have to make.
PartSet == {"key", "name", "InprocServer32", "file", "ThreadingModel"}
Change(op, t) == [op |-> op, template |-> t]
RegisterSteps ==
  [op : PartSet, template : R!Templates] \cup [op : {"clear filter", "filter"}, template : SetupFilters]
    \cup [op : {"mapper"}, template : {0}]
UnregisterSteps ==
  [op : {"no InprocServer32", "no key"}, template : R!Templates]
    \cup [op : {"no filter"}, template : SetupFilters] \cup [op : {"mapper"}, template : {0}]

Registers == lastCall \in {"Register2", "Register"}
Unregisters == lastCall \in {"Unregister2", "Unregister"}

SetupTyped ==
  /\ keys \in [R!Templates -> SUBSET PartSet] /\ filter \subseteq SetupFilters
  /\ denied \in SUBSET R!Rights /\ failed \in BOOLEAN
  /\ lastCall \in {"none", "Register2", "Unregister2", "Register", "Unregister"}

\* What is left of a call.
StepsTyped ==
  /\ Registers => steps \in Seq(RegisterSteps)
  /\ Unregisters => steps \in Seq(UnregisterSteps)
  /\ lastCall = "none" => steps = <<>>

\* A filter is registered after its server, and is no longer when that goes.
ServerFirst ==
  /\ \A t \in filter : \A pt \in PartSet : pt \in keys[t]
  /\ Registers => \A t \in SetupFilters, pt \in PartSet :
       pt \in keys[t] \/ Before(steps, Change(pt, t), Change("filter", t))
  /\ Unregisters => \A t \in filter, op \in {"no InprocServer32", "no key"} :
       Before(steps, Change("no filter", t), Change(op, t))

\* What is still missing is in what is left of the call, and what is cleared
\* before it is registered is registered after that.
NothingMissing ==
  /\ Registers =>
       /\ \A t \in R!Templates, pt \in PartSet : pt \in keys[t] \/ Has(steps, Change(pt, t))
       /\ \A t \in SetupFilters : t \in filter \/ Has(steps, Change("filter", t))
       /\ \A t \in SetupFilters : After(steps, Change("clear filter", t), Change("filter", t))
  /\ Unregisters =>
       /\ \A t \in filter : Has(steps, Change("no filter", t))
       /\ denied = {} => \A t \in R!Templates : keys[t] = {} \/ Has(steps, Change("no key", t))

SetupInv == SetupTyped /\ StepsTyped /\ ServerFirst /\ NothingMissing

\* The parts of a server are the keys and values that RegisterServer makes, five of
\* them.
LEMMA PartsAre == /\ R!Range(R!Parts) = PartSet
                  /\ \A k \in 1..5 : R!Parts[k] \in PartSet
                  /\ \A pt \in PartSet : \E k \in 1..5 : R!Parts[k] = pt
                  /\ DOMAIN R!Parts = 1..5
<1>1. DOMAIN R!Parts = 1..5
  BY DEF R!Parts
<1>2. \A k \in 1..5 : R!Parts[k] \in PartSet
  BY DEF R!Parts, PartSet
<1>3. /\ R!Parts[1] = "key" /\ R!Parts[2] = "name" /\ R!Parts[3] = "InprocServer32"
      /\ R!Parts[4] = "file" /\ R!Parts[5] = "ThreadingModel"
  BY DEF R!Parts
<1>4. \A pt \in PartSet : \E k \in 1..5 : R!Parts[k] = pt
  BY <1>3 DEF PartSet
<1>5. R!Range(R!Parts) = {R!Parts[k] : k \in 1..5}
  BY Zenon, <1>1 DEF R!Range
<1> QED BY <1>1, <1>2, <1>4, <1>5

\* The invariant of the registration says that the variables have values of their
\* kinds, ...
LEMMA SetupTypes ==
  ASSUME R!RegistrationAssumption, SetupInv PROVE R!RegistrationTypeOK
<1> DEFINE AnyStep == [op : R!Changes, template : R!Templates \cup {0}]
<1>1. keys \in [R!Templates -> SUBSET R!Range(R!Parts)]
  BY Zenon, PartsAre DEF SetupInv, SetupTyped
<1>2. SetupFilters \subseteq R!Templates
  BY DEF R!RegistrationAssumption, R!Templates
<1>3. R!Changes = PartSet \cup {"clear filter", "filter", "no filter", "no InprocServer32", "no key", "mapper"}
  BY Zenon, PartsAre DEF R!Changes
<1>4. RegisterSteps \subseteq AnyStep /\ UnregisterSteps \subseteq AnyStep
  BY <1>2, <1>3 DEF RegisterSteps, UnregisterSteps
<1> HIDE DEF AnyStep
<1>5. steps \in Seq(AnyStep)
  <2>1. <<>> \in Seq(AnyStep)
    OBVIOUS
  <2> QED BY <1>4, <2>1, SeqMonotonic DEF SetupInv, SetupTyped, StepsTyped, Registers, Unregisters
<1>6. filter \subseteq SetupFilters /\ failed \in BOOLEAN /\ denied \in SUBSET R!Rights
      /\ lastCall \in {"none", "Register2", "Unregister2", "Register", "Unregister"}
  BY DEF SetupInv, SetupTyped
<1> QED BY Zenon, <1>1, <1>5, <1>6 DEF R!RegistrationTypeOK, AnyStep

\* ... that a filter has its server and that a call that succeeds is whole.
LEMMA SetupWhole ==
  ASSUME R!RegistrationAssumption, SetupInv
  PROVE  R!FilterHasServer /\ R!SuccessIsWhole
<1>1. \A t \in R!Templates : keys[t] \subseteq PartSet
  BY DEF SetupInv, SetupTyped
<1>2. \A t \in filter : t \in R!Templates
  BY DEF SetupInv, SetupTyped, R!RegistrationAssumption, R!Templates
<1>3. R!FilterHasServer
  <2>1. \A t \in filter : keys[t] = PartSet
    BY <1>1, <1>2 DEF SetupInv, ServerFirst
  <2> QED BY Zenon, <2>1, PartsAre DEF R!FilterHasServer
<1>4. ASSUME steps = <<>> PROVE \A x : ~Has(steps, x)
  BY <1>4 DEF Has
<1>5. ASSUME steps = <<>>, Registers
      PROVE  filter = SetupFilters /\ \A t \in R!Templates : keys[t] = PartSet
  BY <1>1, <1>4, <1>5 DEF SetupInv, SetupTyped, NothingMissing
<1>6. ASSUME steps = <<>>, Unregisters
      PROVE  filter = {} /\ (denied = {} => \A t \in R!Templates : keys[t] = {})
  BY <1>4, <1>6 DEF SetupInv, NothingMissing
<1>7. R!SuccessIsWhole
  BY Zenon, <1>5, <1>6, PartsAre DEF R!SuccessIsWhole, Registers, Unregisters
<1> QED BY <1>3, <1>7

(***************************************************************************)
(* The registration: what each call has to do                              *)
(***************************************************************************)

\* Of what is not there nothing comes before or after.
LEMMA HasNone ==
  ASSUME NEW s, NEW x, NEW y
  PROVE  /\ ~Has(s, y) => Before(s, x, y)
         /\ ~Has(s, x) => After(s, x, y)
  BY DEF Has, Before, After

\* What a sequence of one contains.
LEMMA OneStep == ASSUME NEW x PROVE \A y : Has(<<x>>, y) <=> y = x
  BY DEF Has

\* The changes that register the server of t, ...
LEMMA ServerPiece ==
  ASSUME NEW t \in R!Templates
  PROVE  /\ R!RegisterServer(t) \in Seq(RegisterSteps)
         /\ \A u : \A pt \in PartSet : Has(R!RegisterServer(t), Change(pt, u)) <=> u = t
         /\ \A u : \A op : op \notin PartSet => ~Has(R!RegisterServer(t), Change(op, u))
<1>1. PICK s : s = R!RegisterServer(t)
  OBVIOUS
<1>2. s = [k \in 1..5 |-> Change(R!Parts[k], t)]
  BY Zenon, <1>1, PartsAre DEF R!RegisterServer, R!Step, Change
<1>3. \A k \in 1..5 : Change(R!Parts[k], t) \in RegisterSteps
  BY PartsAre DEF RegisterSteps, Change
<1>4. s \in Seq(RegisterSteps) /\ Len(s) = 5 /\ \A k \in 1..5 : s[k] = Change(R!Parts[k], t)
  BY <1>2, <1>3
<1>5. \A op, ot, u, v : Change(op, u) = Change(ot, v) <=> op = ot /\ u = v
  BY DEF Change
<1> QED BY <1>1, <1>4, <1>5, PartsAre DEF Has

\* ... those that register its filter, ...
LEMMA FilterPiece ==
  ASSUME NEW t
  PROVE  /\ R!RegisterFilter(t) \in Seq(RegisterSteps)
         /\ \A u : Has(R!RegisterFilter(t), Change("filter", u)) <=> u = t /\ t \in SetupFilters
         /\ \A u : After(R!RegisterFilter(t), Change("clear filter", u), Change("filter", u))
<1>1. CASE t \in SetupFilters
  <2>1. PICK a, b : a = Change("clear filter", t) /\ b = Change("filter", t)
    OBVIOUS
  <2>2. PICK s : s = <<a, b>>
    OBVIOUS
  <2>3. R!RegisterFilter(t) = s
    BY <1>1, <2>1, <2>2 DEF R!RegisterFilter, R!Step, Change
  <2>4. a \in RegisterSteps /\ b \in RegisterSteps
    BY <1>1, <2>1 DEF RegisterSteps, Change
  <2>5. s \in Seq(RegisterSteps) /\ Len(s) = 2 /\ s[1] = a /\ s[2] = b
    BY <2>2, <2>4
  <2>6. \A u : (Change("filter", u) = b <=> u = t) /\ Change("filter", u) # a
               /\ (Change("clear filter", u) = a <=> u = t) /\ Change("clear filter", u) # b
    BY <2>1 DEF Change
  <2>7. \A x : Has(s, x) <=> x = a \/ x = b
    BY <2>5 DEF Has
  <2>8. /\ After(s, a, b)
        /\ \A x, y : x # a /\ x # b => After(s, x, y)
    <3>1. 1..Len(s) = {1, 2} /\ 2 \in (1 + 1)..Len(s)
      BY <2>5
    <3>2. a # b
      BY <2>1 DEF Change
    <3>3. \A i \in {1, 2} : s[i] = a => i = 1
      BY <2>5, <3>2
    <3> QED BY <2>5, <3>1, <3>3 DEF After
  <2>9. \A u : Has(s, Change("filter", u)) <=> u = t
    BY Zenon, <2>6, <2>7
  <2>10. \A u : After(s, Change("clear filter", u), Change("filter", u))
    BY Zenon, <2>1, <2>6, <2>8
  <2> QED BY Zenon, <1>1, <2>3, <2>5, <2>9, <2>10
<1>2. CASE t \notin SetupFilters
  <2>1. R!RegisterFilter(t) = <<>>
    BY <1>2 DEF R!RegisterFilter
  <2>2. <<>> \in Seq(RegisterSteps) /\ \A x, y : ~Has(<<>>, x) /\ After(<<>>, x, y)
    BY DEF Has, After
  <2> QED BY Zenon, <1>2, <2>1, <2>2
<1> QED BY <1>1, <1>2

\* ... those that withdraw the filter, ...
LEMMA NoFilterPiece ==
  ASSUME NEW t
  PROVE  /\ R!UnregisterFilter(t) \in Seq(UnregisterSteps)
         /\ \A u : Has(R!UnregisterFilter(t), Change("no filter", u)) <=> u = t /\ t \in SetupFilters
         /\ \A u : \A op \in {"no InprocServer32", "no key"} : ~Has(R!UnregisterFilter(t), Change(op, u))
<1>1. CASE t \in SetupFilters
  <2>1. R!UnregisterFilter(t) = <<Change("no filter", t)>>
    BY <1>1 DEF R!UnregisterFilter, R!Step, Change
  <2>2. Change("no filter", t) \in UnregisterSteps
    BY <1>1 DEF UnregisterSteps, Change
  <2>3. PICK x : x = Change("no filter", t)
    OBVIOUS
  <2>4. <<x>> \in Seq(UnregisterSteps) /\ \A y : Has(<<x>>, y) <=> y = x
    <3>2. x \in UnregisterSteps
      BY Zenon, <2>2, <2>3
    <3> HIDE <2>1, <2>2, <2>3
    <3>1. <<x>> \in Seq(UnregisterSteps)
      BY <3>2
    <3> QED BY Zenon, <3>1, OneStep
  <2>5. \A u : Change("no filter", u) = x <=> u = t
    BY <2>3 DEF Change
  <2>6. \A u : \A op \in {"no InprocServer32", "no key"} : Change(op, u) # x
    BY <2>3 DEF Change
  <2> QED BY Zenon, <1>1, <2>1, <2>3, <2>4, <2>5, <2>6
<1>2. CASE t \notin SetupFilters
  <2>1. R!UnregisterFilter(t) = <<>>
    BY <1>2 DEF R!UnregisterFilter
  <2>2. <<>> \in Seq(UnregisterSteps) /\ \A x : ~Has(<<>>, x)
    BY DEF Has
  <2> QED BY Zenon, <1>2, <2>1, <2>2
<1> QED BY <1>1, <1>2

\* ... those that withdraw the server, ...
LEMMA NoServerPiece ==
  ASSUME NEW t \in R!Templates
  PROVE  /\ R!UnregisterServer(t) \in Seq(UnregisterSteps)
         /\ Has(R!UnregisterServer(t), Change("no key", t))
         /\ \A u : \A op \in {"no InprocServer32", "no key"} : Has(R!UnregisterServer(t), Change(op, u)) => u = t
<1>1. PICK a, b : a = Change("no InprocServer32", t) /\ b = Change("no key", t)
  OBVIOUS
<1>2. PICK s : s = <<a, b>>
  OBVIOUS
<1>3. R!UnregisterServer(t) = s
  BY <1>1, <1>2 DEF R!UnregisterServer, R!Step, Change
<1>4. a \in UnregisterSteps /\ b \in UnregisterSteps
  BY <1>1 DEF UnregisterSteps, Change
<1>5. s \in Seq(UnregisterSteps) /\ Len(s) = 2 /\ s[1] = a /\ s[2] = b
  BY <1>2, <1>4
<1>6. \A u : \A op \in {"no InprocServer32", "no key"} :
        (Change(op, u) = a => u = t) /\ (Change(op, u) = b => u = t)
  BY <1>1 DEF Change
<1>7. \A x : Has(s, x) <=> x = a \/ x = b
  BY <1>5 DEF Has
<1> QED BY Zenon, <1>1, <1>3, <1>5, <1>6, <1>7

\* ... and the making of the filter mapper, which withdraws nothing.
LEMMA MapperPiece ==
  /\ R!Mapper \in Seq(RegisterSteps) /\ R!Mapper \in Seq(UnregisterSteps)
  /\ \A op, u : op # "mapper" => ~Has(R!Mapper, Change(op, u))
<1>1. PICK x : x = Change("mapper", 0)
  OBVIOUS
<1>2. R!Mapper = <<x>>
  BY <1>1 DEF R!Mapper, R!Step, Change
<1>3. x \in RegisterSteps /\ x \in UnregisterSteps
  BY <1>1 DEF RegisterSteps, UnregisterSteps, Change
<1>4. <<x>> \in Seq(RegisterSteps) /\ <<x>> \in Seq(UnregisterSteps)
  BY <1>3
<1>5. \A op, u : op # "mapper" => Change(op, u) # x
  <2> TAKE op, u
  <2>1. Change(op, u).op = op /\ x.op = "mapper"
    BY <1>1 DEF Change
  <2> QED BY Zenon, <2>1
<1>6. \A y : Has(<<x>>, y) <=> y = x
  BY OneStep
<1>7. PICK s : s = <<x>>
  OBVIOUS
<1>8. \A y : Has(s, y) <=> y = x
  BY Zenon, <1>6, <1>7
<1>9. R!Mapper = s /\ s \in Seq(RegisterSteps) /\ s \in Seq(UnregisterSteps)
  BY Zenon, <1>2, <1>4, <1>7
<1>10. \A op, u : op # "mapper" => ~Has(s, Change(op, u))
  BY Zenon, <1>5, <1>8
<1> QED BY Zenon, <1>9, <1>10

\* What a sequence of pieces is made of.
LEMMA Pieces ==
  ASSUME NEW A, NEW f, R!RegistrationAssumption, \A t \in R!Templates : f[t] \in Seq(A),
         f = [t \in R!Templates |-> f[t]]
  PROVE  /\ R!FlattenSeq(f) \in Seq(A)
         /\ \A x : Has(R!FlattenSeq(f), x) <=> \E t \in R!Templates : Has(f[t], x)
         /\ \A x, y : (\A t \in R!Templates : Before(f[t], x, y)) => Before(R!FlattenSeq(f), x, y)
         /\ \A x, y : (\A t \in R!Templates : After(f[t], x, y)) => After(R!FlattenSeq(f), x, y)
<1>1. f \in Seq(Seq(A)) /\ 1..Len(f) = R!Templates
  BY DEF R!Templates, R!RegistrationAssumption
<1>2. Flat(A, f)
  BY <1>1, AllFlat
<1> QED BY Zenon, <1>1, <1>2, SameFlatten DEF Flat

RegisterWhole(s) ==
  /\ s \in Seq(RegisterSteps)
  /\ \A t \in SetupFilters, pt \in PartSet : Before(s, Change(pt, t), Change("filter", t))
  /\ \A t \in R!Templates, pt \in PartSet : Has(s, Change(pt, t))
  /\ \A t \in SetupFilters : Has(s, Change("filter", t))
  /\ \A t \in SetupFilters : After(s, Change("clear filter", t), Change("filter", t))

UnregisterWhole(s) ==
  /\ s \in Seq(UnregisterSteps)
  /\ \A t \in SetupFilters, op \in {"no InprocServer32", "no key"} :
       Before(s, Change("no filter", t), Change(op, t))
  /\ \A t \in SetupFilters : Has(s, Change("no filter", t))
  /\ \A t \in R!Templates : Has(s, Change("no key", t))

\* The changes of the filter mapper are not parts of a server.
LEMMA NotParts == "filter" \notin PartSet /\ "clear filter" \notin PartSet /\ "mapper" \notin PartSet
  BY DEF PartSet

\* The filters are templates of the DLL.
LEMMA FiltersAreTemplates == ASSUME R!RegistrationAssumption PROVE \A t \in SetupFilters : t \in R!Templates
  BY DEF R!RegistrationAssumption, R!Templates

\* AMovieDllRegisterServer2(TRUE) registers everything, the server of a filter first.
LEMMA Register2Whole == ASSUME R!RegistrationAssumption PROVE RegisterWhole(R!Steps("Register2"))
<1>1. PICK f : f = [t \in R!Templates |-> R!RegisterServer(t)]
  OBVIOUS
<1>2. PICK g : g = [t \in R!Templates |-> R!RegisterFilter(t)]
  OBVIOUS
<1>3. f = [t \in R!Templates |-> f[t]] /\ \A t \in R!Templates : f[t] = R!RegisterServer(t)
  BY <1>1
<1>4. g = [t \in R!Templates |-> g[t]] /\ \A t \in R!Templates : g[t] = R!RegisterFilter(t)
  BY <1>2
<1>5. PICK a, b, m : a = R!FlattenSeq(f) /\ b = R!FlattenSeq(g) /\ m = R!Mapper
  OBVIOUS
<1>6. R!Steps("Register2") = (a \o m) \o b
  <2>1. R!RegisterAllServers(TRUE) = a
    BY Zenon, <1>1, <1>5 DEF R!RegisterAllServers
  <2>2. R!AllFilters(TRUE) = b
    BY Zenon, <1>2, <1>5 DEF R!AllFilters
  <2>3. R!Steps("Register2") = (R!RegisterAllServers(TRUE) \o R!Mapper) \o R!AllFilters(TRUE)
    BY DEF R!Steps
  <2> QED BY Zenon, <1>5, <2>1, <2>2, <2>3
<1>21. ASSUME NEW t \in R!Templates
       PROVE  /\ f[t] \in Seq(RegisterSteps)
              /\ \A u : \A pt \in PartSet : Has(f[t], Change(pt, u)) <=> u = t
              /\ \A u : ~Has(f[t], Change("filter", u))
  <2>1. f[t] = R!RegisterServer(t)
    BY <1>3
  <2>2. /\ R!RegisterServer(t) \in Seq(RegisterSteps)
        /\ \A u : \A pt \in PartSet : Has(R!RegisterServer(t), Change(pt, u)) <=> u = t
        /\ \A u : ~Has(R!RegisterServer(t), Change("filter", u))
    BY Zenon, ServerPiece, NotParts
  <2> QED BY <2>1, <2>2
<1>22. ASSUME NEW t \in R!Templates
       PROVE  /\ g[t] \in Seq(RegisterSteps)
              /\ \A u : Has(g[t], Change("filter", u)) <=> u = t /\ t \in SetupFilters
              /\ \A u : After(g[t], Change("clear filter", u), Change("filter", u))
  <2>1. g[t] = R!RegisterFilter(t)
    BY <1>4
  <2>2. /\ R!RegisterFilter(t) \in Seq(RegisterSteps)
        /\ \A u : Has(R!RegisterFilter(t), Change("filter", u)) <=> u = t /\ t \in SetupFilters
        /\ \A u : After(R!RegisterFilter(t), Change("clear filter", u), Change("filter", u))
    BY Zenon, FilterPiece
  <2> QED BY <2>1, <2>2
<1>7. \A t \in R!Templates : f[t] \in Seq(RegisterSteps) /\ g[t] \in Seq(RegisterSteps)
  BY Zenon, <1>21, <1>22
<1>8. /\ a \in Seq(RegisterSteps)
      /\ \A x : Has(a, x) <=> \E t \in R!Templates : Has(f[t], x)
  BY <1>3, <1>5, <1>7, Pieces
<1>9. /\ b \in Seq(RegisterSteps)
      /\ \A x : Has(b, x) <=> \E t \in R!Templates : Has(g[t], x)
      /\ \A x, y : (\A t \in R!Templates : After(g[t], x, y)) => After(b, x, y)
  <2>1. \A t \in R!Templates : g[t] \in Seq(RegisterSteps)
    BY <1>7
  <2>2. g = [t \in R!Templates |-> g[t]]
    BY <1>4
  <2> HIDE <1>3, <1>4, <1>7
  <2> QED BY <1>5, <2>1, <2>2, Pieces
<1>10. \A t \in R!Templates, pt \in PartSet : Has(a, Change(pt, t))
  BY Zenon, <1>8, <1>21
<1>11. \A u : ~Has(a, Change("filter", u)) /\ ~Has(m, Change("filter", u))
  <2>1. "filter" # "mapper"
    OBVIOUS
  <2> QED BY Zenon, <2>1, <1>5, <1>8, <1>21, MapperPiece
<1>12. \A t \in SetupFilters : Has(b, Change("filter", t))
  BY Zenon, <1>9, <1>22, FiltersAreTemplates
<1>13. \A u : After(b, Change("clear filter", u), Change("filter", u))
  BY Zenon, <1>9, <1>22
<1>14. PICK c : c = a \o m
  OBVIOUS
<1>15. /\ c \in Seq(RegisterSteps)
       /\ \A x : Has(c, x) <=> Has(a, x) \/ Has(m, x)
  BY <1>5, <1>8, <1>14, CatHas, MapperPiece
<1>16. PICK d : d = c \o b
  OBVIOUS
<1>17. /\ d \in Seq(RegisterSteps)
       /\ \A x : Has(d, x) <=> Has(c, x) \/ Has(b, x)
       /\ \A x, y : Before(c, x, y) /\ (Has(c, x) \/ Before(b, x, y)) => Before(d, x, y)
       /\ \A x, y : After(b, x, y) /\ (Has(b, y) \/ After(c, x, y)) => After(d, x, y)
  BY <1>9, <1>15, <1>16, CatHas
<1>18. \A t \in SetupFilters, pt \in PartSet : Before(d, Change(pt, t), Change("filter", t))
  BY Zenon, <1>10, <1>11, <1>15, <1>17, HasNone, FiltersAreTemplates
<1>19. \A t \in SetupFilters : After(d, Change("clear filter", t), Change("filter", t))
  BY Zenon, <1>12, <1>13, <1>17
<1>20. RegisterWhole(d)
  BY Zenon, <1>10, <1>12, <1>15, <1>17, <1>18, <1>19 DEF RegisterWhole
<1> QED BY Zenon, <1>6, <1>14, <1>16, <1>20

\* So does AMovieDllRegisterServer.
LEMMA OneByOneWhole == ASSUME R!RegistrationAssumption PROVE RegisterWhole(R!Steps("Register"))
<1>1. PICK f : f = [t \in R!Templates |-> R!RegisterServer(t) \o R!RegisterFilter(t)]
  OBVIOUS
<1>2. f = [t \in R!Templates |-> f[t]] /\ \A t \in R!Templates : f[t] = R!RegisterServer(t) \o R!RegisterFilter(t)
  BY <1>1
<1>3. PICK a : a = R!FlattenSeq(f)
  OBVIOUS
<1>4. R!Steps("Register") = a
  BY Zenon, <1>1, <1>3 DEF R!Steps, R!OneByOne
<1>5. ASSUME NEW t \in R!Templates
      PROVE  /\ f[t] \in Seq(RegisterSteps)
             /\ \A pt \in PartSet : Has(f[t], Change(pt, t))
             /\ t \in SetupFilters => Has(f[t], Change("filter", t))
             /\ \A u : After(f[t], Change("clear filter", u), Change("filter", u))
             /\ \A u : \A pt \in PartSet : Before(f[t], Change(pt, u), Change("filter", u))
  <2>1. PICK s, r : s = R!RegisterServer(t) /\ r = R!RegisterFilter(t)
    OBVIOUS
  <2>2. /\ s \in Seq(RegisterSteps)
        /\ \A u : \A pt \in PartSet : Has(s, Change(pt, u)) <=> u = t
        /\ \A u : ~Has(s, Change("filter", u)) /\ ~Has(s, Change("clear filter", u))
    BY Zenon, <2>1, ServerPiece, NotParts
  <2>3. /\ r \in Seq(RegisterSteps)
        /\ \A u : Has(r, Change("filter", u)) <=> u = t /\ t \in SetupFilters
        /\ \A u : After(r, Change("clear filter", u), Change("filter", u))
    BY Zenon, <2>1, FilterPiece
  <2>4. PICK d : d = s \o r
    OBVIOUS
  <2>5. /\ d \in Seq(RegisterSteps)
        /\ \A x : Has(d, x) <=> Has(s, x) \/ Has(r, x)
        /\ \A x, y : Before(s, x, y) /\ (Has(s, x) \/ Before(r, x, y)) => Before(d, x, y)
        /\ \A x, y : After(r, x, y) /\ (Has(r, y) \/ After(s, x, y)) => After(d, x, y)
    BY <2>2, <2>3, <2>4, CatHas
  <2>6. \A u : After(d, Change("clear filter", u), Change("filter", u))
    BY Zenon, <2>2, <2>3, <2>5, HasNone
  <2>7. \A u : \A pt \in PartSet : Before(d, Change(pt, u), Change("filter", u))
    BY Zenon, <2>2, <2>3, <2>5, HasNone
  <2>8. f[t] = d
    BY Zenon, <1>2, <2>1, <2>4
  <2> QED BY Zenon, <2>2, <2>3, <2>5, <2>6, <2>7, <2>8
<1>6. /\ a \in Seq(RegisterSteps)
      /\ \A x : Has(a, x) <=> \E t \in R!Templates : Has(f[t], x)
      /\ \A x, y : (\A t \in R!Templates : Before(f[t], x, y)) => Before(a, x, y)
      /\ \A x, y : (\A t \in R!Templates : After(f[t], x, y)) => After(a, x, y)
  BY <1>2, <1>3, <1>5, Pieces
<1>7. RegisterWhole(a)
  BY Zenon, <1>5, <1>6, FiltersAreTemplates DEF RegisterWhole
<1> QED BY Zenon, <1>4, <1>7

\* AMovieDllRegisterServer2(FALSE) withdraws everything, the filter of a server first.
LEMMA Unregister2Whole == ASSUME R!RegistrationAssumption PROVE UnregisterWhole(R!Steps("Unregister2"))
<1>1. PICK f : f = [t \in R!Templates |-> R!UnregisterServer(t)]
  OBVIOUS
<1>2. PICK g : g = [t \in R!Templates |-> R!UnregisterFilter(t)]
  OBVIOUS
<1>3. f = [t \in R!Templates |-> f[t]] /\ \A t \in R!Templates : f[t] = R!UnregisterServer(t)
  BY <1>1
<1>4. g = [t \in R!Templates |-> g[t]] /\ \A t \in R!Templates : g[t] = R!UnregisterFilter(t)
  BY <1>2
<1>5. PICK a, b, m : a = R!FlattenSeq(f) /\ b = R!FlattenSeq(g) /\ m = R!Mapper
  OBVIOUS
<1>6. R!Steps("Unregister2") = (m \o b) \o a
  <2>1. R!RegisterAllServers(FALSE) = a
    BY Zenon, <1>1, <1>5 DEF R!RegisterAllServers
  <2>2. R!AllFilters(FALSE) = b
    BY Zenon, <1>2, <1>5 DEF R!AllFilters
  <2>3. R!Steps("Unregister2") = (R!Mapper \o R!AllFilters(FALSE)) \o R!RegisterAllServers(FALSE)
    BY DEF R!Steps
  <2> QED BY Zenon, <1>5, <2>1, <2>2, <2>3
<1>21. ASSUME NEW t \in R!Templates
       PROVE  f[t] \in Seq(UnregisterSteps) /\ Has(f[t], Change("no key", t))
  <2>1. f[t] = R!UnregisterServer(t)
    BY <1>3
  <2> QED BY Zenon, <2>1, NoServerPiece
<1>22. ASSUME NEW t \in R!Templates
       PROVE  /\ g[t] \in Seq(UnregisterSteps)
              /\ \A u : Has(g[t], Change("no filter", u)) <=> u = t /\ t \in SetupFilters
              /\ \A u : \A op \in {"no InprocServer32", "no key"} : ~Has(g[t], Change(op, u))
  <2>1. g[t] = R!UnregisterFilter(t)
    BY <1>4
  <2>2. /\ R!UnregisterFilter(t) \in Seq(UnregisterSteps)
        /\ \A u : Has(R!UnregisterFilter(t), Change("no filter", u)) <=> u = t /\ t \in SetupFilters
        /\ \A u : \A op \in {"no InprocServer32", "no key"} : ~Has(R!UnregisterFilter(t), Change(op, u))
    BY Zenon, NoFilterPiece
  <2> QED BY <2>1, <2>2
<1>7. \A t \in R!Templates : f[t] \in Seq(UnregisterSteps) /\ g[t] \in Seq(UnregisterSteps)
  BY Zenon, <1>21, <1>22
<1>8. /\ a \in Seq(UnregisterSteps)
      /\ \A x : Has(a, x) <=> \E t \in R!Templates : Has(f[t], x)
  BY <1>3, <1>5, <1>7, Pieces
<1>9. /\ b \in Seq(UnregisterSteps)
      /\ \A x : Has(b, x) <=> \E t \in R!Templates : Has(g[t], x)
  <2>1. \A t \in R!Templates : g[t] \in Seq(UnregisterSteps)
    BY <1>7
  <2>2. g = [t \in R!Templates |-> g[t]]
    BY <1>4
  <2> HIDE <1>3, <1>4, <1>7
  <2> QED BY <1>5, <2>1, <2>2, Pieces
<1>10. \A t \in R!Templates : Has(a, Change("no key", t))
  BY Zenon, <1>8, <1>21
<1>11. \A u : \A op \in {"no InprocServer32", "no key"} : ~Has(b, Change(op, u)) /\ ~Has(m, Change(op, u))
  <2>1. "no InprocServer32" # "mapper" /\ "no key" # "mapper"
    OBVIOUS
  <2> QED BY Zenon, <2>1, <1>5, <1>9, <1>22, MapperPiece
<1>12. \A t \in SetupFilters : Has(b, Change("no filter", t))
  BY Zenon, <1>9, <1>22, FiltersAreTemplates
<1>14. PICK c : c = m \o b
  OBVIOUS
<1>15. /\ c \in Seq(UnregisterSteps)
       /\ \A x : Has(c, x) <=> Has(m, x) \/ Has(b, x)
  BY <1>5, <1>9, <1>14, CatHas, MapperPiece
<1>16. PICK d : d = c \o a
  OBVIOUS
<1>17. /\ d \in Seq(UnregisterSteps)
       /\ \A x : Has(d, x) <=> Has(c, x) \/ Has(a, x)
       /\ \A x, y : Before(c, x, y) /\ (Has(c, x) \/ Before(a, x, y)) => Before(d, x, y)
  BY <1>8, <1>15, <1>16, CatHas
<1>18. \A t \in SetupFilters, op \in {"no InprocServer32", "no key"} :
         Before(d, Change("no filter", t), Change(op, t))
  BY Zenon, <1>11, <1>12, <1>15, <1>17, HasNone
<1>20. UnregisterWhole(d)
  BY Zenon, <1>10, <1>12, <1>15, <1>17, <1>18 DEF UnregisterWhole
<1> QED BY Zenon, <1>6, <1>14, <1>16, <1>20

\* So does AMovieDllUnregisterServer.
LEMMA BackwardsWhole == ASSUME R!RegistrationAssumption PROVE UnregisterWhole(R!Steps("Unregister"))
<1>1. PICK f : f = [k \in R!Templates |-> R!UnregisterFilter(Count + 1 - k) \o R!UnregisterServer(Count + 1 - k)]
  OBVIOUS
<1>2. f = [k \in R!Templates |-> f[k]]
      /\ \A k \in R!Templates : f[k] = R!UnregisterFilter(Count + 1 - k) \o R!UnregisterServer(Count + 1 - k)
  BY <1>1
<1>3. PICK a : a = R!FlattenSeq(f)
  OBVIOUS
<1>4. R!Steps("Unregister") = a
  BY Zenon, <1>1, <1>3 DEF R!Steps, R!Backwards
<1>5. ASSUME NEW t \in R!Templates, NEW k \in R!Templates, t = Count + 1 - k
      PROVE  /\ f[k] \in Seq(UnregisterSteps)
             /\ t \in SetupFilters => Has(f[k], Change("no filter", t))
             /\ Has(f[k], Change("no key", t))
             /\ \A u \in SetupFilters : \A op \in {"no InprocServer32", "no key"} :
                  Before(f[k], Change("no filter", u), Change(op, u))
  <2>1. PICK s, r : s = R!UnregisterFilter(t) /\ r = R!UnregisterServer(t)
    OBVIOUS
  <2>2. /\ s \in Seq(UnregisterSteps)
        /\ \A u : Has(s, Change("no filter", u)) <=> u = t /\ t \in SetupFilters
        /\ \A u : \A op \in {"no InprocServer32", "no key"} : ~Has(s, Change(op, u))
    BY Zenon, <2>1, NoFilterPiece
  <2>3. /\ r \in Seq(UnregisterSteps)
        /\ Has(r, Change("no key", t))
        /\ \A u : \A op \in {"no InprocServer32", "no key"} : Has(r, Change(op, u)) => u = t
    BY Zenon, <2>1, NoServerPiece
  <2>4. PICK d : d = s \o r
    OBVIOUS
  <2>5. /\ d \in Seq(UnregisterSteps)
        /\ \A x : Has(d, x) <=> Has(s, x) \/ Has(r, x)
        /\ \A x, y : Before(s, x, y) /\ (Has(s, x) \/ Before(r, x, y)) => Before(d, x, y)
    BY <2>2, <2>3, <2>4, CatHas
  <2>6. \A u \in SetupFilters : \A op \in {"no InprocServer32", "no key"} :
          Before(d, Change("no filter", u), Change(op, u))
    <3> TAKE u \in SetupFilters, op \in {"no InprocServer32", "no key"}
    <3>1. Before(s, Change("no filter", u), Change(op, u))
      BY Zenon, <2>2, HasNone
    <3>2. CASE u = t
      BY Zenon, <2>2, <2>5, <3>1, <3>2
    <3>3. CASE u # t
      BY Zenon, <2>3, <2>5, <3>1, <3>3, HasNone
    <3> QED BY <3>2, <3>3
  <2>8. f[k] = d
    BY Zenon, <1>2, <1>5, <2>1, <2>4
  <2> QED BY Zenon, <2>2, <2>3, <2>5, <2>6, <2>8
<1>6. \A k \in R!Templates : Count + 1 - k \in R!Templates /\ Count + 1 - (Count + 1 - k) = k
  BY DEF R!Templates, R!RegistrationAssumption
<1>7. \A k \in R!Templates :
        /\ f[k] \in Seq(UnregisterSteps)
        /\ \A u \in SetupFilters : \A op \in {"no InprocServer32", "no key"} :
             Before(f[k], Change("no filter", u), Change(op, u))
  BY Zenon, <1>5, <1>6
<1>8. \A t \in R!Templates : \E k \in R!Templates :
        /\ t \in SetupFilters => Has(f[k], Change("no filter", t))
        /\ Has(f[k], Change("no key", t))
  BY Zenon, <1>5, <1>6
<1>9. /\ a \in Seq(UnregisterSteps)
      /\ \A x : Has(a, x) <=> \E t \in R!Templates : Has(f[t], x)
      /\ \A x, y : (\A t \in R!Templates : Before(f[t], x, y)) => Before(a, x, y)
  BY <1>2, <1>3, <1>7, Pieces
<1>10. \A t \in SetupFilters, op \in {"no InprocServer32", "no key"} :
         Before(a, Change("no filter", t), Change(op, t))
  BY Zenon, <1>7, <1>9
<1>11. \A t \in R!Templates : (t \in SetupFilters => Has(a, Change("no filter", t))) /\ Has(a, Change("no key", t))
  BY Zenon, <1>8, <1>9
<1>12. UnregisterWhole(a)
  BY Zenon, <1>9, <1>10, <1>11, FiltersAreTemplates DEF UnregisterWhole
<1> QED BY Zenon, <1>4, <1>12

(***************************************************************************)
(* The registration: every step                                            *)
(***************************************************************************)

\* The invariant of the registration holds at first.
LEMMA SetupStart == ASSUME R!RegistrationAssumption, R!Init PROVE SetupInv
<1>1. SetupTyped
  BY DEF R!Init, SetupTyped
<1>2. ~Registers /\ ~Unregisters
  BY DEF R!Init, Registers, Unregisters
<1>3. StepsTyped
  BY <1>2 DEF R!Init, StepsTyped
<1>4. ServerFirst /\ NothingMissing
  BY <1>2 DEF R!Init, ServerFirst, NothingMissing
<1> QED BY <1>1, <1>3, <1>4 DEF SetupInv

\* A call that begins has everything still to do.
LEMMA SetupCall ==
  ASSUME R!RegistrationAssumption, SetupInv, NEW call \in {"Register2", "Unregister2", "Register", "Unregister"},
         R!Call(call)
  PROVE  SetupInv'
<1>1. /\ steps' = R!Steps(call) /\ lastCall' = call /\ failed' = FALSE /\ keys' = keys /\ filter' = filter
      /\ denied' \in SUBSET R!Rights
  BY DEF R!Call, R!RegistrationAssumption
<1>2. SetupTyped'
  BY <1>1 DEF SetupInv, SetupTyped
<1>3. \A t \in filter : t \in SetupFilters /\ \A pt \in PartSet : pt \in keys[t]
  BY DEF SetupInv, SetupTyped, ServerFirst
<1>4. CASE call \in {"Register2", "Register"}
  <2>1. Registers' /\ ~Unregisters' /\ lastCall' # "none"
    BY <1>1, <1>4 DEF Registers, Unregisters
  <2>2. RegisterWhole(steps')
    BY <1>1, <1>4, Register2Whole, OneByOneWhole
  <2>3. StepsTyped'
    BY Zenon, <2>1, <2>2 DEF StepsTyped, RegisterWhole
  <2>4. ServerFirst'
    BY Zenon, <1>1, <1>3, <2>1, <2>2 DEF ServerFirst, RegisterWhole
  <2>5. NothingMissing'
    BY Zenon, <2>1, <2>2 DEF NothingMissing, RegisterWhole
  <2> QED BY <1>2, <2>3, <2>4, <2>5 DEF SetupInv
<1>5. CASE call \in {"Unregister2", "Unregister"}
  <2>1. ~Registers' /\ Unregisters' /\ lastCall' # "none"
    BY <1>1, <1>5 DEF Registers, Unregisters
  <2>2. UnregisterWhole(steps')
    BY <1>1, <1>5, Unregister2Whole, BackwardsWhole
  <2>3. StepsTyped'
    BY Zenon, <2>1, <2>2 DEF StepsTyped, UnregisterWhole
  <2>4. ServerFirst'
    BY Zenon, <1>1, <1>3, <2>1, <2>2 DEF ServerFirst, UnregisterWhole
  <2>5. NothingMissing'
    BY Zenon, <1>1, <1>3, <2>1, <2>2 DEF NothingMissing, UnregisterWhole
  <2> QED BY <1>2, <2>3, <2>4, <2>5 DEF SetupInv
<1> QED BY <1>4, <1>5

\* A call that fails, or whose process ends, leaves filters with servers.
LEMMA SetupStops ==
  ASSUME SetupInv, keys' = keys, filter' = filter, steps' = <<>>, lastCall' = "none", failed' \in BOOLEAN,
         denied' = denied
  PROVE  SetupInv'
<1>1. ~Registers' /\ ~Unregisters'
  BY DEF Registers, Unregisters
<1>2. SetupTyped'
  BY DEF SetupInv, SetupTyped
<1>3. StepsTyped'
  BY Zenon, <1>1 DEF StepsTyped
<1>4. ServerFirst' /\ NothingMissing'
  BY Zenon, <1>1 DEF SetupInv, ServerFirst, NothingMissing
<1> QED BY <1>2, <1>3, <1>4 DEF SetupInv

\* The first change is the one of a server that a call may make.
LEMMA SetupHead ==
  ASSUME SetupInv, steps # <<>>
  PROVE  LET h == Head(steps)
             t == h.template IN
         /\ h = Change(h.op, t)
         /\ Registers \/ Unregisters
         /\ Registers => h \in RegisterSteps /\ Tail(steps) \in Seq(RegisterSteps)
         /\ Unregisters => h \in UnregisterSteps /\ Tail(steps) \in Seq(UnregisterSteps)
         /\ ~(Registers /\ Unregisters)
         /\ \A x : Has(steps, x) <=> h = x \/ Has(Tail(steps), x)
         /\ \A x, y : Before(steps, x, y) => h # y /\ (h # x => Before(Tail(steps), x, y))
         /\ \A x, y : After(steps, x, y) => After(Tail(steps), x, y) /\ (h = x => Has(Tail(steps), y))
<1> DEFINE h == Head(steps)
<1>1. (Registers \/ Unregisters) /\ ~(Registers /\ Unregisters)
  BY DEF SetupInv, SetupTyped, StepsTyped, Registers, Unregisters
<1>2. PICK A : /\ steps \in Seq(A)
               /\ Registers => A = RegisterSteps
               /\ Unregisters => A = UnregisterSteps
  <2>1. CASE Registers
    BY <1>1, <2>1 DEF SetupInv, StepsTyped
  <2>2. CASE Unregisters
    BY <1>1, <2>2 DEF SetupInv, StepsTyped
  <2> QED BY <1>1, <2>1, <2>2
<1>3. /\ h \in A /\ Tail(steps) \in Seq(A)
      /\ \A x : Has(steps, x) <=> h = x \/ Has(Tail(steps), x)
      /\ \A x, y : Before(steps, x, y) => h # y /\ (h # x => Before(Tail(steps), x, y))
      /\ \A x, y : After(steps, x, y) => After(Tail(steps), x, y) /\ (h = x => Has(Tail(steps), y))
  BY <1>2, HeadHas
<1>4. h \in RegisterSteps \/ h \in UnregisterSteps
  BY <1>1, <1>2, <1>3
<1> HIDE DEF h
<1>5. h = Change(h.op, h.template)
  BY <1>4 DEF RegisterSteps, UnregisterSteps, Change
<1>6. /\ Registers => h \in RegisterSteps /\ Tail(steps) \in Seq(RegisterSteps)
      /\ Unregisters => h \in UnregisterSteps /\ Tail(steps) \in Seq(UnregisterSteps)
  BY Zenon, <1>2, <1>3
<1> QED BY Zenon, <1>1, <1>3, <1>5, <1>6 DEF h

\* A change is told by what it does and to which template.
LEMMA ChangeIs == \A op, ot, t, u : Change(op, t) = Change(ot, u) <=> op = ot /\ t = u
  BY DEF Change

\* Every step keeps the invariant of the registration.
LEMMA SetupStep ==
  ASSUME R!RegistrationAssumption, SetupInv, [R!Next]_setup
  PROVE  SetupInv'
<1>1. CASE R!Killed
  BY <1>1, SetupStops DEF R!Killed, SetupInv, SetupTyped
<1>2. CASE UNCHANGED setup
  <2>1. UNCHANGED <<keys, filter, steps, denied, failed, lastCall>>
    BY <1>2 DEF setup
  <2> QED BY Zenon, <2>1 DEF SetupInv, SetupTyped, StepsTyped, ServerFirst, NothingMissing, Registers, Unregisters
<1>3. ASSUME R!Fail, keys' = keys, filter' = filter PROVE SetupInv'
  BY <1>3, SetupStops DEF R!Fail
<1>4. ASSUME R!Setup, ~(R!Fail /\ keys' = keys /\ filter' = filter) PROVE SetupInv'
  <2> DEFINE t == R!template
             op == Head(steps).op
  <2>1. steps # <<>> /\ R!Now(op)
    BY <1>4 DEF R!Setup, R!FilterMapper, R!SetPart, R!SetFilter, R!EliminateSubKey, R!Now
  <2>2. PICK h, r : h = Head(steps) /\ r = Tail(steps)
    OBVIOUS
  <2>3. /\ h = Change(op, t)
        /\ Registers \/ Unregisters
        /\ Registers => h \in RegisterSteps /\ r \in Seq(RegisterSteps)
        /\ Unregisters => h \in UnregisterSteps /\ r \in Seq(UnregisterSteps)
        /\ ~(Registers /\ Unregisters)
        /\ \A x : Has(steps, x) <=> h = x \/ Has(r, x)
        /\ \A x, y : Before(steps, x, y) => h # y /\ (h # x => Before(r, x, y))
        /\ \A x, y : After(steps, x, y) => After(r, x, y) /\ (h = x => Has(r, y))
    BY Zenon, <2>1, <2>2, SetupHead DEF R!template
  <2> HIDE DEF t, op
  <2>4. h.op = op /\ h.template = t
    BY <2>2 DEF op, t, R!template
  <2>5. /\ Registers => \/ op \in PartSet /\ t \in R!Templates
                        \/ op \in {"clear filter", "filter"} /\ t \in SetupFilters
                        \/ op = "mapper"
        /\ Unregisters => \/ op \in {"no InprocServer32", "no key"} /\ t \in R!Templates
                          \/ op = "no filter" /\ t \in SetupFilters
                          \/ op = "mapper"
    BY <2>3, <2>4 DEF RegisterSteps, UnregisterSteps
  <2>6. \A o : R!Now(o) <=> op = o
    BY <2>1 DEF R!Now, op
  <2>7. /\ keys \in [R!Templates -> SUBSET PartSet] /\ filter \subseteq SetupFilters /\ failed \in BOOLEAN
        /\ SetupFilters \subseteq R!Templates
    BY FiltersAreTemplates DEF SetupInv, SetupTyped
  <2>8. ASSUME R!Done PROVE /\ steps' = r /\ denied' = denied /\ failed' = failed /\ lastCall' = lastCall
                            /\ StepsTyped'
                            /\ (Registers' <=> Registers) /\ (Unregisters' <=> Unregisters)
    <3>1. steps' = r /\ denied' = denied /\ failed' = failed /\ lastCall' = lastCall
      BY <2>2, <2>8 DEF R!Done
    <3>2. (Registers' <=> Registers) /\ (Unregisters' <=> Unregisters)
      BY <3>1 DEF Registers, Unregisters
    <3>3. lastCall # "none"
      BY <2>3 DEF Registers, Unregisters
    <3> QED BY Zenon, <2>3, <3>1, <3>2, <3>3 DEF StepsTyped
  <2>22. \A o, u : h = Change(o, u) <=> op = o /\ t = u
    <3>1. h = Change(op, t)
      BY <2>3
    <3> QED BY <3>1, ChangeIs
  <2>23. (Registers \/ Unregisters) /\ ~(Registers /\ Unregisters)
    BY <2>3
  <2>24. ASSUME Registers
         PROVE  /\ \A u \in filter, p \in PartSet : p \in keys[u]
                /\ \A u \in SetupFilters, p \in PartSet : op = "filter" /\ t = u => p \in keys[u]
                /\ \A u \in SetupFilters, p \in PartSet :
                     ~(op = p /\ t = u) => p \in keys[u] \/ Before(r, Change(p, u), Change("filter", u))
                /\ \A u \in R!Templates, p \in PartSet :
                     ~(op = p /\ t = u) => p \in keys[u] \/ Has(r, Change(p, u))
                /\ \A u \in SetupFilters : ~(op = "filter" /\ t = u) => u \in filter \/ Has(r, Change("filter", u))
                /\ \A u \in SetupFilters : op = "clear filter" /\ t = u => Has(r, Change("filter", u))
                /\ \A u \in SetupFilters : After(r, Change("clear filter", u), Change("filter", u))
    <3>1. ServerFirst /\ NothingMissing
      BY DEF SetupInv
    <3>2. \A u \in filter, p \in PartSet : p \in keys[u]
      BY <3>1 DEF ServerFirst
    <3>3. \A u \in SetupFilters, p \in PartSet :
            p \in keys[u] \/ Before(steps, Change(p, u), Change("filter", u))
      BY <2>24, <3>1 DEF ServerFirst
    <3>4. /\ \A u \in R!Templates, p \in PartSet : p \in keys[u] \/ Has(steps, Change(p, u))
          /\ \A u \in SetupFilters : u \in filter \/ Has(steps, Change("filter", u))
          /\ \A u \in SetupFilters : After(steps, Change("clear filter", u), Change("filter", u))
      BY <2>24, <3>1 DEF NothingMissing
    <3>5. \A u \in SetupFilters, p \in PartSet : op = "filter" /\ t = u => p \in keys[u]
      BY Zenon, <2>3, <2>22, <3>3
    <3>6. \A u \in SetupFilters, p \in PartSet :
            ~(op = p /\ t = u) => p \in keys[u] \/ Before(r, Change(p, u), Change("filter", u))
      BY Zenon, <2>3, <2>22, <3>3
    <3>7. /\ \A u \in R!Templates, p \in PartSet :
               ~(op = p /\ t = u) => p \in keys[u] \/ Has(r, Change(p, u))
          /\ \A u \in SetupFilters : ~(op = "filter" /\ t = u) => u \in filter \/ Has(r, Change("filter", u))
      BY Zenon, <2>3, <2>22, <3>4
    <3>8. /\ \A u \in SetupFilters : op = "clear filter" /\ t = u => Has(r, Change("filter", u))
          /\ \A u \in SetupFilters : After(r, Change("clear filter", u), Change("filter", u))
      BY Zenon, <2>3, <2>22, <3>4
    <3> QED BY <3>2, <3>5, <3>6, <3>7, <3>8
  <2>25. ASSUME Unregisters
         PROVE  /\ \A u \in filter, p \in PartSet : p \in keys[u]
                /\ \A u \in filter, o \in {"no InprocServer32", "no key"} : ~(op = o /\ t = u)
                /\ \A u \in filter, o \in {"no InprocServer32", "no key"} :
                     ~(op = "no filter" /\ t = u) => Before(r, Change("no filter", u), Change(o, u))
                /\ \A u \in filter : ~(op = "no filter" /\ t = u) => Has(r, Change("no filter", u))
                /\ denied = {} => \A u \in R!Templates :
                     ~(op = "no key" /\ t = u) => keys[u] = {} \/ Has(r, Change("no key", u))
    <3>1. ServerFirst /\ NothingMissing
      BY DEF SetupInv
    <3>2. \A u \in filter, p \in PartSet : p \in keys[u]
      BY <3>1 DEF ServerFirst
    <3>3. \A u \in filter, o \in {"no InprocServer32", "no key"} :
            Before(steps, Change("no filter", u), Change(o, u))
      BY <2>25, <3>1 DEF ServerFirst
    <3>4. /\ \A u \in filter : Has(steps, Change("no filter", u))
          /\ denied = {} => \A u \in R!Templates : keys[u] = {} \/ Has(steps, Change("no key", u))
      BY <2>25, <3>1 DEF NothingMissing
    <3>5. \A u \in filter, o \in {"no InprocServer32", "no key"} : ~(op = o /\ t = u)
      BY Zenon, <2>3, <2>22, <3>3
    <3>6. \A u \in filter, o \in {"no InprocServer32", "no key"} :
            ~(op = "no filter" /\ t = u) => Before(r, Change("no filter", u), Change(o, u))
      BY Zenon, <2>3, <2>22, <3>3
    <3>7. \A u \in filter : ~(op = "no filter" /\ t = u) => Has(r, Change("no filter", u))
      BY Zenon, <2>3, <2>22, <3>4
    <3>8. denied = {} => \A u \in R!Templates :
             ~(op = "no key" /\ t = u) => keys[u] = {} \/ Has(r, Change("no key", u))
      BY Zenon, <2>3, <2>22, <3>4
    <3> QED BY <3>2, <3>5, <3>6, <3>7, <3>8
  <2>26. ASSUME R!Done, Registers, keys' \in [R!Templates -> SUBSET PartSet], filter' \subseteq SetupFilters,
                \A u \in filter', p \in PartSet : p \in keys'[u],
                \A u \in SetupFilters, p \in PartSet :
                  p \in keys'[u] \/ Before(r, Change(p, u), Change("filter", u)),
                \A u \in R!Templates, p \in PartSet : p \in keys'[u] \/ Has(r, Change(p, u)),
                \A u \in SetupFilters : u \in filter' \/ Has(r, Change("filter", u))
         PROVE  SetupInv'
    <3>1. steps' = r /\ denied' = denied /\ failed' = failed /\ lastCall' = lastCall /\ StepsTyped' /\ Registers' /\ ~Unregisters'
      BY <2>8, <2>23, <2>26
    <3>2. SetupTyped'
      BY <2>26, <3>1 DEF SetupInv, SetupTyped
    <3>3. ServerFirst'
      BY Zenon, <2>26, <3>1 DEF ServerFirst
    <3>4. NothingMissing'
      BY Zenon, <2>24, <2>26, <3>1 DEF NothingMissing
    <3> QED BY <3>1, <3>2, <3>3, <3>4 DEF SetupInv
  <2>27. ASSUME R!Done, Unregisters, keys' \in [R!Templates -> SUBSET PartSet], filter' \subseteq filter,
                \A u \in filter' : keys'[u] = keys[u],
                \A u \in filter' : ~(op = "no filter" /\ t = u),
                denied = {} => \A u \in R!Templates : keys'[u] = {} \/ Has(r, Change("no key", u))
         PROVE  SetupInv'
    <3>1. steps' = r /\ denied' = denied /\ failed' = failed /\ lastCall' = lastCall /\ StepsTyped' /\ ~Registers' /\ Unregisters'
      BY <2>8, <2>23, <2>27
    <3>2. SetupTyped'
      BY <2>7, <2>27, <3>1 DEF SetupInv, SetupTyped
    <3>3. /\ \A u \in filter', p \in PartSet : p \in keys'[u]
          /\ \A u \in filter', o \in {"no InprocServer32", "no key"} :
               Before(r, Change("no filter", u), Change(o, u))
          /\ \A u \in filter' : Has(r, Change("no filter", u))
      BY <2>25, <2>27
    <3>4. ServerFirst'
      BY Zenon, <3>1, <3>3 DEF ServerFirst
    <3>5. NothingMissing'
      BY Zenon, <2>27, <3>1, <3>3 DEF NothingMissing
    <3> QED BY <3>1, <3>2, <3>4, <3>5 DEF SetupInv
  <2>9. CASE R!Done /\ keys' = keys /\ filter' = filter /\ op = "mapper"
    <3>1. \A o : o \in PartSet \cup {"filter", "no filter", "no key"} => op # o
      BY <2>9 DEF PartSet
    <3>2. CASE Registers
      BY Zenon, <2>7, <2>9, <2>24, <2>26, <3>1, <3>2
    <3>3. CASE Unregisters
      BY Zenon, <2>7, <2>9, <2>25, <2>27, <3>1, <3>3
    <3> QED BY <2>23, <3>2, <3>3
  <2>10. ASSUME NEW pt \in PartSet, op = pt, R!Done, filter' = filter,
                keys' = [keys EXCEPT ![t] = @ \cup {pt}]
         PROVE  SetupInv'
    <3>1. /\ op \notin {"clear filter", "filter", "no InprocServer32", "no key", "no filter", "mapper"}
      BY <2>10 DEF PartSet
    <3>2. Registers /\ t \in R!Templates
      BY <2>5, <2>23, <3>1
    <3>3. /\ keys' \in [R!Templates -> SUBSET PartSet]
          /\ \A u \in R!Templates : keys'[u] = IF u = t THEN keys[u] \cup {pt} ELSE keys[u]
      BY <2>7, <2>10, <3>2
    <3>4. \A u \in R!Templates, p \in PartSet : p \in keys'[u] <=> p \in keys[u] \/ (op = p /\ t = u)
      BY <2>10, <3>3
    <3>5. op # "filter"
      BY <3>1
    <3> QED BY <2>7, <2>10, <2>24, <2>26, <3>2, <3>3, <3>4, <3>5
  <2>11. CASE /\ op = "clear filter" /\ R!Done /\ keys' = keys /\ filter' \in {filter, filter \ {t}}
    <3>1. op \notin PartSet /\ op # "filter"
      BY <2>11 DEF PartSet
    <3>2. Registers
      BY <2>5, <2>11, <2>23
    <3>3. \A p \in PartSet : op # p
      BY <3>1
    <3>4. filter' \subseteq filter /\ \A u \in filter : u # t => u \in filter'
      BY <2>11
    <3>5. \A u \in SetupFilters : u \in filter' \/ Has(r, Change("filter", u))
      BY Zenon, <2>11, <2>24, <3>1, <3>2, <3>4
    <3> QED BY <2>7, <2>11, <2>24, <2>26, <3>2, <3>3, <3>4, <3>5
  <2>12. CASE /\ op = "filter" /\ R!Done /\ keys' = keys /\ filter' = filter \cup {t}
    <3>1. op \notin PartSet /\ op # "mapper"
      BY <2>12 DEF PartSet
    <3>2. Registers /\ t \in SetupFilters
      BY <2>5, <2>12, <2>23, <3>1
    <3>3. \A p \in PartSet : op # p
      BY <3>1
    <3>4. filter' \subseteq SetupFilters /\ \A u : u \in filter' <=> u \in filter \/ t = u
      BY <2>7, <2>12, <3>2
    <3>5. \A u \in SetupFilters : u \in filter' \/ Has(r, Change("filter", u))
      BY Zenon, <2>24, <3>2, <3>4
    <3>6. \A u \in filter', p \in PartSet : p \in keys'[u]
      BY Zenon, <2>12, <2>24, <3>2, <3>4
    <3> QED BY <2>7, <2>12, <2>24, <2>26, <3>2, <3>3, <3>4, <3>5, <3>6
  <2>13. CASE /\ op = "no filter" /\ R!Done /\ keys' = keys /\ filter' = filter \ {t}
    <3>1. op \notin PartSet /\ op \notin {"clear filter", "filter", "mapper"} /\ op # "no key"
      BY <2>13 DEF PartSet
    <3>2. Unregisters
      BY <2>5, <2>23, <3>1
    <3>3. filter' \subseteq filter /\ \A u \in filter' : t # u
      BY <2>13
    <3>4. denied = {} => \A u \in R!Templates : keys'[u] = {} \/ Has(r, Change("no key", u))
      BY Zenon, <2>13, <2>25, <3>1, <3>2
    <3> QED BY <2>7, <2>13, <2>27, <3>2, <3>3, <3>4
  <2>14. ASSUME op \in {"no InprocServer32", "no key"}
         PROVE  ~Registers /\ Unregisters /\ t \in R!Templates /\ t \notin filter
    <3>1. op \notin PartSet /\ op \notin {"clear filter", "filter", "mapper", "no filter"}
      BY <2>14 DEF PartSet
    <3>2. ~Registers /\ Unregisters /\ t \in R!Templates
      BY <2>5, <2>14, <2>23, <3>1
    <3> QED BY Zenon, <2>14, <2>25, <3>2
  <2>15. CASE /\ op = "no InprocServer32" /\ UNCHANGED <<steps, denied, failed, lastCall>>
              /\ filter' = filter
              /\ keys' \in {keys, [keys EXCEPT ![t] = @ \cap {"key", "name"}]}
    <3>1. ~Registers /\ Unregisters /\ t \in R!Templates /\ t \notin filter
      BY <2>14, <2>15
    <3>2. ~Registers' /\ Unregisters'
      BY <2>15, <3>1 DEF Registers, Unregisters
    <3>3. /\ keys' \in [R!Templates -> SUBSET PartSet]
          /\ \A u \in R!Templates : keys'[u] \subseteq keys[u] /\ (u # t => keys'[u] = keys[u])
      BY <2>7, <2>15, <3>1
    <3>4. SetupTyped' /\ StepsTyped'
      BY <2>15, <3>2, <3>3 DEF SetupInv, SetupTyped, StepsTyped, Registers, Unregisters
    <3>5. ServerFirst'
      BY <2>7, <2>15, <3>1, <3>2, <3>3 DEF SetupInv, ServerFirst
    <3>6. NothingMissing'
      BY <2>15, <3>1, <3>2, <3>3 DEF SetupInv, NothingMissing
    <3> QED BY <3>4, <3>5, <3>6 DEF SetupInv
  <2>16. CASE /\ op = "no InprocServer32" /\ R!Done /\ filter' = filter /\ keys' = keys
    <3>1. Unregisters
      BY <2>14, <2>16
    <3>2. op # "no key" /\ op # "no filter"
      BY <2>16
    <3> QED BY Zenon, <2>7, <2>16, <2>25, <2>27, <3>1, <3>2
  <2>17. CASE /\ op = "no key" /\ R!Done /\ filter' = filter
              /\ keys' = IF denied \cap {"open", "delete key"} # {} THEN keys ELSE [keys EXCEPT ![t] = {}]
    <3>1. Unregisters /\ t \in R!Templates /\ t \notin filter /\ op # "no filter"
      BY <2>14, <2>17
    <3>2. /\ keys' \in [R!Templates -> SUBSET PartSet]
          /\ \A u \in R!Templates : u # t => keys'[u] = keys[u]
          /\ denied = {} => keys'[t] = {}
      BY <2>7, <2>17, <3>1
    <3>3. \A u \in filter : u # t /\ u \in R!Templates
      BY <2>7, <3>1
    <3>4. denied = {} => \A u \in R!Templates : keys'[u] = {} \/ Has(r, Change("no key", u))
      BY Zenon, <2>25, <3>1, <3>2
    <3> QED BY Zenon, <2>17, <2>27, <3>1, <3>2, <3>3, <3>4
  <2>18. CASE R!FilterMapper
    <3>1. op = "mapper" /\ keys' = keys /\ filter' = filter /\ R!Done
      BY <1>4, <2>6, <2>18 DEF R!FilterMapper
    <3> QED BY <2>9, <3>1
  <2>19. CASE R!SetPart
    <3>1. PICK pt \in R!Range(R!Parts) :
            /\ R!Now(pt)
            /\ \/ /\ keys' = [keys EXCEPT ![R!template] = @ \cup {pt}] /\ R!Done
               \/ R!Fail /\ UNCHANGED keys
      BY <2>19 DEF R!SetPart
    <3>2. filter' = filter
      BY <2>19 DEF R!SetPart
    <3>3. pt \in PartSet /\ op = pt
      BY Zenon, <2>6, <3>1, PartsAre
    <3>4. keys' = [keys EXCEPT ![t] = @ \cup {pt}] /\ R!Done
      BY Zenon, <1>4, <3>1, <3>2 DEF t
    <3> QED BY <2>10, <3>2, <3>3, <3>4
  <2>20. CASE R!SetFilter
    <3>1. keys' = keys
      BY <2>20 DEF R!SetFilter
    <3>2. \/ op = "clear filter" /\ filter' \in {filter, filter \ {t}} /\ R!Done
          \/ op = "filter" /\ filter' = filter \cup {t} /\ R!Done
          \/ op = "no filter" /\ filter' = filter \ {t} /\ R!Done
      BY Zenon, <1>4, <2>6, <2>20, <3>1 DEF R!SetFilter, t
    <3> QED BY Zenon, <2>11, <2>12, <2>13, <3>1, <3>2
  <2>21. CASE R!EliminateSubKey
    <3>1. filter' = filter
      BY <2>21 DEF R!EliminateSubKey
    <3>2. \/ /\ op = "no InprocServer32"
             /\ \/ R!Done /\ keys' = keys
                \/ /\ UNCHANGED <<steps, denied, failed, lastCall>>
                   /\ keys' \in {keys, [keys EXCEPT ![t] = @ \cap {"key", "name"}]}
          \/ /\ op = "no key" /\ R!Done
             /\ keys' = IF denied \cap {"open", "delete key"} # {} THEN keys ELSE [keys EXCEPT ![t] = {}]
      BY <2>6, <2>21 DEF R!EliminateSubKey, t
    <3> QED BY Zenon, <2>15, <2>16, <2>17, <3>1, <3>2
  <2> QED BY <1>4, <2>18, <2>19, <2>20, <2>21 DEF R!Setup
<1> QED BY <1>1, <1>2, <1>3, <1>4, SetupCall DEF R!Next

(***************************************************************************)
(* The five side by side                                                   *)
(***************************************************************************)

allVars == <<part, vars, slots, messages, setup, seeking>>

\* A step of the whole is one of each part, or none of it.
LEMMA StepsOfParts ==
  ASSUME [MCNext]_allVars
  PROVE  [Next]_vars /\ [S!Next]_slots /\ [M!Next]_messages /\ [R!Next]_setup /\ [K!Next]_seeking
<1>1. CASE MCNext
  <2>1. /\ part = "output" \/ UNCHANGED vars
        /\ part = "slots" \/ UNCHANGED slots
        /\ part = "messages" \/ UNCHANGED messages
        /\ part = "setup" \/ UNCHANGED setup
        /\ part = "seeking" \/ UNCHANGED seeking
    BY <1>1 DEF MCNext, Others
  <2>2. /\ part = "output" => Next
        /\ part = "slots" => S!Next
        /\ part = "messages" => M!Next
        /\ part = "setup" => R!Next
        /\ part = "seeking" => K!Next
    BY <1>1 DEF MCNext
  <2> QED BY <2>1, <2>2
<1>2. CASE UNCHANGED allVars
  BY <1>2 DEF allVars
<1> QED BY <1>1, <1>2

QueuesInv ==
  /\ part \in {"output", "slots", "messages", "setup", "seeking"}
  /\ OutputInv /\ SlotInv /\ MsgInv /\ SetupInv /\ SeekingInv

\* The invariant of the whole holds at first.
LEMMA QueuesStart == ASSUME Settings \subseteq UsualSettings, MCInit PROVE QueuesInv
<1>1. part \in {"output", "slots", "messages", "setup", "seeking"}
      /\ Init /\ S!Init /\ M!Init /\ R!Init /\ K!Init
  BY DEF MCInit
<1>2. /\ OutputQueueAssumption /\ S!QueueAssumption /\ M!MessagesAssumption
      /\ R!RegistrationAssumption /\ K!SeekingAssumption
  BY MCQueuesAssumption
<1> QED BY <1>1, <1>2, OutputStart, SlotStart, MsgStart, SetupStart, SeekingStart DEF QueuesInv

\* Every step of the whole keeps it.
LEMMA QueuesStep == ASSUME QueuesInv, [MCNext]_allVars PROVE QueuesInv'
<1>1. /\ OutputQueueAssumption /\ S!QueueAssumption /\ M!MessagesAssumption
      /\ R!RegistrationAssumption /\ K!SeekingAssumption
  BY MCQueuesAssumption
<1>2. [Next]_vars /\ [S!Next]_slots /\ [M!Next]_messages /\ [R!Next]_setup /\ [K!Next]_seeking
  BY StepsOfParts
<1>3. part' = part
  BY DEF MCNext, allVars
<1> QED BY <1>1, <1>2, <1>3, OutputStep, SlotStep, MsgStep, SetupStep, SeekingStep DEF QueuesInv

\* The five parts keep their invariants in every behaviour: what is in the output
\* queue, in the ring, in the message queue, in the registry and in a seek is always
\* consistent.
THEOREM QueuesInvHolds == ASSUME Settings \subseteq UsualSettings PROVE MCSpec => []QueuesInv
<1>1. MCInit => QueuesInv
  BY QueuesStart
<1>2. QueuesInv /\ [MCNext]_allVars => QueuesInv'
  BY QueuesStep
<1> QED BY <1>1, <1>2, PTL DEF MCSpec, allVars

\* Every variable of the five parts has a value of its kind in every behaviour.
THEOREM TypesAreKept == ASSUME Settings \subseteq UsualSettings PROVE MCSpec => []TypesOK
<1>1. ASSUME QueuesInv PROVE TypesOK
  <2>1. /\ OutputQueueAssumption /\ S!QueueAssumption /\ M!MessagesAssumption
        /\ R!RegistrationAssumption /\ K!SeekingAssumption
    BY MCQueuesAssumption
  <2>2. TypeOK /\ S!TypeOK /\ M!TypeOK /\ R!RegistrationTypeOK /\ K!SeekingTypeOK
    BY <1>1, <2>1, OutputTypes, SlotTypes, MsgTypes, SetupTypes, SeekingFits DEF QueuesInv
  <2>3. part \in {"output", "slots", "messages", "setup", "seeking"}
    BY <1>1 DEF QueuesInv
  <2> QED BY <2>2, <2>3 DEF TypesOK
<1> QED BY <1>1, QueuesInvHolds, PTL

\* In no behaviour does a thread sleep on something to do: COutputQueue::ThreadProc
\* with a batch, a message or a flush waiting, or the worker of a CMsgThread with a
\* message; and IsIdle tells the truth.
THEOREM WakeupsAreKept == ASSUME Settings \subseteq UsualSettings PROVE MCSpec => []WakeupsKept
<1>1. ASSUME QueuesInv PROVE WakeupsKept
  <2>1. OutputQueueAssumption
    BY MCQueuesAssumption
  <2>2. NoLostWakeup /\ IdleMeansDone /\ M!NoLostWakeup
    BY <1>1, <2>1, OutputWakes, OutputIdle, MsgWakes DEF QueuesInv
  <2> QED BY <2>2 DEF WakeupsKept
<1> QED BY <1>1, QueuesInvHolds, PTL

\* A registration never leaves a filter without its server, and one that succeeds is whole
\* unless its caller was denied something; and a renderer tells nothing that was registered
\* before the last seek for a position.
THEOREM NothingIsHalfDone ==
  ASSUME Settings \subseteq UsualSettings PROVE MCSpec => []NothingHalfDone
<1>1. ASSUME QueuesInv PROVE NothingHalfDone
  <2>1. R!RegistrationAssumption /\ K!SeekingAssumption
    BY MCQueuesAssumption
  <2>2. R!FilterHasServer /\ R!SuccessIsWhole /\ K!PositionIsCurrent
    BY <1>1, <2>1, SetupWhole, SeekingFits DEF QueuesInv
  <2> QED BY <2>2 DEF NothingHalfDone
<1> QED BY <1>1, QueuesInvHolds, PTL

\* CQueue, CMsgThread and, in the usual settings, COutputQueue are channels in every
\* behaviour: what goes in comes out once and in order, or is lost.  As long as no Reset
\* has returned before its packet was dealt with, the output queue delivers no sample of
\* before a flush after it.
THEOREM QueuesKeepOrder == ASSUME Settings \subseteq UsualSettings PROVE MCSpec => QueuesAreChannels
<1>1. /\ OutputQueueAssumption /\ S!QueueAssumption /\ M!MessagesAssumption
      /\ R!RegistrationAssumption /\ K!SeekingAssumption
  BY MCQueuesAssumption
<1>2. MCInit => Promise!Init /\ S!Promise!Init /\ M!Promise!Init
  BY <1>1, OutputChannelStart, SlotChannelStart, MsgChannelStart DEF MCInit
<1>3. QueuesInv /\ [MCNext]_allVars =>
        /\ [Promise!Move]_<<accepted, pending, out>>
        /\ [S!Promise!Move]_<<put, S!pending, S!out>>
        /\ [M!Promise!Move]_<<sent, M!pending, M!out>>
  BY <1>1, StepsOfParts, OutputMoves, SlotMoves, MsgMoves DEF QueuesInv
<1>4. QueuesInv /\ [MCNext]_allVars =>
        [~early => \A i \in DOMAIN out' \ DOMAIN out :
           out'[i].kind # "segment" => out'[i].id > floor]_vars
  <2> SUFFICES ASSUME QueuesInv, [MCNext]_allVars, ~early
               PROVE  \A i \in DOMAIN out' \ DOMAIN out :
                        out'[i].kind # "segment" => out'[i].id > floor
    OBVIOUS
  <2>1. OutputInv /\ [Next]_vars
    BY StepsOfParts DEF QueuesInv
  <2>2. OutputQueueAssumption
    BY <1>1
  <2>3. ~early
    OBVIOUS
  <2> HIDE <1>1, <1>2, <1>3
  <2> QED BY Zenon, <2>1, <2>2, <2>3, OutputFresh
<1>5. MCSpec => []QueuesInv
  BY QueuesInvHolds
<1>6. MCSpec => MCInit /\ [][MCNext]_allVars
  BY PTL DEF MCSpec, allVars
<1>7. MCSpec => NothingStale
  <2>1. MCSpec => [][~early => \A i \in DOMAIN out' \ DOMAIN out :
                      out'[i].kind # "segment" => out'[i].id > floor]_vars
    BY <1>4, <1>5, <1>6, PTL
  <2> QED BY <2>1 DEF NothingStale
<1>8. MCSpec => IsChannel
  <2>1. MCSpec => Promise!Init
    BY <1>2, <1>6, PTL
  <2>2. MCSpec => [][Promise!Move]_<<accepted, pending, out>>
    BY <1>3, <1>5, <1>6, PTL
  <2> QED BY <2>1, <2>2, PTL DEF IsChannel, Promise!Spec
<1>9. MCSpec => S!IsChannel
  <2>1. MCSpec => S!Promise!Init
    BY <1>2, <1>6, PTL
  <2>2. MCSpec => [][S!Promise!Move]_<<put, S!pending, S!out>>
    BY <1>3, <1>5, <1>6, PTL
  <2> QED BY <2>1, <2>2, PTL DEF S!IsChannel, S!Promise!Spec
<1>10. MCSpec => M!IsChannel
  <2>1. MCSpec => M!Promise!Init
    BY <1>2, <1>6, PTL
  <2>2. MCSpec => [][M!Promise!Move]_<<sent, M!pending, M!out>>
    BY <1>3, <1>5, <1>6, PTL
  <2> QED BY <2>1, <2>2, PTL DEF M!IsChannel, M!Promise!Spec
<1> QED BY <1>7, <1>8, <1>9, <1>10, PTL DEF QueuesAreChannels

==============================================================================
