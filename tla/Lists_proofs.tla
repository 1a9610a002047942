---------------------------- MODULE Lists_proofs ----------------------------
(***************************************************************************)
(* Proofs about the lists of wxlist.cpp, for every value of the constants  *)
(* of GenericList.                                                         *)
(*                                                                         *)
(* ListsInv is inductive.  It says that the members of the lists stand for *)
(* sequences of nodes (HeapOf): a sequence for each list, linked both ways *)
(* between m_pFirst and m_pLast and as long as m_Count; another for each   *)
(* cache; no node twice and none nowhere; and every linked node names an   *)
(* object.  Of a copy in progress it says what is still to come and where  *)
(* the next node goes (Copied).                                            *)
(*                                                                         *)
(* For each operation there is a lemma that says where the nodes it puts,  *)
(* takes or moves are afterwards (AddTailAdds, RemoveTakes,                *)
(* MoveToTailMoves...); a walk along the links meets exactly the sequence  *)
(* (WalkMeets), so that what the runs check follows, and the sequences are *)
(* those that Lists specifies.                                             *)
(***************************************************************************)
EXTENDS GenericList, FiniteSetTheorems, SequenceTheorems, WellFoundedInduction, TLAPS

(* Sequences and numbers.                                                    *)

\* A sequence with an element at a place, and without the one there.
InsertedAt(s, i, e) == (SubSeq(s, 1, i - 1) \o <<e>>) \o SubSeq(s, i, Len(s))
RemovedAt(s, i) == SubSeq(s, 1, i - 1) \o SubSeq(s, i + 1, Len(s))

\* r is s with e at place i.
Inserted(r, s, i, e) ==
  \A j \in 1..(Len(s) + 1) :
    r[j] = IF j < i THEN s[j] ELSE IF j = i THEN e ELSE s[j - 1]

\* A set of numbers with 0, and with the next one of each, has them all.
LEMMA NumberInduction ==
  ASSUME NEW U \in SUBSET Nat, 0 \in U, \A n \in U : n + 1 \in U
  PROVE  U = Nat
<1> DEFINE B == Nat \ U
<1>1. SUFFICES ASSUME B # {} PROVE FALSE
  OBVIOUS
<1>2. B \subseteq Nat
  OBVIOUS
<1>3. PICK x \in B : \A y \in B : ~(<<y, x>> \in OpToRel(<, Nat))
  BY Zenon, <1>1, <1>2, NatLessThanWellFounded, WFMin
<1>4. x # 0 /\ x \in Nat
  BY <1>3
<1>5. x - 1 \in Nat /\ x - 1 < x
  BY <1>4
<1>6. <<x - 1, x>> \in OpToRel(<, Nat)
  BY Zenon, <1>4, <1>5 DEF OpToRel
<1>7. x - 1 \notin B
  BY <1>3, <1>6
<1>8. (x - 1) + 1 \in U
  BY <1>5, <1>7
<1> QED BY <1>4, <1>8

LEMMA InsertAtIs ==
  ASSUME NEW E, NEW s \in Seq(E), NEW e \in E, NEW i \in 1..(Len(s) + 1)
  PROVE  /\ InsertedAt(s, i, e) \in Seq(E)
         /\ Len(InsertedAt(s, i, e)) = Len(s) + 1
         /\ Inserted(InsertedAt(s, i, e), s, i, e)
<1> DEFINE before == SubSeq(s, 1, i - 1)
           after == SubSeq(s, i, Len(s))
<1>1. \A k \in 1..Len(s) : s[k] \in E
  BY ElementOfSeq
<1>2. /\ before \in Seq(E) /\ Len(before) = i - 1
      /\ \A k \in 1..(i - 1) : before[k] = s[k]
  <2>1. \A k \in 1..(i-1) : s[k] \in E
    BY <1>1, LenProperties
  <2> QED BY <2>1, LenProperties, SubSeqProperties
<1>3. /\ after \in Seq(E) /\ Len(after) = Len(s) - i + 1
      /\ \A k \in 1..(Len(s) - i + 1) : after[k] = s[i + k - 1]
  <2>1. \A k \in i..Len(s) : s[k] \in E
    BY <1>1, LenProperties
  <2> QED BY <2>1, LenProperties, SubSeqProperties
<1>4. <<e>> \in Seq(E) /\ Len(<<e>>) = 1 /\ <<e>>[1] = e
  OBVIOUS
<1> HIDE DEF before, after
<1>5. /\ before \o <<e>> \in Seq(E) /\ Len(before \o <<e>>) = i
      /\ \A k \in 1..i : (before \o <<e>>)[k] = IF k <= i - 1 THEN before[k]
                                                ELSE <<e>>[k - (i - 1)]
  BY <1>2, <1>4, ConcatProperties
<1>6. InsertedAt(s, i, e) = (before \o <<e>>) \o after
  BY DEF InsertedAt, before, after
<1>7. /\ InsertedAt(s, i, e) \in Seq(E)
      /\ Len(InsertedAt(s, i, e)) = Len(s) + 1
      /\ \A k \in 1..(Len(s) + 1) : InsertedAt(s, i, e)[k] =
           IF k <= i THEN (before \o <<e>>)[k] ELSE after[k - i]
  <2> DEFINE head == before \o <<e>>
  <2>1. head \in Seq(E) /\ Len(head) = i
    BY <1>5
  <2> HIDE DEF head
  <2>2. /\ head \o after \in Seq(E)
        /\ Len(head \o after) = Len(head) + Len(after)
        /\ \A k \in 1..(Len(head) + Len(after)) : (head \o after)[k] =
             IF k <= Len(head) THEN head[k] ELSE after[k - Len(head)]
    BY <1>3, <2>1, ConcatProperties
  <2>3. Len(head) + Len(after) = Len(s) + 1
    BY <1>3, <2>1, LenProperties
  <2> QED BY <1>6, <2>1, <2>2, <2>3 DEF head
<1>8. ASSUME NEW j \in 1..(Len(s) + 1)
      PROVE  InsertedAt(s, i, e)[j] = IF j < i THEN s[j] ELSE IF j = i THEN e
                                      ELSE s[j - 1]
  <2>1. CASE j < i
    BY <2>1, <1>2, <1>5, <1>7, LenProperties
  <2>2. CASE j = i
    BY <2>2, <1>4, <1>5, <1>7, LenProperties
  <2>3. CASE j > i
    <3>1. j - i \in 1..(Len(s) - i + 1) /\ i + (j - i) - 1 = j - 1
      BY <2>3, LenProperties
    <3>2. after[j - i] = s[j - 1]
      BY <1>3, <3>1
    <3>3. InsertedAt(s, i, e)[j] = after[j - i] /\ ~(j < i) /\ j # i
      BY <1>7, <2>3, LenProperties
    <3> QED BY <3>2, <3>3
  <2> QED BY <2>1, <2>2, <2>3, LenProperties
<1> QED BY <1>7, <1>8 DEF Inserted

LEMMA RemoveAtIs ==
  ASSUME NEW E, NEW s \in Seq(E), NEW i \in 1..Len(s)
  PROVE  /\ RemovedAt(s, i) \in Seq(E)
         /\ Len(RemovedAt(s, i)) = Len(s) - 1
         /\ \A j \in 1..(Len(s) - 1) :
              RemovedAt(s, i)[j] = IF j < i THEN s[j] ELSE s[j + 1]
<1> DEFINE before == SubSeq(s, 1, i - 1)
           after == SubSeq(s, i + 1, Len(s))
<1>1. \A k \in 1..Len(s) : s[k] \in E
  BY ElementOfSeq
<1>2. /\ before \in Seq(E) /\ Len(before) = i - 1
      /\ \A k \in 1..(i - 1) : before[k] = s[k]
  <2>1. \A k \in 1..(i-1) : s[k] \in E
    BY <1>1, LenProperties
  <2> QED BY <2>1, LenProperties, SubSeqProperties
<1>3. /\ after \in Seq(E) /\ Len(after) = Len(s) - i
      /\ \A k \in 1..(Len(s) - i) : after[k] = s[i + k]
  <2>1. \A k \in (i + 1)..Len(s) : s[k] \in E
    BY <1>1, LenProperties
  <2> QED BY <2>1, LenProperties, SubSeqProperties
<1> HIDE DEF before, after
<1>4. RemovedAt(s, i) = before \o after
  BY DEF RemovedAt, before, after
<1>5. /\ RemovedAt(s, i) \in Seq(E) /\ Len(RemovedAt(s, i)) = Len(s) - 1
      /\ \A k \in 1..(Len(s) - 1) : RemovedAt(s, i)[k] =
           IF k <= i - 1 THEN before[k] ELSE after[k - (i - 1)]
  <2>1. /\ before \o after \in Seq(E)
        /\ Len(before \o after) = Len(before) + Len(after)
        /\ \A k \in 1..(Len(before) + Len(after)) : (before \o after)[k] =
             IF k <= Len(before) THEN before[k] ELSE after[k - Len(before)]
    BY <1>2, <1>3, ConcatProperties
  <2>2. Len(before) + Len(after) = Len(s) - 1
    BY <1>2, <1>3, LenProperties
  <2> QED BY <1>2, <1>4, <2>1, <2>2
<1>6. ASSUME NEW j \in 1..(Len(s) - 1)
      PROVE  RemovedAt(s, i)[j] = IF j < i THEN s[j] ELSE s[j + 1]
  <2>1. CASE j < i
    BY <2>1, <1>2, <1>5, LenProperties
  <2>2. CASE j >= i
    <3>1. j - (i - 1) \in 1..(Len(s) - i) /\ i + (j - (i - 1)) = j + 1
      BY <2>2, LenProperties
    <3> QED BY <2>2, <3>1, <1>3, <1>5, LenProperties
  <2> QED BY <2>1, <2>2, LenProperties
<1> QED BY <1>5, <1>6

(* The linked lists.                                                         *)

NodesOrNone == Nodes \cup {None}
FirstOf(s) == IF Len(s) = 0 THEN None ELSE s[1]
LastOf(s) == IF Len(s) = 0 THEN None ELSE s[Len(s)]
Elems(s) == {s[i] : i \in 1..Len(s)}
Distinct(s) == \A i, j \in 1..Len(s) : s[i] = s[j] => i = j

\* The nodes of s are linked one to the next, and to the one before.
Chained(s, link) == \A i \in 1..Len(s) : link[s[i]] = IF i < Len(s) THEN s[i + 1] ELSE None
ChainedBack(s, link) == \A i \in 1..Len(s) : link[s[i]] = IF i > 1 THEN s[i - 1] ELSE None

Reversed(s) == [i \in 1..Len(s) |-> s[Len(s) + 1 - i]]

\* What the assumption says of the constants of lists.
LEMMA ListConstants ==
  /\ None \notin ListNames /\ None \notin Nodes /\ None \notin Objects /\ m_iCacheSize \in Nat
  /\ IsFiniteSet(Nodes) /\ IsFiniteSet(ListNames)
BY ListAssumption DEF ListAssumption

LEMMA NodesCounted == Cardinality(Nodes) \in Nat
BY ListConstants, FS_CardinalityType

\* Distinct nodes are no more than there are.
LEMMA DistinctFew ==
  ASSUME NEW s \in Seq(Nodes), Distinct(s)
  PROVE  Len(s) <= Cardinality(Nodes)
<1>1. IsFiniteSet(1..Len(s)) /\ Cardinality(1..Len(s)) = Len(s)
  <2>1. Len(s) \in Nat
    OBVIOUS
  <2>2. IsFiniteSet(1..Len(s)) /\ Cardinality(1..Len(s)) = IF 1 > Len(s) THEN 0 ELSE Len(s) - 1 + 1
    BY <2>1, FS_Interval
  <2> QED BY <2>1, <2>2
<1>2. s \in Injection(1..Len(s), Nodes)
  <2>1. s \in [1..Len(s) -> Nodes]
    OBVIOUS
  <2> QED BY <2>1 DEF Distinct, Injection, IsInjective
<1>3. Cardinality(1..Len(s)) <= Cardinality(Nodes)
  BY <1>1, <1>2, ListConstants, FS_Injection
<1> QED BY <1>1, <1>3

-----------------------------------------------------------------------------
(* What a walk along the links meets.                                        *)

WalkOf(link, m, w) ==
  w = [n \in 0..m |-> [x \in NodesOrNone |->
         IF x = None \/ n = 0 THEN <<>> ELSE <<x>> \o w[n - 1][link[x]]]]

\* There is such a function for every bound.
LEMMA WalkExists ==
  ASSUME NEW link, NEW m \in Nat
  PROVE  \E w : WalkOf(link, m, w)
<1> DEFINE W == {k \in Nat : \E w : WalkOf(link, k, w)}
<1>1. 0 \in W
  <2> DEFINE w == [n \in 0..0 |-> [x \in NodesOrNone |-> <<>>]]
  <2>1. w = [n \in 0..0 |-> [x \in NodesOrNone |->
               IF x = None \/ n = 0 THEN <<>> ELSE <<x>> \o w[n - 1][link[x]]]]
    <3>1. \A n \in 0..0 : n = 0
      OBVIOUS
    <3> QED BY <3>1
  <2>2. WalkOf(link, 0, w)
    BY <2>1 DEF WalkOf
  <2> QED BY <2>2
<1>2. ASSUME NEW k \in W PROVE k + 1 \in W
  <2>0. k \in Nat
    BY <1>2
  <2>1. PICK w : WalkOf(link, k, w)
    BY <1>2
  <2> DEFINE more == [x \in NodesOrNone |-> IF x = None THEN <<>> ELSE <<x>> \o w[k][link[x]]]
             v == [n \in 0..(k + 1) |-> IF n = k + 1 THEN more ELSE w[n]]
  <2>2. \A n \in 0..(k + 1) : n # 0 => n - 1 \in 0..k /\ v[n - 1] = w[n - 1]
    BY <2>0
  <2>3. \A n \in 0..(k + 1) :
          v[n] = [x \in NodesOrNone |-> IF x = None \/ n = 0 THEN <<>> ELSE <<x>> \o v[n - 1][link[x]]]
    <3> TAKE n \in 0..(k + 1)
    <3>1. CASE n = k + 1
      <4>1. v[n] = more /\ n # 0 /\ n - 1 = k /\ v[n - 1] = w[k]
        <5>1. k + 1 \in 0..(k + 1) /\ (k + 1) - 1 = k /\ k + 1 # 0
          BY <2>0
        <5>2. v[k + 1] = more
          <6> HIDE DEF more
          <6> QED BY <5>1
        <5>3. n # 0 /\ n - 1 = k /\ v[n - 1] = w[n - 1]
          BY <2>2, <3>1, <5>1
        <5> HIDE DEF v, more
        <5> QED BY <3>1, <5>2, <5>3
      <4> HIDE DEF v
      <4> QED BY <4>1
    <3>2. CASE n # k + 1
      <4>1. n \in 0..k
        BY <2>0, <3>2
      <4>2. w[n] = [x \in NodesOrNone |-> IF x = None \/ n = 0 THEN <<>> ELSE <<x>> \o w[n - 1][link[x]]]
        BY <2>1, <4>1 DEF WalkOf
      <4>3. v[n] = w[n]
        BY <3>2
      <4>4. CASE n = 0
        <5> HIDE DEF v
        <5> QED BY <4>2, <4>3, <4>4
      <4>5. CASE n # 0
        <5>1. v[n - 1] = w[n - 1]
          BY <2>2, <4>5
        <5> HIDE DEF v
        <5> QED BY <4>2, <4>3, <4>5, <5>1
      <4> QED BY <4>4, <4>5
    <3> QED BY <3>1, <3>2
  <2>4. WalkOf(link, k + 1, v)
    <3>1. v = [n \in 0..(k + 1) |-> v[n]]
      OBVIOUS
    <3> HIDE DEF v
    <3> QED BY <2>3, <3>1 DEF WalkOf
  <2>5. k + 1 \in Nat
    BY <2>0
  <2> HIDE DEF v
  <2> QED BY <2>4, <2>5
<1>3. W = Nat
  <2>1. W \in SUBSET Nat
    OBVIOUS
  <2> HIDE DEF W
  <2> QED BY <1>1, <1>2, <2>1, NumberInduction
<1> QED BY <1>3

\* A walk is the last value of such a function.
LEMMA WalkIs ==
  ASSUME NEW start, NEW link
  PROVE  \E w : WalkOf(link, Cardinality(Nodes) + 1, w) /\ Walk(start, link) = w[Cardinality(Nodes) + 1][start]
<1> DEFINE m == Cardinality(Nodes) + 1
<1>1. m \in Nat
  BY NodesCounted
<1> HIDE DEF m
<1>2. \E w : WalkOf(link, m, w)
  BY <1>1, WalkExists
<1>3. WalkOf(link, m, CHOOSE w : WalkOf(link, m, w))
  BY <1>2
<1>4. Walk(start, link) = (CHOOSE w : WalkOf(link, m, w))[m][start]
  <2>1. Cardinality(Nodes) + 1 = m
    BY NodesCounted DEF m
  <2> QED BY <2>1 DEF Walk, WalkOf, NodesOrNone
<1> QED BY <1>3, <1>4 DEF m

\* The rest of a sequence after its first element.
LEMMA RestOf ==
  ASSUME NEW s \in Seq(Nodes), NEW i \in 1..Len(s)
  PROVE  <<s[i]>> \o (IF i < Len(s) THEN SubSeq(s, i + 1, Len(s)) ELSE <<>>) = SubSeq(s, i, Len(s))
<1> DEFINE rest == IF i < Len(s) THEN SubSeq(s, i + 1, Len(s)) ELSE <<>>
           a == <<s[i]>> \o rest
           b == SubSeq(s, i, Len(s))
<1>0. Len(s) \in Nat /\ i \in Nat /\ i <= Len(s) /\ i >= 1 /\ s[i] \in Nodes
  OBVIOUS
<1>1. rest \in Seq(Nodes) /\ Len(rest) = Len(s) - i /\ \A k \in 1..(Len(s) - i) : rest[k] = s[i + k]
  <2>1. CASE i < Len(s)
    <3>1. /\ SubSeq(s, i + 1, Len(s)) \in Seq(Nodes)
          /\ Len(SubSeq(s, i + 1, Len(s))) = Len(s) - (i + 1) + 1
          /\ \A k \in 1..(Len(s) - (i + 1) + 1) : SubSeq(s, i + 1, Len(s))[k] = s[i + 1 + k - 1]
      BY <1>0, <2>1, SubSeqProperties
    <3> QED BY <1>0, <2>1, <3>1
  <2>2. CASE i = Len(s)
    BY <1>0, <2>2
  <2> QED BY <1>0, <2>1, <2>2
<1>2. b \in Seq(Nodes) /\ Len(b) = Len(s) - i + 1 /\ \A k \in 1..(Len(s) - i + 1) : b[k] = s[i + k - 1]
  BY <1>0, SubSeqProperties
<1> HIDE DEF rest, b
<1>3. /\ a \in Seq(Nodes) /\ Len(a) = 1 + Len(rest)
      /\ \A k \in 1..(1 + Len(rest)) : a[k] = IF k <= 1 THEN s[i] ELSE rest[k - 1]
  <2>1. <<s[i]>> \in Seq(Nodes) /\ Len(<<s[i]>>) = 1 /\ <<s[i]>>[1] = s[i]
    BY <1>0
  <2>2. /\ a \in Seq(Nodes) /\ Len(a) = Len(<<s[i]>>) + Len(rest)
        /\ \A k \in 1..(Len(<<s[i]>>) + Len(rest)) :
             a[k] = IF k <= Len(<<s[i]>>) THEN <<s[i]>>[k] ELSE rest[k - Len(<<s[i]>>)]
    BY <1>1, <2>1, ConcatProperties
  <2>3. Len(rest) \in Nat
    BY <1>1
  <2> HIDE DEF a
  <2> QED BY <2>1, <2>2, <2>3
<1> HIDE DEF a
<1>4. Len(a) = Len(b)
  BY <1>0, <1>1, <1>2, <1>3
<1>5. ASSUME NEW k \in 1..Len(a) PROVE a[k] = b[k]
  <2>1. k \in Nat /\ k >= 1 /\ k <= Len(s) - i + 1
    BY <1>0, <1>1, <1>3
  <2>2. CASE k = 1
    <3>1. 1 \in 1..(1 + Len(rest)) /\ 1 \in 1..(Len(s) - i + 1) /\ i + 1 - 1 = i
      BY <1>0, <1>1
    <3>2. a[1] = s[i]
      BY <1>3, <3>1
    <3>3. b[1] = s[i]
      BY <1>2, <3>1
    <3> QED BY <2>2, <3>2, <3>3
  <2>3. CASE k > 1
    <3>1. k - 1 \in 1..(Len(s) - i) /\ i + (k - 1) = i + k - 1
      BY <1>0, <2>1, <2>3
    <3>2. rest[k - 1] = s[i + k - 1]
      BY <1>1, <3>1
    <3>3. a[k] = rest[k - 1]
      BY <1>0, <1>1, <1>3, <2>1, <2>3
    <3>4. b[k] = s[i + k - 1]
      BY <1>0, <1>2, <2>1
    <3> QED BY <3>2, <3>3, <3>4
  <2> QED BY <2>1, <2>2, <2>3
<1>6. a = b
  BY <1>2, <1>3, <1>4, <1>5, SeqEqual
<1> QED BY <1>6 DEF a, b, rest

\* From the first of a chain of nodes the walk meets them all, in order.
LEMMA WalkMeets ==
  ASSUME NEW s \in Seq(Nodes), NEW link, Chained(s, link), Distinct(s)
  PROVE  Walk(FirstOf(s), link) = s
<1> DEFINE c == Cardinality(Nodes) + 1
<1>0. c \in Nat /\ Len(s) \in Nat /\ Len(s) <= c
  BY NodesCounted, DistinctFew
<1> HIDE DEF c
<1>1. PICK w : WalkOf(link, c, w) /\ Walk(FirstOf(s), link) = w[c][FirstOf(s)]
  BY WalkIs DEF c
<1>2. \A n \in 0..c, x \in NodesOrNone :
        w[n][x] = IF x = None \/ n = 0 THEN <<>> ELSE <<x>> \o w[n - 1][link[x]]
  <2>1. \A n \in 0..c :
          w[n] = [x \in NodesOrNone |->
                    IF x = None \/ n = 0 THEN <<>> ELSE <<x>> \o w[n - 1][link[x]]]
    <3>1. w = [n \in 0..c |-> [x \in NodesOrNone |->
                 IF x = None \/ n = 0 THEN <<>> ELSE <<x>> \o w[n - 1][link[x]]]]
      BY <1>1 DEF WalkOf
    <3> QED BY Zenon, <3>1
  <2> QED BY <2>1
<1>3. None \in NodesOrNone /\ \A i \in 1..Len(s) : s[i] \in NodesOrNone /\ s[i] # None
  BY ListConstants DEF NodesOrNone
<1> DEFINE W == {n \in Nat : n <= c => \A i \in 1..Len(s) : Len(s) - i < n => w[n][s[i]] = SubSeq(s, i, Len(s))}
<1>4. 0 \in W
  BY <1>0
<1>5. ASSUME NEW n \in W PROVE n + 1 \in W
  <2>1. n \in Nat /\ (n <= c => \A i \in 1..Len(s) : Len(s) - i < n => w[n][s[i]] = SubSeq(s, i, Len(s)))
    BY <1>5
  <2>2. ASSUME n + 1 <= c, NEW i \in 1..Len(s), Len(s) - i < n + 1
        PROVE  w[n + 1][s[i]] = SubSeq(s, i, Len(s))
    <3>1. n + 1 \in 0..c /\ n \in 0..c /\ n + 1 # 0 /\ (n + 1) - 1 = n /\ n <= c
      BY <1>0, <2>1, <2>2
    <3>2. w[n + 1][s[i]] = <<s[i]>> \o w[(n + 1) - 1][link[s[i]]]
      BY <1>2, <1>3, <3>1
    <3>3. w[n][link[s[i]]] = IF i < Len(s) THEN SubSeq(s, i + 1, Len(s)) ELSE <<>>
      <4>1. CASE i < Len(s)
        <5>1. link[s[i]] = s[i + 1]
          BY <4>1 DEF Chained
        <5>2. i + 1 \in 1..Len(s) /\ Len(s) - (i + 1) < n
          BY <1>0, <2>1, <2>2, <4>1
        <5> QED BY <2>1, <3>1, <4>1, <5>1, <5>2
      <4>2. CASE ~(i < Len(s))
        <5>1. link[s[i]] = None
          BY <4>2 DEF Chained
        <5>2. w[n][None] = <<>>
          BY <1>2, <1>3, <3>1
        <5> QED BY <4>2, <5>1, <5>2
      <4> QED BY <4>1, <4>2
    <3> QED BY <3>1, <3>2, <3>3, RestOf
  <2> QED BY <2>1, <2>2
<1>6. W = Nat
  <2>1. W \in SUBSET Nat
    OBVIOUS
  <2> HIDE DEF W
  <2> QED BY <1>4, <1>5, <2>1, NumberInduction
<1>7. CASE Len(s) = 0
  <2>1. s = <<>>
    BY <1>7, EmptySeq
  <2>2. w[c][None] = <<>>
    <3>1. c \in 0..c
      BY <1>0
    <3>2. None = None \/ c = 0
      OBVIOUS
    <3> QED BY <1>2, <1>3, <3>1, <3>2
  <2> QED BY <1>1, <1>7, <2>1, <2>2 DEF FirstOf
<1>8. CASE Len(s) # 0
  <2>1. 1 \in 1..Len(s) /\ Len(s) - 1 < c
    BY <1>0, <1>8
  <2>2. w[c][s[1]] = SubSeq(s, 1, Len(s))
    <3>1. c \in W
      BY <1>0, <1>6
    <3>2. \A i \in 1..Len(s) : Len(s) - i < c => w[c][s[i]] = SubSeq(s, i, Len(s))
      BY <1>0, <3>1
    <3> QED BY <2>1, <3>2
  <2>3. SubSeq(s, 1, Len(s)) = s
    OBVIOUS
  <2> QED BY <1>1, <1>8, <2>2, <2>3 DEF FirstOf
<1> QED BY <1>7, <1>8

(* Linked sequences of nodes.                                                *)

\* Neighbours are linked, and the ends are.
Inner(s, next, prev) ==
  \A i \in 1..Len(s) : i < Len(s) => next[s[i]] = s[i + 1] /\ prev[s[i + 1]] = s[i]
Closed(s, next, prev) == Len(s) > 0 => next[s[Len(s)]] = None /\ prev[s[1]] = None
TwoWay(s, next, prev) == Inner(s, next, prev) /\ Closed(s, next, prev)

LEMMA Ends ==
  ASSUME NEW s \in Seq(Nodes)
  PROVE  /\ Len(s) \in Nat
         /\ \A i \in 1..Len(s) : s[i] \in Nodes /\ s[i] \in Elems(s)
         /\ Elems(s) \subseteq Nodes
         /\ FirstOf(s) \in NodesOrNone /\ LastOf(s) \in NodesOrNone
         /\ FirstOf(s) = None <=> s = <<>>
         /\ LastOf(s) = None <=> s = <<>>
         /\ s = <<>> <=> Len(s) = 0
<1>1. Len(s) \in Nat /\ \A i \in 1..Len(s) : s[i] \in Nodes
  OBVIOUS
<1>2. s = <<>> <=> Len(s) = 0
  BY EmptySeq
<1>3. CASE Len(s) = 0
  BY <1>1, <1>2, <1>3 DEF FirstOf, LastOf, NodesOrNone, Elems
<1>4. CASE Len(s) # 0
  <2>1. 1 \in 1..Len(s) /\ Len(s) \in 1..Len(s)
    BY <1>1, <1>4
  <2>2. s[1] \in Nodes /\ s[Len(s)] \in Nodes
    BY <1>1, <2>1
  <2>3. FirstOf(s) = s[1] /\ LastOf(s) = s[Len(s)]
    BY <1>4 DEF FirstOf, LastOf
  <2> QED BY <1>1, <1>2, <1>4, <2>2, <2>3, ListConstants DEF NodesOrNone, Elems
<1> QED BY <1>3, <1>4

LEMMA TwoWayChained ==
  ASSUME NEW s \in Seq(Nodes), NEW next, NEW prev, TwoWay(s, next, prev)
  PROVE  Chained(s, next) /\ ChainedBack(s, prev)
<1>1. Len(s) \in Nat
  OBVIOUS
<1>2. ASSUME NEW i \in 1..Len(s) PROVE next[s[i]] = IF i < Len(s) THEN s[i + 1] ELSE None
  BY <1>1 DEF TwoWay, Inner, Closed
<1>3. ASSUME NEW i \in 1..Len(s) PROVE prev[s[i]] = IF i > 1 THEN s[i - 1] ELSE None
  <2>1. CASE i > 1
    <3>1. i - 1 \in 1..Len(s) /\ i - 1 < Len(s) /\ (i - 1) + 1 = i
      BY <1>1, <2>1
    <3> QED BY <2>1, <3>1 DEF TwoWay, Inner
  <2>2. CASE i = 1
    BY <1>1, <2>2 DEF TwoWay, Closed
  <2> QED BY <2>1, <2>2
<1> QED BY <1>2, <1>3 DEF Chained, ChainedBack

\* Links are kept where the nodes of the sequence keep theirs.
Unmoved(s, link, link2) == \A x \in Elems(s) : link2[x] = link[x]

LEMMA TwoWayFrame ==
  ASSUME NEW s \in Seq(Nodes), NEW next, NEW prev, NEW next2, NEW prev2, TwoWay(s, next, prev),
         Unmoved(s, next, next2), Unmoved(s, prev, prev2)
  PROVE  TwoWay(s, next2, prev2)
<1> USE DEF Unmoved
<1>1. Len(s) \in Nat /\ \A i \in 1..Len(s) : s[i] \in Elems(s)
  BY Ends
<1>2. \A i \in 1..Len(s) : i < Len(s) => i + 1 \in 1..Len(s)
  BY <1>1
<1>3. Inner(s, next2, prev2)
  BY <1>1, <1>2 DEF TwoWay, Inner
<1>4. Closed(s, next2, prev2)
  <2>1. Len(s) > 0 => 1 \in 1..Len(s) /\ Len(s) \in 1..Len(s)
    BY <1>1
  <2> QED BY <1>1, <2>1 DEF TwoWay, Closed
<1> QED BY <1>3, <1>4 DEF TwoWay

LEMMA ChainedFrame ==
  ASSUME NEW s \in Seq(Nodes), NEW next, NEW next2, Chained(s, next), Unmoved(s, next, next2)
  PROVE  Chained(s, next2)
BY Ends DEF Chained, Unmoved

-----------------------------------------------------------------------------
(* An element more, an element less.                                         *)

LEMMA InsertedElems ==
  ASSUME NEW s \in Seq(Nodes), NEW n \in Nodes, NEW p \in 1..(Len(s) + 1),
         Distinct(s), n \notin Elems(s), NEW r, r = InsertedAt(s, p, n)
  PROVE  /\ r \in Seq(Nodes) /\ Len(r) = Len(s) + 1 /\ Inserted(r, s, p, n)
         /\ Distinct(r) /\ Elems(r) = Elems(s) \cup {n}
<1>0. Len(s) \in Nat /\ p \in Nat /\ p >= 1 /\ p <= Len(s) + 1
  OBVIOUS
<1>1. r \in Seq(Nodes) /\ Len(r) = Len(s) + 1 /\ Inserted(r, s, p, n)
  BY InsertAtIs
<1>2. \A j \in 1..(Len(s) + 1) : r[j] = IF j < p THEN s[j] ELSE IF j = p THEN n ELSE s[j - 1]
  BY <1>1 DEF Inserted
<1>3. \A j \in 1..(Len(s) + 1) : /\ j < p => j \in 1..Len(s)
                                 /\ j > p => j - 1 \in 1..Len(s)
  BY <1>0
<1>4. ASSUME NEW i \in 1..Len(r), NEW j \in 1..Len(r), r[i] = r[j] PROVE i = j
  <2>1. i \in 1..(Len(s) + 1) /\ j \in 1..(Len(s) + 1)
    BY <1>1
  <2>0. \A k \in 1..(Len(s) + 1) : k # p => r[k] \in Elems(s)
    <3> TAKE k \in 1..(Len(s) + 1)
    <3>1. CASE k < p
      BY <1>2, <1>3, <3>1 DEF Elems
    <3>2. CASE k > p
      BY <1>0, <1>2, <1>3, <3>2 DEF Elems
    <3> QED BY <1>0, <3>1, <3>2
  <2>2. CASE i = p
    BY <1>2, <1>4, <2>0, <2>1, <2>2, <1>0
  <2>3. CASE j = p
    BY <1>2, <1>4, <2>0, <2>1, <2>3, <1>0
  <2>4. CASE i # p /\ j # p
    <3> DEFINE a == IF i < p THEN i ELSE i - 1
               b == IF j < p THEN j ELSE j - 1
    <3>1. a \in 1..Len(s) /\ b \in 1..Len(s)
      BY <1>0, <1>3, <2>1, <2>4
    <3>2. r[i] = s[a] /\ r[j] = s[b]
      BY <1>0, <1>2, <2>1, <2>4
    <3>3. a = b
      <4> HIDE DEF a, b
      <4> QED BY <1>4, <3>1, <3>2 DEF Distinct
    <3> QED BY <1>0, <2>1, <2>4, <3>3
  <2> QED BY <2>2, <2>3, <2>4
<1>5. Elems(r) \subseteq Elems(s) \cup {n}
  <2>1. \A j \in 1..Len(r) : r[j] = n \/ r[j] \in Elems(s)
    <3> TAKE j \in 1..Len(r)
    <3>1. j \in 1..(Len(s) + 1)
      BY <1>1
    <3> QED BY <1>0, <1>2, <1>3, <3>1 DEF Elems
  <2> QED BY <2>1 DEF Elems
<1>6. n \in Elems(r)
  <2>1. p \in 1..Len(r) /\ r[p] = n
    BY <1>0, <1>1, <1>2
  <2> QED BY <2>1 DEF Elems
<1>7. ASSUME NEW i \in 1..Len(s) PROVE s[i] \in Elems(r)
  <2>1. CASE i < p
    <3>1. i \in 1..Len(r) /\ r[i] = s[i]
      BY <1>0, <1>1, <1>2, <2>1
    <3> QED BY <3>1 DEF Elems
  <2>2. CASE i >= p
    <3>1. i + 1 \in 1..Len(r) /\ i + 1 \in 1..(Len(s) + 1) /\ ~(i + 1 < p) /\ i + 1 # p /\ (i + 1) - 1 = i
      BY <1>0, <1>1, <2>2
    <3>2. r[i + 1] = s[i]
      BY <1>2, <3>1
    <3> QED BY <3>1, <3>2 DEF Elems
  <2> QED BY <1>0, <2>1, <2>2
<1> QED
  <2>1. Elems(s) \subseteq Elems(r)
    BY <1>7 DEF Elems
  <2>2. Elems(r) = Elems(s) \cup {n}
    BY <1>5, <1>6, <2>1
  <2> QED BY <1>1, <1>4, <2>2 DEF Distinct

\* How the links become those of the longer sequence.
LinkedNodes(next, prev, next2, prev2, s, p, n) ==
  /\ next2[n] = (IF p <= Len(s) THEN s[p] ELSE None)
  /\ prev2[n] = (IF p > 1 THEN s[p - 1] ELSE None)
  /\ p > 1 => next2[s[p - 1]] = n
  /\ p <= Len(s) => prev2[s[p]] = n
  /\ \A x \in Nodes : x # n /\ (p > 1 => x # s[p - 1]) => next2[x] = next[x]
  /\ \A x \in Nodes : x # n /\ (p <= Len(s) => x # s[p]) => prev2[x] = prev[x]

IsLonger(r, s, p, n, next2, prev2) ==
  /\ TwoWay(r, next2, prev2)
  /\ FirstOf(r) = IF p = 1 THEN n ELSE FirstOf(s)
  /\ LastOf(r) = IF p = Len(s) + 1 THEN n ELSE LastOf(s)

LEMMA InsertedLinks ==
  ASSUME NEW s \in Seq(Nodes), NEW n \in Nodes, NEW p \in 1..(Len(s) + 1),
         Distinct(s), n \notin Elems(s),
         NEW next, NEW prev, NEW next2, NEW prev2, TwoWay(s, next, prev),
         LinkedNodes(next, prev, next2, prev2, s, p, n)
  PROVE  IsLonger(InsertedAt(s, p, n), s, p, n, next2, prev2)
<1> DEFINE r == InsertedAt(s, p, n)
<1> SUFFICES IsLonger(r, s, p, n, next2, prev2)
  OBVIOUS
<1>00. Len(s) \in Nat /\ p \in Nat /\ p >= 1 /\ p <= Len(s) + 1
       /\ \A i \in 1..Len(s) : s[i] \in Nodes /\ s[i] # n
  BY DEF Elems
<1>01. Len(r) = Len(s) + 1 /\ Inserted(r, s, p, n)
  BY InsertedElems
<1> HIDE DEF r
<1>02. \A i \in 1..Len(s) : i # p - 1 => next2[s[i]] = next[s[i]]
  <2> SUFFICES ASSUME NEW i \in 1..Len(s), i # p - 1 PROVE next2[s[i]] = next[s[i]]
    OBVIOUS
  <2>1. p > 1 => p - 1 \in 1..Len(s)
    BY <1>00
  <2>2. p > 1 => s[i] # s[p - 1]
    BY <2>1 DEF Distinct
  <2> QED BY <1>00, <2>2 DEF LinkedNodes
<1>03. \A i \in 1..Len(s) : i # p => prev2[s[i]] = prev[s[i]]
  <2> SUFFICES ASSUME NEW i \in 1..Len(s), i # p PROVE prev2[s[i]] = prev[s[i]]
    OBVIOUS
  <2>1. p <= Len(s) => p \in 1..Len(s)
    BY <1>00
  <2>2. p <= Len(s) => s[i] # s[p]
    BY <2>1 DEF Distinct
  <2> QED BY <1>00, <2>2 DEF LinkedNodes
<1>04. /\ next2[n] = (IF p <= Len(s) THEN s[p] ELSE None)
       /\ prev2[n] = (IF p > 1 THEN s[p - 1] ELSE None)
       /\ p > 1 => next2[s[p - 1]] = n
       /\ p <= Len(s) => prev2[s[p]] = n
  BY DEF LinkedNodes
<1>0. Len(s) \in Nat /\ p \in Nat /\ p >= 1 /\ p <= Len(s) + 1
  BY <1>00
<1>1. Len(r) = Len(s) + 1 /\ Inserted(r, s, p, n)
  BY <1>01
<1>2. \A j \in 1..(Len(s) + 1) : r[j] = IF j < p THEN s[j] ELSE IF j = p THEN n ELSE s[j - 1]
  BY <1>1 DEF Inserted
<1>3. ASSUME NEW i \in 1..Len(r), i < Len(r)
      PROVE  next2[r[i]] = r[i + 1] /\ prev2[r[i + 1]] = r[i]
  <2>1. i \in 1..(Len(s) + 1) /\ i + 1 \in 1..(Len(s) + 1) /\ i <= Len(s) /\ i \in 1..Len(s)
    BY <1>0, <1>1, <1>3
  <2>2. CASE i + 1 < p
    <3>1. r[i] = s[i] /\ r[i + 1] = s[i + 1]
      BY <1>0, <1>2, <2>1, <2>2
    <3>2. i < Len(s) /\ i + 1 \in 1..Len(s) /\ i # p - 1 /\ i + 1 # p
      BY <1>0, <2>1, <2>2
    <3>3. next[s[i]] = s[i + 1] /\ prev[s[i + 1]] = s[i]
      BY <2>1, <3>2 DEF TwoWay, Inner
    <3> QED BY <1>02, <1>03, <2>1, <3>1, <3>2, <3>3
  <2>3. CASE i + 1 = p
    <3>1. r[i] = s[i] /\ r[i + 1] = n /\ i = p - 1 /\ p > 1
      BY <1>0, <1>2, <2>1, <2>3
    <3> QED BY <1>04, <3>1
  <2>4. CASE i = p
    <3>1. r[i] = n /\ r[i + 1] = s[i] /\ p <= Len(s)
      BY <1>0, <1>2, <2>1, <2>4
    <3> QED BY <1>04, <2>4, <3>1
  <2>5. CASE i > p
    <3>0. ~(i < p) /\ i # p /\ ~(i + 1 < p) /\ i + 1 # p /\ (i + 1) - 1 = i
      BY <1>0, <2>1, <2>5
    <3>1. r[i] = s[i - 1] /\ r[i + 1] = s[i]
      BY <1>2, <2>1, <3>0
    <3>2. i - 1 \in 1..Len(s) /\ i - 1 < Len(s) /\ (i - 1) + 1 = i /\ i - 1 # p - 1 /\ i # p
      BY <1>0, <2>1, <2>5
    <3>3. next[s[i - 1]] = s[i] /\ prev[s[i]] = s[i - 1]
      BY <3>2 DEF TwoWay, Inner
    <3> QED BY <1>02, <1>03, <2>1, <3>1, <3>2, <3>3
  <2> QED BY <1>0, <2>1, <2>2, <2>3, <2>4, <2>5
<1>4. r[1] = IF p = 1 THEN n ELSE s[1]
  BY <1>0, <1>2
<1>5. r[Len(r)] = IF p = Len(s) + 1 THEN n ELSE s[Len(s)]
  BY <1>0, <1>1, <1>2
<1>6. prev2[r[1]] = None
  <2>1. CASE p = 1
    BY <1>04, <1>4, <2>1
  <2>2. CASE p # 1
    <3>1. 1 \in 1..Len(s) /\ Len(s) > 0
      BY <1>0, <2>2
    <3> QED BY <1>03, <1>4, <2>2, <3>1 DEF TwoWay, Closed
  <2> QED BY <2>1, <2>2
<1>7. next2[r[Len(r)]] = None
  <2>1. CASE p = Len(s) + 1
    BY <1>0, <1>04, <1>5, <2>1
  <2>2. CASE p # Len(s) + 1
    <3>1. Len(s) \in 1..Len(s) /\ Len(s) > 0 /\ Len(s) # p - 1
      BY <1>0, <2>2
    <3> QED BY <1>02, <1>5, <2>2, <3>1 DEF TwoWay, Closed
  <2> QED BY <2>1, <2>2
<1>8. TwoWay(r, next2, prev2)
  BY <1>3, <1>6, <1>7 DEF TwoWay, Inner, Closed
<1>9. /\ FirstOf(r) = IF p = 1 THEN n ELSE FirstOf(s)
      /\ LastOf(r) = IF p = Len(s) + 1 THEN n ELSE LastOf(s)
  <2>1. Len(r) # 0 /\ (p # 1 => Len(s) # 0) /\ (p # Len(s) + 1 => Len(s) # 0)
    BY <1>0, <1>1
  <2> QED BY <1>4, <1>5, <2>1 DEF FirstOf, LastOf
<1> QED BY <1>8, <1>9 DEF IsLonger

LEMMA RemovedElems ==
  ASSUME NEW s \in Seq(Nodes), NEW p \in 1..Len(s), Distinct(s), NEW r, r = RemovedAt(s, p)
  PROVE  /\ r \in Seq(Nodes) /\ Len(r) = Len(s) - 1
         /\ \A j \in 1..(Len(s) - 1) : r[j] = IF j < p THEN s[j] ELSE s[j + 1]
         /\ Distinct(r) /\ Elems(r) = Elems(s) \ {s[p]}
<1>0. Len(s) \in Nat /\ p \in Nat /\ p >= 1 /\ p <= Len(s)
  OBVIOUS
<1>1. /\ r \in Seq(Nodes) /\ Len(r) = Len(s) - 1
      /\ \A j \in 1..(Len(s) - 1) : r[j] = IF j < p THEN s[j] ELSE s[j + 1]
  BY RemoveAtIs
<1> DEFINE from(j) == IF j < p THEN j ELSE j + 1
<1>2. ASSUME NEW j \in 1..Len(r) PROVE from(j) \in 1..Len(s) /\ from(j) # p /\ r[j] = s[from(j)]
  <2>1. j \in 1..(Len(s) - 1)
    BY <1>1
  <2>2. r[j] = s[from(j)]
    BY <1>1, <2>1
  <2>3. from(j) \in 1..Len(s) /\ from(j) # p
    BY <1>0, <2>1
  <2> QED BY <2>2, <2>3
<1>3. ASSUME NEW i \in 1..Len(r), NEW j \in 1..Len(r), r[i] = r[j] PROVE i = j
  <2>1. from(i) = from(j)
    <3> HIDE DEF from
    <3>1. from(i) \in 1..Len(s) /\ r[i] = s[from(i)]
      BY <1>2
    <3>2. from(j) \in 1..Len(s) /\ r[j] = s[from(j)]
      BY <1>2
    <3>3. s[from(i)] = s[from(j)]
      BY <1>3, <3>1, <3>2
    <3> QED BY <3>1, <3>2, <3>3 DEF Distinct
  <2>2. i \in Nat /\ j \in Nat
    BY <1>0, <1>1
  <2> QED BY <1>0, <2>1, <2>2
<1>4. Elems(r) \subseteq Elems(s) \ {s[p]}
  <2>1. \A j \in 1..Len(r) : r[j] \in Elems(s) /\ r[j] # s[p]
    <3> HIDE DEF from
    <3> QED BY <1>2 DEF Elems, Distinct
  <2> QED BY <2>1 DEF Elems
<1>5. ASSUME NEW i \in 1..Len(s), s[i] # s[p] PROVE s[i] \in Elems(r)
  <2>0. i # p
    BY <1>5
  <2>1. CASE i < p
    <3>1. i \in 1..Len(r) /\ i \in 1..(Len(s) - 1)
      BY <1>0, <1>1, <2>1
    <3>2. r[i] = s[i]
      BY <1>1, <2>1, <3>1
    <3> QED BY <3>1, <3>2 DEF Elems
  <2>2. CASE i > p
    <3>1. i - 1 \in 1..Len(r) /\ i - 1 \in 1..(Len(s) - 1) /\ ~(i - 1 < p) /\ (i - 1) + 1 = i
      BY <1>0, <1>1, <2>2
    <3>2. r[i - 1] = s[i]
      BY <1>1, <3>1
    <3> QED BY <3>1, <3>2 DEF Elems
  <2> QED BY <1>0, <2>0, <2>1, <2>2
<1>6. Elems(s) \ {s[p]} \subseteq Elems(r)
  BY <1>5 DEF Elems
<1> QED BY <1>1, <1>3, <1>4, <1>6 DEF Distinct

\* Those around a node are linked in its place.
UnlinkedNodes(next, prev, next2, prev2, s, p) ==
  /\ p > 1 => next2[s[p - 1]] = next[s[p]]
  /\ p < Len(s) => prev2[s[p + 1]] = prev[s[p]]
  /\ \A i \in 1..Len(s) : i # p - 1 /\ i # p => next2[s[i]] = next[s[i]]
  /\ \A i \in 1..Len(s) : i # p + 1 /\ i # p => prev2[s[i]] = prev[s[i]]

IsShorter(r, s, p, next, prev, next2, prev2) ==
  /\ TwoWay(r, next2, prev2)
  /\ FirstOf(r) = IF p = 1 THEN next[s[p]] ELSE FirstOf(s)
  /\ LastOf(r) = IF p = Len(s) THEN prev[s[p]] ELSE LastOf(s)

LEMMA RemovedLinks ==
  ASSUME NEW s \in Seq(Nodes), NEW p \in 1..Len(s), Distinct(s),
         NEW next, NEW prev, NEW next2, NEW prev2, TwoWay(s, next, prev),
         UnlinkedNodes(next, prev, next2, prev2, s, p)
  PROVE  IsShorter(RemovedAt(s, p), s, p, next, prev, next2, prev2)
<1> DEFINE r == RemovedAt(s, p)
<1> SUFFICES IsShorter(r, s, p, next, prev, next2, prev2)
  OBVIOUS
<1>00. r = RemovedAt(s, p)
  OBVIOUS
<1>01. /\ p > 1 => next2[s[p - 1]] = next[s[p]]
       /\ p < Len(s) => prev2[s[p + 1]] = prev[s[p]]
       /\ \A i \in 1..Len(s) : i # p - 1 /\ i # p => next2[s[i]] = next[s[i]]
       /\ \A i \in 1..Len(s) : i # p + 1 /\ i # p => prev2[s[i]] = prev[s[i]]
  BY DEF UnlinkedNodes
<1> USE <1>01
<1> HIDE DEF r
<1>0. Len(s) \in Nat /\ p \in Nat /\ p >= 1 /\ p <= Len(s)
  OBVIOUS
<1>1. /\ r \in Seq(Nodes) /\ Len(r) = Len(s) - 1
      /\ \A j \in 1..(Len(s) - 1) : r[j] = IF j < p THEN s[j] ELSE s[j + 1]
  BY <1>00, RemoveAtIs
<1>2. /\ \A i \in 1..Len(s) : next[s[i]] = IF i < Len(s) THEN s[i + 1] ELSE None
      /\ \A i \in 1..Len(s) : prev[s[i]] = IF i > 1 THEN s[i - 1] ELSE None
  BY TwoWayChained DEF Chained, ChainedBack
<1>3. ASSUME NEW i \in 1..Len(r), i < Len(r)
      PROVE  next2[r[i]] = r[i + 1] /\ prev2[r[i + 1]] = r[i]
  <2>1. i \in 1..(Len(s) - 1) /\ i + 1 \in 1..(Len(s) - 1) /\ i + 1 < Len(s) /\ i \in Nat /\ i >= 1
    BY <1>0, <1>1, <1>3
  <2>2. CASE i + 1 < p
    <3>1. r[i] = s[i] /\ r[i + 1] = s[i + 1]
      BY <1>0, <1>1, <2>1, <2>2
    <3>2. i \in 1..Len(s) /\ i + 1 \in 1..Len(s) /\ i < Len(s) /\ i + 1 > 1 /\ (i + 1) - 1 = i
      BY <1>0, <2>1
    <3>3. i # p - 1 /\ i # p /\ i + 1 # p + 1 /\ i + 1 # p
      BY <1>0, <2>1, <2>2
    <3> QED BY <1>2, <3>1, <3>2, <3>3
  <2>3. CASE i + 1 = p
    <3>1. r[i] = s[p - 1] /\ r[i + 1] = s[p + 1] /\ p > 1 /\ p < Len(s) /\ p \in 1..Len(s)
      <4>1. i < p /\ ~(i + 1 < p) /\ i = p - 1 /\ (i + 1) + 1 = p + 1 /\ p > 1 /\ p < Len(s)
        BY <1>0, <2>1, <2>3
      <4> QED BY <1>1, <2>1, <4>1
    <3>2. next[s[p]] = s[p + 1] /\ prev[s[p]] = s[p - 1]
      BY <1>2, <3>1
    <3> QED BY <3>1, <3>2
  <2>4. CASE i >= p
    <3>1. r[i] = s[i + 1] /\ r[i + 1] = s[i + 2]
      <4>1. ~(i < p) /\ ~(i + 1 < p) /\ (i + 1) + 1 = i + 2
        BY <1>0, <2>1, <2>4
      <4> QED BY <1>1, <2>1, <4>1
    <3>2. i + 1 \in 1..Len(s) /\ i + 2 \in 1..Len(s) /\ i + 1 < Len(s) /\ i + 2 > 1 /\ (i + 2) - 1 = i + 1 /\ (i + 1) + 1 = i + 2
      BY <1>0, <2>1
    <3>3. i + 1 # p - 1 /\ i + 1 # p /\ i + 2 # p + 1 /\ i + 2 # p
      BY <1>0, <2>1, <2>4
    <3>4. next[s[i + 1]] = s[i + 2] /\ prev[s[i + 2]] = s[i + 1]
      BY <1>2, <3>2
    <3>5. next2[s[i + 1]] = next[s[i + 1]] /\ prev2[s[i + 2]] = prev[s[i + 2]]
      BY <3>2, <3>3
    <3> QED BY <3>1, <3>4, <3>5
  <2> QED BY <1>0, <2>1, <2>2, <2>3, <2>4
<1>4. ASSUME Len(s) = 1 PROVE IsShorter(r, s, p, next, prev, next2, prev2)
  <2>1. Len(r) = 0 /\ p = 1 /\ p = Len(s) /\ Len(s) \in 1..Len(s) /\ ~(p < Len(s)) /\ ~(p > 1)
    BY <1>0, <1>1, <1>4
  <2>2. next[s[p]] = None /\ prev[s[p]] = None
    BY <1>2, <2>1
  <2> QED BY <1>3, <2>1, <2>2 DEF IsShorter, TwoWay, Inner, Closed, FirstOf, LastOf
<1>5. ASSUME Len(s) > 1 PROVE IsShorter(r, s, p, next, prev, next2, prev2)
  <2>1. Len(r) > 0 /\ Len(r) # 0 /\ Len(s) # 0 /\ 1 \in 1..(Len(s) - 1) /\ Len(r) \in 1..(Len(s) - 1)
    BY <1>0, <1>1, <1>5
  <2>2. FirstOf(r) = (IF p = 1 THEN s[2] ELSE s[1]) /\ FirstOf(s) = s[1] /\ FirstOf(r) = r[1]
    BY <1>0, <1>1, <2>1 DEF FirstOf
  <2>3. LastOf(r) = (IF p = Len(s) THEN s[Len(s) - 1] ELSE s[Len(s)]) /\ LastOf(s) = s[Len(s)] /\ LastOf(r) = r[Len(r)]
    BY <1>0, <1>1, <2>1 DEF LastOf
  <2>4. 1 \in 1..Len(s) /\ 2 \in 1..Len(s) /\ Len(s) \in 1..Len(s) /\ Len(s) - 1 \in 1..Len(s)
    BY <1>0, <1>5
  <2>5. p = 1 => next[s[p]] = s[2]
    BY <1>2, <1>5, <2>4
  <2>6. p = Len(s) => prev[s[p]] = s[Len(s) - 1]
    BY <1>2, <1>5, <2>4
  <2>7. prev2[r[1]] = None
    <3>1. CASE p = 1
      <4>1. p < Len(s) /\ p + 1 = 2 /\ ~(p > 1)
        BY <1>5, <3>1
      <4>2. prev2[s[2]] = prev[s[p]] /\ prev[s[p]] = None
        BY <1>2, <4>1
      <4> QED BY <2>2, <3>1, <4>2
    <3>2. CASE p # 1
      <4>1. 1 # p + 1 /\ 1 # p
        BY <1>0, <3>2
      <4>2. prev2[s[1]] = prev[s[1]] /\ prev[s[1]] = None
        BY <1>2, <2>4, <4>1
      <4> QED BY <2>2, <3>2, <4>2
    <3> QED BY <3>1, <3>2
  <2>8. next2[r[Len(r)]] = None
    <3>1. CASE p = Len(s)
      <4>1. p > 1 /\ p - 1 = Len(s) - 1 /\ ~(p < Len(s))
        BY <1>5, <3>1
      <4>2. next2[s[Len(s) - 1]] = next[s[p]] /\ next[s[p]] = None
        BY <1>2, <4>1
      <4> QED BY <2>3, <3>1, <4>2
    <3>2. CASE p # Len(s)
      <4>1. Len(s) # p - 1 /\ Len(s) # p /\ ~(Len(s) < Len(s))
        BY <1>0, <3>2
      <4>2. next2[s[Len(s)]] = next[s[Len(s)]] /\ next[s[Len(s)]] = None
        BY <1>2, <2>4, <4>1
      <4> QED BY <2>3, <3>2, <4>2
    <3> QED BY <3>1, <3>2
  <2>9. TwoWay(r, next2, prev2)
    BY <1>3, <2>7, <2>8 DEF TwoWay, Inner, Closed
  <2> QED BY <2>2, <2>3, <2>5, <2>6, <2>9 DEF IsShorter
<1>6. Len(s) = 1 \/ Len(s) > 1
  <2>1. \A j, k \in Nat : k >= 1 /\ k <= j => j = 1 \/ j > 1
    OBVIOUS
  <2> QED BY <1>0, <2>1
<1> QED BY <1>4, <1>5, <1>6

-----------------------------------------------------------------------------
(* Two sequences made one, one made two, and turned round.                   *)

LEMMA JoinedElems ==
  ASSUME NEW a \in Seq(Nodes), NEW b \in Seq(Nodes), Distinct(a), Distinct(b),
         Elems(a) \cap Elems(b) = {}
  PROVE  /\ a \o b \in Seq(Nodes) /\ Len(a \o b) = Len(a) + Len(b)
         /\ \A i \in 1..(Len(a) + Len(b)) : (a \o b)[i] = IF i <= Len(a) THEN a[i] ELSE b[i - Len(a)]
         /\ Distinct(a \o b) /\ Elems(a \o b) = Elems(a) \cup Elems(b)
<1> DEFINE r == a \o b
<1>1. /\ r \in Seq(Nodes) /\ Len(r) = Len(a) + Len(b)
      /\ \A i \in 1..(Len(a) + Len(b)) : r[i] = IF i <= Len(a) THEN a[i] ELSE b[i - Len(a)]
  BY ConcatProperties
<1>2. Len(a) \in Nat /\ Len(b) \in Nat
  OBVIOUS
<1> HIDE DEF r
<1>3. ASSUME NEW i \in 1..Len(r)
      PROVE  /\ i <= Len(a) => i \in 1..Len(a) /\ r[i] = a[i]
             /\ i > Len(a) => i - Len(a) \in 1..Len(b) /\ r[i] = b[i - Len(a)]
  <2>1. i \in 1..(Len(a) + Len(b)) /\ i \in Nat /\ i >= 1 /\ i <= Len(a) + Len(b)
    BY <1>1, <1>2
  <2>2. CASE i <= Len(a)
    BY <1>1, <1>2, <2>1, <2>2
  <2>3. CASE i > Len(a)
    <3>1. ~(i <= Len(a)) /\ i - Len(a) \in 1..Len(b)
      BY <1>2, <2>1, <2>3
    <3> QED BY <1>1, <2>1, <2>3, <3>1
  <2> QED BY <1>2, <2>1, <2>2, <2>3
<1>4. ASSUME NEW i \in 1..Len(r), NEW j \in 1..Len(r), r[i] = r[j] PROVE i = j
  <2>1. i \in Nat /\ j \in Nat
    BY <1>1, <1>2
  <2>2. CASE i <= Len(a) /\ j <= Len(a)
    BY <1>3, <1>4, <2>2 DEF Distinct
  <2>3. CASE i > Len(a) /\ j > Len(a)
    <3>1. i - Len(a) = j - Len(a)
      BY <1>3, <1>4, <2>3 DEF Distinct
    <3> QED BY <1>2, <2>1, <3>1
  <2>4. CASE i <= Len(a) /\ j > Len(a)
    <3>1. r[i] \in Elems(a) /\ r[j] \in Elems(b)
      BY <1>3, <2>4 DEF Elems
    <3> QED BY <1>4, <3>1
  <2>5. CASE i > Len(a) /\ j <= Len(a)
    <3>1. r[i] \in Elems(b) /\ r[j] \in Elems(a)
      BY <1>3, <2>5 DEF Elems
    <3> QED BY <1>4, <3>1
  <2> QED BY <1>2, <2>1, <2>2, <2>3, <2>4, <2>5
<1>5. Elems(r) \subseteq Elems(a) \cup Elems(b)
  <2>1. \A i \in 1..Len(r) : r[i] \in Elems(a) \cup Elems(b)
    <3> TAKE i \in 1..Len(r)
    <3>1. CASE i <= Len(a)
      BY <1>3, <3>1 DEF Elems
    <3>2. CASE i > Len(a)
      BY <1>3, <3>2 DEF Elems
    <3>3. i \in Nat
      BY <1>1, <1>2
    <3> QED BY <1>2, <3>1, <3>2, <3>3
  <2> QED BY <2>1 DEF Elems
<1>6. ASSUME NEW i \in 1..Len(a) PROVE a[i] \in Elems(r)
  <2>1. i \in 1..Len(r) /\ i \in 1..(Len(a) + Len(b)) /\ i <= Len(a)
    BY <1>1, <1>2
  <2>2. r[i] = a[i]
    BY <1>1, <2>1
  <2> QED BY <2>1, <2>2 DEF Elems
<1>7. ASSUME NEW i \in 1..Len(b) PROVE b[i] \in Elems(r)
  <2>1. /\ Len(a) + i \in 1..Len(r) /\ Len(a) + i \in 1..(Len(a) + Len(b)) /\ ~(Len(a) + i <= Len(a))
        /\ (Len(a) + i) - Len(a) = i
    BY <1>1, <1>2
  <2>2. r[Len(a) + i] = b[i]
    BY <1>1, <2>1
  <2> QED BY <2>1, <2>2 DEF Elems
<1>8. Elems(a) \cup Elems(b) \subseteq Elems(r)
  BY <1>6, <1>7 DEF Elems
<1> QED BY <1>1, <1>4, <1>5, <1>8 DEF r, Distinct

LEMMA JoinedLinks ==
  ASSUME NEW a \in Seq(Nodes), NEW b \in Seq(Nodes), NEW next, NEW prev,
         Inner(a, next, prev), Inner(b, next, prev),
         a # <<>> /\ b # <<>> => next[LastOf(a)] = FirstOf(b) /\ prev[FirstOf(b)] = LastOf(a)
  PROVE  /\ Inner(a \o b, next, prev)
         /\ FirstOf(a \o b) = IF a = <<>> THEN FirstOf(b) ELSE FirstOf(a)
         /\ LastOf(a \o b) = IF b = <<>> THEN LastOf(a) ELSE LastOf(b)
<1> DEFINE r == a \o b
<1>1. /\ r \in Seq(Nodes) /\ Len(r) = Len(a) + Len(b)
      /\ \A i \in 1..(Len(a) + Len(b)) : r[i] = IF i <= Len(a) THEN a[i] ELSE b[i - Len(a)]
  BY ConcatProperties
<1>2. Len(a) \in Nat /\ Len(b) \in Nat /\ (a = <<>> <=> Len(a) = 0) /\ (b = <<>> <=> Len(b) = 0)
  BY Ends
<1> HIDE DEF r
<1>3. ASSUME NEW i \in 1..Len(r), i < Len(r)
      PROVE  next[r[i]] = r[i + 1] /\ prev[r[i + 1]] = r[i]
  <2>1. /\ i \in 1..(Len(a) + Len(b)) /\ i + 1 \in 1..(Len(a) + Len(b)) /\ i \in Nat /\ i >= 1
        /\ i < Len(a) + Len(b)
    BY <1>1, <1>2, <1>3
  <2>2. CASE i < Len(a)
    <3>1. i \in 1..Len(a) /\ i <= Len(a) /\ i + 1 <= Len(a)
      BY <1>2, <2>1, <2>2
    <3>2. r[i] = a[i] /\ r[i + 1] = a[i + 1]
      BY <1>1, <2>1, <3>1
    <3> QED BY <2>2, <3>1, <3>2 DEF Inner
  <2>3. CASE i = Len(a)
    <3>1. i <= Len(a) /\ ~(i + 1 <= Len(a)) /\ (i + 1) - Len(a) = 1 /\ Len(a) # 0 /\ Len(b) # 0
      BY <1>2, <2>1, <2>3
    <3>2. r[i] = a[Len(a)] /\ r[i + 1] = b[1]
      BY <1>1, <2>1, <2>3, <3>1
    <3> QED BY <1>2, <3>1, <3>2 DEF FirstOf, LastOf
  <2>4. CASE i > Len(a)
    <3>1. /\ ~(i <= Len(a)) /\ ~(i + 1 <= Len(a)) /\ (i + 1) - Len(a) = (i - Len(a)) + 1
          /\ i - Len(a) \in 1..Len(b) /\ i - Len(a) < Len(b)
      BY <1>2, <2>1, <2>4
    <3>2. r[i] = b[i - Len(a)] /\ r[i + 1] = b[(i - Len(a)) + 1]
      BY <1>1, <2>1, <3>1
    <3> QED BY <3>1, <3>2 DEF Inner
  <2> QED BY <1>2, <2>1, <2>2, <2>3, <2>4
<1>4. FirstOf(r) = IF a = <<>> THEN FirstOf(b) ELSE FirstOf(a)
  <2>1. CASE Len(a) = 0
    <3>1. CASE Len(b) = 0
      BY <1>1, <1>2, <2>1, <3>1 DEF FirstOf
    <3>2. CASE Len(b) # 0
      <4>1. 1 \in 1..(Len(a) + Len(b)) /\ ~(1 <= Len(a)) /\ 1 - Len(a) = 1 /\ Len(r) # 0
        BY <1>1, <1>2, <2>1, <3>2
      <4>2. r[1] = b[1]
        BY <1>1, <4>1
      <4> QED BY <1>2, <2>1, <3>2, <4>1, <4>2 DEF FirstOf
    <3> QED BY <3>1, <3>2
  <2>2. CASE Len(a) # 0
    <3>1. 1 \in 1..(Len(a) + Len(b)) /\ 1 <= Len(a) /\ Len(r) # 0
      BY <1>1, <1>2, <2>2
    <3>2. r[1] = a[1]
      BY <1>1, <3>1
    <3> QED BY <1>2, <2>2, <3>1, <3>2 DEF FirstOf
  <2> QED BY <2>1, <2>2
<1>5. LastOf(r) = IF b = <<>> THEN LastOf(a) ELSE LastOf(b)
  <2>1. CASE Len(b) = 0
    <3>1. CASE Len(a) = 0
      BY <1>1, <1>2, <2>1, <3>1 DEF LastOf
    <3>2. CASE Len(a) # 0
      <4>1. Len(r) \in 1..(Len(a) + Len(b)) /\ Len(r) <= Len(a) /\ Len(r) = Len(a) /\ Len(r) # 0
        BY <1>1, <1>2, <2>1, <3>2
      <4>2. r[Len(r)] = a[Len(a)]
        BY <1>1, <4>1
      <4> QED BY <1>2, <2>1, <3>2, <4>1, <4>2 DEF LastOf
    <3> QED BY <3>1, <3>2
  <2>2. CASE Len(b) # 0
    <3>1. Len(r) \in 1..(Len(a) + Len(b)) /\ ~(Len(r) <= Len(a)) /\ Len(r) - Len(a) = Len(b) /\ Len(r) # 0
      BY <1>1, <1>2, <2>2
    <3>2. r[Len(r)] = b[Len(b)]
      BY <1>1, <3>1
    <3> QED BY <1>2, <2>2, <3>1, <3>2 DEF LastOf
  <2> QED BY <2>1, <2>2
<1> QED BY <1>3, <1>4, <1>5 DEF r, Inner

\* A part of a sequence.
IsPart(r, s, m, n) ==
  /\ r \in Seq(Nodes) /\ Len(r) = n - m + 1
  /\ \A i \in 1..(n - m + 1) : r[i] = s[m + i - 1]
  /\ Distinct(r) /\ \A x : x \in Elems(r) <=> \E i \in m..n : x = s[i]

LEMMA PartOf ==
  ASSUME NEW s \in Seq(Nodes), Distinct(s), NEW m \in Nat, NEW n \in Nat, 1 <= m, m <= n + 1, n <= Len(s)
  PROVE  IsPart(SubSeq(s, m, n), s, m, n)
<1> DEFINE r == SubSeq(s, m, n)
<1>0. Len(s) \in Nat
  OBVIOUS
<1>1. r \in Seq(Nodes) /\ Len(r) = n - m + 1 /\ \A i \in 1..(n - m + 1) : r[i] = s[m + i - 1]
  <2>1. \A i \in m..n : s[i] \in Nodes
    BY <1>0
  <2>2. /\ r \in Seq(Nodes)
        /\ Len(r) = IF m <= n THEN n - m + 1 ELSE 0
        /\ \A i \in 1..(n - m + 1) : r[i] = s[m + i - 1]
    BY <2>1, SubSeqProperties
  <2>3. (IF m <= n THEN n - m + 1 ELSE 0) = n - m + 1
    OBVIOUS
  <2> QED BY <2>2, <2>3
<1> HIDE DEF r
<1>2. \A i \in 1..Len(r) : m + i - 1 \in m..n /\ m + i - 1 \in 1..Len(s) /\ r[i] = s[m + i - 1]
  BY <1>0, <1>1
<1>3. ASSUME NEW i \in 1..Len(r), NEW j \in 1..Len(r), r[i] = r[j] PROVE i = j
  <2>1. m + i - 1 = m + j - 1
    BY <1>2, <1>3 DEF Distinct
  <2> QED BY <1>1, <2>1
<1>4. \A x \in Elems(r) : \E i \in m..n : x = s[i]
  BY <1>2 DEF Elems
<1>5. ASSUME NEW i \in m..n PROVE s[i] \in Elems(r)
  <2>1. i - m + 1 \in 1..Len(r) /\ i - m + 1 \in 1..(n - m + 1) /\ m + (i - m + 1) - 1 = i
    BY <1>0, <1>1
  <2>2. r[i - m + 1] = s[i]
    BY <1>1, <2>1
  <2> QED BY <2>1, <2>2 DEF Elems
<1> QED BY <1>1, <1>3, <1>4, <1>5 DEF r, IsPart, Distinct

\* The two parts of a sequence that is cut.
IsCut(s, p, a, b) ==
  /\ a \in Seq(Nodes) /\ Len(a) = p /\ \A i \in 1..p : a[i] = s[i]
  /\ b \in Seq(Nodes) /\ Len(b) = Len(s) - p /\ \A i \in 1..(Len(s) - p) : b[i] = s[p + i]
  /\ Distinct(a) /\ Distinct(b)
  /\ Elems(a) \cup Elems(b) = Elems(s) /\ Elems(a) \cap Elems(b) = {}

LEMMA CutElems ==
  ASSUME NEW s \in Seq(Nodes), Distinct(s), NEW p \in 0..Len(s)
  PROVE  IsCut(s, p, SubSeq(s, 1, p), SubSeq(s, p + 1, Len(s)))
<1> DEFINE a == SubSeq(s, 1, p)
           b == SubSeq(s, p + 1, Len(s))
<1>0. Len(s) \in Nat /\ p \in Nat /\ p <= Len(s)
  OBVIOUS
<1>1. /\ a \in Seq(Nodes) /\ Len(a) = p - 1 + 1 /\ \A i \in 1..(p - 1 + 1) : a[i] = s[1 + i - 1]
      /\ Distinct(a) /\ \A x : x \in Elems(a) <=> \E i \in 1..p : x = s[i]
  <2>1. 1 \in Nat /\ p \in Nat /\ 1 <= 1 /\ 1 <= p + 1 /\ p <= Len(s)
    BY <1>0
  <2>2. IsPart(SubSeq(s, 1, p), s, 1, p)
    BY <2>1, PartOf
  <2> QED BY <2>2 DEF IsPart
<1>2. /\ b \in Seq(Nodes) /\ Len(b) = Len(s) - (p + 1) + 1
      /\ \A i \in 1..(Len(s) - (p + 1) + 1) : b[i] = s[(p + 1) + i - 1]
      /\ Distinct(b) /\ \A x : x \in Elems(b) <=> \E i \in (p + 1)..Len(s) : x = s[i]
  <2>1. /\ p + 1 \in Nat /\ Len(s) \in Nat /\ 1 <= p + 1 /\ p + 1 <= Len(s) + 1
        /\ Len(s) <= Len(s)
    BY <1>0
  <2>2. IsPart(SubSeq(s, p + 1, Len(s)), s, p + 1, Len(s))
    BY <2>1, PartOf
  <2> QED BY <2>2 DEF IsPart
<1> HIDE DEF a, b
<1>3. Len(a) = p /\ \A i \in 1..p : a[i] = s[i]
  BY <1>0, <1>1
<1>4. Len(b) = Len(s) - p /\ \A i \in 1..(Len(s) - p) : b[i] = s[p + i]
  BY <1>0, <1>2
<1>5. \A i \in 1..Len(s) : i \in 1..p \/ i \in (p + 1)..Len(s)
  BY <1>0
<1>6. \A i \in 1..p, j \in (p + 1)..Len(s) : i # j /\ i \in 1..Len(s) /\ j \in 1..Len(s)
  BY <1>0
<1>7. Elems(a) \cup Elems(b) = Elems(s)
  <2>1. \A i \in 1..p : i \in 1..Len(s)
    BY <1>0
  <2>2. \A i \in (p + 1)..Len(s) : i \in 1..Len(s)
    BY <1>0
  <2>3. \A x : x \in Elems(s) <=> \E i \in 1..Len(s) : x = s[i]
    BY DEF Elems
  <2>4. Elems(s) \subseteq Elems(a) \cup Elems(b)
    BY <1>1, <1>2, <1>5, <2>3
  <2>5. Elems(a) \subseteq Elems(s)
    BY <1>1, <2>1, <2>3
  <2>6. Elems(b) \subseteq Elems(s)
    BY <1>2, <2>2, <2>3
  <2> QED BY <2>4, <2>5, <2>6
<1>8. Elems(a) \cap Elems(b) = {}
  <2> SUFFICES ASSUME NEW i \in 1..p, NEW j \in (p + 1)..Len(s), s[i] = s[j] PROVE FALSE
    BY <1>1, <1>2
  <2> QED BY <1>6 DEF Distinct
<1> QED BY <1>1, <1>2, <1>3, <1>4, <1>7, <1>8 DEF IsCut, a, b

LEMMA ReversedIs ==
  ASSUME NEW s \in Seq(Nodes), Distinct(s), NEW next, NEW prev, Inner(s, next, prev)
  PROVE  /\ Reversed(s) \in Seq(Nodes) /\ Len(Reversed(s)) = Len(s)
         /\ \A i \in 1..Len(s) : Reversed(s)[i] = s[Len(s) + 1 - i]
         /\ Distinct(Reversed(s)) /\ Elems(Reversed(s)) = Elems(s)
         /\ FirstOf(Reversed(s)) = LastOf(s) /\ LastOf(Reversed(s)) = FirstOf(s)
         /\ Inner(Reversed(s), prev, next)
<1> DEFINE r == Reversed(s)
<1>0. Len(s) \in Nat /\ \A i \in 1..Len(s) : s[i] \in Nodes /\ Len(s) + 1 - i \in 1..Len(s)
  OBVIOUS
<1>1. r \in Seq(Nodes) /\ Len(r) = Len(s) /\ \A i \in 1..Len(s) : r[i] = s[Len(s) + 1 - i]
  <2>1. r \in [1..Len(s) -> Nodes]
    BY <1>0 DEF Reversed
  <2>2. r \in Seq(Nodes)
    BY <1>0, <2>1 DEF Seq
  <2> QED BY <1>0, <2>1, <2>2 DEF Reversed
<1> HIDE DEF r
<1>2. ASSUME NEW i \in 1..Len(r), NEW j \in 1..Len(r), r[i] = r[j] PROVE i = j
  <2>1. Len(s) + 1 - i = Len(s) + 1 - j
    BY <1>0, <1>1, <1>2 DEF Distinct
  <2> QED BY <1>0, <1>1, <2>1
<1>3. Elems(r) \subseteq Elems(s)
  BY <1>0, <1>1 DEF Elems
<1>4. ASSUME NEW i \in 1..Len(s) PROVE s[i] \in Elems(r)
  <2>1. Len(s) + 1 - i \in 1..Len(s) /\ Len(s) + 1 - (Len(s) + 1 - i) = i
    BY <1>0
  <2>2. r[Len(s) + 1 - i] = s[i]
    BY <1>1, <2>1
  <2> QED BY <1>1, <2>1, <2>2 DEF Elems
<1>5. FirstOf(r) = LastOf(s) /\ LastOf(r) = FirstOf(s)
  <2>1. Len(s) # 0 => 1 \in 1..Len(s) /\ Len(s) \in 1..Len(s) /\ Len(s) + 1 - 1 = Len(s) /\ Len(s) + 1 - Len(s) = 1
    BY <1>0
  <2> QED BY <1>1, <2>1 DEF FirstOf, LastOf
<1>6. ASSUME NEW i \in 1..Len(r), i < Len(r) PROVE prev[r[i]] = r[i + 1] /\ next[r[i + 1]] = r[i]
  <2>1. /\ i \in 1..Len(s) /\ i + 1 \in 1..Len(s) /\ Len(s) - i \in 1..Len(s) /\ Len(s) - i < Len(s)
        /\ Len(s) + 1 - (i + 1) = Len(s) - i /\ (Len(s) - i) + 1 = Len(s) + 1 - i
    BY <1>0, <1>1, <1>6
  <2>2. r[i] = s[(Len(s) - i) + 1] /\ r[i + 1] = s[Len(s) - i]
    BY <1>1, <2>1
  <2> QED BY <2>1, <2>2 DEF Inner
<1>7. Elems(r) = Elems(s)
  BY <1>3, <1>4 DEF Elems
<1> QED BY <1>1, <1>2, <1>5, <1>6, <1>7 DEF r, Distinct, Inner

(* What the members of the lists stand for.                                  *)

Heap ==
  [first : [ListNames -> NodesOrNone], last : [ListNames -> NodesOrNone],
   count : [ListNames -> Int], cache : [ListNames -> NodesOrNone],
   used : [ListNames -> Int], free : SUBSET Nodes,
   next : [Nodes -> NodesOrNone], prev : [Nodes -> NodesOrNone],
   data : [Nodes -> Objects \cup {None}]]

Sequences == [ListNames -> Seq(Nodes)]

\* Each list has its nodes, linked both ways, and each cache some, linked one way.
Held(g, items) ==
  \A l \in ListNames : /\ g.first[l] = FirstOf(items[l]) /\ g.last[l] = LastOf(items[l])
                       /\ TwoWay(items[l], g.next, g.prev)
Spared(g, spare) ==
  \A l \in ListNames : /\ g.cache[l] = FirstOf(spare[l]) /\ Chained(spare[l], g.next)
                       /\ g.used[l] = Len(spare[l]) /\ Len(spare[l]) <= m_iCacheSize

\* No node is in two places, and each is in one, or loose.
Apart(items, spare, free, loose) ==
  /\ \A l \in ListNames : Distinct(items[l]) /\ Distinct(spare[l])
  /\ \A l, k \in ListNames : l # k => /\ Elems(items[l]) \cap Elems(items[k]) = {}
                                      /\ Elems(spare[l]) \cap Elems(spare[k]) = {}
  /\ \A l, k \in ListNames : Elems(items[l]) \cap Elems(spare[k]) = {}
  /\ \A l \in ListNames : /\ Elems(items[l]) \cap (free \cup loose) = {}
                          /\ Elems(spare[l]) \cap (free \cup loose) = {}
  /\ free \cap loose = {}
  /\ \A n \in Nodes : \/ n \in free \cup loose
                      \/ \E l \in ListNames : n \in Elems(items[l]) \/ n \in Elems(spare[l])

StandsFor(g, items, spare, loose) ==
  /\ items \in Sequences /\ spare \in Sequences
  /\ Held(g, items) /\ Spared(g, spare) /\ Apart(items, spare, g.free, loose)

LEMMA HeapTypes ==
  ASSUME NEW g \in Heap
  PROVE  /\ g.first \in [ListNames -> NodesOrNone] /\ g.last \in [ListNames -> NodesOrNone]
         /\ g.count \in [ListNames -> Int] /\ g.cache \in [ListNames -> NodesOrNone]
         /\ g.used \in [ListNames -> Int] /\ g.free \in SUBSET Nodes
         /\ g.next \in [Nodes -> NodesOrNone] /\ g.prev \in [Nodes -> NodesOrNone]
         /\ g.data \in [Nodes -> Objects \cup {None}]
BY DEF Heap

-----------------------------------------------------------------------------
(* A node for a new object.                                                  *)

LEMMA NodeForIs ==
  ASSUME NEW g \in Heap, NEW l \in ListNames, NodeFor(g, l) # None
  PROVE  /\ NodeFor(g, l) \in Nodes
         /\ g.cache[l] # None => NodeFor(g, l) = g.cache[l]
         /\ g.cache[l] = None => NodeFor(g, l) \in g.free
<1>1. g.cache[l] \in NodesOrNone /\ g.free \subseteq Nodes
  BY HeapTypes
<1>2. CASE g.cache[l] # None
  <2>1. NodeFor(g, l) = g.cache[l]
    BY <1>2 DEF NodeFor
  <2> QED BY <1>1, <1>2, <2>1 DEF NodesOrNone
<1>3. CASE g.cache[l] = None
  <2>1. g.free # {}
    BY <1>3 DEF NodeFor
  <2>2. NodeFor(g, l) = CHOOSE n \in g.free : TRUE
    BY <1>3, <2>1 DEF NodeFor
  <2>3. (CHOOSE n \in g.free : TRUE) \in g.free
    BY <2>1
  <2> QED BY <1>1, <1>3, <2>2, <2>3
<1> QED BY <1>2, <1>3

Took(g, r, l, n) ==
  /\ n \in Nodes
  /\ r.first = g.first /\ r.last = g.last /\ r.count = g.count
  /\ r.next = g.next /\ r.prev = g.prev /\ r.data = g.data
  /\ g.cache[l] # None => /\ r.cache = [g.cache EXCEPT ![l] = g.next[n]] /\ n = g.cache[l]
                          /\ r.used = [g.used EXCEPT ![l] = @ - 1] /\ r.free = g.free
  /\ g.cache[l] = None => /\ r.cache = g.cache /\ r.used = g.used /\ r.free = g.free \ {n}
                          /\ n \in g.free
  /\ r \in Heap

LEMMA TakeFields ==
  ASSUME NEW g \in Heap, NEW l \in ListNames, NodeFor(g, l) # None
  PROVE  Took(g, TakeNode(g, l), l, NodeFor(g, l))
<1> DEFINE n == NodeFor(g, l)
           r == TakeNode(g, l)
<1>1. /\ n \in Nodes /\ (g.cache[l] = n <=> g.cache[l] # None) /\ (g.cache[l] = None => n \in g.free)
  BY NodeForIs, ListConstants
<1>2. r = IF g.cache[l] = n THEN [g EXCEPT !.cache[l] = g.next[n], !.used[l] = @ - 1]
          ELSE [g EXCEPT !.free = @ \ {n}]
  BY DEF TakeNode
<1> SUFFICES Took(g, r, l, n)
  OBVIOUS
<1> HIDE DEF n, r
<1>3. CASE g.cache[l] = n
  <2>1. r = [g EXCEPT !.cache[l] = g.next[n], !.used[l] = @ - 1]
    BY <1>2, <1>3
  <2>2. /\ r.first = g.first /\ r.last = g.last /\ r.count = g.count
        /\ r.next = g.next /\ r.prev = g.prev /\ r.data = g.data /\ r.free = g.free
        /\ r.cache = [g.cache EXCEPT ![l] = g.next[n]] /\ r.used = [g.used EXCEPT ![l] = @ - 1]
    BY <2>1 DEF Heap
  <2>3. g.next[n] \in NodesOrNone /\ g.used[l] - 1 \in Int
    BY <1>1, HeapTypes
  <2>4. [g.cache EXCEPT ![l] = g.next[n]] \in [ListNames -> NodesOrNone]
    BY <2>3, HeapTypes
  <2>5. [g.used EXCEPT ![l] = @ - 1] \in [ListNames -> Int]
    BY <2>3, HeapTypes
  <2>6. r \in Heap
    BY <2>1, <2>4, <2>5 DEF Heap
  <2> QED BY <1>1, <1>3, <2>2, <2>6 DEF Took
<1>4. CASE g.cache[l] # n
  <2>1. r = [g EXCEPT !.free = @ \ {n}]
    BY <1>2, <1>4
  <2>2. /\ r.first = g.first /\ r.last = g.last /\ r.count = g.count /\ r.cache = g.cache
        /\ r.used = g.used /\ r.next = g.next /\ r.prev = g.prev /\ r.data = g.data
        /\ r.free = g.free \ {n}
    BY <2>1 DEF Heap
  <2>3. g.free \ {n} \in SUBSET Nodes
    BY HeapTypes
  <2>4. r \in Heap
    BY <2>1, <2>3 DEF Heap
  <2> QED BY <1>1, <1>4, <2>2, <2>4 DEF Took
<1> QED BY <1>3, <1>4

\* The rest of a chain.
IsTail(r, s, link) ==
  /\ r \in Seq(Nodes) /\ Len(r) = Len(s) - 1 /\ Distinct(r) /\ Chained(r, link)
  /\ FirstOf(r) = link[FirstOf(s)]
  /\ FirstOf(s) \in Nodes /\ FirstOf(s) \notin Elems(r)
  /\ Elems(s) = Elems(r) \cup {FirstOf(s)}

LEMMA TailOf ==
  ASSUME NEW s \in Seq(Nodes), Distinct(s), s # <<>>, NEW link, Chained(s, link)
  PROVE  IsTail(SubSeq(s, 2, Len(s)), s, link)
<1> DEFINE r == SubSeq(s, 2, Len(s))
<1>0. Len(s) \in Nat /\ Len(s) >= 1 /\ 1 \in 0..Len(s) /\ 1 \in 1..Len(s)
  BY Ends
<1>1. /\ SubSeq(s, 1, 1) \in Seq(Nodes) /\ Len(SubSeq(s, 1, 1)) = 1 /\ SubSeq(s, 1, 1)[1] = s[1]
      /\ r \in Seq(Nodes) /\ Len(r) = Len(s) - 1 /\ \A i \in 1..(Len(s) - 1) : r[i] = s[1 + i]
      /\ Distinct(r)
      /\ Elems(SubSeq(s, 1, 1)) \cup Elems(r) = Elems(s) /\ Elems(SubSeq(s, 1, 1)) \cap Elems(r) = {}
  <2>1. 1 + 1 = 2 /\ 1 \in 1..1
    OBVIOUS
  <2>2. IsCut(s, 1, SubSeq(s, 1, 1), SubSeq(s, 1 + 1, Len(s)))
    BY <1>0, CutElems
  <2>3. IsCut(s, 1, SubSeq(s, 1, 1), r)
    BY <2>1, <2>2
  <2> QED BY <2>1, <2>3 DEF IsCut
<1> HIDE DEF r
<1>2. FirstOf(s) = s[1] /\ s[1] \in Nodes
  BY <1>0 DEF FirstOf
<1>3. Elems(SubSeq(s, 1, 1)) = {s[1]}
  <2>1. \A i \in 1..1 : i = 1
    OBVIOUS
  <2>2. 1 \in 1..1
    OBVIOUS
  <2> QED BY <1>1, <2>1, <2>2 DEF Elems
<1>4. Chained(r, link)
  <2> SUFFICES ASSUME NEW i \in 1..Len(r) PROVE link[r[i]] = IF i < Len(r) THEN r[i + 1] ELSE None
    BY DEF Chained
  <2>1. /\ i \in 1..(Len(s) - 1) /\ 1 + i \in 1..Len(s) /\ (i < Len(r) <=> 1 + i < Len(s))
        /\ (i < Len(r) => i + 1 \in 1..(Len(s) - 1) /\ 1 + (i + 1) = (1 + i) + 1)
    BY <1>0, <1>1
  <2>2. link[s[1 + i]] = IF 1 + i < Len(s) THEN s[(1 + i) + 1] ELSE None
    BY <2>1 DEF Chained
  <2> QED BY <1>1, <2>1, <2>2
<1>5. FirstOf(r) = link[s[1]]
  <2>1. link[s[1]] = IF 1 < Len(s) THEN s[2] ELSE None
    BY <1>0 DEF Chained
  <2>2. CASE Len(s) = 1
    BY <1>1, <2>1, <2>2 DEF FirstOf
  <2>3. CASE Len(s) # 1
    <3>1. 1 < Len(s) /\ Len(r) # 0 /\ 1 \in 1..(Len(s) - 1) /\ 1 + 1 = 2
      BY <1>0, <1>1, <2>3
    <3> QED BY <1>1, <2>1, <3>1 DEF FirstOf
  <2> QED BY <2>2, <2>3
<1> QED BY <1>1, <1>2, <1>3, <1>4, <1>5 DEF IsTail, r

\* The node is taken out of its cache, or was in no list's.
LEMMA TakeLeaves ==
  ASSUME NEW g \in Heap, NEW l \in ListNames, NEW items, NEW spare, StandsFor(g, items, spare, {}),
         NEW n, n = NodeFor(g, l), n # None, NEW r, r = TakeNode(g, l)
  PROVE  \E spare2 : StandsFor(r, items, spare2, {n})
<1>1. /\ r.first = g.first /\ r.last = g.last /\ r.next = g.next /\ r.prev = g.prev /\ r \in Heap
      /\ n \in Nodes
  <2>1. Took(g, r, l, n)
    BY TakeFields
  <2> QED BY <2>1 DEF Took
<1>2. /\ items \in Sequences /\ spare \in Sequences
      /\ Held(g, items) /\ Spared(g, spare) /\ Apart(items, spare, g.free, {})
  BY DEF StandsFor
<1>3. Held(r, items)
  BY <1>1, <1>2 DEF Held
<1>4. CASE g.cache[l] # None
  <2>1. /\ r.cache = [g.cache EXCEPT ![l] = g.next[n]] /\ r.used = [g.used EXCEPT ![l] = @ - 1]
        /\ r.free = g.free /\ n = g.cache[l]
    <3>1. Took(g, r, l, n)
      BY TakeFields
    <3> QED BY <1>4, <3>1 DEF Took
  <2> DEFINE rest == SubSeq(spare[l], 2, Len(spare[l]))
             spare2 == [spare EXCEPT ![l] = rest]
  <2>2. spare[l] \in Seq(Nodes) /\ n = FirstOf(spare[l]) /\ spare[l] # <<>> /\ Distinct(spare[l])
        /\ Chained(spare[l], g.next) /\ g.used[l] = Len(spare[l]) /\ Len(spare[l]) <= m_iCacheSize
    <3>1. spare[l] \in Seq(Nodes)
      BY <1>2 DEF Sequences
    <3>2. n = FirstOf(spare[l]) /\ Chained(spare[l], g.next) /\ g.used[l] = Len(spare[l])
          /\ Len(spare[l]) <= m_iCacheSize
      BY <1>2, <2>1 DEF Spared
    <3> QED BY <1>2, <3>1, <3>2, Ends DEF Apart
  <2>3. /\ rest \in Seq(Nodes) /\ Len(rest) = Len(spare[l]) - 1 /\ Distinct(rest) /\ Chained(rest, g.next)
        /\ FirstOf(rest) = g.next[n] /\ n \notin Elems(rest) /\ Elems(spare[l]) = Elems(rest) \cup {n}
    <3>1. IsTail(rest, spare[l], g.next)
      BY <2>2, TailOf
    <3> HIDE DEF rest
    <3> QED BY <2>2, <3>1 DEF IsTail
  <2> HIDE DEF rest
  <2>4. /\ spare2 \in Sequences /\ spare2[l] = rest
        /\ \A k \in ListNames : k # l => spare2[k] = spare[k]
    BY <1>2, <2>3 DEF Sequences
  <2> HIDE DEF spare2
  <2>5. Spared(r, spare2)
    <3> SUFFICES ASSUME NEW k \in ListNames
                 PROVE  /\ r.cache[k] = FirstOf(spare2[k]) /\ Chained(spare2[k], r.next)
                        /\ r.used[k] = Len(spare2[k]) /\ Len(spare2[k]) <= m_iCacheSize
      BY DEF Spared
    <3>0. g.cache \in [ListNames -> NodesOrNone] /\ g.used \in [ListNames -> Int]
      BY HeapTypes
    <3>1. CASE k = l
      <4>1. r.cache[k] = g.next[n] /\ r.used[k] = g.used[l] - 1
        BY <2>1, <3>0, <3>1
      <4>2. Len(spare[l]) \in Nat /\ m_iCacheSize \in Nat
        BY <2>2, ListConstants
      <4>3. Len(rest) <= m_iCacheSize
        BY <2>2, <2>3, <4>2
      <4> QED BY <1>1, <2>2, <2>3, <2>4, <3>1, <4>1, <4>3
    <3>2. CASE k # l
      <4>1. r.cache[k] = g.cache[k] /\ r.used[k] = g.used[k]
        BY <2>1, <3>0, <3>2
      <4> QED BY <1>1, <1>2, <2>4, <3>2, <4>1 DEF Spared
    <3> QED BY <3>1, <3>2
  <2>6. Apart(items, spare2, r.free, {n})
    <3>1. \A k \in ListNames : Elems(spare2[k]) \subseteq Elems(spare[k]) /\ n \notin Elems(spare2[k])
      BY <1>2, <2>3, <2>4 DEF Apart
    <3>2. \A k \in ListNames : Distinct(items[k]) /\ Distinct(spare2[k])
      BY <1>2, <2>3, <2>4 DEF Apart
    <3>3. \A k \in ListNames : n \notin Elems(items[k])
      BY <1>2, <2>3 DEF Apart
    <3>4. n \notin g.free
      BY <1>2, <2>3 DEF Apart
    <3>5. \A x \in Nodes : \/ x \in r.free \cup {n}
                           \/ \E k \in ListNames : x \in Elems(items[k]) \/ x \in Elems(spare2[k])
      <4> TAKE x \in Nodes
      <4>1. PICK k \in ListNames : x \in g.free \/ x \in Elems(items[k]) \/ x \in Elems(spare[k])
        BY <1>2 DEF Apart
      <4>2. x \in Elems(spare[k]) => x = n \/ x \in Elems(spare2[k])
        BY <2>3, <2>4
      <4> QED BY <2>1, <4>1, <4>2
    <3>6. \A k, m \in ListNames : k # m => /\ Elems(items[k]) \cap Elems(items[m]) = {}
                                           /\ Elems(spare2[k]) \cap Elems(spare2[m]) = {}
      BY <1>2, <3>1 DEF Apart
    <3>7. \A k, m \in ListNames : Elems(items[k]) \cap Elems(spare2[m]) = {}
      BY <1>2, <3>1 DEF Apart
    <3>8. \A k \in ListNames : /\ Elems(items[k]) \cap (r.free \cup {n}) = {}
                               /\ Elems(spare2[k]) \cap (r.free \cup {n}) = {}
      BY <1>2, <2>1, <3>1, <3>3 DEF Apart
    <3>9. r.free \cap {n} = {}
      BY <2>1, <3>4
    <3> QED BY <3>2, <3>5, <3>6, <3>7, <3>8, <3>9 DEF Apart
  <2> QED BY <1>2, <1>3, <2>4, <2>5, <2>6 DEF StandsFor
<1>5. CASE g.cache[l] = None
  <2>1. r.cache = g.cache /\ r.used = g.used /\ r.free = g.free \ {n} /\ n \in g.free
    <3>1. Took(g, r, l, n)
      BY TakeFields
    <3> QED BY <1>5, <3>1 DEF Took
  <2>2. Spared(r, spare)
    BY <1>1, <1>2, <2>1 DEF Spared
  <2>3. Apart(items, spare, r.free, {n})
    <3>1. r.free \cup {n} = g.free \cup {}
      BY <2>1
    <3>2. r.free \cap {n} = {}
      BY <2>1
    <3> QED BY <1>2, <3>1, <3>2 DEF Apart
  <2> QED BY <1>2, <1>3, <2>2, <2>3 DEF StandsFor
<1> QED BY <1>4, <1>5

(* A node goes into a list.                                                  *)

LinkedIn(t, r, s, l, p, n, o) ==
  /\ r.first = [t.first EXCEPT ![l] = IF p = 1 THEN n ELSE @]
  /\ r.last = [t.last EXCEPT ![l] = IF p = Len(s) + 1 THEN n ELSE @]
  /\ r.count = [t.count EXCEPT ![l] = @ + 1] /\ r.data = [t.data EXCEPT ![n] = o]
  /\ r.cache = t.cache /\ r.used = t.used /\ r.free = t.free
  /\ LinkedNodes(t.next, t.prev, r.next, r.prev, s, p, n)

LEMMA LinkLeaves ==
  ASSUME NEW t \in Heap, NEW r \in Heap, NEW n \in Nodes, NEW items, NEW spare,
         StandsFor(t, items, spare, {n}), NEW l \in ListNames, NEW p \in 1..(Len(items[l]) + 1),
         NEW o, LinkedIn(t, r, items[l], l, p, n, o)
  PROVE  StandsFor(r, [items EXCEPT ![l] = InsertedAt(@, p, n)], spare, {})
<1> DEFINE s == items[l]
           longer == InsertedAt(s, p, n)
           items2 == [items EXCEPT ![l] = longer]
<1>1. /\ items \in Sequences /\ spare \in Sequences
      /\ Held(t, items) /\ Spared(t, spare) /\ Apart(items, spare, t.free, {n})
  BY DEF StandsFor
<1>2. s \in Seq(Nodes) /\ Distinct(s) /\ n \notin Elems(s) /\ Len(s) \in Nat
      /\ p \in Nat /\ p >= 1 /\ p <= Len(s) + 1 /\ TwoWay(s, t.next, t.prev)
  <2>1. s \in Seq(Nodes)
    BY <1>1 DEF Sequences
  <2>2. Len(s) \in Nat
    BY <2>1
  <2>3. Distinct(s) /\ n \notin Elems(s)
    BY <1>1 DEF Apart
  <2>4. p \in Nat /\ p >= 1 /\ p <= Len(s) + 1
    BY <2>2
  <2> QED BY <1>1, <2>1, <2>2, <2>3, <2>4 DEF Held
<1>3. /\ longer \in Seq(Nodes) /\ Distinct(longer) /\ Elems(longer) = Elems(s) \cup {n}
  BY <1>2, InsertedElems
<1>4. \A k \in ListNames : items[k] \in Seq(Nodes) /\ spare[k] \in Seq(Nodes)
  BY <1>1 DEF Sequences
<1>5. LinkedNodes(t.next, t.prev, r.next, r.prev, s, p, n)
  BY DEF LinkedIn
<1> HIDE DEF s
<1>6. /\ \A i \in 1..Len(s) : s[i] \in Nodes /\ s[i] \in Elems(s) /\ s[i] # n
      /\ p > 1 => p - 1 \in 1..Len(s)
      /\ p <= Len(s) => p \in 1..Len(s)
  BY <1>2, Ends
<1>7. /\ TwoWay(longer, r.next, r.prev)
      /\ FirstOf(longer) = IF p = 1 THEN n ELSE FirstOf(s)
      /\ LastOf(longer) = IF p = Len(s) + 1 THEN n ELSE LastOf(s)
  <2>1. p \in 1..(Len(s) + 1)
    BY <1>2
  <2>2. IsLonger(InsertedAt(s, p, n), s, p, n, r.next, r.prev)
    BY <1>2, <1>5, <2>1, InsertedLinks
  <2> QED BY <2>2 DEF IsLonger
<1> HIDE DEF longer
<1>8. items2 \in Sequences /\ items2[l] = longer /\ \A k \in ListNames : k # l => items2[k] = items[k]
  BY <1>1, <1>3 DEF Sequences
<1> HIDE DEF items2
<1>9. Held(r, items2)
  <2> SUFFICES ASSUME NEW k \in ListNames
               PROVE  /\ r.first[k] = FirstOf(items2[k]) /\ r.last[k] = LastOf(items2[k])
                      /\ TwoWay(items2[k], r.next, r.prev)
    BY DEF Held
  <2>1. /\ r.first[k] = IF k = l /\ p = 1 THEN n ELSE t.first[k]
        /\ r.last[k] = IF k = l /\ p = Len(s) + 1 THEN n ELSE t.last[k]
    BY HeapTypes DEF LinkedIn, s
  <2>2. t.first[k] = FirstOf(items[k]) /\ t.last[k] = LastOf(items[k]) /\ TwoWay(items[k], t.next, t.prev)
    BY <1>1 DEF Held
  <2>3. CASE k = l
    BY <1>7, <1>8, <2>1, <2>2, <2>3 DEF s
  <2>4. CASE k # l
    <3>1. \A x \in Elems(items[k]) : x \in Nodes /\ x # n /\ x \notin Elems(s)
      <4>1. Elems(items[k]) \subseteq Nodes
        BY <1>4, Ends
      <4>2. n \notin Elems(items[k]) /\ Elems(items[k]) \cap Elems(s) = {}
        BY <1>1, <2>4 DEF Apart, s
      <4> QED BY <4>1, <4>2
    <3>2. \A x \in Elems(items[k]) : r.next[x] = t.next[x] /\ r.prev[x] = t.prev[x]
      BY <1>5, <1>6, <3>1 DEF LinkedNodes
    <3>3. TwoWay(items[k], r.next, r.prev)
      <4>1. Unmoved(items[k], t.next, r.next) /\ Unmoved(items[k], t.prev, r.prev)
        BY <3>2 DEF Unmoved
      <4> QED BY <1>4, <2>2, <4>1, TwoWayFrame
    <3> QED BY <1>8, <2>1, <2>2, <2>4, <3>3
  <2> QED BY <2>3, <2>4
<1>10. Spared(r, spare)
  <2> SUFFICES ASSUME NEW k \in ListNames PROVE Chained(spare[k], r.next)
    BY <1>1 DEF Spared, LinkedIn
  <2>1. \A x \in Elems(spare[k]) : x \in Nodes /\ x # n /\ x \notin Elems(s)
    <3>1. Elems(spare[k]) \subseteq Nodes
      BY <1>4, Ends
    <3>2. n \notin Elems(spare[k]) /\ Elems(s) \cap Elems(spare[k]) = {}
      BY <1>1 DEF Apart, s
    <3> QED BY <3>1, <3>2
  <2>2. \A x \in Elems(spare[k]) : r.next[x] = t.next[x]
    BY <1>5, <1>6, <2>1 DEF LinkedNodes
  <2>3. Unmoved(spare[k], t.next, r.next)
    BY <2>2 DEF Unmoved
  <2>4. Chained(spare[k], t.next)
    BY <1>1 DEF Spared
  <2> QED BY <1>4, <2>3, <2>4, ChainedFrame
<1>11. Apart(items2, spare, r.free, {})
  <2>0. r.free = t.free
    BY DEF LinkedIn
  <2>1. \A k \in ListNames : Distinct(items2[k]) /\ Distinct(spare[k])
    BY <1>1, <1>3, <1>8 DEF Apart
  <2>2. \A k \in ListNames : Elems(items2[k]) \subseteq Elems(items[k]) \cup {n}
    BY <1>3, <1>8 DEF s
  <2>3. \A k \in ListNames : k # l => Elems(items2[k]) = Elems(items[k])
    BY <1>8
  <2>4. \A k \in ListNames : n \notin Elems(items[k]) /\ n \notin Elems(spare[k])
    BY <1>1 DEF Apart
  <2>5. \A k, m \in ListNames : k # m => Elems(items2[k]) \cap Elems(items2[m]) = {}
    <3> SUFFICES ASSUME NEW k \in ListNames, NEW m \in ListNames, k # m
                 PROVE  Elems(items2[k]) \cap Elems(items2[m]) = {}
      OBVIOUS
    <3>1. Elems(items[k]) \cap Elems(items[m]) = {}
      BY <1>1 DEF Apart
    <3>2. k # l \/ m # l
      OBVIOUS
    <3> QED BY <2>2, <2>3, <2>4, <3>1, <3>2
  <2>6. \A k, m \in ListNames : k # m => Elems(spare[k]) \cap Elems(spare[m]) = {}
    BY <1>1 DEF Apart
  <2>7. \A k, m \in ListNames : Elems(items2[k]) \cap Elems(spare[m]) = {}
    <3> SUFFICES ASSUME NEW k \in ListNames, NEW m \in ListNames
                 PROVE  Elems(items2[k]) \cap Elems(spare[m]) = {}
      OBVIOUS
    <3>1. Elems(items[k]) \cap Elems(spare[m]) = {}
      BY <1>1 DEF Apart
    <3> QED BY <2>2, <2>4, <3>1
  <2>8. \A k \in ListNames : /\ Elems(items2[k]) \cap (r.free \cup {}) = {}
                             /\ Elems(spare[k]) \cap (r.free \cup {}) = {}
    <3>1. n \notin t.free
      BY <1>1 DEF Apart
    <3>2. \A k \in ListNames : Elems(items[k]) \cap t.free = {} /\ Elems(spare[k]) \cap t.free = {}
      BY <1>1 DEF Apart
    <3> QED BY <2>0, <2>2, <3>1, <3>2
  <2>9. \A x \in Nodes : \/ x \in r.free \cup {}
                         \/ \E k \in ListNames : x \in Elems(items2[k]) \/ x \in Elems(spare[k])
    <3> TAKE x \in Nodes
    <3>1. CASE x = n
      BY <1>3, <1>8, <3>1
    <3>2. CASE x # n
      <4>1. PICK k \in ListNames : x \in t.free \/ x \in Elems(items[k]) \/ x \in Elems(spare[k])
        BY <1>1, <3>2 DEF Apart
      <4>2. x \in Elems(items[k]) => x \in Elems(items2[k])
        BY <1>3, <1>8 DEF s
      <4> QED BY <2>0, <4>1, <4>2
    <3> QED BY <3>1, <3>2
  <2>10. r.free \cap {} = {}
    OBVIOUS
  <2> QED BY <2>1, <2>5, <2>6, <2>7, <2>8, <2>9, <2>10 DEF Apart
<1> QED BY <1>1, <1>8, <1>9, <1>10, <1>11 DEF StandsFor, items2, longer, s

-----------------------------------------------------------------------------
(* The operations that add put it there.                                     *)

IsLinked(t, u, l, n, before, after, o) ==
  /\ u.first = t.first /\ u.last = t.last /\ u.cache = t.cache /\ u.used = t.used /\ u.free = t.free
  /\ u.data = [t.data EXCEPT ![n] = o] /\ u.prev = [t.prev EXCEPT ![n] = before]
  /\ u.next = [t.next EXCEPT ![n] = after] /\ u.count = [t.count EXCEPT ![l] = @ + 1]
  /\ u \in Heap

LEMMA LinkedFields ==
  ASSUME NEW t \in Heap, NEW l \in ListNames, NEW n \in Nodes, NEW before \in NodesOrNone,
         NEW after \in NodesOrNone, NEW o \in Objects \cup {None}
  PROVE  IsLinked(t, Linked(t, l, n, before, after, o), l, n, before, after, o)
<1> DEFINE u == Linked(t, l, n, before, after, o)
<1>1. u = [t EXCEPT !.data[n] = o, !.prev[n] = before, !.next[n] = after, !.count[l] = @ + 1]
  BY DEF Linked
<1> SUFFICES IsLinked(t, u, l, n, before, after, o)
  OBVIOUS
<1> HIDE DEF u
<1>2. /\ u.first = t.first /\ u.last = t.last /\ u.cache = t.cache /\ u.used = t.used /\ u.free = t.free
      /\ u.data = [t.data EXCEPT ![n] = o] /\ u.prev = [t.prev EXCEPT ![n] = before]
      /\ u.next = [t.next EXCEPT ![n] = after] /\ u.count = [t.count EXCEPT ![l] = @ + 1]
  BY <1>1 DEF Heap
<1>3. /\ [t.data EXCEPT ![n] = o] \in [Nodes -> Objects \cup {None}]
      /\ [t.prev EXCEPT ![n] = before] \in [Nodes -> NodesOrNone]
      /\ [t.next EXCEPT ![n] = after] \in [Nodes -> NodesOrNone]
  BY HeapTypes
<1>4. [t.count EXCEPT ![l] = @ + 1] \in [ListNames -> Int]
  BY HeapTypes
<1>5. u \in Heap
  BY <1>1, <1>3, <1>4 DEF Heap
<1> QED BY <1>2, <1>5 DEF IsLinked

\* What the operations do with a linked node: its neighbours, or the ends, get it.
Placed(u, r, l, n, before, after) ==
  /\ r.first = IF before = None THEN [u.first EXCEPT ![l] = n] ELSE u.first
  /\ r.last = IF after = None THEN [u.last EXCEPT ![l] = n] ELSE u.last
  /\ r.next = IF before = None THEN u.next ELSE [u.next EXCEPT ![before] = n]
  /\ r.prev = IF after = None THEN u.prev ELSE [u.prev EXCEPT ![after] = n]
  /\ r.count = u.count /\ r.data = u.data
  /\ r.cache = u.cache /\ r.used = u.used /\ r.free = u.free

BeforeOf(s, p) == IF p > 1 THEN s[p - 1] ELSE None
AfterOf(s, p) == IF p <= Len(s) THEN s[p] ELSE None

LEMMA PlacedLinks ==
  ASSUME NEW t \in Heap, NEW l \in ListNames, NEW n \in Nodes, NEW s \in Seq(Nodes), Distinct(s),
         n \notin Elems(s), NEW p \in 1..(Len(s) + 1), NEW o, NEW u, NEW r,
         IsLinked(t, u, l, n, BeforeOf(s, p), AfterOf(s, p), o),
         Placed(u, r, l, n, BeforeOf(s, p), AfterOf(s, p))
  PROVE  LinkedIn(t, r, s, l, p, n, o)
<1> DEFINE before == BeforeOf(s, p)
           after == AfterOf(s, p)
<1>1. Len(s) \in Nat /\ p \in Nat /\ p >= 1 /\ p <= Len(s) + 1
  OBVIOUS
<1>2. p > 1 => p - 1 \in 1..Len(s) /\ s[p - 1] \in Nodes /\ s[p - 1] # n
  BY <1>1, Ends
<1>3. p <= Len(s) => p \in 1..Len(s) /\ s[p] \in Nodes /\ s[p] # n
  BY <1>1, Ends
<1>4. /\ n # before /\ n # after /\ before \in NodesOrNone /\ after \in NodesOrNone
      /\ (before = None <=> p = 1) /\ (after = None <=> p = Len(s) + 1)
  BY <1>1, <1>2, <1>3, ListConstants DEF NodesOrNone, BeforeOf, AfterOf
<1>5. /\ t.next \in [Nodes -> NodesOrNone] /\ t.prev \in [Nodes -> NodesOrNone]
      /\ t.first \in [ListNames -> NodesOrNone] /\ t.last \in [ListNames -> NodesOrNone]
  BY HeapTypes
<1> HIDE DEF before, after
<1>6. /\ u.first = t.first /\ u.last = t.last
      /\ u.prev = [t.prev EXCEPT ![n] = before] /\ u.next = [t.next EXCEPT ![n] = after]
  BY DEF IsLinked, before, after
<1>7. /\ r.next = IF before = None THEN u.next ELSE [u.next EXCEPT ![before] = n]
      /\ r.prev = IF after = None THEN u.prev ELSE [u.prev EXCEPT ![after] = n]
      /\ r.first = IF before = None THEN [u.first EXCEPT ![l] = n] ELSE u.first
      /\ r.last = IF after = None THEN [u.last EXCEPT ![l] = n] ELSE u.last
  BY DEF Placed, before, after
<1>8. \A x \in Nodes : r.next[x] = IF x = before THEN n ELSE IF x = n THEN after ELSE t.next[x]
  BY <1>4, <1>5, <1>6, <1>7, ListConstants DEF NodesOrNone
<1>9. \A x \in Nodes : r.prev[x] = IF x = after THEN n ELSE IF x = n THEN before ELSE t.prev[x]
  BY <1>4, <1>5, <1>6, <1>7, ListConstants DEF NodesOrNone
<1>10. LinkedNodes(t.next, t.prev, r.next, r.prev, s, p, n)
  <2>1. /\ before = (IF p > 1 THEN s[p - 1] ELSE None)
        /\ after = (IF p <= Len(s) THEN s[p] ELSE None)
    BY DEF before, after, BeforeOf, AfterOf
  <2>2. r.next[n] = after /\ r.prev[n] = before
    BY <1>4, <1>8, <1>9
  <2>3. p > 1 => r.next[s[p - 1]] = n
    BY <1>2, <1>8, <2>1
  <2>4. p <= Len(s) => r.prev[s[p]] = n
    BY <1>3, <1>9, <2>1
  <2>5. \A x \in Nodes : x # n /\ (p > 1 => x # s[p - 1]) => r.next[x] = t.next[x]
    BY <1>8, <2>1, ListConstants
  <2>6. \A x \in Nodes : x # n /\ (p <= Len(s) => x # s[p]) => r.prev[x] = t.prev[x]
    BY <1>9, <2>1, ListConstants
  <2> QED BY <2>1, <2>2, <2>3, <2>4, <2>5, <2>6 DEF LinkedNodes
<1>11. r.first = [t.first EXCEPT ![l] = IF p = 1 THEN n ELSE @]
  BY <1>4, <1>5, <1>6, <1>7
<1>12. r.last = [t.last EXCEPT ![l] = IF p = Len(s) + 1 THEN n ELSE @]
  BY <1>4, <1>5, <1>6, <1>7
<1> QED BY <1>10, <1>11, <1>12 DEF LinkedIn, Placed, IsLinked

-----------------------------------------------------------------------------
(* The operations, each where its comment says.                              *)

Adds(g, r, items, l, p, n, o) ==
  /\ r \in Heap /\ n \in Nodes
  /\ r.data = [g.data EXCEPT ![n] = o] /\ r.count = [g.count EXCEPT ![l] = @ + 1]
  /\ \A k \in ListNames : n \notin Elems(items[k])
  /\ \E spare : StandsFor(r, [items EXCEPT ![l] = InsertedAt(@, p, n)], spare, {})

Ready(g, items, spare, l, n) ==
  /\ StandsFor(g, items, spare, {}) /\ n = NodeFor(g, l) /\ n # None

\* What the operations start from: the node is taken and linked.
LEMMA AddsWhere ==
  ASSUME NEW g \in Heap, NEW l \in ListNames, NEW items, NEW spare, NEW n, Ready(g, items, spare, l, n),
         NEW p \in 1..(Len(items[l]) + 1), NEW o \in Objects,
         NEW r, r \in Heap,
         Placed(Linked(TakeNode(g, l), l, n, BeforeOf(items[l], p), AfterOf(items[l], p), o),
                r, l, n, BeforeOf(items[l], p), AfterOf(items[l], p))
  PROVE  Adds(g, r, items, l, p, n, o)
<1> DEFINE t == TakeNode(g, l)
           before == BeforeOf(items[l], p)
           after == AfterOf(items[l], p)
           u == Linked(t, l, n, before, after, o)
<1>1. StandsFor(g, items, spare, {}) /\ n = NodeFor(g, l) /\ n # None
  BY DEF Ready
<1>2. Took(g, t, l, n)
  BY <1>1, TakeFields
<1>3. PICK spare2 : StandsFor(t, items, spare2, {n})
  BY <1>1, TakeLeaves
<1> HIDE DEF t
<1>4. n \in Nodes /\ t \in Heap /\ t.data = g.data /\ t.count = g.count
  BY <1>2 DEF Took
<1>5. items[l] \in Seq(Nodes) /\ Distinct(items[l]) /\ n \notin Elems(items[l])
  BY <1>3 DEF StandsFor, Sequences, Apart
<1>6. before \in NodesOrNone /\ after \in NodesOrNone
  <2>1. Len(items[l]) \in Nat /\ p \in Nat /\ p >= 1 /\ p <= Len(items[l]) + 1
    BY <1>5
  <2>2. /\ p > 1 => p - 1 \in 1..Len(items[l])
        /\ p <= Len(items[l]) => p \in 1..Len(items[l])
    BY <2>1
  <2> QED BY <1>5, <2>2, Ends DEF NodesOrNone, BeforeOf, AfterOf
<1>7. IsLinked(t, u, l, n, before, after, o)
  <2>1. o \in Objects \cup {None}
    OBVIOUS
  <2> HIDE DEF before, after
  <2> QED BY <1>4, <1>6, <2>1, LinkedFields
<1>8. Placed(u, r, l, n, before, after)
  BY DEF t
<1> HIDE DEF u
<1>9. LinkedIn(t, r, items[l], l, p, n, o)
  BY <1>4, <1>5, <1>7, <1>8, PlacedLinks
<1>10. StandsFor(r, [items EXCEPT ![l] = InsertedAt(@, p, n)], spare2, {})
  BY <1>3, <1>4, <1>9, LinkLeaves
<1>11. r.data = [g.data EXCEPT ![n] = o] /\ r.count = [g.count EXCEPT ![l] = @ + 1]
  BY <1>4, <1>9 DEF LinkedIn
<1>12. \A k \in ListNames : n \notin Elems(items[k])
  BY <1>3 DEF StandsFor, Apart
<1> QED BY <1>4, <1>10, <1>11, <1>12 DEF Adds

(* The four ways of setting what is around a node.                           *)

LEMMA PlacedAlone ==
  ASSUME NEW u \in Heap, NEW l \in ListNames, NEW n \in Nodes
  PROVE  /\ Placed(u, [u EXCEPT !.first[l] = n, !.last[l] = n], l, n, None, None)
         /\ [u EXCEPT !.first[l] = n, !.last[l] = n] \in Heap
<1> DEFINE r == [u EXCEPT !.first[l] = n, !.last[l] = n]
<1> SUFFICES Placed(u, r, l, n, None, None) /\ r \in Heap
  OBVIOUS
<1>1. r = [u EXCEPT !.first[l] = n, !.last[l] = n]
  OBVIOUS
<1> HIDE DEF r
<1>2. /\ r.first = [u.first EXCEPT ![l] = n]
      /\ r.last = [u.last EXCEPT ![l] = n]
      /\ r.count = u.count
      /\ r.cache = u.cache
      /\ r.used = u.used
      /\ r.free = u.free
      /\ r.next = u.next
      /\ r.prev = u.prev
      /\ r.data = u.data
  BY <1>1 DEF Heap
<1>3. /\ [u.first EXCEPT ![l] = n] \in [ListNames -> NodesOrNone]
      /\ [u.last EXCEPT ![l] = n] \in [ListNames -> NodesOrNone]
  BY HeapTypes DEF NodesOrNone
<1>4. r \in Heap
  BY <1>1, <1>3 DEF Heap
<1>5. None \notin Nodes
  BY ListConstants
<1> QED BY <1>2, <1>4, <1>5 DEF Placed

LEMMA PlacedLast ==
  ASSUME NEW u \in Heap, NEW l \in ListNames, NEW n \in Nodes, NEW b \in Nodes
  PROVE  /\ Placed(u, [u EXCEPT !.next[b] = n, !.last[l] = n], l, n, b, None)
         /\ [u EXCEPT !.next[b] = n, !.last[l] = n] \in Heap
<1> DEFINE r == [u EXCEPT !.next[b] = n, !.last[l] = n]
<1> SUFFICES Placed(u, r, l, n, b, None) /\ r \in Heap
  OBVIOUS
<1>1. r = [u EXCEPT !.next[b] = n, !.last[l] = n]
  OBVIOUS
<1> HIDE DEF r
<1>2. /\ r.first = u.first
      /\ r.last = [u.last EXCEPT ![l] = n]
      /\ r.count = u.count
      /\ r.cache = u.cache
      /\ r.used = u.used
      /\ r.free = u.free
      /\ r.next = [u.next EXCEPT ![b] = n]
      /\ r.prev = u.prev
      /\ r.data = u.data
  BY <1>1 DEF Heap
<1>3. /\ [u.next EXCEPT ![b] = n] \in [Nodes -> NodesOrNone]
      /\ [u.last EXCEPT ![l] = n] \in [ListNames -> NodesOrNone]
  BY HeapTypes DEF NodesOrNone
<1>4. r \in Heap
  BY <1>1, <1>3 DEF Heap
<1>5. None \notin Nodes
  BY ListConstants
<1> QED BY <1>2, <1>4, <1>5 DEF Placed

LEMMA PlacedFirst ==
  ASSUME NEW u \in Heap, NEW l \in ListNames, NEW n \in Nodes, NEW a \in Nodes
  PROVE  /\ Placed(u, [u EXCEPT !.prev[a] = n, !.first[l] = n], l, n, None, a)
         /\ [u EXCEPT !.prev[a] = n, !.first[l] = n] \in Heap
<1> DEFINE r == [u EXCEPT !.prev[a] = n, !.first[l] = n]
<1> SUFFICES Placed(u, r, l, n, None, a) /\ r \in Heap
  OBVIOUS
<1>1. r = [u EXCEPT !.prev[a] = n, !.first[l] = n]
  OBVIOUS
<1> HIDE DEF r
<1>2. /\ r.first = [u.first EXCEPT ![l] = n]
      /\ r.last = u.last
      /\ r.count = u.count
      /\ r.cache = u.cache
      /\ r.used = u.used
      /\ r.free = u.free
      /\ r.next = u.next
      /\ r.prev = [u.prev EXCEPT ![a] = n]
      /\ r.data = u.data
  BY <1>1 DEF Heap
<1>3. /\ [u.prev EXCEPT ![a] = n] \in [Nodes -> NodesOrNone]
      /\ [u.first EXCEPT ![l] = n] \in [ListNames -> NodesOrNone]
  BY HeapTypes DEF NodesOrNone
<1>4. r \in Heap
  BY <1>1, <1>3 DEF Heap
<1>5. None \notin Nodes
  BY ListConstants
<1> QED BY <1>2, <1>4, <1>5 DEF Placed

LEMMA PlacedBetween ==
  ASSUME NEW u \in Heap, NEW l \in ListNames, NEW n \in Nodes, NEW b \in Nodes, NEW a \in Nodes
  PROVE  /\ Placed(u, [u EXCEPT !.prev[a] = n, !.next[b] = n], l, n, b, a)
         /\ [u EXCEPT !.prev[a] = n, !.next[b] = n] \in Heap
<1> DEFINE r == [u EXCEPT !.prev[a] = n, !.next[b] = n]
<1> SUFFICES Placed(u, r, l, n, b, a) /\ r \in Heap
  OBVIOUS
<1>1. r = [u EXCEPT !.prev[a] = n, !.next[b] = n]
  OBVIOUS
<1> HIDE DEF r
<1>2. /\ r.first = u.first
      /\ r.last = u.last
      /\ r.count = u.count
      /\ r.cache = u.cache
      /\ r.used = u.used
      /\ r.free = u.free
      /\ r.next = [u.next EXCEPT ![b] = n]
      /\ r.prev = [u.prev EXCEPT ![a] = n]
      /\ r.data = u.data
  BY <1>1 DEF Heap
<1>3. /\ [u.prev EXCEPT ![a] = n] \in [Nodes -> NodesOrNone]
      /\ [u.next EXCEPT ![b] = n] \in [Nodes -> NodesOrNone]
  BY HeapTypes DEF NodesOrNone
<1>4. r \in Heap
  BY <1>1, <1>3 DEF Heap
<1>5. None \notin Nodes
  BY ListConstants
<1> QED BY <1>2, <1>4, <1>5 DEF Placed

-----------------------------------------------------------------------------
(* The operations, each where its comment says.                              *)

\* What is known when an operation begins.
Known(g, items, spare, l, n) ==
  /\ items[l] \in Seq(Nodes) /\ Len(items[l]) \in Nat /\ Distinct(items[l])
  /\ g.first[l] = FirstOf(items[l]) /\ g.last[l] = LastOf(items[l])
  /\ TwoWay(items[l], g.next, g.prev) /\ n \in Nodes

LEMMA KnownAtStart ==
  ASSUME NEW g \in Heap, NEW l \in ListNames, NEW items, NEW spare, NEW n, Ready(g, items, spare, l, n)
  PROVE  Known(g, items, spare, l, n)
<1>1. StandsFor(g, items, spare, {}) /\ n = NodeFor(g, l) /\ n # None
  BY DEF Ready
<1>2. n \in Nodes
  BY <1>1, NodeForIs
<1>3. items[l] \in Seq(Nodes)
  BY <1>1 DEF StandsFor, Sequences
<1>4. Len(items[l]) \in Nat
  BY <1>3
<1> QED BY <1>1, <1>2, <1>3, <1>4 DEF Known, StandsFor, Held, Apart

LEMMA LinkedInHeap ==
  ASSUME NEW g \in Heap, NEW l \in ListNames, NEW items, NEW spare, NEW n, Ready(g, items, spare, l, n),
         NEW before \in NodesOrNone, NEW after \in NodesOrNone, NEW o \in Objects
  PROVE  Linked(TakeNode(g, l), l, n, before, after, o) \in Heap
<1>1. n = NodeFor(g, l) /\ n # None
  BY DEF Ready
<1>2. Took(g, TakeNode(g, l), l, n)
  BY <1>1, TakeFields
<1>3. n \in Nodes /\ TakeNode(g, l) \in Heap
  BY <1>2 DEF Took
<1>4. o \in Objects \cup {None}
  OBVIOUS
<1>5. IsLinked(TakeNode(g, l), Linked(TakeNode(g, l), l, n, before, after, o), l, n, before, after, o)
  BY <1>3, <1>4, LinkedFields
<1> QED BY <1>5 DEF IsLinked

LEMMA AddTailAdds ==
  ASSUME NEW g \in Heap, NEW l \in ListNames, NEW items, NEW spare, NEW n, Ready(g, items, spare, l, n),
         NEW o \in Objects
  PROVE  Adds(g, AddTailI(g, l, o), items, l, Len(items[l]) + 1, n, o)
<1> DEFINE s == items[l]
           p == Len(s) + 1
           b == g.last[l]
           u == Linked(TakeNode(g, l), l, n, b, None, o)
           r == AddTailI(g, l, o)
<1>1. Known(g, items, spare, l, n)
  BY KnownAtStart
<1>2. /\ s \in Seq(Nodes) /\ Len(s) \in Nat /\ b = LastOf(s) /\ n \in Nodes /\ n = NodeFor(g, l)
      /\ g.first[l] = FirstOf(s)
  BY <1>1 DEF Known, Ready
<1>3. b \in NodesOrNone /\ None \in NodesOrNone
  BY <1>2, Ends DEF NodesOrNone
<1>4. p \in 1..(Len(s) + 1) /\ BeforeOf(s, p) = b /\ AfterOf(s, p) = None
  BY <1>2 DEF BeforeOf, AfterOf, LastOf
<1>5. u \in Heap
  BY <1>3, LinkedInHeap
<1>6. r = IF b = None THEN [u EXCEPT !.first[l] = n, !.last[l] = n]
          ELSE [u EXCEPT !.next[b] = n, !.last[l] = n]
  BY <1>2 DEF AddTailI
<1> HIDE DEF u, r, b
<1>7. Placed(u, r, l, n, b, None) /\ r \in Heap
  <2>1. CASE b = None
    BY <1>2, <1>5, <1>6, <2>1, PlacedAlone
  <2>2. CASE b # None
    <3>1. b \in Nodes
      BY <1>3, <2>2 DEF NodesOrNone
    <3>2. r = [u EXCEPT !.next[b] = n, !.last[l] = n]
      BY <1>6, <2>2
    <3>3. /\ Placed(u, [u EXCEPT !.next[b] = n, !.last[l] = n], l, n, b, None)
          /\ [u EXCEPT !.next[b] = n, !.last[l] = n] \in Heap
      <4>1. n \in Nodes
        BY <1>2
      <4> QED BY <1>5, <3>1, <4>1, PlacedLast
    <3> QED BY <3>2, <3>3
  <2> QED BY <2>1, <2>2
<1>8. Placed(Linked(TakeNode(g, l), l, n, BeforeOf(s, p), AfterOf(s, p), o), r, l, n, BeforeOf(s, p), AfterOf(s, p))
  BY <1>4, <1>7 DEF u
<1> HIDE DEF p
<1>9. Adds(g, r, items, l, p, n, o)
  BY <1>4, <1>7, <1>8, AddsWhere
<1> QED BY <1>9 DEF r, p

LEMMA AddHeadAdds ==
  ASSUME NEW g \in Heap, NEW l \in ListNames, NEW items, NEW spare, NEW n, Ready(g, items, spare, l, n),
         NEW o \in Objects
  PROVE  Adds(g, AddHeadI(g, l, o), items, l, 1, n, o)
<1> DEFINE s == items[l]
           a == g.first[l]
           u == Linked(TakeNode(g, l), l, n, None, a, o)
           r == AddHeadI(g, l, o)
<1>1. Known(g, items, spare, l, n)
  BY KnownAtStart
<1>2. /\ s \in Seq(Nodes) /\ Len(s) \in Nat /\ a = FirstOf(s) /\ n \in Nodes /\ n = NodeFor(g, l)
  BY <1>1 DEF Known, Ready
<1>3. a \in NodesOrNone /\ None \in NodesOrNone
  BY <1>2, Ends DEF NodesOrNone
<1>4. 1 \in 1..(Len(s) + 1) /\ BeforeOf(s, 1) = None /\ AfterOf(s, 1) = a
  BY <1>2 DEF BeforeOf, AfterOf, FirstOf
<1>5. u \in Heap
  BY <1>3, LinkedInHeap
<1>6. r = IF a = None THEN [u EXCEPT !.first[l] = n, !.last[l] = n]
          ELSE [u EXCEPT !.prev[a] = n, !.first[l] = n]
  BY <1>2 DEF AddHeadI
<1> HIDE DEF u, r, a
<1>7. Placed(u, r, l, n, None, a) /\ r \in Heap
  <2>1. CASE a = None
    BY <1>2, <1>5, <1>6, <2>1, PlacedAlone
  <2>2. CASE a # None
    BY <1>2, <1>3, <1>5, <1>6, <2>2, PlacedFirst DEF NodesOrNone
  <2> QED BY <2>1, <2>2
<1>8. Placed(Linked(TakeNode(g, l), l, n, BeforeOf(s, 1), AfterOf(s, 1), o), r, l, n, BeforeOf(s, 1), AfterOf(s, 1))
  BY <1>4, <1>7 DEF u
<1>9. Adds(g, r, items, l, 1, n, o)
  BY <1>4, <1>7, <1>8, AddsWhere
<1> QED BY <1>9 DEF r

\* Between two neighbours, neither of them an end.
LEMMA BetweenAdds ==
  ASSUME NEW g \in Heap, NEW l \in ListNames, NEW items, NEW spare, NEW n, Ready(g, items, spare, l, n),
         NEW o \in Objects, NEW p \in 2..Len(items[l])
  PROVE  Adds(g, Between(g, l, items[l][p - 1], items[l][p], o), items, l, p, n, o)
<1> DEFINE s == items[l]
           b == s[p - 1]
           a == s[p]
           u == Linked(TakeNode(g, l), l, n, b, a, o)
           r == Between(g, l, b, a, o)
<1>1. Known(g, items, spare, l, n)
  BY KnownAtStart
<1>2. /\ s \in Seq(Nodes) /\ Len(s) \in Nat /\ n \in Nodes /\ n = NodeFor(g, l)
  BY <1>1 DEF Known, Ready
<1>3. p \in 1..(Len(s) + 1) /\ p > 1 /\ p <= Len(s) /\ p - 1 \in 1..Len(s) /\ p \in 1..Len(s)
  BY <1>2
<1>4. BeforeOf(s, p) = b /\ AfterOf(s, p) = a
  BY <1>3 DEF BeforeOf, AfterOf
<1>5. b \in Nodes /\ a \in Nodes
  BY <1>2, <1>3
<1>6. u \in Heap
  BY <1>5, LinkedInHeap DEF NodesOrNone
<1>7. r = [u EXCEPT !.prev[a] = n, !.next[b] = n]
  BY <1>2 DEF Between
<1> HIDE DEF u, r, a, b
<1>8. Placed(u, r, l, n, b, a) /\ r \in Heap
  BY <1>2, <1>5, <1>6, <1>7, PlacedBetween
<1>9. Placed(Linked(TakeNode(g, l), l, n, BeforeOf(s, p), AfterOf(s, p), o), r, l, n, BeforeOf(s, p), AfterOf(s, p))
  BY <1>4, <1>8 DEF u
<1>10. Adds(g, r, items, l, p, n, o)
  BY <1>3, <1>8, <1>9, AddsWhere
<1> QED BY <1>10 DEF r, a, b

\* The neighbours of a node, or the ends.
Neighbours(g, l, s, i) ==
  /\ s[i] \in Nodes /\ s[i] # None
  /\ s[i] = g.first[l] <=> i = 1
  /\ s[i] = g.last[l] <=> i = Len(s)
  /\ i > 1 => g.prev[s[i]] = s[i - 1]
  /\ i < Len(s) => g.next[s[i]] = s[i + 1]
  /\ i = 1 => g.prev[s[i]] = None
  /\ i = Len(s) => g.next[s[i]] = None

LEMMA NeighboursOf ==
  ASSUME NEW g, NEW l, NEW s \in Seq(Nodes), Distinct(s), TwoWay(s, g.next, g.prev),
         g.first[l] = FirstOf(s), g.last[l] = LastOf(s), NEW i \in 1..Len(s)
  PROVE  Neighbours(g, l, s, i)
<1>1. Len(s) \in Nat /\ i \in Nat /\ i >= 1 /\ i <= Len(s) /\ 1 \in 1..Len(s) /\ Len(s) \in 1..Len(s)
  OBVIOUS
<1>2. s[i] \in Nodes /\ s[i] # None
  BY ListConstants
<1>3. g.first[l] = s[1] /\ g.last[l] = s[Len(s)]
  BY <1>1 DEF FirstOf, LastOf
<1>4. (s[i] = s[1] <=> i = 1) /\ (s[i] = s[Len(s)] <=> i = Len(s))
  BY <1>1 DEF Distinct
<1>5. i > 1 => g.prev[s[i]] = s[i - 1]
  <2> SUFFICES ASSUME i > 1 PROVE g.prev[s[i]] = s[i - 1]
    OBVIOUS
  <2>1. i - 1 \in 1..Len(s) /\ i - 1 < Len(s) /\ (i - 1) + 1 = i
    BY <1>1
  <2>2. g.prev[s[(i - 1) + 1]] = s[i - 1]
    BY <2>1 DEF TwoWay, Inner
  <2> QED BY <2>1, <2>2
<1>6. i < Len(s) => g.next[s[i]] = s[i + 1]
  BY DEF TwoWay, Inner
<1>7. i = 1 => g.prev[s[i]] = None
  BY <1>1 DEF TwoWay, Closed
<1>8. i = Len(s) => g.next[s[i]] = None
  BY <1>1 DEF TwoWay, Closed
<1> QED BY <1>2, <1>3, <1>4, <1>5, <1>6, <1>7, <1>8 DEF Neighbours

LEMMA AddAfterAdds ==
  ASSUME NEW g \in Heap, NEW l \in ListNames, NEW items, NEW spare, NEW n, Ready(g, items, spare, l, n),
         NEW o \in Objects, NEW i \in 1..Len(items[l])
  PROVE  Adds(g, AddAfterI(g, l, items[l][i], o), items, l, i + 1, n, o)
<1> DEFINE s == items[l]
<1>1. Known(g, items, spare, l, n)
  BY KnownAtStart
<1>2. s \in Seq(Nodes) /\ Len(s) \in Nat /\ i \in Nat /\ i >= 1 /\ i <= Len(s)
  BY <1>1 DEF Known
<1>3. Neighbours(g, l, s, i)
  BY <1>1, NeighboursOf DEF Known
<1>4. CASE i = Len(s)
  <2>1. AddAfterI(g, l, s[i], o) = AddTailI(g, l, o)
    BY <1>3, <1>4 DEF Neighbours, AddAfterI
  <2> QED BY <1>4, <2>1, AddTailAdds
<1>5. CASE i # Len(s)
  <2>1. /\ i + 1 \in 2..Len(s) /\ (i + 1) - 1 = i /\ i < Len(s)
    BY <1>2, <1>5
  <2>2. AddAfterI(g, l, s[i], o) = Between(g, l, s[i], s[i + 1], o)
    BY <1>3, <1>5, <2>1 DEF Neighbours, AddAfterI
  <2>3. Adds(g, Between(g, l, s[(i + 1) - 1], s[i + 1], o), items, l, i + 1, n, o)
    BY <2>1, BetweenAdds
  <2> QED BY <2>1, <2>2, <2>3
<1> QED BY <1>4, <1>5

LEMMA AddBeforeAdds ==
  ASSUME NEW g \in Heap, NEW l \in ListNames, NEW items, NEW spare, NEW n, Ready(g, items, spare, l, n),
         NEW o \in Objects, NEW i \in 1..Len(items[l])
  PROVE  Adds(g, AddBeforeI(g, l, items[l][i], o), items, l, i, n, o)
<1> DEFINE s == items[l]
<1>1. Known(g, items, spare, l, n)
  BY KnownAtStart
<1>2. s \in Seq(Nodes) /\ Len(s) \in Nat /\ i \in Nat /\ i >= 1 /\ i <= Len(s)
  BY <1>1 DEF Known
<1>3. Neighbours(g, l, s, i)
  BY <1>1, NeighboursOf DEF Known
<1>4. CASE i = 1
  <2>1. AddBeforeI(g, l, s[i], o) = AddHeadI(g, l, o)
    BY <1>3, <1>4 DEF Neighbours, AddBeforeI
  <2> QED BY <1>4, <2>1, AddHeadAdds
<1>5. CASE i # 1
  <2>1. i \in 2..Len(s) /\ i > 1
    BY <1>2, <1>5
  <2>2. AddBeforeI(g, l, s[i], o) = Between(g, l, s[i - 1], s[i], o)
    BY <1>3, <1>5, <2>1 DEF Neighbours, AddBeforeI
  <2> QED BY <2>1, <2>2, BetweenAdds
<1> QED BY <1>4, <1>5

(* One place for each node.                                                  *)

InList(items, k, x) == x \in Elems(items[k])

OnePlace(items, spare, free, loose, x) ==
  \/ /\ x \in free /\ x \notin loose
     /\ \A k \in ListNames : ~InList(items, k, x) /\ ~InList(spare, k, x)
  \/ /\ x \notin free /\ x \in loose
     /\ \A k \in ListNames : ~InList(items, k, x) /\ ~InList(spare, k, x)
  \/ /\ x \notin free /\ x \notin loose
     /\ \E j \in ListNames : \A k \in ListNames : (InList(items, k, x) <=> k = j) /\ ~InList(spare, k, x)
  \/ /\ x \notin free /\ x \notin loose
     /\ \E j \in ListNames : \A k \in ListNames : ~InList(items, k, x) /\ (InList(spare, k, x) <=> k = j)

LEMMA ApartOnePlace ==
  ASSUME NEW items, NEW spare, NEW free, NEW loose, Apart(items, spare, free, loose), NEW x \in Nodes
  PROVE  OnePlace(items, spare, free, loose, x)
<1>1. \A k, j \in ListNames : k # j => ~(InList(items, k, x) /\ InList(items, j, x))
  BY DEF Apart, InList
<1>2. \A k, j \in ListNames : k # j => ~(InList(spare, k, x) /\ InList(spare, j, x))
  BY DEF Apart, InList
<1>3. \A k, j \in ListNames : ~(InList(items, k, x) /\ InList(spare, j, x))
  BY DEF Apart, InList
<1>4. \A k \in ListNames : x \in free \/ x \in loose => ~InList(items, k, x) /\ ~InList(spare, k, x)
  BY DEF Apart, InList
<1>5. ~(x \in free /\ x \in loose)
  BY DEF Apart
<1>6. \/ x \in free \/ x \in loose
      \/ \E k \in ListNames : InList(items, k, x) \/ InList(spare, k, x)
  BY DEF Apart, InList
<1>7. CASE \E k \in ListNames : InList(items, k, x)
  BY <1>1, <1>3, <1>4, <1>7 DEF OnePlace
<1>8. CASE \E k \in ListNames : InList(spare, k, x)
  BY <1>2, <1>3, <1>4, <1>8 DEF OnePlace
<1>9. CASE \A k \in ListNames : ~InList(items, k, x) /\ ~InList(spare, k, x)
  BY <1>5, <1>6, <1>9 DEF OnePlace
<1> QED BY <1>7, <1>8, <1>9

LEMMA OnePlaceApart ==
  ASSUME NEW items \in Sequences, NEW spare \in Sequences, NEW free \in SUBSET Nodes,
         NEW loose \in SUBSET Nodes, \A k \in ListNames : Distinct(items[k]) /\ Distinct(spare[k]),
         \A x \in Nodes : OnePlace(items, spare, free, loose, x)
  PROVE  Apart(items, spare, free, loose)
<1>1. \A k \in ListNames : items[k] \in Seq(Nodes) /\ spare[k] \in Seq(Nodes)
  BY DEF Sequences
<1>2. \A k \in ListNames : \A x : InList(items, k, x) \/ InList(spare, k, x) => x \in Nodes
  BY <1>1, Ends DEF InList
<1>3. \A k, j \in ListNames : \A x : k # j => ~(InList(items, k, x) /\ InList(items, j, x))
  BY <1>2 DEF OnePlace
<1>4. \A k, j \in ListNames : \A x : k # j => ~(InList(spare, k, x) /\ InList(spare, j, x))
  BY <1>2 DEF OnePlace
<1>5. \A k, j \in ListNames : \A x : ~(InList(items, k, x) /\ InList(spare, j, x))
  BY <1>2 DEF OnePlace
<1>6. \A k \in ListNames : \A x : x \in free \/ x \in loose => ~InList(items, k, x) /\ ~InList(spare, k, x)
  BY <1>2 DEF OnePlace
<1>7. \A x \in Nodes : \/ x \in free \cup loose
                       \/ \E k \in ListNames : InList(items, k, x) \/ InList(spare, k, x)
  BY DEF OnePlace
<1>8. free \cap loose = {}
  BY DEF OnePlace
<1>9. \A k, j \in ListNames : k # j => /\ Elems(items[k]) \cap Elems(items[j]) = {}
                                       /\ Elems(spare[k]) \cap Elems(spare[j]) = {}
  BY <1>3, <1>4 DEF InList
<1>10. \A k, j \in ListNames : Elems(items[k]) \cap Elems(spare[j]) = {}
  BY <1>5 DEF InList
<1>11. \A k \in ListNames : /\ Elems(items[k]) \cap (free \cup loose) = {}
                            /\ Elems(spare[k]) \cap (free \cup loose) = {}
  BY <1>6 DEF InList
<1> QED BY <1>7, <1>8, <1>9, <1>10, <1>11 DEF Apart, InList

-----------------------------------------------------------------------------
(* A loose node goes into the cache of a list, or is released.               *)

Caches(g, r, l, n) ==
  /\ r \in Heap /\ r.first = g.first /\ r.last = g.last /\ r.count = g.count
  /\ r.data = [g.data EXCEPT ![n] = None] /\ r.prev = [g.prev EXCEPT ![n] = None]
  /\ g.used[l] < m_iCacheSize => /\ r.next = [g.next EXCEPT ![n] = g.cache[l]]
                                 /\ r.cache = [g.cache EXCEPT ![l] = n]
                                 /\ r.used = [g.used EXCEPT ![l] = @ + 1] /\ r.free = g.free
  /\ ~(g.used[l] < m_iCacheSize) => /\ r.next = [g.next EXCEPT ![n] = None] /\ r.cache = g.cache
                                    /\ r.used = g.used /\ r.free = g.free \cup {n}

LEMMA CacheFields ==
  ASSUME NEW g \in Heap, NEW l \in ListNames, NEW n \in Nodes
  PROVE  Caches(g, AddToCache(g, l, n), l, n)
<1> DEFINE r == AddToCache(g, l, n)
<1> SUFFICES Caches(g, r, l, n)
  OBVIOUS
<1>1. r = IF g.used[l] < m_iCacheSize
          THEN [Clear(g, n) EXCEPT !.next[n] = g.cache[l], !.cache[l] = n, !.used[l] = @ + 1]
          ELSE [Clear(g, n) EXCEPT !.next[n] = None, !.free = @ \cup {n}]
  BY DEF AddToCache
<1> HIDE DEF r
<1> DEFINE c == Clear(g, n)
<1>2. c = [g EXCEPT !.prev[n] = None, !.data[n] = None]
  BY DEF Clear
<1> HIDE DEF c
<1>3. /\ c.first = g.first /\ c.last = g.last /\ c.count = g.count /\ c.cache = g.cache
      /\ c.used = g.used /\ c.free = g.free /\ c.next = g.next
      /\ c.prev = [g.prev EXCEPT ![n] = None] /\ c.data = [g.data EXCEPT ![n] = None]
  BY <1>2 DEF Heap
<1>4. c \in Heap
  <2>1. /\ [g.prev EXCEPT ![n] = None] \in [Nodes -> NodesOrNone]
        /\ [g.data EXCEPT ![n] = None] \in [Nodes -> Objects \cup {None}]
    BY HeapTypes DEF NodesOrNone
  <2> QED BY <1>2, <2>1 DEF Heap
<1>5. CASE g.used[l] < m_iCacheSize
  <2>1. r = [c EXCEPT !.next[n] = g.cache[l], !.cache[l] = n, !.used[l] = @ + 1]
    BY <1>1, <1>5 DEF c
  <2>2. /\ r.first = c.first /\ r.last = c.last /\ r.count = c.count /\ r.free = c.free
        /\ r.prev = c.prev /\ r.data = c.data /\ r.next = [c.next EXCEPT ![n] = g.cache[l]]
        /\ r.cache = [c.cache EXCEPT ![l] = n] /\ r.used = [c.used EXCEPT ![l] = @ + 1]
    BY <1>4, <2>1 DEF Heap
  <2>3. /\ [c.next EXCEPT ![n] = g.cache[l]] \in [Nodes -> NodesOrNone]
        /\ [c.cache EXCEPT ![l] = n] \in [ListNames -> NodesOrNone]
    BY <1>4, HeapTypes DEF NodesOrNone
  <2>4. [c.used EXCEPT ![l] = @ + 1] \in [ListNames -> Int]
    BY <1>4, HeapTypes
  <2>5. r \in Heap
    BY <1>4, <2>1, <2>3, <2>4 DEF Heap
  <2> QED BY <1>3, <1>5, <2>2, <2>5 DEF Caches
<1>6. CASE ~(g.used[l] < m_iCacheSize)
  <2>1. r = [c EXCEPT !.next[n] = None, !.free = @ \cup {n}]
    BY <1>1, <1>6 DEF c
  <2>2. /\ r.first = c.first /\ r.last = c.last /\ r.count = c.count /\ r.free = c.free \cup {n}
        /\ r.prev = c.prev /\ r.data = c.data /\ r.next = [c.next EXCEPT ![n] = None]
        /\ r.cache = c.cache /\ r.used = c.used
    BY <1>4, <2>1 DEF Heap
  <2>3. [c.next EXCEPT ![n] = None] \in [Nodes -> NodesOrNone] /\ c.free \cup {n} \in SUBSET Nodes
    BY <1>4, HeapTypes DEF NodesOrNone
  <2>4. r \in Heap
    BY <1>4, <2>1, <2>3 DEF Heap
  <2> QED BY <1>3, <1>6, <2>2, <2>4 DEF Caches
<1> QED BY <1>5, <1>6

\* A node in front of a chain.
Fronted(r, s, n, link) ==
  /\ r \in Seq(Nodes) /\ Len(r) = Len(s) + 1 /\ Distinct(r) /\ Elems(r) = Elems(s) \cup {n}
  /\ FirstOf(r) = n /\ Chained(r, link)

LEMMA FrontOf ==
  ASSUME NEW s \in Seq(Nodes), Distinct(s), NEW n \in Nodes, n \notin Elems(s), NEW link,
         Chained(s, link), link[n] = FirstOf(s)
  PROVE  Fronted(InsertedAt(s, 1, n), s, n, link)
<1> DEFINE r == InsertedAt(s, 1, n)
<1>0. Len(s) \in Nat /\ 1 \in 1..(Len(s) + 1)
  OBVIOUS
<1>1. /\ r \in Seq(Nodes) /\ Len(r) = Len(s) + 1 /\ Inserted(r, s, 1, n)
      /\ Distinct(r) /\ Elems(r) = Elems(s) \cup {n}
  BY <1>0, InsertedElems
<1> SUFFICES Fronted(r, s, n, link)
  OBVIOUS
<1> HIDE DEF r
<1>2. \A j \in 1..(Len(s) + 1) : r[j] = IF j = 1 THEN n ELSE s[j - 1]
  <2>1. \A j \in 1..(Len(s) + 1) : r[j] = IF j < 1 THEN s[j] ELSE IF j = 1 THEN n ELSE s[j - 1]
    BY <1>1 DEF Inserted
  <2> QED BY <1>0, <2>1
<1>3. r[1] = n /\ FirstOf(r) = n
  BY <1>0, <1>1, <1>2 DEF FirstOf
<1>4. Chained(r, link)
  <2> SUFFICES ASSUME NEW i \in 1..Len(r) PROVE link[r[i]] = IF i < Len(r) THEN r[i + 1] ELSE None
    BY DEF Chained
  <2>1. CASE i = 1
    <3>1. Len(s) = 0 => ~(i < Len(r)) /\ FirstOf(s) = None
      BY <1>0, <1>1, <2>1 DEF FirstOf
    <3>2. Len(s) # 0 => i < Len(r) /\ r[i + 1] = s[1] /\ FirstOf(s) = s[1]
      BY <1>0, <1>1, <1>2, <2>1 DEF FirstOf
    <3> QED BY <1>3, <2>1, <3>1, <3>2
  <2>2. CASE i # 1
    <3>1. /\ i \in 1..(Len(s) + 1) /\ i - 1 \in 1..Len(s) /\ (i < Len(r) <=> i - 1 < Len(s))
          /\ (i < Len(r) => i + 1 \in 1..(Len(s) + 1) /\ i + 1 # 1 /\ (i + 1) - 1 = (i - 1) + 1)
      BY <1>0, <1>1, <2>2
    <3>2. link[s[i - 1]] = IF i - 1 < Len(s) THEN s[(i - 1) + 1] ELSE None
      BY <3>1 DEF Chained
    <3>3. r[i] = s[i - 1]
      BY <1>2, <2>2, <3>1
    <3>4. i < Len(r) => r[i + 1] = s[(i - 1) + 1]
      BY <1>2, <3>1
    <3> QED BY <3>1, <3>2, <3>3, <3>4
  <2> QED BY <2>1, <2>2
<1> QED BY <1>1, <1>3, <1>4 DEF Fronted

Shelves(g, r, items, n) ==
  /\ r \in Heap /\ r.data = [g.data EXCEPT ![n] = None] /\ r.count = g.count
  /\ \E spare : StandsFor(r, items, spare, {})

LEMMA CacheHolds ==
  ASSUME NEW g \in Heap, NEW l \in ListNames, NEW n \in Nodes, NEW items, NEW spare,
         StandsFor(g, items, spare, {n})
  PROVE  Shelves(g, AddToCache(g, l, n), items, n)
<1> DEFINE r == AddToCache(g, l, n)
<1>1. Caches(g, r, l, n)
  BY CacheFields
<1> SUFFICES Shelves(g, r, items, n)
  OBVIOUS
<1> HIDE DEF r
<1>2. /\ items \in Sequences /\ spare \in Sequences
      /\ Held(g, items) /\ Spared(g, spare) /\ Apart(items, spare, g.free, {n})
  BY DEF StandsFor
<1>3. \A k \in ListNames : /\ items[k] \in Seq(Nodes) /\ Distinct(items[k]) /\ n \notin Elems(items[k])
                           /\ spare[k] \in Seq(Nodes) /\ Distinct(spare[k]) /\ n \notin Elems(spare[k])
  BY <1>2 DEF Sequences, Apart
<1>4. /\ r \in Heap /\ r.first = g.first /\ r.last = g.last /\ r.count = g.count
      /\ r.data = [g.data EXCEPT ![n] = None] /\ r.prev = [g.prev EXCEPT ![n] = None]
      /\ \A x \in Nodes : x # n => r.next[x] = g.next[x] /\ r.prev[x] = g.prev[x]
  <2>1. g.next \in [Nodes -> NodesOrNone] /\ g.prev \in [Nodes -> NodesOrNone]
    BY HeapTypes
  <2>2. /\ r \in Heap /\ r.first = g.first /\ r.last = g.last /\ r.count = g.count
        /\ r.data = [g.data EXCEPT ![n] = None] /\ r.prev = [g.prev EXCEPT ![n] = None]
    BY <1>1 DEF Caches
  <2>3. \E y : r.next = [g.next EXCEPT ![n] = y]
    BY <1>1 DEF Caches
  <2> QED BY <2>1, <2>2, <2>3
<1>5. \A k \in ListNames : /\ Unmoved(items[k], g.next, r.next) /\ Unmoved(items[k], g.prev, r.prev)
                           /\ Unmoved(spare[k], g.next, r.next)
  <2>1. \A k \in ListNames : Elems(items[k]) \subseteq Nodes /\ Elems(spare[k]) \subseteq Nodes
    BY <1>3, Ends
  <2> QED BY <1>3, <1>4, <2>1 DEF Unmoved
<1>6. Held(r, items)
  <2> SUFFICES ASSUME NEW k \in ListNames
               PROVE  r.first[k] = FirstOf(items[k]) /\ r.last[k] = LastOf(items[k]) /\ TwoWay(items[k], r.next, r.prev)
    BY DEF Held
  <2>1. g.first[k] = FirstOf(items[k]) /\ g.last[k] = LastOf(items[k]) /\ TwoWay(items[k], g.next, g.prev)
    BY <1>2 DEF Held
  <2>2. TwoWay(items[k], r.next, r.prev)
    BY <1>3, <1>5, <2>1, TwoWayFrame
  <2> QED BY <1>4, <2>1, <2>2
<1>7. \A k \in ListNames : Chained(spare[k], r.next)
  <2> TAKE k \in ListNames
  <2>1. Chained(spare[k], g.next)
    BY <1>2 DEF Spared
  <2> QED BY <1>3, <1>5, <2>1, ChainedFrame
<1>8. g.cache \in [ListNames -> NodesOrNone] /\ g.used \in [ListNames -> Int] /\ g.free \in SUBSET Nodes
      /\ g.next \in [Nodes -> NodesOrNone]
  BY HeapTypes
<1>9. CASE g.used[l] < m_iCacheSize
  <2> DEFINE more == InsertedAt(spare[l], 1, n)
             spare2 == [spare EXCEPT ![l] = more]
  <2>1. /\ r.next = [g.next EXCEPT ![n] = g.cache[l]] /\ r.cache = [g.cache EXCEPT ![l] = n]
        /\ r.used = [g.used EXCEPT ![l] = @ + 1] /\ r.free = g.free
    BY <1>1, <1>9 DEF Caches
  <2>2. g.cache[l] = FirstOf(spare[l]) /\ g.used[l] = Len(spare[l])
    BY <1>2 DEF Spared
  <2>3. r.next[n] = FirstOf(spare[l])
    BY <1>8, <2>1, <2>2
  <2>4. Fronted(more, spare[l], n, r.next)
    BY <1>3, <1>7, <2>3, FrontOf
  <2> HIDE DEF more
  <2>5. /\ more \in Seq(Nodes) /\ Len(more) = Len(spare[l]) + 1 /\ Distinct(more)
        /\ Elems(more) = Elems(spare[l]) \cup {n} /\ FirstOf(more) = n /\ Chained(more, r.next)
    BY <2>4 DEF Fronted
  <2>6. /\ spare2 \in Sequences /\ spare2[l] = more
        /\ \A k \in ListNames : k # l => spare2[k] = spare[k]
    BY <1>2, <2>5 DEF Sequences
  <2> HIDE DEF spare2
  <2>7. Spared(r, spare2)
    <3> SUFFICES ASSUME NEW k \in ListNames
                 PROVE  /\ r.cache[k] = FirstOf(spare2[k]) /\ Chained(spare2[k], r.next)
                        /\ r.used[k] = Len(spare2[k]) /\ Len(spare2[k]) <= m_iCacheSize
      BY DEF Spared
    <3>1. CASE k = l
      <4>1. r.cache[k] = n /\ r.used[k] = g.used[l] + 1
        BY <1>8, <2>1, <3>1
      <4>2. Len(spare[l]) \in Nat /\ m_iCacheSize \in Nat
        BY <1>3, ListConstants
      <4>3. Len(more) <= m_iCacheSize
        BY <1>9, <2>2, <2>5, <4>2
      <4> QED BY <2>2, <2>5, <2>6, <3>1, <4>1, <4>3
    <3>2. CASE k # l
      <4>1. r.cache[k] = g.cache[k] /\ r.used[k] = g.used[k]
        BY <1>8, <2>1, <3>2
      <4> QED BY <1>2, <1>7, <2>6, <3>2, <4>1 DEF Spared
    <3> QED BY <3>1, <3>2
  <2>8. Apart(items, spare2, r.free, {})
    <3>1. \A x \in Nodes : OnePlace(items, spare2, r.free, {}, x)
      <4> TAKE x \in Nodes
      <4>1. OnePlace(items, spare, g.free, {n}, x)
        BY <1>2, ApartOnePlace
      <4>2. \A k \in ListNames : InList(spare2, k, x) <=> InList(spare, k, x) \/ (k = l /\ x = n)
        BY <2>5, <2>6 DEF InList
      <4> QED BY <2>1, <4>1, <4>2 DEF OnePlace
    <3>2. \A k \in ListNames : Distinct(items[k]) /\ Distinct(spare2[k])
      BY <1>3, <2>5, <2>6
    <3>3. r.free \in SUBSET Nodes /\ {} \in SUBSET Nodes
      BY <1>8, <2>1
    <3> QED BY <1>2, <2>6, <3>1, <3>2, <3>3, OnePlaceApart
  <2> QED BY <1>2, <1>4, <1>6, <2>6, <2>7, <2>8 DEF Shelves, StandsFor
<1>10. CASE ~(g.used[l] < m_iCacheSize)
  <2>1. r.cache = g.cache /\ r.used = g.used /\ r.free = g.free \cup {n}
    BY <1>1, <1>10 DEF Caches
  <2>2. Spared(r, spare)
    BY <1>2, <1>7, <2>1 DEF Spared
  <2>3. Apart(items, spare, r.free, {})
    <3>1. \A x \in Nodes : OnePlace(items, spare, r.free, {}, x)
      <4> TAKE x \in Nodes
      <4>1. OnePlace(items, spare, g.free, {n}, x)
        BY <1>2, ApartOnePlace
      <4> QED BY <2>1, <4>1 DEF OnePlace
    <3>2. \A k \in ListNames : Distinct(items[k]) /\ Distinct(spare[k])
      BY <1>3
    <3>3. r.free \in SUBSET Nodes /\ {} \in SUBSET Nodes
      BY <1>8, <2>1
    <3> QED BY <1>2, <3>1, <3>2, <3>3, OnePlaceApart
  <2> QED BY <1>2, <1>4, <1>6, <2>2, <2>3 DEF Shelves, StandsFor
<1> QED BY <1>9, <1>10

(* A node leaves a list.                                                     *)

Unlink(g, l, before, after) ==
  LET t == IF before = None THEN [g EXCEPT !.first[l] = after]
           ELSE [g EXCEPT !.next[before] = after]
  IN  IF after = None THEN [t EXCEPT !.last[l] = before]
      ELSE [t EXCEPT !.prev[after] = before]

Unlinks(g, u, l, before, after) ==
  /\ u \in Heap
  /\ u.first = (IF before = None THEN [g.first EXCEPT ![l] = after] ELSE g.first)
  /\ u.next = (IF before = None THEN g.next ELSE [g.next EXCEPT ![before] = after])
  /\ u.last = (IF after = None THEN [g.last EXCEPT ![l] = before] ELSE g.last)
  /\ u.prev = (IF after = None THEN g.prev ELSE [g.prev EXCEPT ![after] = before])
  /\ u.count = g.count /\ u.data = g.data /\ u.cache = g.cache /\ u.used = g.used /\ u.free = g.free

LEMMA UnlinkFields ==
  ASSUME NEW g \in Heap, NEW l \in ListNames, NEW before \in NodesOrNone, NEW after \in NodesOrNone
  PROVE  Unlinks(g, Unlink(g, l, before, after), l, before, after)
<1> DEFINE t == IF before = None THEN [g EXCEPT !.first[l] = after]
                ELSE [g EXCEPT !.next[before] = after]
           u == Unlink(g, l, before, after)
<1>1. u = IF after = None THEN [t EXCEPT !.last[l] = before] ELSE [t EXCEPT !.prev[after] = before]
  BY DEF Unlink
<1>2. t = IF before = None THEN [g EXCEPT !.first[l] = after] ELSE [g EXCEPT !.next[before] = after]
  OBVIOUS
<1> SUFFICES Unlinks(g, u, l, before, after)
  OBVIOUS
<1> HIDE DEF t, u
<1>3. /\ t \in Heap /\ t.last = g.last /\ t.prev = g.prev
      /\ t.first = (IF before = None THEN [g.first EXCEPT ![l] = after] ELSE g.first)
      /\ t.next = (IF before = None THEN g.next ELSE [g.next EXCEPT ![before] = after])
      /\ t.count = g.count /\ t.data = g.data /\ t.cache = g.cache /\ t.used = g.used /\ t.free = g.free
  <2>1. CASE before = None
    <3>1. t = [g EXCEPT !.first[l] = after]
      BY <1>2, <2>1
    <3>2. /\ t.last = g.last /\ t.prev = g.prev /\ t.next = g.next
          /\ t.first = [g.first EXCEPT ![l] = after]
          /\ t.count = g.count /\ t.data = g.data /\ t.cache = g.cache /\ t.used = g.used /\ t.free = g.free
      BY <3>1 DEF Heap
    <3>3. [g.first EXCEPT ![l] = after] \in [ListNames -> NodesOrNone]
      BY HeapTypes
    <3>4. t \in Heap
      BY <3>1, <3>3 DEF Heap
    <3> QED BY <2>1, <3>2, <3>4
  <2>2. CASE before # None
    <3>0. before \in Nodes
      BY <2>2 DEF NodesOrNone
    <3>1. t = [g EXCEPT !.next[before] = after]
      BY <1>2, <2>2
    <3>2. /\ t.last = g.last /\ t.prev = g.prev /\ t.first = g.first
          /\ t.next = [g.next EXCEPT ![before] = after]
          /\ t.count = g.count /\ t.data = g.data /\ t.cache = g.cache /\ t.used = g.used /\ t.free = g.free
      BY <3>1 DEF Heap
    <3>3. [g.next EXCEPT ![before] = after] \in [Nodes -> NodesOrNone]
      BY <3>0, HeapTypes
    <3>4. t \in Heap
      BY <3>1, <3>3 DEF Heap
    <3> QED BY <2>2, <3>2, <3>4
  <2> QED BY <2>1, <2>2
<1>4. /\ u \in Heap /\ u.first = t.first /\ u.next = t.next
      /\ u.last = (IF after = None THEN [t.last EXCEPT ![l] = before] ELSE t.last)
      /\ u.prev = (IF after = None THEN t.prev ELSE [t.prev EXCEPT ![after] = before])
      /\ u.count = t.count /\ u.data = t.data /\ u.cache = t.cache /\ u.used = t.used /\ u.free = t.free
  <2>0. t \in Heap
    BY <1>3
  <2>1. CASE after = None
    <3>1. u = [t EXCEPT !.last[l] = before]
      BY <1>1, <2>1
    <3>2. /\ u.last = [t.last EXCEPT ![l] = before] /\ u.prev = t.prev /\ u.next = t.next
          /\ u.first = t.first
          /\ u.count = t.count /\ u.data = t.data /\ u.cache = t.cache /\ u.used = t.used /\ u.free = t.free
      BY <2>0, <3>1 DEF Heap
    <3>3. [t.last EXCEPT ![l] = before] \in [ListNames -> NodesOrNone]
      BY <2>0, HeapTypes
    <3>4. u \in Heap
      BY <2>0, <3>1, <3>3 DEF Heap
    <3> QED BY <2>1, <3>2, <3>4
  <2>2. CASE after # None
    <3>0. after \in Nodes
      BY <2>2 DEF NodesOrNone
    <3>1. u = [t EXCEPT !.prev[after] = before]
      BY <1>1, <2>2
    <3>2. /\ u.last = t.last /\ u.prev = [t.prev EXCEPT ![after] = before] /\ u.first = t.first
          /\ u.next = t.next
          /\ u.count = t.count /\ u.data = t.data /\ u.cache = t.cache /\ u.used = t.used /\ u.free = t.free
      BY <2>0, <3>1 DEF Heap
    <3>3. [t.prev EXCEPT ![after] = before] \in [Nodes -> NodesOrNone]
      BY <2>0, <3>0, HeapTypes
    <3>4. u \in Heap
      BY <2>0, <3>1, <3>3 DEF Heap
    <3> QED BY <2>2, <3>2, <3>4
  <2> QED BY <2>1, <2>2
<1> QED BY <1>3, <1>4 DEF Unlinks

LEMMA UnlinkLeaves ==
  ASSUME NEW g \in Heap, NEW l \in ListNames, NEW items, NEW spare, StandsFor(g, items, spare, {}),
         NEW i \in 1..Len(items[l]), NEW u,
         Unlinks(g, u, l, g.prev[items[l][i]], g.next[items[l][i]])
  PROVE  StandsFor(u, [items EXCEPT ![l] = RemovedAt(@, i)], spare, {items[l][i]})
<1> DEFINE s == items[l]
           n == s[i]
           shorter == RemovedAt(s, i)
           items2 == [items EXCEPT ![l] = shorter]
<1>1. /\ items \in Sequences /\ spare \in Sequences
      /\ Held(g, items) /\ Spared(g, spare) /\ Apart(items, spare, g.free, {})
  BY DEF StandsFor
<1>2. \A k \in ListNames : /\ items[k] \in Seq(Nodes) /\ Distinct(items[k])
                           /\ spare[k] \in Seq(Nodes) /\ Distinct(spare[k])
  BY <1>1 DEF Sequences, Apart
<1>3. /\ s \in Seq(Nodes) /\ Distinct(s) /\ TwoWay(s, g.next, g.prev)
      /\ g.first[l] = FirstOf(s) /\ g.last[l] = LastOf(s)
  BY <1>1, <1>2 DEF Held
<1>4. Len(s) \in Nat /\ i \in Nat /\ i >= 1 /\ i <= Len(s) /\ \A j \in 1..Len(s) : s[j] \in Nodes
  BY <1>3
<1> HIDE DEF s
<1>5. Neighbours(g, l, s, i)
  <2>1. i \in 1..Len(s)
    BY DEF s
  <2> QED BY <1>3, <2>1, NeighboursOf
<1> DEFINE before == g.prev[n]
           after == g.next[n]
<1>6. /\ before = (IF i > 1 THEN s[i - 1] ELSE None) /\ after = (IF i < Len(s) THEN s[i + 1] ELSE None)
      /\ n \in Nodes
  <2>1. (~(i > 1) => i = 1) /\ (~(i < Len(s)) => i = Len(s))
    BY <1>4
  <2> QED BY <1>5, <2>1 DEF Neighbours
<1>7. (before = None <=> i = 1) /\ (after = None <=> i = Len(s))
  <2>1. (i > 1 => i - 1 \in 1..Len(s) /\ i # 1) /\ (i < Len(s) => i + 1 \in 1..Len(s) /\ i # Len(s))
    BY <1>4
  <2>2. (~(i > 1) => i = 1) /\ (~(i < Len(s)) => i = Len(s))
    BY <1>4
  <2> QED BY <1>4, <1>6, <2>1, <2>2, ListConstants
<1>8. Unlinks(g, u, l, before, after)
  BY DEF s
<1> HIDE DEF before, after, n
<1>9. /\ u.first = (IF before = None THEN [g.first EXCEPT ![l] = after] ELSE g.first)
      /\ u.next = (IF before = None THEN g.next ELSE [g.next EXCEPT ![before] = after])
      /\ u.last = (IF after = None THEN [g.last EXCEPT ![l] = before] ELSE g.last)
      /\ u.prev = (IF after = None THEN g.prev ELSE [g.prev EXCEPT ![after] = before])
      /\ u.cache = g.cache /\ u.used = g.used /\ u.free = g.free
  BY <1>8 DEF Unlinks
<1>10. /\ g.first \in [ListNames -> NodesOrNone] /\ g.last \in [ListNames -> NodesOrNone]
       /\ g.next \in [Nodes -> NodesOrNone] /\ g.prev \in [Nodes -> NodesOrNone] /\ g.free \in SUBSET Nodes
  BY HeapTypes
<1>11. /\ \A x \in Nodes : u.next[x] = IF x = before THEN after ELSE g.next[x]
       /\ \A x \in Nodes : u.prev[x] = IF x = after THEN before ELSE g.prev[x]
  BY <1>9, <1>10, ListConstants
<1>12. UnlinkedNodes(g.next, g.prev, u.next, u.prev, s, i)
  <2>1. i > 1 => i - 1 \in 1..Len(s) /\ u.next[s[i - 1]] = g.next[s[i]]
    <3>1. i > 1 => i - 1 \in 1..Len(s)
      BY <1>4
    <3> QED BY <1>4, <1>6, <1>11, <3>1 DEF after, n
  <2>2. i < Len(s) => i + 1 \in 1..Len(s) /\ u.prev[s[i + 1]] = g.prev[s[i]]
    <3>1. i < Len(s) => i + 1 \in 1..Len(s)
      BY <1>4
    <3> QED BY <1>4, <1>6, <1>11, <3>1 DEF before, n
  <2>3. ASSUME NEW j \in 1..Len(s), j # i - 1, j # i PROVE u.next[s[j]] = g.next[s[j]]
    <3>1. s[j] # before
      BY <1>3, <1>4, <1>6, <2>1, <2>3, ListConstants DEF Distinct
    <3> QED BY <1>4, <1>11, <3>1
  <2>4. ASSUME NEW j \in 1..Len(s), j # i + 1, j # i PROVE u.prev[s[j]] = g.prev[s[j]]
    <3>1. s[j] # after
      BY <1>3, <1>4, <1>6, <2>2, <2>4, ListConstants DEF Distinct
    <3> QED BY <1>4, <1>11, <3>1
  <2> QED BY <2>1, <2>2, <2>3, <2>4 DEF UnlinkedNodes
<1>13. i \in 1..Len(s)
  BY <1>4
<1>14. IsShorter(shorter, s, i, g.next, g.prev, u.next, u.prev)
  BY <1>3, <1>12, <1>13, RemovedLinks
<1>15. shorter \in Seq(Nodes) /\ Distinct(shorter) /\ Elems(shorter) = Elems(s) \ {n}
  BY <1>3, <1>13, RemovedElems DEF n
<1> HIDE DEF shorter
<1>16. /\ items2 \in Sequences /\ items2[l] = shorter
       /\ \A k \in ListNames : k # l => items2[k] = items[k]
  BY <1>1, <1>15 DEF Sequences
<1> HIDE DEF items2
<1>17. before \in Elems(s) \cup {None} /\ after \in Elems(s) \cup {None} /\ n \in Elems(s)
  <2>1. (i > 1 => i - 1 \in 1..Len(s)) /\ (i < Len(s) => i + 1 \in 1..Len(s))
    BY <1>4
  <2> QED BY <1>6, <1>13, <2>1 DEF Elems, n
<1>18. \A k \in ListNames : Elems(items[k]) \subseteq Nodes /\ Elems(spare[k]) \subseteq Nodes
  BY <1>2, Ends
<1>19. Held(u, items2)
  <2> SUFFICES ASSUME NEW k \in ListNames
               PROVE  /\ u.first[k] = FirstOf(items2[k]) /\ u.last[k] = LastOf(items2[k])
                      /\ TwoWay(items2[k], u.next, u.prev)
    BY DEF Held
  <2>1. /\ u.first[k] = (IF k = l /\ i = 1 THEN after ELSE g.first[k])
        /\ u.last[k] = (IF k = l /\ i = Len(s) THEN before ELSE g.last[k])
    BY <1>7, <1>9, <1>10
  <2>2. CASE k = l
    <3>1. /\ TwoWay(shorter, u.next, u.prev)
          /\ FirstOf(shorter) = (IF i = 1 THEN after ELSE FirstOf(s))
          /\ LastOf(shorter) = (IF i = Len(s) THEN before ELSE LastOf(s))
      BY <1>14 DEF IsShorter, after, before, n
    <3> QED BY <1>3, <1>16, <2>1, <2>2, <3>1
  <2>3. CASE k # l
    <3>1. Elems(items[k]) \cap Elems(s) = {}
      BY <1>1, <2>3 DEF Apart, s
    <3>2. \A x \in Elems(items[k]) : x \in Nodes /\ x # before /\ x # after
      BY <1>17, <1>18, <3>1, ListConstants
    <3>3. Unmoved(items[k], g.next, u.next) /\ Unmoved(items[k], g.prev, u.prev)
      BY <1>11, <3>2 DEF Unmoved
    <3>4. g.first[k] = FirstOf(items[k]) /\ g.last[k] = LastOf(items[k]) /\ TwoWay(items[k], g.next, g.prev)
      BY <1>1 DEF Held
    <3>5. TwoWay(items[k], u.next, u.prev)
      BY <1>2, <3>3, <3>4, TwoWayFrame
    <3> QED BY <1>16, <2>1, <2>3, <3>4, <3>5
  <2> QED BY <2>2, <2>3
<1>20. Spared(u, spare)
  <2> SUFFICES ASSUME NEW k \in ListNames PROVE Chained(spare[k], u.next)
    BY <1>1, <1>9 DEF Spared
  <2>1. Elems(s) \cap Elems(spare[k]) = {}
    BY <1>1 DEF Apart, s
  <2>2. \A x \in Elems(spare[k]) : x \in Nodes /\ x # before
    BY <1>17, <1>18, <2>1, ListConstants
  <2>3. Unmoved(spare[k], g.next, u.next)
    BY <1>11, <2>2 DEF Unmoved
  <2>4. Chained(spare[k], g.next)
    BY <1>1 DEF Spared
  <2> QED BY <1>2, <2>3, <2>4, ChainedFrame
<1>21. Apart(items2, spare, u.free, {n})
  <2>1. \A x \in Nodes : OnePlace(items2, spare, u.free, {n}, x)
    <3> TAKE x \in Nodes
    <3>1. OnePlace(items, spare, g.free, {}, x)
      BY <1>1, ApartOnePlace
    <3>2. \A k \in ListNames : InList(items2, k, x) <=> InList(items, k, x) /\ ~(k = l /\ x = n)
      BY <1>15, <1>16 DEF InList, s
    <3>3. InList(items, l, n)
      BY <1>17 DEF InList, s
    <3> QED BY <1>9, <3>1, <3>2, <3>3 DEF OnePlace
  <2>2. \A k \in ListNames : Distinct(items2[k]) /\ Distinct(spare[k])
    BY <1>2, <1>15, <1>16
  <2>3. u.free \in SUBSET Nodes /\ {n} \in SUBSET Nodes
    BY <1>6, <1>9, <1>10
  <2> QED BY <1>1, <1>16, <2>1, <2>2, <2>3, OnePlaceApart
<1> QED BY <1>1, <1>16, <1>19, <1>20, <1>21 DEF StandsFor, items2, shorter, s, n

-----------------------------------------------------------------------------

Removes(g, r, items, l, i) ==
  /\ r \in Heap
  /\ r.data = [g.data EXCEPT ![items[l][i]] = None] /\ r.count = [g.count EXCEPT ![l] = @ - 1]
  /\ \E spare : StandsFor(r, [items EXCEPT ![l] = RemovedAt(@, i)], spare, {})

LEMMA CountsOnly ==
  ASSUME NEW g \in Heap, NEW l \in ListNames, NEW items, NEW spare, StandsFor(g, items, spare, {}),
         NEW c \in Int
  PROVE  /\ StandsFor([g EXCEPT !.count[l] = c], items, spare, {})
         /\ [g EXCEPT !.count[l] = c] \in Heap
         /\ [g EXCEPT !.count[l] = c].data = g.data
         /\ [g EXCEPT !.count[l] = c].count = [g.count EXCEPT ![l] = c]
<1> DEFINE r == [g EXCEPT !.count[l] = c]
<1>1. /\ r.first = g.first /\ r.last = g.last /\ r.cache = g.cache /\ r.used = g.used
      /\ r.free = g.free /\ r.next = g.next /\ r.prev = g.prev /\ r.data = g.data
      /\ r.count = [g.count EXCEPT ![l] = c]
  BY DEF Heap
<1>2. [g.count EXCEPT ![l] = c] \in [ListNames -> Int]
  BY HeapTypes
<1>3. r \in Heap
  BY <1>2 DEF Heap
<1> HIDE DEF r
<1>4. StandsFor(r, items, spare, {})
  BY <1>1 DEF StandsFor, Held, Spared
<1> QED BY <1>1, <1>3, <1>4 DEF r

LEMMA RemoveTakes ==
  ASSUME NEW g \in Heap, NEW l \in ListNames, NEW items, NEW spare, StandsFor(g, items, spare, {}),
         NEW i \in 1..Len(items[l])
  PROVE  Removes(g, RemoveI(g, l, items[l][i]), items, l, i)
<1> DEFINE n == items[l][i]
           before == g.prev[n]
           after == g.next[n]
           u == Unlink(g, l, before, after)
           v == AddToCache(u, l, n)
           r == [v EXCEPT !.count[l] = @ - 1]
           items2 == [items EXCEPT ![l] = RemovedAt(@, i)]
<1>1. RemoveI(g, l, n) = r
  BY DEF RemoveI, Unlink
<1>2. n \in Nodes
  <2>1. items[l] \in Seq(Nodes)
    BY DEF StandsFor, Sequences
  <2> QED BY <2>1
<1>3. before \in NodesOrNone /\ after \in NodesOrNone
  BY <1>2, HeapTypes
<1>4. Unlinks(g, u, l, before, after)
  BY <1>3, UnlinkFields
<1> HIDE DEF u
<1>5. StandsFor(u, items2, spare, {n})
  BY <1>4, UnlinkLeaves
<1>6. u \in Heap /\ u.data = g.data /\ u.count = g.count
  BY <1>4 DEF Unlinks
<1>7. Shelves(u, v, items2, n)
  BY <1>2, <1>5, <1>6, CacheHolds
<1> HIDE DEF v, items2
<1>8. PICK spare2 : StandsFor(v, items2, spare2, {})
  BY <1>7 DEF Shelves
<1>9. v \in Heap /\ v.data = [g.data EXCEPT ![n] = None] /\ v.count = g.count
  BY <1>6, <1>7 DEF Shelves
<1>10. v.count[l] - 1 \in Int
  BY <1>9, HeapTypes
<1> DEFINE c == v.count[l] - 1
<1>11. r = [v EXCEPT !.count[l] = c]
  OBVIOUS
<1> HIDE DEF c
<1>12. /\ StandsFor([v EXCEPT !.count[l] = c], items2, spare2, {}) /\ [v EXCEPT !.count[l] = c] \in Heap
       /\ [v EXCEPT !.count[l] = c].data = v.data /\ [v EXCEPT !.count[l] = c].count = [v.count EXCEPT ![l] = c]
  BY <1>8, <1>9, <1>10, CountsOnly DEF c
<1> HIDE DEF r
<1>13. r.count = [g.count EXCEPT ![l] = @ - 1]
  BY <1>9, <1>11, <1>12 DEF c
<1>14. StandsFor(r, items2, spare2, {}) /\ r \in Heap /\ r.data = [g.data EXCEPT ![n] = None]
  BY <1>9, <1>11, <1>12
<1>15. Removes(g, r, items, l, i)
  BY <1>13, <1>14 DEF Removes, items2
<1> QED BY <1>1, <1>15

(* What the walks meet.                                                      *)

LEMMA ReversedTwoWay ==
  ASSUME NEW s \in Seq(Nodes), Distinct(s), NEW next, NEW prev, TwoWay(s, next, prev)
  PROVE  TwoWay(Reversed(s), prev, next)
<1>1. Inner(s, next, prev)
  BY DEF TwoWay
<1>2. /\ Len(Reversed(s)) = Len(s) /\ Inner(Reversed(s), prev, next)
      /\ \A i \in 1..Len(s) : Reversed(s)[i] = s[Len(s) + 1 - i]
  BY <1>1, ReversedIs
<1>3. ASSUME Len(s) > 0
      PROVE  prev[Reversed(s)[Len(s)]] = None /\ next[Reversed(s)[1]] = None
  <2>1. /\ 1 \in 1..Len(s) /\ Len(s) \in 1..Len(s) /\ Len(s) + 1 - 1 = Len(s)
        /\ Len(s) + 1 - Len(s) = 1
    BY <1>3
  <2>2. Reversed(s)[Len(s)] = s[1] /\ Reversed(s)[1] = s[Len(s)]
    BY <1>2, <2>1
  <2> QED BY <1>3, <2>2 DEF TwoWay, Closed
<1> HIDE DEF Reversed
<1> QED BY <1>2, <1>3 DEF TwoWay, Closed

Walks(g, items, spare) ==
  \A l \in ListNames : /\ Walk(g.first[l], g.next) = items[l]
                       /\ Walk(g.last[l], g.prev) = Reversed(items[l])
                       /\ Walk(g.cache[l], g.next) = spare[l]

LEMMA WalksMeet ==
  ASSUME NEW g, NEW items, NEW spare, StandsFor(g, items, spare, {})
  PROVE  Walks(g, items, spare)
<1> SUFFICES ASSUME NEW l \in ListNames
             PROVE  /\ Walk(g.first[l], g.next) = items[l]
                    /\ Walk(g.last[l], g.prev) = Reversed(items[l])
                    /\ Walk(g.cache[l], g.next) = spare[l]
  BY DEF Walks
<1>1. /\ items \in Sequences /\ spare \in Sequences
      /\ Held(g, items) /\ Spared(g, spare) /\ Apart(items, spare, g.free, {})
  BY DEF StandsFor
<1>2. items[l] \in Seq(Nodes) /\ Distinct(items[l]) /\ spare[l] \in Seq(Nodes) /\ Distinct(spare[l])
  BY <1>1 DEF Sequences, Apart
<1>3. /\ g.first[l] = FirstOf(items[l]) /\ g.last[l] = LastOf(items[l])
      /\ TwoWay(items[l], g.next, g.prev)
  BY <1>1 DEF Held
<1>4. g.cache[l] = FirstOf(spare[l]) /\ Chained(spare[l], g.next)
  BY <1>1 DEF Spared
<1>5. Chained(items[l], g.next)
  BY <1>2, <1>3, TwoWayChained
<1>6. TwoWay(Reversed(items[l]), g.prev, g.next)
  BY <1>2, <1>3, ReversedTwoWay
<1>7. /\ Reversed(items[l]) \in Seq(Nodes) /\ Distinct(Reversed(items[l]))
      /\ FirstOf(Reversed(items[l])) = LastOf(items[l])
  <2>1. Inner(items[l], g.next, g.prev)
    BY <1>3 DEF TwoWay
  <2> QED BY <1>2, <2>1, ReversedIs
<1> HIDE DEF Reversed
<1>8. Chained(Reversed(items[l]), g.prev)
  BY <1>6, <1>7, TwoWayChained
<1>9. Walk(FirstOf(items[l]), g.next) = items[l]
  BY <1>2, <1>5, WalkMeets
<1>10. Walk(FirstOf(spare[l]), g.next) = spare[l]
  BY <1>2, <1>4, WalkMeets
<1>11. Walk(FirstOf(Reversed(items[l])), g.prev) = Reversed(items[l])
  BY <1>7, <1>8, WalkMeets
<1> QED BY <1>3, <1>4, <1>7, <1>9, <1>10, <1>11

LEMMA ElementsAre ==
  ASSUME NEW s \in Seq(Nodes)
  PROVE  Elements(s) = Elems(s)
BY DEF Elements, Elems

-----------------------------------------------------------------------------
(* Lists exchange nodes, the rest stays.                                     *)

Rearranged(g, r, items, items2, m) ==
  /\ r.cache = g.cache /\ r.used = g.used /\ r.free = g.free
  /\ \A k \in ListNames : /\ r.first[k] = FirstOf(items2[k]) /\ r.last[k] = LastOf(items2[k])
                          /\ Distinct(items2[k])
  /\ \A k \in ListNames : k \notin m => items2[k] = items[k]
  /\ \A k \in ListNames : k \in m => TwoWay(items2[k], r.next, r.prev)
  /\ \A x \in Nodes : (\A k \in m : ~InList(items, k, x)) => r.next[x] = g.next[x] /\ r.prev[x] = g.prev[x]
  /\ \A x \in Nodes : (\E k \in m : InList(items2, k, x)) <=> (\E k \in m : InList(items, k, x))
  /\ \A x \in Nodes, j, k \in m : InList(items2, j, x) /\ InList(items2, k, x) => j = k

LEMMA Rearranges ==
  ASSUME NEW g \in Heap, NEW r \in Heap, NEW items, NEW spare, StandsFor(g, items, spare, {}),
         NEW items2 \in Sequences, NEW m \in SUBSET ListNames, Rearranged(g, r, items, items2, m)
  PROVE  StandsFor(r, items2, spare, {})
<1>1. /\ items \in Sequences /\ spare \in Sequences
      /\ Held(g, items) /\ Spared(g, spare) /\ Apart(items, spare, g.free, {})
  BY DEF StandsFor
<1>2. \A k \in ListNames : /\ items[k] \in Seq(Nodes) /\ spare[k] \in Seq(Nodes) /\ Distinct(spare[k])
                           /\ Elems(items[k]) \subseteq Nodes /\ Elems(spare[k]) \subseteq Nodes
  <2>1. \A k \in ListNames : items[k] \in Seq(Nodes) /\ spare[k] \in Seq(Nodes) /\ Distinct(spare[k])
    BY <1>1 DEF Sequences, Apart
  <2> QED BY <2>1, Ends
<1>3. \A x \in Nodes : OnePlace(items, spare, g.free, {}, x)
  BY <1>1, ApartOnePlace
<1>4. /\ r.cache = g.cache /\ r.used = g.used /\ r.free = g.free
      /\ \A k \in ListNames : /\ r.first[k] = FirstOf(items2[k]) /\ r.last[k] = LastOf(items2[k])
                              /\ Distinct(items2[k])
      /\ \A k \in ListNames : k \notin m => items2[k] = items[k]
      /\ \A k \in ListNames : k \in m => TwoWay(items2[k], r.next, r.prev)
  BY DEF Rearranged
<1>5. \A x \in Nodes : (\A k \in m : ~InList(items, k, x)) => r.next[x] = g.next[x] /\ r.prev[x] = g.prev[x]
  BY DEF Rearranged
<1>6. Held(r, items2)
  <2> SUFFICES ASSUME NEW k \in ListNames, k \notin m PROVE TwoWay(items[k], r.next, r.prev)
    BY <1>4 DEF Held
  <2>3a. \A x \in Elems(items[k]) : x \in Nodes
    BY <1>2
  <2>3b. \A x \in Elems(items[k]) : \A j \in m : ~InList(items, j, x)
    <3> SUFFICES ASSUME NEW x \in Elems(items[k]), NEW j \in m PROVE ~InList(items, j, x)
      OBVIOUS
    <3>1. x \in Nodes /\ InList(items, k, x) /\ j \in ListNames /\ j # k
      BY <1>2 DEF InList
    <3> QED BY <1>3, <3>1 DEF OnePlace
  <2>1. \A x \in Elems(items[k]) : x \in Nodes /\ \A j \in m : ~InList(items, j, x)
    BY <2>3a, <2>3b
  <2>2. Unmoved(items[k], g.next, r.next) /\ Unmoved(items[k], g.prev, r.prev)
    BY <1>5, <2>1 DEF Unmoved
  <2>3. TwoWay(items[k], g.next, g.prev)
    BY <1>1 DEF Held
  <2> QED BY <1>2, <2>2, <2>3, TwoWayFrame
<1>7. Spared(r, spare)
  <2> SUFFICES ASSUME NEW k \in ListNames PROVE Chained(spare[k], r.next)
    BY <1>1, <1>4 DEF Spared
  <2>3a. \A x \in Elems(spare[k]) : x \in Nodes
    BY <1>2
  <2>3b. \A x \in Elems(spare[k]) : \A j \in m : ~InList(items, j, x)
    <3> SUFFICES ASSUME NEW x \in Elems(spare[k]), NEW j \in m PROVE ~InList(items, j, x)
      OBVIOUS
    <3>1. x \in Nodes /\ InList(spare, k, x) /\ j \in ListNames
      BY <1>2 DEF InList
    <3> QED BY <1>3, <3>1 DEF OnePlace
  <2>1. \A x \in Elems(spare[k]) : x \in Nodes /\ \A j \in m : ~InList(items, j, x)
    BY <2>3a, <2>3b
  <2>2. Unmoved(spare[k], g.next, r.next)
    BY <1>5, <2>1 DEF Unmoved
  <2>3. Chained(spare[k], g.next)
    BY <1>1 DEF Spared
  <2> QED BY <1>2, <2>2, <2>3, ChainedFrame
<1>8. \A x \in Nodes : OnePlace(items2, spare, r.free, {}, x)
  <2> TAKE x \in Nodes
  <2>1. OnePlace(items, spare, g.free, {}, x)
    BY <1>3
  <2>2. \A k \in ListNames : k \notin m => (InList(items2, k, x) <=> InList(items, k, x))
    BY <1>4 DEF InList
  <2>3. (\E k \in m : InList(items2, k, x)) <=> (\E k \in m : InList(items, k, x))
    BY DEF Rearranged
  <2>4. \A j, k \in m : InList(items2, j, x) /\ InList(items2, k, x) => j = k
    BY DEF Rearranged
  <2>5. CASE \E k \in m : InList(items2, k, x)
    <3>1. PICK j \in m : InList(items2, j, x)
      BY <2>5
    <3>2. PICK i \in m : InList(items, i, x)
      BY <2>3, <2>5
    <3>3. i \in ListNames /\ j \in ListNames
      OBVIOUS
    <3>4. /\ x \notin g.free /\ \A k \in ListNames : ~InList(spare, k, x)
          /\ \A k \in ListNames : k \notin m => ~InList(items, k, x)
      BY <2>1, <3>2, <3>3 DEF OnePlace
    <3>5. \A k \in ListNames : InList(items2, k, x) <=> k = j
      BY <2>2, <2>4, <3>1, <3>4
    <3> QED BY <1>4, <3>3, <3>4, <3>5 DEF OnePlace
  <2>6. CASE ~ \E k \in m : InList(items2, k, x)
    <3>1. \A k \in ListNames : InList(items2, k, x) <=> InList(items, k, x)
      BY <2>2, <2>3, <2>6
    <3> QED BY <1>4, <2>1, <3>1 DEF OnePlace
  <2> QED BY <2>5, <2>6
<1>9. Apart(items2, spare, r.free, {})
  <2>1. r.free \in SUBSET Nodes /\ {} \in SUBSET Nodes
    BY HeapTypes
  <2>2. \A k \in ListNames : Distinct(items2[k]) /\ Distinct(spare[k])
    BY <1>2, <1>4
  <2> QED BY <1>1, <1>8, <2>1, <2>2, OnePlaceApart
<1> QED BY <1>1, <1>6, <1>7, <1>9 DEF StandsFor

-----------------------------------------------------------------------------
(* A list is turned round.                                                   *)

Reverses(g, r, items, l) ==
  /\ r \in Heap /\ r.data = g.data /\ r.count = g.count
  /\ \E spare : StandsFor(r, [items EXCEPT ![l] = Reversed(@)], spare, {})

LEMMA ReverseTurns ==
  ASSUME h \in Heap, NEW l \in ListNames, NEW items, NEW spare, StandsFor(h, items, spare, {})
  PROVE  Reverses(h, ReverseOf(h, l), items, l)
<1> DEFINE s == items[l]
           turned == Reversed(s)
           items2 == [items EXCEPT ![l] = turned]
           next2 == [n \in Nodes |-> IF n \in Elems(s) THEN h.prev[n] ELSE h.next[n]]
           prev2 == [n \in Nodes |-> IF n \in Elems(s) THEN h.next[n] ELSE h.prev[n]]
           r == ReverseOf(h, l)
<1>1. /\ items \in Sequences /\ Held(h, items) /\ Apart(items, spare, h.free, {})
  BY DEF StandsFor
<1>2. \A k \in ListNames : items[k] \in Seq(Nodes) /\ Distinct(items[k])
  BY <1>1 DEF Sequences, Apart
<1>3. TwoWay(s, h.next, h.prev) /\ h.first[l] = FirstOf(s) /\ h.last[l] = LastOf(s)
  BY <1>1 DEF Held
<1>4. Walks(h, items, spare)
  BY WalksMeet
<1>5. Elements(Forward(l)) = Elems(s)
  BY <1>2, <1>4, ElementsAre DEF Walks, Forward
<1>6. r = [h EXCEPT !.next = next2, !.prev = prev2, !.first[l] = h.last[l], !.last[l] = h.first[l]]
  BY <1>5 DEF ReverseOf
<1>7. /\ turned \in Seq(Nodes) /\ Distinct(turned) /\ Elems(turned) = Elems(s)
      /\ FirstOf(turned) = LastOf(s) /\ LastOf(turned) = FirstOf(s)
  <2>1. Inner(s, h.next, h.prev)
    BY <1>3 DEF TwoWay
  <2> QED BY <1>2, <2>1, ReversedIs
<1>8. TwoWay(turned, h.prev, h.next)
  BY <1>2, <1>3, ReversedTwoWay
<1> HIDE DEF turned
<1>9. h.next \in [Nodes -> NodesOrNone] /\ h.prev \in [Nodes -> NodesOrNone]
      /\ h.first \in [ListNames -> NodesOrNone] /\ h.last \in [ListNames -> NodesOrNone]
  BY HeapTypes
<1>10. next2 \in [Nodes -> NodesOrNone] /\ prev2 \in [Nodes -> NodesOrNone]
  BY <1>9
<1>11. /\ \A x \in Nodes : x \in Elems(s) => next2[x] = h.prev[x] /\ prev2[x] = h.next[x]
       /\ \A x \in Nodes : x \notin Elems(s) => next2[x] = h.next[x] /\ prev2[x] = h.prev[x]
  OBVIOUS
<1>12. Elems(s) \subseteq Nodes
  BY <1>2, Ends
<1> HIDE DEF next2, prev2, r
<1>13. /\ r.next = next2 /\ r.prev = prev2 /\ r.first = [h.first EXCEPT ![l] = h.last[l]]
       /\ r.last = [h.last EXCEPT ![l] = h.first[l]] /\ r.count = h.count /\ r.data = h.data
       /\ r.cache = h.cache /\ r.used = h.used /\ r.free = h.free
  BY <1>6 DEF Heap
<1>14. r \in Heap
  <2>1. [h.first EXCEPT ![l] = h.last[l]] \in [ListNames -> NodesOrNone]
    BY <1>9
  <2>2. [h.last EXCEPT ![l] = h.first[l]] \in [ListNames -> NodesOrNone]
    BY <1>9
  <2> QED BY <1>6, <1>10, <2>1, <2>2 DEF Heap
<1>15. /\ items2 \in Sequences /\ items2[l] = turned
       /\ \A k \in ListNames : k # l => items2[k] = items[k]
  BY <1>1, <1>7 DEF Sequences
<1> HIDE DEF items2
<1>16. TwoWay(turned, next2, prev2)
  <2>1. Unmoved(turned, h.prev, next2) /\ Unmoved(turned, h.next, prev2)
    BY <1>7, <1>11, <1>12 DEF Unmoved
  <2> QED BY <1>7, <1>8, <2>1, TwoWayFrame
<1>17. Rearranged(h, r, items, items2, {l})
  <2>1. \A k \in ListNames : /\ r.first[k] = FirstOf(items2[k]) /\ r.last[k] = LastOf(items2[k])
                             /\ Distinct(items2[k])
    <3> TAKE k \in ListNames
    <3>1. CASE k = l
      BY <1>3, <1>7, <1>9, <1>13, <1>15, <3>1
    <3>2. CASE k # l
      <4>1. r.first[k] = h.first[k] /\ r.last[k] = h.last[k]
        BY <1>9, <1>13, <3>2
      <4> QED BY <1>1, <1>2, <1>15, <3>2, <4>1 DEF Held
    <3> QED BY <3>1, <3>2
  <2>2. \A x \in Nodes : ~InList(items, l, x) => r.next[x] = h.next[x] /\ r.prev[x] = h.prev[x]
    BY <1>11, <1>13 DEF InList
  <2>3. \A x \in Nodes : InList(items2, l, x) <=> InList(items, l, x)
    BY <1>7, <1>15 DEF InList
  <2>4. r.cache = h.cache /\ r.used = h.used /\ r.free = h.free
    BY <1>13
  <2>5. \A k \in ListNames : k \in {l} => TwoWay(items2[k], r.next, r.prev)
    BY <1>13, <1>15, <1>16
  <2>6. \A k \in ListNames : k \notin {l} => items2[k] = items[k]
    BY <1>15
  <2> QED BY <2>1, <2>2, <2>3, <2>4, <2>5, <2>6 DEF Rearranged
<1>18. StandsFor(r, items2, spare, {})
  <2>1. {l} \in SUBSET ListNames
    OBVIOUS
  <2> QED BY <1>14, <1>15, <1>17, <2>1, Rearranges
<1>19. Reverses(h, r, items, l)
  BY <1>13, <1>14, <1>18 DEF Reverses, items2, turned
<1> QED BY <1>19 DEF r

(* A list is emptied.                                                        *)

Empties(g, r, items, l) ==
  /\ r \in Heap /\ r.count = [g.count EXCEPT ![l] = 0]
  /\ r.data = [x \in Nodes |-> IF x \in Elems(items[l]) THEN None ELSE g.data[x]]
  /\ \E spare : StandsFor(r, [items EXCEPT ![l] = <<>>], spare, {})

LEMMA RemoveAllEmpties ==
  ASSUME h \in Heap, NEW l \in ListNames, NEW items, NEW spare, StandsFor(h, items, spare, {})
  PROVE  Empties(h, RemoveAllOf(h, l), items, l)
<1> DEFINE s == items[l]
           items2 == [items EXCEPT ![l] = <<>>]
           next2 == [x \in Nodes |-> IF x \in Elems(s) THEN None ELSE h.next[x]]
           prev2 == [x \in Nodes |-> IF x \in Elems(s) THEN None ELSE h.prev[x]]
           data2 == [x \in Nodes |-> IF x \in Elems(s) THEN None ELSE h.data[x]]
           r == RemoveAllOf(h, l)
<1>1. /\ items \in Sequences /\ spare \in Sequences
      /\ Held(h, items) /\ Spared(h, spare) /\ Apart(items, spare, h.free, {})
  BY DEF StandsFor
<1>2. \A k \in ListNames : /\ items[k] \in Seq(Nodes) /\ Distinct(items[k])
                           /\ spare[k] \in Seq(Nodes) /\ Distinct(spare[k])
  BY <1>1 DEF Sequences, Apart
<1>3. \A k \in ListNames : Elems(items[k]) \subseteq Nodes /\ Elems(spare[k]) \subseteq Nodes
  BY <1>2, Ends
<1>4. Walk(h.first[l], h.next) = items[l]
  BY WalksMeet DEF Walks
<1>5. Elements(Forward(l)) = Elems(s)
  BY <1>2, <1>4, ElementsAre DEF Forward
<1>6. r = [h EXCEPT !.next = next2, !.prev = prev2, !.data = data2, !.free = @ \cup Elems(s),
                    !.first[l] = None, !.last[l] = None, !.count[l] = 0]
  BY <1>5 DEF RemoveAllOf
<1>7. /\ h.next \in [Nodes -> NodesOrNone] /\ h.prev \in [Nodes -> NodesOrNone]
      /\ h.first \in [ListNames -> NodesOrNone] /\ h.last \in [ListNames -> NodesOrNone]
      /\ h.data \in [Nodes -> Objects \cup {None}] /\ h.count \in [ListNames -> Int]
      /\ h.free \in SUBSET Nodes
  BY HeapTypes
<1>8. /\ next2 \in [Nodes -> NodesOrNone] /\ prev2 \in [Nodes -> NodesOrNone]
      /\ data2 \in [Nodes -> Objects \cup {None}]
  BY <1>7 DEF NodesOrNone
<1>9. \A x \in Nodes : x \notin Elems(s) => next2[x] = h.next[x] /\ prev2[x] = h.prev[x]
  OBVIOUS
<1> HIDE DEF next2, prev2, r
<1>10. /\ r.next = next2 /\ r.prev = prev2 /\ r.first = [h.first EXCEPT ![l] = None]
       /\ r.last = [h.last EXCEPT ![l] = None] /\ r.count = [h.count EXCEPT ![l] = 0]
       /\ r.data = data2 /\ r.free = h.free \cup Elems(s)
       /\ r.cache = h.cache /\ r.used = h.used
  BY <1>6 DEF Heap
<1> HIDE DEF data2
<1>11. r \in Heap
  <2>1. /\ [h.first EXCEPT ![l] = None] \in [ListNames -> NodesOrNone]
        /\ [h.last EXCEPT ![l] = None] \in [ListNames -> NodesOrNone]
    BY <1>7 DEF NodesOrNone
  <2>2. [h.count EXCEPT ![l] = 0] \in [ListNames -> Int]
    BY <1>7
  <2>3. h.free \cup Elems(s) \in SUBSET Nodes
    BY <1>3, <1>7
  <2> QED BY <1>6, <1>8, <2>1, <2>2, <2>3 DEF Heap
<1>12. /\ items2 \in Sequences /\ items2[l] = <<>>
       /\ \A k \in ListNames : k # l => items2[k] = items[k]
  BY <1>1 DEF Sequences
<1> HIDE DEF items2
<1>13. /\ <<>> \in Seq(Nodes) /\ Len(<<>>) = 0 /\ Elems(<<>>) = {} /\ Distinct(<<>>)
       /\ FirstOf(<<>>) = None /\ LastOf(<<>>) = None /\ TwoWay(<<>>, next2, prev2)
  BY DEF Elems, Distinct, FirstOf, LastOf, TwoWay, Inner, Closed
<1>14. \A x \in Nodes : OnePlace(items, spare, h.free, {}, x)
  BY <1>1, ApartOnePlace
<1>15. \A k \in ListNames : k # l => Elems(items[k]) \cap Elems(s) = {}
  BY <1>1 DEF Apart
<1>16. \A k \in ListNames : Elems(spare[k]) \cap Elems(s) = {}
  BY <1>1 DEF Apart
<1>17. Held(r, items2)
  <2> SUFFICES ASSUME NEW k \in ListNames
               PROVE  /\ r.first[k] = FirstOf(items2[k]) /\ r.last[k] = LastOf(items2[k])
                      /\ TwoWay(items2[k], r.next, r.prev)
    BY DEF Held
  <2>1. CASE k = l
    BY <1>7, <1>10, <1>12, <1>13, <2>1
  <2>2. CASE k # l
    <3>1. r.first[k] = h.first[k] /\ r.last[k] = h.last[k]
      BY <1>7, <1>10, <2>2
    <3>2. h.first[k] = FirstOf(items[k]) /\ h.last[k] = LastOf(items[k]) /\ TwoWay(items[k], h.next, h.prev)
      BY <1>1 DEF Held
    <3>3. Unmoved(items[k], h.next, next2) /\ Unmoved(items[k], h.prev, prev2)
      BY <1>3, <1>9, <1>15, <2>2 DEF Unmoved
    <3>4. TwoWay(items[k], next2, prev2)
      BY <1>2, <3>2, <3>3, TwoWayFrame
    <3> QED BY <1>10, <1>12, <2>2, <3>1, <3>2, <3>4
  <2> QED BY <2>1, <2>2
<1>18. Spared(r, spare)
  <2> SUFFICES ASSUME NEW k \in ListNames PROVE Chained(spare[k], next2)
    BY <1>1, <1>10 DEF Spared
  <2>1. Unmoved(spare[k], h.next, next2)
    BY <1>3, <1>9, <1>16 DEF Unmoved
  <2>2. Chained(spare[k], h.next)
    BY <1>1 DEF Spared
  <2> QED BY <1>2, <2>1, <2>2, ChainedFrame
<1>19. Apart(items2, spare, r.free, {})
  <2>1. r.free \in SUBSET Nodes /\ {} \in SUBSET Nodes
    BY <1>11, HeapTypes
  <2>2. \A k \in ListNames : Distinct(items2[k]) /\ Distinct(spare[k])
    BY <1>2, <1>12, <1>13
  <2>3. ASSUME NEW x \in Nodes PROVE OnePlace(items2, spare, r.free, {}, x)
    <3>1. OnePlace(items, spare, h.free, {}, x)
      BY <1>14
    <3>2. r.free = h.free \cup Elems(s)
      BY <1>10
    <3>3. /\ ~InList(items2, l, x)
          /\ \A k \in ListNames : k # l => (InList(items2, k, x) <=> InList(items, k, x))
      BY <1>12, <1>13 DEF InList
    <3>4. CASE x \in Elems(s)
      <4>1. InList(items, l, x)
        BY <3>4 DEF InList
      <4>2. /\ \A k \in ListNames : ~InList(spare, k, x)
            /\ \A k \in ListNames : k # l => ~InList(items, k, x)
        BY <3>1, <4>1 DEF OnePlace
      <4>3. \A k \in ListNames : ~InList(items2, k, x)
        BY <3>3, <4>2
      <4> QED BY <3>2, <3>4, <4>2, <4>3 DEF OnePlace
    <3>5. CASE x \notin Elems(s)
      <4>1. ~InList(items, l, x)
        BY <3>5 DEF InList
      <4>2. \A k \in ListNames : InList(items2, k, x) <=> InList(items, k, x)
        BY <3>3, <4>1
      <4>3. x \in r.free <=> x \in h.free
        BY <3>2, <3>5
      <4> QED BY <3>1, <4>2, <4>3 DEF OnePlace
    <3> QED BY <3>4, <3>5
  <2> QED BY <1>1, <1>12, <2>1, <2>2, <2>3, OnePlaceApart
<1>20. StandsFor(r, items2, spare, {})
  BY <1>1, <1>12, <1>17, <1>18, <1>19 DEF StandsFor
<1>21. Empties(h, r, items, l)
  BY <1>10, <1>11, <1>20 DEF Empties, items2, data2
<1> QED BY <1>21 DEF r

(* A part of one list goes to an end of another.                             *)

Along(s, m, n, next, prev, next2, prev2) ==
  \A i \in m..n : /\ i < n => next2[s[i]] = next[s[i]]
                  /\ i > m => prev2[s[i]] = prev[s[i]]

LEMMA PartInner ==
  ASSUME NEW s \in Seq(Nodes), Distinct(s), NEW m \in Nat, NEW n \in Nat, 1 <= m, m <= n + 1, n <= Len(s),
         NEW next, NEW prev, NEW next2, NEW prev2, Inner(s, next, prev),
         Along(s, m, n, next, prev, next2, prev2)
  PROVE  Inner(SubSeq(s, m, n), next2, prev2)
<1> DEFINE r == SubSeq(s, m, n)
<1>1. Len(r) = n - m + 1 /\ \A i \in 1..(n - m + 1) : r[i] = s[m + i - 1]
  BY PartOf DEF IsPart
<1> HIDE DEF r
<1>2. ASSUME NEW i \in 1..Len(r), i < Len(r)
      PROVE  next2[r[i]] = r[i + 1] /\ prev2[r[i + 1]] = r[i]
  <2> DEFINE j == m + i - 1
  <2>1. /\ j \in m..n /\ j < n /\ j + 1 \in m..n /\ j + 1 > m /\ j \in 1..Len(s) /\ j < Len(s)
        /\ i \in 1..(n - m + 1) /\ i + 1 \in 1..(n - m + 1) /\ m + (i + 1) - 1 = j + 1
    BY <1>1, <1>2
  <2>2. r[i] = s[j] /\ r[i + 1] = s[j + 1]
    BY <1>1, <2>1
  <2> HIDE DEF j
  <2>3. next[s[j]] = s[j + 1] /\ prev[s[j + 1]] = s[j]
    BY <2>1 DEF Inner
  <2>4. next2[s[j]] = next[s[j]] /\ prev2[s[j + 1]] = prev[s[j + 1]]
    BY <2>1 DEF Along
  <2> QED BY <2>2, <2>3, <2>4
<1>3. Inner(r, next2, prev2)
  BY <1>2 DEF Inner
<1> QED BY <1>3 DEF r

\* The first p go behind those of c.
TailNodes(s, c, p, next, prev, next2, prev2) ==
  /\ \A i \in 1..Len(s) : next2[s[i]] = IF i = p THEN None ELSE next[s[i]]
  /\ \A i \in 1..Len(s) : prev2[s[i]] = IF i = p + 1 THEN None ELSE IF i = 1 THEN LastOf(c) ELSE prev[s[i]]
  /\ \A i \in 1..Len(c) : next2[c[i]] = IF i = Len(c) THEN s[1] ELSE next[c[i]]
  /\ \A i \in 1..Len(c) : prev2[c[i]] = prev[c[i]]

\* Those from the p-th on go before those of c.
HeadNodes(s, c, p, next, prev, next2, prev2) ==
  /\ \A i \in 1..Len(s) : prev2[s[i]] = IF i = p THEN None ELSE prev[s[i]]
  /\ \A i \in 1..Len(s) : next2[s[i]] = IF i = p - 1 THEN None ELSE IF i = Len(s) THEN FirstOf(c) ELSE next[s[i]]
  /\ \A i \in 1..Len(c) : prev2[c[i]] = IF i = 1 THEN s[Len(s)] ELSE prev[c[i]]
  /\ \A i \in 1..Len(c) : next2[c[i]] = next[c[i]]

\* The sequence b is linked both ways and ends in these.
Is(b, first, last, next, prev) ==
  /\ b \in Seq(Nodes) /\ Distinct(b) /\ TwoWay(b, next, prev) /\ FirstOf(b) = first /\ LastOf(b) = last

LEMMA TailRest ==
  ASSUME NEW s \in Seq(Nodes), Distinct(s), NEW c, NEW p \in 1..Len(s),
         NEW next, NEW prev, NEW next2, NEW prev2, TwoWay(s, next, prev),
         TailNodes(s, c, p, next, prev, next2, prev2)
  PROVE  Is(SubSeq(s, p + 1, Len(s)), next[s[p]], IF p = Len(s) THEN None ELSE LastOf(s), next2, prev2)
<1> DEFINE b == SubSeq(s, p + 1, Len(s))
<1>1. Len(s) \in Nat /\ p \in Nat /\ p + 1 \in Nat /\ 1 <= p + 1 /\ p + 1 <= Len(s) + 1
  OBVIOUS
<1>2. IsPart(b, s, p + 1, Len(s))
  BY <1>1, PartOf
<1>3. /\ b \in Seq(Nodes) /\ Distinct(b) /\ Len(b) = Len(s) - p
      /\ \A i \in 1..(Len(s) - p) : b[i] = s[p + i]
  <2>1. Len(s) - (p + 1) + 1 = Len(s) - p /\ \A i \in 1..(Len(s) - p) : (p + 1) + i - 1 = p + i
    OBVIOUS
  <2> QED BY <1>2, <2>1 DEF IsPart
<1>4. Inner(s, next, prev)
  BY DEF TwoWay
<1>5. Along(s, p + 1, Len(s), next, prev, next2, prev2)
  <2> SUFFICES ASSUME NEW i \in (p + 1)..Len(s)
               PROVE  /\ i < Len(s) => next2[s[i]] = next[s[i]]
                      /\ i > p + 1 => prev2[s[i]] = prev[s[i]]
    BY DEF Along
  <2>1. i \in 1..Len(s) /\ i # p /\ i # 1 /\ (i > p + 1 => i # p + 1)
    OBVIOUS
  <2> QED BY <2>1 DEF TailNodes
<1>6. Inner(b, next2, prev2)
  BY <1>1, <1>4, <1>5, PartInner
<1> HIDE DEF b
<1>7. Chained(s, next)
  BY TwoWayChained
<1>8. CASE p = Len(s)
  <2>1. Len(b) = 0 /\ next[s[p]] = None
    BY <1>3, <1>7, <1>8 DEF Chained
  <2> QED BY <1>3, <1>6, <1>8, <2>1 DEF TwoWay, Closed, FirstOf, LastOf, Is, b
<1>9. CASE p < Len(s)
  <2>1. /\ Len(b) > 0 /\ 1 \in 1..(Len(s) - p) /\ Len(s) - p \in 1..(Len(s) - p)
        /\ p + (Len(s) - p) = Len(s) /\ p # Len(s) /\ Len(s) > 0
        /\ p + 1 \in 1..Len(s) /\ Len(s) \in 1..Len(s)
    BY <1>3, <1>9
  <2>2. b[1] = s[p + 1] /\ b[Len(b)] = s[Len(s)]
    BY <1>3, <2>1
  <2>3. next[s[p]] = s[p + 1]
    BY <1>7, <1>9 DEF Chained
  <2>4. next2[s[Len(s)]] = None
    <3>1. next[s[Len(s)]] = None
      BY <2>1 DEF TwoWay, Closed
    <3> QED BY <2>1, <3>1 DEF TailNodes
  <2>5. prev2[s[p + 1]] = None
    BY <2>1 DEF TailNodes
  <2>6. FirstOf(b) = s[p + 1] /\ LastOf(b) = s[Len(s)] /\ LastOf(s) = s[Len(s)]
    BY <2>1, <2>2 DEF FirstOf, LastOf
  <2> QED BY <1>3, <1>6, <2>1, <2>2, <2>3, <2>4, <2>5, <2>6 DEF TwoWay, Closed, Is, b
<1> QED BY <1>8, <1>9

LEMMA HeadRest ==
  ASSUME NEW s \in Seq(Nodes), Distinct(s), NEW c, NEW p \in 1..Len(s),
         NEW next, NEW prev, NEW next2, NEW prev2, TwoWay(s, next, prev),
         HeadNodes(s, c, p, next, prev, next2, prev2)
  PROVE  Is(SubSeq(s, 1, p - 1), IF p = 1 THEN None ELSE FirstOf(s), prev[s[p]], next2, prev2)
<1> DEFINE b == SubSeq(s, 1, p - 1)
<1>1. Len(s) \in Nat /\ p \in Nat /\ p - 1 \in Nat /\ 1 <= (p - 1) + 1 /\ p - 1 <= Len(s) /\ 1 \in Nat /\ 1 <= 1
  OBVIOUS
<1>2. IsPart(b, s, 1, p - 1)
  BY <1>1, PartOf
<1>3. /\ b \in Seq(Nodes) /\ Distinct(b) /\ Len(b) = p - 1
      /\ \A i \in 1..(p - 1) : b[i] = s[i]
  <2>1. (p - 1) - 1 + 1 = p - 1 /\ \A i \in 1..(p - 1) : 1 + i - 1 = i
    OBVIOUS
  <2> QED BY <1>2, <2>1 DEF IsPart
<1>4. Inner(s, next, prev)
  BY DEF TwoWay
<1>5. Along(s, 1, p - 1, next, prev, next2, prev2)
  <2> SUFFICES ASSUME NEW i \in 1..(p - 1)
               PROVE  /\ i < p - 1 => next2[s[i]] = next[s[i]]
                      /\ i > 1 => prev2[s[i]] = prev[s[i]]
    BY DEF Along
  <2>1. i \in 1..Len(s) /\ i # p /\ i # Len(s) /\ (i < p - 1 => i # p - 1)
    OBVIOUS
  <2> QED BY <2>1 DEF HeadNodes
<1>6. Inner(b, next2, prev2)
  BY <1>1, <1>4, <1>5, PartInner
<1> HIDE DEF b
<1>7. ChainedBack(s, prev)
  BY TwoWayChained
<1>8. CASE p = 1
  <2>1. Len(b) = 0 /\ prev[s[p]] = None
    BY <1>3, <1>7, <1>8 DEF ChainedBack
  <2> QED BY <1>3, <1>6, <1>8, <2>1 DEF TwoWay, Closed, FirstOf, LastOf, Is, b
<1>9. CASE p > 1
  <2>1. /\ Len(b) > 0 /\ 1 \in 1..(p - 1) /\ p - 1 \in 1..(p - 1)
        /\ p # 1 /\ Len(s) > 0 /\ p - 1 \in 1..Len(s) /\ 1 \in 1..Len(s)
    BY <1>3, <1>9
  <2>2. b[1] = s[1] /\ b[Len(b)] = s[p - 1]
    BY <1>3, <2>1
  <2>3. prev[s[p]] = s[p - 1]
    BY <1>7, <1>9 DEF ChainedBack
  <2>4. prev2[s[1]] = None
    <3>1. prev[s[1]] = None
      BY <2>1 DEF TwoWay, Closed
    <3> QED BY <2>1, <3>1 DEF HeadNodes
  <2>5. next2[s[p - 1]] = None
    BY <2>1 DEF HeadNodes
  <2>6. FirstOf(b) = s[1] /\ LastOf(b) = s[p - 1] /\ FirstOf(s) = s[1]
    BY <1>3, <2>1, <2>2 DEF FirstOf, LastOf
  <2> QED BY <1>3, <1>6, <2>1, <2>2, <2>3, <2>4, <2>5, <2>6 DEF TwoWay, Closed, Is, b
<1> QED BY <1>8, <1>9

LEMMA TailJoin ==
  ASSUME NEW s \in Seq(Nodes), Distinct(s), NEW c \in Seq(Nodes), Distinct(c), Elems(s) \cap Elems(c) = {},
         NEW p \in 1..Len(s), NEW next, NEW prev, NEW next2, NEW prev2,
         TwoWay(s, next, prev), TwoWay(c, next, prev), TailNodes(s, c, p, next, prev, next2, prev2)
  PROVE  Is(c \o SubSeq(s, 1, p), IF c = <<>> THEN s[1] ELSE FirstOf(c), s[p], next2, prev2)
<1> DEFINE a == SubSeq(s, 1, p)
<1>1. Len(s) \in Nat /\ Len(c) \in Nat /\ p \in Nat /\ 1 <= p + 1 /\ p <= Len(s) /\ 1 \in Nat /\ 1 <= 1
  OBVIOUS
<1>2. IsPart(a, s, 1, p)
  BY <1>1, PartOf
<1>3. /\ a \in Seq(Nodes) /\ Distinct(a) /\ Len(a) = p /\ \A i \in 1..p : a[i] = s[i]
      /\ \A x : x \in Elems(a) <=> \E i \in 1..p : x = s[i]
  <2>1. p - 1 + 1 = p /\ \A i \in 1..p : 1 + i - 1 = i
    OBVIOUS
  <2> QED BY <1>2, <2>1 DEF IsPart
<1>4. Inner(a, next2, prev2)
  <2>1. Inner(s, next, prev)
    BY DEF TwoWay
  <2>2. Along(s, 1, p, next, prev, next2, prev2)
    <3> SUFFICES ASSUME NEW i \in 1..p
                 PROVE  /\ i < p => next2[s[i]] = next[s[i]]
                        /\ i > 1 => prev2[s[i]] = prev[s[i]]
      BY DEF Along
    <3>1. i \in 1..Len(s) /\ (i < p => i # p) /\ i # p + 1 /\ (i > 1 => i # 1)
      OBVIOUS
    <3> QED BY <3>1 DEF TailNodes
  <2> QED BY <1>1, <2>1, <2>2, PartInner
<1> HIDE DEF a
<1>5. Inner(c, next2, prev2)
  <2> SUFFICES ASSUME NEW i \in 1..Len(c), i < Len(c)
               PROVE  next2[c[i]] = c[i + 1] /\ prev2[c[i + 1]] = c[i]
    BY DEF Inner
  <2>1. next[c[i]] = c[i + 1] /\ prev[c[i + 1]] = c[i]
    BY DEF TwoWay, Inner
  <2>2. i # Len(c) /\ i + 1 \in 1..Len(c)
    BY <1>1
  <2> QED BY <2>1, <2>2 DEF TailNodes
<1>6. /\ a # <<>> /\ 1 \in 1..p /\ p \in 1..p /\ FirstOf(a) = s[1] /\ LastOf(a) = s[p]
  <2>1. p > 0 /\ 1 \in 1..p /\ p \in 1..p
    OBVIOUS
  <2> QED BY <1>3, <2>1 DEF FirstOf, LastOf
<1>7. c # <<>> => /\ Len(c) > 0 /\ Len(c) \in 1..Len(c) /\ 1 \in 1..Len(c)
                  /\ LastOf(c) = c[Len(c)] /\ FirstOf(c) = c[1]
  <2> SUFFICES ASSUME c # <<>> PROVE /\ Len(c) > 0 /\ Len(c) \in 1..Len(c) /\ 1 \in 1..Len(c)
                                     /\ LastOf(c) = c[Len(c)] /\ FirstOf(c) = c[1]
    OBVIOUS
  <2>1. Len(c) # 0
    BY Ends
  <2> QED BY <1>1, <2>1 DEF FirstOf, LastOf
<1>8. prev2[s[1]] = LastOf(c)
  <2>1. 1 \in 1..Len(s) /\ 1 # p + 1
    OBVIOUS
  <2> QED BY <2>1 DEF TailNodes
<1>9. c # <<>> /\ a # <<>> => next2[LastOf(c)] = FirstOf(a) /\ prev2[FirstOf(a)] = LastOf(c)
  BY <1>6, <1>7, <1>8 DEF TailNodes
<1>10. Elems(c) \cap Elems(a) = {}
  <2>1. Elems(a) \subseteq Elems(s)
    BY <1>1, <1>3 DEF Elems
  <2> QED BY <2>1
<1>11. /\ c \o a \in Seq(Nodes) /\ Len(c \o a) = Len(c) + Len(a) /\ Distinct(c \o a)
  BY <1>3, <1>10, JoinedElems
<1>12. /\ Inner(c \o a, next2, prev2)
       /\ FirstOf(c \o a) = IF c = <<>> THEN FirstOf(a) ELSE FirstOf(c)
       /\ LastOf(c \o a) = LastOf(a)
  BY <1>3, <1>4, <1>5, <1>6, <1>9, JoinedLinks
<1>13. next2[s[p]] = None
  BY DEF TailNodes
<1>14. prev2[IF c = <<>> THEN s[1] ELSE FirstOf(c)] = None
  <2>1. CASE c = <<>>
    BY <1>8, <2>1, Ends
  <2>2. CASE c # <<>>
    <3>1. prev[c[1]] = None
      BY <1>7, <2>2 DEF TwoWay, Closed
    <3> QED BY <1>7, <2>2, <3>1 DEF TailNodes
  <2> QED BY <2>1, <2>2
<1>15. Len(c \o a) > 0
  BY <1>1, <1>3, <1>11
<1>16. FirstOf(c \o a) = (c \o a)[1] /\ LastOf(c \o a) = (c \o a)[Len(c \o a)]
  BY <1>15 DEF FirstOf, LastOf
<1>17. Closed(c \o a, next2, prev2)
  BY <1>6, <1>12, <1>13, <1>14, <1>16 DEF Closed
<1> QED BY <1>6, <1>11, <1>12, <1>17 DEF Is, TwoWay, a

LEMMA HeadJoin ==
  ASSUME NEW s \in Seq(Nodes), Distinct(s), NEW c \in Seq(Nodes), Distinct(c), Elems(s) \cap Elems(c) = {},
         NEW p \in 1..Len(s), NEW next, NEW prev, NEW next2, NEW prev2,
         TwoWay(s, next, prev), TwoWay(c, next, prev), HeadNodes(s, c, p, next, prev, next2, prev2)
  PROVE  Is(SubSeq(s, p, Len(s)) \o c, s[p], IF c = <<>> THEN LastOf(s) ELSE LastOf(c), next2, prev2)
<1> DEFINE a == SubSeq(s, p, Len(s))
           n == Len(s)
           w == n - p + 1
<1>1. /\ n \in Nat /\ Len(c) \in Nat /\ p \in Nat /\ 1 <= p /\ p <= n + 1 /\ n <= n
      /\ w \in Nat /\ 1 \in 1..w /\ w \in 1..w /\ w > 0 /\ p + 1 - 1 = p /\ p + w - 1 = n
      /\ n \in 1..n /\ n # p - 1 /\ n > 0
  OBVIOUS
<1>2. IsPart(a, s, p, n)
  BY <1>1, PartOf
<1>3. /\ a \in Seq(Nodes) /\ Distinct(a) /\ Len(a) = w /\ \A i \in 1..w : a[i] = s[p + i - 1]
      /\ \A x : x \in Elems(a) <=> \E i \in p..n : x = s[i]
  BY <1>2 DEF IsPart
<1>4. Inner(a, next2, prev2)
  <2>1. Inner(s, next, prev)
    BY DEF TwoWay
  <2>2. Along(s, p, n, next, prev, next2, prev2)
    <3> SUFFICES ASSUME NEW i \in p..n
                 PROVE  /\ i < n => next2[s[i]] = next[s[i]]
                        /\ i > p => prev2[s[i]] = prev[s[i]]
      BY DEF Along
    <3>1. i \in 1..n /\ (i < n => i # n) /\ i # p - 1 /\ (i > p => i # p)
      OBVIOUS
    <3> QED BY <3>1 DEF HeadNodes
  <2> QED BY <1>1, <2>1, <2>2, PartInner
<1> HIDE DEF a
<1>5. Inner(c, next2, prev2)
  <2> SUFFICES ASSUME NEW i \in 1..Len(c), i < Len(c)
               PROVE  next2[c[i]] = c[i + 1] /\ prev2[c[i + 1]] = c[i]
    BY DEF Inner
  <2>1. next[c[i]] = c[i + 1] /\ prev[c[i + 1]] = c[i]
    BY DEF TwoWay, Inner
  <2>2. i + 1 # 1 /\ i + 1 \in 1..Len(c)
    BY <1>1
  <2> QED BY <2>1, <2>2 DEF HeadNodes
<1> HIDE DEF w
<1>6. /\ a # <<>> /\ FirstOf(a) = s[p] /\ LastOf(a) = s[n] /\ LastOf(s) = s[n]
  BY <1>1, <1>3 DEF FirstOf, LastOf
<1>7. c # <<>> => /\ Len(c) > 0 /\ Len(c) \in 1..Len(c) /\ 1 \in 1..Len(c)
                  /\ LastOf(c) = c[Len(c)] /\ FirstOf(c) = c[1]
  <2> SUFFICES ASSUME c # <<>> PROVE /\ Len(c) > 0 /\ Len(c) \in 1..Len(c) /\ 1 \in 1..Len(c)
                                     /\ LastOf(c) = c[Len(c)] /\ FirstOf(c) = c[1]
    OBVIOUS
  <2>1. Len(c) # 0
    BY Ends
  <2> QED BY <1>1, <2>1 DEF FirstOf, LastOf
<1>8. next2[s[n]] = FirstOf(c)
  BY <1>1 DEF HeadNodes
<1>9. a # <<>> /\ c # <<>> => next2[LastOf(a)] = FirstOf(c) /\ prev2[FirstOf(c)] = LastOf(a)
  BY <1>6, <1>7, <1>8 DEF HeadNodes
<1>10. Elems(a) \cap Elems(c) = {}
  <2>1. Elems(a) \subseteq Elems(s)
    <3> SUFFICES ASSUME NEW x \in Elems(a) PROVE x \in Elems(s)
      OBVIOUS
    <3>1. PICK i \in p..n : x = s[i]
      BY <1>3
    <3>2. i \in 1..n
      BY <1>1
    <3> QED BY <3>1, <3>2 DEF Elems
  <2> QED BY <2>1
<1>11. /\ a \o c \in Seq(Nodes) /\ Len(a \o c) = Len(a) + Len(c) /\ Distinct(a \o c)
  BY <1>3, <1>10, JoinedElems
<1>12. /\ Inner(a \o c, next2, prev2)
       /\ FirstOf(a \o c) = FirstOf(a)
       /\ LastOf(a \o c) = IF c = <<>> THEN LastOf(a) ELSE LastOf(c)
  BY <1>3, <1>4, <1>5, <1>6, <1>9, JoinedLinks
<1>13. prev2[s[p]] = None
  BY DEF HeadNodes
<1>14. next2[IF c = <<>> THEN s[n] ELSE LastOf(c)] = None
  <2>1. CASE c = <<>>
    BY <1>8, <2>1, Ends
  <2>2. CASE c # <<>>
    <3>1. next[c[Len(c)]] = None
      BY <1>7, <2>2 DEF TwoWay, Closed
    <3> QED BY <1>7, <2>2, <3>1 DEF HeadNodes
  <2> QED BY <2>1, <2>2
<1>15. Len(a \o c) > 0
  BY <1>1, <1>3, <1>11
<1>16. FirstOf(a \o c) = (a \o c)[1] /\ LastOf(a \o c) = (a \o c)[Len(a \o c)]
  BY <1>15 DEF FirstOf, LastOf
<1>17. Closed(a \o c, next2, prev2)
  BY <1>6, <1>12, <1>13, <1>14, <1>16 DEF Closed
<1> QED BY <1>6, <1>11, <1>12, <1>17 DEF Is, TwoWay, a

\* Two lists have become b and d, of the same nodes.
Exchanged(g, r, items, l, k, b, d) ==
  /\ r.cache = g.cache /\ r.used = g.used /\ r.free = g.free
  /\ Is(b, r.first[l], r.last[l], r.next, r.prev) /\ Is(d, r.first[k], r.last[k], r.next, r.prev)
  /\ \A j \in ListNames : j # l /\ j # k => r.first[j] = g.first[j] /\ r.last[j] = g.last[j]
  /\ \A x \in Nodes : ~InList(items, l, x) /\ ~InList(items, k, x) => r.next[x] = g.next[x] /\ r.prev[x] = g.prev[x]
  /\ \A x \in Nodes : x \in Elems(b) \/ x \in Elems(d) <=> InList(items, l, x) \/ InList(items, k, x)
  /\ \A x \in Nodes : ~(x \in Elems(b) /\ x \in Elems(d))

LEMMA Exchanges ==
  ASSUME NEW g \in Heap, NEW r \in Heap, NEW items, NEW spare, StandsFor(g, items, spare, {}),
         NEW l \in ListNames, NEW k \in ListNames, l # k, NEW b, NEW d,
         Exchanged(g, r, items, l, k, b, d)
  PROVE  StandsFor(r, [items EXCEPT ![l] = b, ![k] = d], spare, {})
<1> DEFINE items2 == [items EXCEPT ![l] = b, ![k] = d]
<1>1. items \in Sequences /\ Held(g, items) /\ Apart(items, spare, g.free, {})
  BY DEF StandsFor
<1>2. /\ b \in Seq(Nodes) /\ Distinct(b) /\ TwoWay(b, r.next, r.prev)
      /\ r.first[l] = FirstOf(b) /\ r.last[l] = LastOf(b)
  BY DEF Exchanged, Is
<1>3. /\ d \in Seq(Nodes) /\ Distinct(d) /\ TwoWay(d, r.next, r.prev)
      /\ r.first[k] = FirstOf(d) /\ r.last[k] = LastOf(d)
  BY DEF Exchanged, Is
<1>4. items2 \in Sequences
  BY <1>1, <1>2, <1>3 DEF Sequences
<1>5. /\ items2[l] = b /\ items2[k] = d
      /\ \A j \in ListNames : j # l /\ j # k => items2[j] = items[j]
  BY <1>1 DEF Sequences
<1> HIDE DEF items2
<1>6. r.cache = g.cache /\ r.used = g.used /\ r.free = g.free
  BY DEF Exchanged
<1>7. \A j \in ListNames : /\ r.first[j] = FirstOf(items2[j]) /\ r.last[j] = LastOf(items2[j])
                           /\ Distinct(items2[j])
  <2> TAKE j \in ListNames
  <2>1. CASE j = l
    BY <1>2, <1>5, <2>1
  <2>2. CASE j = k
    BY <1>3, <1>5, <2>2
  <2>3. CASE j # l /\ j # k
    <3>1. r.first[j] = g.first[j] /\ r.last[j] = g.last[j]
      BY <2>3 DEF Exchanged
    <3>2. g.first[j] = FirstOf(items[j]) /\ g.last[j] = LastOf(items[j])
      BY <1>1 DEF Held
    <3>3. Distinct(items[j])
      BY <1>1 DEF Apart
    <3> QED BY <1>5, <2>3, <3>1, <3>2, <3>3
  <2> QED BY <2>1, <2>2, <2>3
<1>8. \A x \in Nodes : (\A j \in {l, k} : ~InList(items, j, x)) => r.next[x] = g.next[x] /\ r.prev[x] = g.prev[x]
  BY DEF Exchanged
<1>9. \A x \in Nodes : (\E j \in {l, k} : InList(items2, j, x)) <=> (\E j \in {l, k} : InList(items, j, x))
  <2>1. \A x \in Nodes : x \in Elems(b) \/ x \in Elems(d) <=> InList(items, l, x) \/ InList(items, k, x)
    BY DEF Exchanged
  <2>2. \A x \in Nodes : /\ InList(items2, l, x) <=> x \in Elems(b)
                         /\ InList(items2, k, x) <=> x \in Elems(d)
    BY <1>5 DEF InList
  <2> QED BY <2>1, <2>2
<1>10. \A x \in Nodes, i, j \in {l, k} : InList(items2, i, x) /\ InList(items2, j, x) => i = j
  <2>1. \A x \in Nodes : ~(x \in Elems(b) /\ x \in Elems(d))
    BY DEF Exchanged
  <2>2. \A x \in Nodes : ~(InList(items2, l, x) /\ InList(items2, k, x))
    BY <1>5, <2>1 DEF InList
  <2> QED BY <2>2
<1>11. \A j \in ListNames : j \notin {l, k} => items2[j] = items[j]
  BY <1>5
<1>12. \A j \in ListNames : j \in {l, k} => TwoWay(items2[j], r.next, r.prev)
  BY <1>2, <1>3, <1>5
<1>13. Rearranged(g, r, items, items2, {l, k})
  BY <1>6, <1>7, <1>8, <1>9, <1>10, <1>11, <1>12 DEF Rearranged
<1>14. {l, k} \in SUBSET ListNames
  OBVIOUS
<1>15. StandsFor(r, items2, spare, {})
  BY <1>4, <1>13, <1>14, Rearranges
<1> QED BY <1>15 DEF items2

Joins(g, t, before, after) ==
  /\ t \in Heap /\ t.first = g.first /\ t.last = g.last /\ t.count = g.count /\ t.data = g.data
  /\ t.cache = g.cache /\ t.used = g.used /\ t.free = g.free
  /\ t.next = [x \in Nodes |-> IF x = before THEN after ELSE g.next[x]]
  /\ t.prev = [x \in Nodes |-> IF x = after THEN before ELSE g.prev[x]]

LEMMA JoinFields ==
  ASSUME NEW g \in Heap, NEW before \in NodesOrNone, NEW after \in NodesOrNone
  PROVE  Joins(g, Join(g, before, after), before, after)
<1> DEFINE t == IF before # None THEN [g EXCEPT !.next[before] = after] ELSE g
           r == Join(g, before, after)
<1>1. g.next \in [Nodes -> NodesOrNone] /\ g.prev \in [Nodes -> NodesOrNone]
  BY HeapTypes
<1>2. None \notin Nodes
  BY ListConstants
<1>3. r = IF after # None THEN [t EXCEPT !.prev[after] = before] ELSE t
  BY DEF Join
<1> HIDE DEF r
<1>4. /\ t.first = g.first /\ t.last = g.last /\ t.count = g.count /\ t.data = g.data
      /\ t.cache = g.cache /\ t.used = g.used /\ t.free = g.free /\ t.prev = g.prev
      /\ t.next = (IF before # None THEN [g.next EXCEPT ![before] = after] ELSE g.next)
  BY DEF Heap
<1>5. (IF before # None THEN [g.next EXCEPT ![before] = after] ELSE g.next)
        = [x \in Nodes |-> IF x = before THEN after ELSE g.next[x]]
  BY <1>1, <1>2
<1>6. [x \in Nodes |-> IF x = before THEN after ELSE g.next[x]] \in [Nodes -> NodesOrNone]
  BY <1>1
<1>7. t \in Heap
  <2>1. CASE before # None
    <3>1. [g.next EXCEPT ![before] = after] \in [Nodes -> NodesOrNone]
      BY <1>1
    <3> QED BY <2>1, <3>1 DEF Heap
  <2>2. CASE before = None
    BY <2>2
  <2> QED BY <2>1, <2>2
<1> HIDE DEF t
<1>8. /\ r.first = t.first /\ r.last = t.last /\ r.count = t.count /\ r.data = t.data
      /\ r.cache = t.cache /\ r.used = t.used /\ r.free = t.free /\ r.next = t.next
      /\ r.prev = (IF after # None THEN [t.prev EXCEPT ![after] = before] ELSE t.prev)
  BY <1>3, <1>7 DEF Heap
<1>9. (IF after # None THEN [g.prev EXCEPT ![after] = before] ELSE g.prev)
        = [x \in Nodes |-> IF x = after THEN before ELSE g.prev[x]]
  BY <1>1, <1>2
<1>10. r \in Heap
  <2>1. CASE after # None
    <3>1. [t.prev EXCEPT ![after] = before] \in [Nodes -> NodesOrNone]
      BY <1>1, <1>4
    <3> QED BY <1>3, <1>7, <2>1, <3>1 DEF Heap
  <2>2. CASE after = None
    BY <1>3, <1>7, <2>2
  <2> QED BY <2>1, <2>2
<1>11. Joins(g, r, before, after)
  BY <1>4, <1>5, <1>8, <1>9, <1>10 DEF Joins
<1> QED BY <1>11 DEF r

\* What MoveToTail and MoveToHead do to the members.
MovedTail(g, r, l, k, pos, moved) ==
  /\ r \in Heap /\ r.data = g.data /\ r.cache = g.cache /\ r.used = g.used /\ r.free = g.free
  /\ r.next = [x \in Nodes |-> IF x = pos THEN None ELSE IF x = g.last[k] THEN g.first[l] ELSE g.next[x]]
  /\ r.prev = [x \in Nodes |-> IF x = g.next[pos] THEN None
                               ELSE IF x = g.first[l] THEN g.last[k] ELSE g.prev[x]]
  /\ r.first = [g.first EXCEPT ![k] = IF @ = None THEN g.first[l] ELSE @, ![l] = g.next[pos]]
  /\ r.last = [g.last EXCEPT ![k] = pos, ![l] = IF g.next[pos] = None THEN None ELSE @]
  /\ r.count = [g.count EXCEPT ![l] = @ - moved, ![k] = @ + moved]

MovedHead(g, r, l, k, pos, moved) ==
  /\ r \in Heap /\ r.data = g.data /\ r.cache = g.cache /\ r.used = g.used /\ r.free = g.free
  /\ r.prev = [x \in Nodes |-> IF x = pos THEN None ELSE IF x = g.first[k] THEN g.last[l] ELSE g.prev[x]]
  /\ r.next = [x \in Nodes |-> IF x = g.prev[pos] THEN None
                               ELSE IF x = g.last[l] THEN g.first[k] ELSE g.next[x]]
  /\ r.last = [g.last EXCEPT ![k] = IF @ = None THEN g.last[l] ELSE @, ![l] = g.prev[pos]]
  /\ r.first = [g.first EXCEPT ![k] = pos, ![l] = IF g.prev[pos] = None THEN None ELSE @]
  /\ r.count = [g.count EXCEPT ![l] = @ - moved, ![k] = @ + moved]

LEMMA MoveTailFields ==
  ASSUME NEW g \in Heap, NEW l \in ListNames, NEW k \in ListNames, l # k, NEW pos \in Nodes,
         Moved(pos, g.prev) \in Int
  PROVE  MovedTail(g, MoveToTailOf(g, l, pos, k), l, k, pos, Moved(pos, g.prev))
<1> DEFINE t == Join(g, g.last[k], g.first[l])
           rest == g.next[pos]
           moved == Moved(pos, g.prev)
           u == [t EXCEPT !.first[k] = IF @ = None THEN g.first[l] ELSE @,
                          !.first[l] = rest, !.last[k] = pos,
                          !.last[l] = IF rest = None THEN None ELSE @]
           v == IF rest # None THEN [u EXCEPT !.prev[rest] = None] ELSE u
           r == [v EXCEPT !.next[pos] = None, !.count[l] = @ - moved, !.count[k] = @ + moved]
<1>1. r = MoveToTailOf(g, l, pos, k)
  BY DEF MoveToTailOf
<1> HIDE DEF moved
<1>2. /\ g.next \in [Nodes -> NodesOrNone] /\ g.prev \in [Nodes -> NodesOrNone]
      /\ g.first \in [ListNames -> NodesOrNone] /\ g.last \in [ListNames -> NodesOrNone]
      /\ g.count \in [ListNames -> Int]
  BY HeapTypes
<1>3. None \notin Nodes /\ None \in NodesOrNone /\ pos \in NodesOrNone /\ rest \in NodesOrNone
  BY <1>2, ListConstants DEF NodesOrNone
<1>4. Joins(g, t, g.last[k], g.first[l])
  BY <1>2, JoinFields
<1>5. /\ t \in Heap /\ t.first = g.first /\ t.last = g.last /\ t.count = g.count /\ t.data = g.data
      /\ t.cache = g.cache /\ t.used = g.used /\ t.free = g.free
      /\ t.next = [x \in Nodes |-> IF x = g.last[k] THEN g.first[l] ELSE g.next[x]]
      /\ t.prev = [x \in Nodes |-> IF x = g.first[l] THEN g.last[k] ELSE g.prev[x]]
  BY <1>4 DEF Joins
<1> HIDE DEF t
<1> DEFINE first2 == [g.first EXCEPT ![k] = IF @ = None THEN g.first[l] ELSE @, ![l] = rest]
           last2 == [g.last EXCEPT ![k] = pos, ![l] = IF rest = None THEN None ELSE @]
           prev2 == [x \in Nodes |-> IF x = rest THEN None ELSE IF x = g.first[l] THEN g.last[k] ELSE g.prev[x]]
           next2 == [x \in Nodes |-> IF x = pos THEN None ELSE IF x = g.last[k] THEN g.first[l] ELSE g.next[x]]
           count2 == [g.count EXCEPT ![l] = @ - moved, ![k] = @ + moved]
<1>6. /\ first2 \in [ListNames -> NodesOrNone] /\ last2 \in [ListNames -> NodesOrNone]
  BY <1>2, <1>3
<1>7. prev2 \in [Nodes -> NodesOrNone] /\ next2 \in [Nodes -> NodesOrNone]
  BY <1>2, <1>3
<1>8. count2 \in [ListNames -> Int]
  BY <1>2 DEF moved
<1>9. /\ u.first = first2 /\ u.last = last2 /\ u.count = t.count /\ u.data = t.data
      /\ u.cache = t.cache /\ u.used = t.used /\ u.free = t.free
      /\ u.next = t.next /\ u.prev = t.prev
  BY <1>2, <1>5 DEF Heap
<1>10. u \in Heap
  BY <1>5, <1>6, <1>9 DEF Heap
<1> HIDE DEF u
<1>11. (IF rest # None THEN [u.prev EXCEPT ![rest] = None] ELSE u.prev) = prev2
  <2>1. u.prev = [x \in Nodes |-> IF x = g.first[l] THEN g.last[k] ELSE g.prev[x]]
    BY <1>5, <1>9
  <2> QED BY <1>3, <2>1
<1>12. /\ v.first = u.first /\ v.last = u.last /\ v.count = u.count /\ v.data = u.data
       /\ v.cache = u.cache /\ v.used = u.used /\ v.free = u.free /\ v.next = u.next
       /\ v.prev = (IF rest # None THEN [u.prev EXCEPT ![rest] = None] ELSE u.prev)
  BY <1>10 DEF Heap
<1> HIDE DEF prev2
<1>13. v \in Heap
  <2>1. CASE rest # None
    <3>1. v = [u EXCEPT !.prev = prev2]
      BY <1>10, <1>11, <2>1 DEF Heap
    <3> QED BY <1>7, <1>10, <3>1 DEF Heap
  <2>2. CASE rest = None
    BY <1>10, <2>2
  <2> QED BY <2>1, <2>2
<1> HIDE DEF v
<1>14. [v.next EXCEPT ![pos] = None] = next2
  <2>1. v.next = [x \in Nodes |-> IF x = g.last[k] THEN g.first[l] ELSE g.next[x]]
    BY <1>5, <1>9, <1>12
  <2> QED BY <2>1
<1> HIDE DEF next2
<1>15. [v.count EXCEPT ![l] = @ - moved, ![k] = @ + moved] = count2
  BY <1>5, <1>9, <1>12
<1> HIDE DEF count2
<1>16. r = [v EXCEPT !.next = next2, !.count = count2]
  BY <1>13, <1>14, <1>15 DEF Heap
<1> HIDE DEF r
<1>17. r \in Heap
  BY <1>7, <1>8, <1>13, <1>16 DEF Heap
<1>18. /\ r.next = next2 /\ r.count = count2 /\ r.first = v.first /\ r.last = v.last /\ r.prev = v.prev
       /\ r.data = v.data /\ r.cache = v.cache /\ r.used = v.used /\ r.free = v.free
  BY <1>13, <1>16 DEF Heap
<1>19. r.first = first2 /\ r.last = last2 /\ r.prev = prev2 /\ r.next = next2 /\ r.count = count2
  BY <1>9, <1>11, <1>12, <1>18
<1>20. r.data = g.data /\ r.cache = g.cache /\ r.used = g.used /\ r.free = g.free
  BY <1>5, <1>9, <1>12, <1>18
<1>21. MovedTail(g, r, l, k, pos, moved)
  BY <1>17, <1>19, <1>20 DEF MovedTail, next2, prev2, count2
<1> QED BY <1>1, <1>21 DEF moved

LEMMA MoveHeadFields ==
  ASSUME NEW g \in Heap, NEW l \in ListNames, NEW k \in ListNames, l # k, NEW pos \in Nodes,
         Moved(pos, g.next) \in Int
  PROVE  MovedHead(g, MoveToHeadOf(g, l, pos, k), l, k, pos, Moved(pos, g.next))
<1> DEFINE t == Join(g, g.last[l], g.first[k])
           rest == g.prev[pos]
           moved == Moved(pos, g.next)
           u == [t EXCEPT !.last[k] = IF @ = None THEN g.last[l] ELSE @,
                          !.last[l] = rest, !.first[k] = pos,
                          !.first[l] = IF rest = None THEN None ELSE @]
           v == IF rest # None THEN [u EXCEPT !.next[rest] = None] ELSE u
           r == [v EXCEPT !.prev[pos] = None, !.count[l] = @ - moved, !.count[k] = @ + moved]
<1>1. r = MoveToHeadOf(g, l, pos, k)
  BY DEF MoveToHeadOf
<1> HIDE DEF moved
<1>2. /\ g.prev \in [Nodes -> NodesOrNone] /\ g.next \in [Nodes -> NodesOrNone]
      /\ g.last \in [ListNames -> NodesOrNone] /\ g.first \in [ListNames -> NodesOrNone]
      /\ g.count \in [ListNames -> Int]
  BY HeapTypes
<1>3. None \notin Nodes /\ None \in NodesOrNone /\ pos \in NodesOrNone /\ rest \in NodesOrNone
  BY <1>2, ListConstants DEF NodesOrNone
<1>4. Joins(g, t, g.last[l], g.first[k])
  BY <1>2, JoinFields
<1>5. /\ t \in Heap /\ t.last = g.last /\ t.first = g.first /\ t.count = g.count /\ t.data = g.data
      /\ t.cache = g.cache /\ t.used = g.used /\ t.free = g.free
      /\ t.prev = [x \in Nodes |-> IF x = g.first[k] THEN g.last[l] ELSE g.prev[x]]
      /\ t.next = [x \in Nodes |-> IF x = g.last[l] THEN g.first[k] ELSE g.next[x]]
  BY <1>4 DEF Joins
<1> HIDE DEF t
<1> DEFINE last2 == [g.last EXCEPT ![k] = IF @ = None THEN g.last[l] ELSE @, ![l] = rest]
           first2 == [g.first EXCEPT ![k] = pos, ![l] = IF rest = None THEN None ELSE @]
           next2 == [x \in Nodes |-> IF x = rest THEN None ELSE IF x = g.last[l] THEN g.first[k] ELSE g.next[x]]
           prev2 == [x \in Nodes |-> IF x = pos THEN None ELSE IF x = g.first[k] THEN g.last[l] ELSE g.prev[x]]
           count2 == [g.count EXCEPT ![l] = @ - moved, ![k] = @ + moved]
<1>6. /\ last2 \in [ListNames -> NodesOrNone] /\ first2 \in [ListNames -> NodesOrNone]
  BY <1>2, <1>3
<1>7. next2 \in [Nodes -> NodesOrNone] /\ prev2 \in [Nodes -> NodesOrNone]
  BY <1>2, <1>3
<1>8. count2 \in [ListNames -> Int]
  BY <1>2 DEF moved
<1>9. /\ u.last = last2 /\ u.first = first2 /\ u.count = t.count /\ u.data = t.data
      /\ u.cache = t.cache /\ u.used = t.used /\ u.free = t.free
      /\ u.prev = t.prev /\ u.next = t.next
  BY <1>2, <1>5 DEF Heap
<1>10. u \in Heap
  BY <1>5, <1>6, <1>9 DEF Heap
<1> HIDE DEF u
<1>11. (IF rest # None THEN [u.next EXCEPT ![rest] = None] ELSE u.next) = next2
  <2>1. u.next = [x \in Nodes |-> IF x = g.last[l] THEN g.first[k] ELSE g.next[x]]
    BY <1>5, <1>9
  <2> QED BY <1>3, <2>1
<1>12. /\ v.last = u.last /\ v.first = u.first /\ v.count = u.count /\ v.data = u.data
       /\ v.cache = u.cache /\ v.used = u.used /\ v.free = u.free /\ v.prev = u.prev
       /\ v.next = (IF rest # None THEN [u.next EXCEPT ![rest] = None] ELSE u.next)
  BY <1>10 DEF Heap
<1> HIDE DEF next2
<1>13. v \in Heap
  <2>1. CASE rest # None
    <3>1. v = [u EXCEPT !.next = next2]
      BY <1>10, <1>11, <2>1 DEF Heap
    <3> QED BY <1>7, <1>10, <3>1 DEF Heap
  <2>2. CASE rest = None
    BY <1>10, <2>2
  <2> QED BY <2>1, <2>2
<1> HIDE DEF v
<1>14. [v.prev EXCEPT ![pos] = None] = prev2
  <2>1. v.prev = [x \in Nodes |-> IF x = g.first[k] THEN g.last[l] ELSE g.prev[x]]
    BY <1>5, <1>9, <1>12
  <2> QED BY <2>1
<1> HIDE DEF prev2
<1>15. [v.count EXCEPT ![l] = @ - moved, ![k] = @ + moved] = count2
  BY <1>5, <1>9, <1>12
<1> HIDE DEF count2
<1>16. r = [v EXCEPT !.prev = prev2, !.count = count2]
  BY <1>13, <1>14, <1>15 DEF Heap
<1> HIDE DEF r
<1>17. r \in Heap
  BY <1>7, <1>8, <1>13, <1>16 DEF Heap
<1>18. /\ r.prev = prev2 /\ r.count = count2 /\ r.last = v.last /\ r.first = v.first /\ r.next = v.next
       /\ r.data = v.data /\ r.cache = v.cache /\ r.used = v.used /\ r.free = v.free
  BY <1>13, <1>16 DEF Heap
<1>19. r.last = last2 /\ r.first = first2 /\ r.next = next2 /\ r.prev = prev2 /\ r.count = count2
  BY <1>9, <1>11, <1>12, <1>18
<1>20. r.data = g.data /\ r.cache = g.cache /\ r.used = g.used /\ r.free = g.free
  BY <1>5, <1>9, <1>12, <1>18
<1>21. MovedHead(g, r, l, k, pos, moved)
  BY <1>17, <1>19, <1>20 DEF MovedHead, prev2, next2, count2
<1> QED BY <1>1, <1>21 DEF moved

(* How many nodes a move takes, and where they go.                           *)

LEMMA TailMoved ==
  ASSUME NEW s \in Seq(Nodes), Distinct(s), NEW next, NEW prev, TwoWay(s, next, prev), NEW p \in 1..Len(s)
  PROVE  Moved(s[p], prev) = p
<1> DEFINE a == SubSeq(s, 1, p)
           w == Reversed(a)
<1>1. Len(s) \in Nat /\ p \in Nat /\ 1 <= p + 1 /\ p <= Len(s) /\ 1 \in Nat /\ 1 <= 1 /\ p # 0
  OBVIOUS
<1>2. IsPart(a, s, 1, p)
  BY <1>1, PartOf
<1>3. /\ a \in Seq(Nodes) /\ Distinct(a) /\ Len(a) = p /\ \A i \in 1..p : a[i] = s[i]
  <2>1. p - 1 + 1 = p /\ \A i \in 1..p : 1 + i - 1 = i
    OBVIOUS
  <2> QED BY <1>2, <2>1 DEF IsPart
<1>4. Inner(s, next, prev)
  BY DEF TwoWay
<1>5. Inner(a, next, prev)
  BY <1>1, <1>4, PartInner DEF Along
<1> HIDE DEF a
<1>6. /\ w \in Seq(Nodes) /\ Len(w) = p /\ \A i \in 1..p : w[i] = a[p + 1 - i]
      /\ Distinct(w) /\ FirstOf(w) = LastOf(a)
  BY <1>3, <1>5, ReversedIs
<1> HIDE DEF w
<1>7. LastOf(a) = s[p]
  BY <1>1, <1>3 DEF LastOf
<1>8. ChainedBack(s, prev)
  BY TwoWayChained
<1>9. Chained(w, prev)
  <2> SUFFICES ASSUME NEW i \in 1..p
               PROVE  prev[w[i]] = IF i < p THEN w[i + 1] ELSE None
    BY <1>6 DEF Chained
  <2> DEFINE j == p + 1 - i
  <2>1. /\ j \in 1..p /\ j \in 1..Len(s) /\ (i < p <=> j > 1)
        /\ (i < p => i + 1 \in 1..p /\ j - 1 \in 1..p /\ p + 1 - (i + 1) = j - 1)
    BY <1>1
  <2>2. w[i] = s[j]
    BY <1>3, <1>6, <2>1
  <2>3. i < p => w[i + 1] = s[j - 1]
    BY <1>3, <1>6, <2>1
  <2> HIDE DEF j
  <2>4. prev[s[j]] = IF j > 1 THEN s[j - 1] ELSE None
    BY <1>8, <2>1 DEF ChainedBack
  <2> QED BY <2>1, <2>2, <2>3, <2>4
<1>10. Walk(FirstOf(w), prev) = w
  BY <1>6, <1>9, WalkMeets
<1> QED BY <1>6, <1>7, <1>10 DEF Moved

LEMMA HeadMoved ==
  ASSUME NEW s \in Seq(Nodes), Distinct(s), NEW next, NEW prev, TwoWay(s, next, prev), NEW p \in 1..Len(s)
  PROVE  Moved(s[p], next) = Len(s) - p + 1
<1> DEFINE n == Len(s)
           w == SubSeq(s, p, n)
<1>1. /\ n \in Nat /\ p \in Nat /\ 1 <= p /\ p <= n + 1 /\ n <= n /\ n - p + 1 \in Nat /\ n - p + 1 # 0
      /\ 1 \in 1..(n - p + 1) /\ p + 1 - 1 = p
  OBVIOUS
<1>2. IsPart(w, s, p, n)
  BY <1>1, PartOf
<1>3. /\ w \in Seq(Nodes) /\ Distinct(w) /\ Len(w) = n - p + 1
      /\ \A i \in 1..(n - p + 1) : w[i] = s[p + i - 1]
  BY <1>2 DEF IsPart
<1> HIDE DEF w
<1>4. FirstOf(w) = s[p]
  BY <1>1, <1>3 DEF FirstOf
<1>5. Chained(s, next)
  BY TwoWayChained
<1>6. Chained(w, next)
  <2> SUFFICES ASSUME NEW i \in 1..(n - p + 1)
               PROVE  next[w[i]] = IF i < n - p + 1 THEN w[i + 1] ELSE None
    BY <1>3 DEF Chained
  <2> DEFINE j == p + i - 1
  <2>1. /\ j \in 1..n /\ (i < n - p + 1 <=> j < n)
        /\ (i < n - p + 1 => i + 1 \in 1..(n - p + 1) /\ p + (i + 1) - 1 = j + 1)
    BY <1>1
  <2>2. w[i] = s[j]
    BY <1>3
  <2>3. i < n - p + 1 => w[i + 1] = s[j + 1]
    BY <1>3, <2>1
  <2> HIDE DEF j
  <2>4. next[s[j]] = IF j < n THEN s[j + 1] ELSE None
    BY <1>5, <2>1 DEF Chained
  <2> QED BY <2>1, <2>2, <2>3, <2>4
<1>7. Walk(FirstOf(w), next) = w
  BY <1>3, <1>6, WalkMeets
<1> QED BY <1>3, <1>4, <1>7 DEF Moved

MovesTail(g, r, items, l, k, p) ==
  /\ r \in Heap /\ r.data = g.data /\ r.count = [g.count EXCEPT ![l] = @ - p, ![k] = @ + p]
  /\ \E spare : StandsFor(r, [items EXCEPT ![l] = SubSeq(items[l], p + 1, Len(items[l])),
                                           ![k] = items[k] \o SubSeq(items[l], 1, p)], spare, {})

MovesHead(g, r, items, l, k, p) ==
  /\ r \in Heap /\ r.data = g.data
  /\ r.count = [g.count EXCEPT ![l] = @ - (Len(items[l]) - p + 1), ![k] = @ + (Len(items[l]) - p + 1)]
  /\ \E spare : StandsFor(r, [items EXCEPT ![l] = SubSeq(items[l], 1, p - 1),
                                           ![k] = SubSeq(items[l], p, Len(items[l])) \o items[k]], spare, {})

LEMMA MoveToTailMoves ==
  ASSUME NEW g \in Heap, NEW l \in ListNames, NEW k \in ListNames, l # k, NEW items, NEW spare,
         StandsFor(g, items, spare, {}), NEW p \in 1..Len(items[l])
  PROVE  MovesTail(g, MoveToTailOf(g, l, items[l][p], k), items, l, k, p)
<1> DEFINE s == items[l]
           c == items[k]
           pos == s[p]
           r == MoveToTailOf(g, l, pos, k)
           a == SubSeq(s, 1, p)
           b == SubSeq(s, p + 1, Len(s))
<1>1. items \in Sequences /\ Held(g, items) /\ Apart(items, spare, g.free, {})
  BY DEF StandsFor
<1>2. s \in Seq(Nodes) /\ Distinct(s) /\ c \in Seq(Nodes) /\ Distinct(c) /\ Elems(s) \cap Elems(c) = {}
  BY <1>1 DEF Sequences, Apart
<1>3. /\ g.first[l] = FirstOf(s) /\ g.last[l] = LastOf(s) /\ TwoWay(s, g.next, g.prev)
      /\ g.first[k] = FirstOf(c) /\ g.last[k] = LastOf(c) /\ TwoWay(c, g.next, g.prev)
  BY <1>1 DEF Held
<1>4. /\ Len(s) \in Nat /\ p \in Nat /\ 1 \in 1..Len(s) /\ Len(s) # 0 /\ Len(s) \in 1..Len(s) /\ p \in 0..Len(s)
      /\ Len(c) \in Nat
  BY <1>2
<1>5. /\ \A i \in 1..Len(s) : s[i] \in Nodes /\ s[i] \in Elems(s)
      /\ \A i \in 1..Len(c) : c[i] \in Nodes /\ c[i] \in Elems(c)
  BY <1>2, Ends
<1>6. \A i \in 1..Len(s), j \in 1..Len(c) : s[i] # c[j]
  BY <1>2, <1>5
<1>7. \A i, j \in 1..Len(s) : s[i] = s[j] => i = j
  BY <1>2 DEF Distinct
<1>8. \A i, j \in 1..Len(c) : c[i] = c[j] => i = j
  BY <1>2 DEF Distinct
<1>9. pos \in Nodes /\ None \notin Nodes
  BY <1>5, ListConstants
<1>10. Moved(pos, g.prev) = p
  BY <1>2, <1>3, TailMoved
<1>11. MovedTail(g, r, l, k, pos, p)
  <2>1. Moved(pos, g.prev) \in Int
    BY <1>10, <1>4
  <2> QED BY <1>9, <1>10, <2>1, MoveTailFields
<1> HIDE DEF r
<1>12. FirstOf(s) = s[1] /\ LastOf(s) = s[Len(s)]
  BY <1>4 DEF FirstOf, LastOf
<1>13. g.next[pos] = IF p < Len(s) THEN s[p + 1] ELSE None
  <2>1. Chained(s, g.next)
    BY <1>2, <1>3, TwoWayChained
  <2> QED BY <2>1 DEF Chained
<1>14. LastOf(c) = IF Len(c) = 0 THEN None ELSE c[Len(c)]
  BY DEF LastOf
<1>15. /\ r.next = [x \in Nodes |-> IF x = pos THEN None ELSE IF x = g.last[k] THEN g.first[l] ELSE g.next[x]]
       /\ r.prev = [x \in Nodes |-> IF x = g.next[pos] THEN None
                                    ELSE IF x = g.first[l] THEN g.last[k] ELSE g.prev[x]]
       /\ r.first = [g.first EXCEPT ![k] = IF @ = None THEN g.first[l] ELSE @, ![l] = g.next[pos]]
       /\ r.last = [g.last EXCEPT ![k] = pos, ![l] = IF g.next[pos] = None THEN None ELSE @]
       /\ r.cache = g.cache /\ r.used = g.used /\ r.free = g.free /\ r \in Heap
  BY <1>11 DEF MovedTail
<1>16. TailNodes(s, c, p, g.next, g.prev, r.next, r.prev)
  <2>1. \A i \in 1..Len(s) : s[i] # g.last[k]
    BY <1>3, <1>5, <1>6, <1>9, <1>14
  <2>2. \A i \in 1..Len(s) : r.next[s[i]] = IF i = p THEN None ELSE g.next[s[i]]
    BY <1>5, <1>7, <1>15, <2>1
  <2>3. \A i \in 1..Len(s) : s[i] = g.next[pos] <=> i = p + 1
    <3> TAKE i \in 1..Len(s)
    <3>1. CASE p < Len(s)
      <4>1. p + 1 \in 1..Len(s)
        BY <1>4, <3>1
      <4> QED BY <1>7, <1>13, <3>1, <4>1
    <3>2. CASE ~(p < Len(s))
      <4>1. i # p + 1
        BY <1>4, <3>2
      <4> QED BY <1>5, <1>9, <1>13, <3>2, <4>1
    <3> QED BY <3>1, <3>2
  <2>4. \A i \in 1..Len(s) : s[i] = g.first[l] <=> i = 1
    BY <1>3, <1>4, <1>7, <1>12
  <2>5. \A i \in 1..Len(s) :
          r.prev[s[i]] = IF i = p + 1 THEN None ELSE IF i = 1 THEN LastOf(c) ELSE g.prev[s[i]]
    BY <1>3, <1>5, <1>15, <2>3, <2>4
  <2>6. \A i \in 1..Len(c) : c[i] # pos /\ c[i] # g.first[l]
    BY <1>3, <1>4, <1>6, <1>12
  <2>7. \A i \in 1..Len(c) : c[i] = g.last[k] <=> i = Len(c)
    <3> TAKE i \in 1..Len(c)
    <3>1. Len(c) # 0 /\ Len(c) \in 1..Len(c)
      BY <1>4
    <3> QED BY <1>3, <1>8, <1>14, <3>1
  <2>8. \A i \in 1..Len(c) : r.next[c[i]] = IF i = Len(c) THEN s[1] ELSE g.next[c[i]]
    BY <1>3, <1>5, <1>12, <1>15, <2>6, <2>7
  <2>9. \A i \in 1..Len(c) : c[i] # g.next[pos]
    <3>1. p < Len(s) => p + 1 \in 1..Len(s)
      BY <1>4
    <3> QED BY <1>5, <1>6, <1>9, <1>13, <3>1
  <2>10. \A i \in 1..Len(c) : r.prev[c[i]] = g.prev[c[i]]
    BY <1>5, <1>15, <2>6, <2>9
  <2> QED BY <2>2, <2>5, <2>8, <2>10 DEF TailNodes
<1>17. Is(b, g.next[pos], IF p = Len(s) THEN None ELSE LastOf(s), r.next, r.prev)
  BY <1>2, <1>3, <1>16, TailRest
<1>18. Is(c \o a, IF c = <<>> THEN s[1] ELSE FirstOf(c), pos, r.next, r.prev)
  BY <1>2, <1>3, <1>16, TailJoin
<1>19. /\ a \in Seq(Nodes) /\ Distinct(a) /\ Elems(a) \cup Elems(b) = Elems(s) /\ Elems(a) \cap Elems(b) = {}
  BY <1>2, <1>4, CutElems DEF IsCut
<1>20. Elems(c \o a) = Elems(c) \cup Elems(a)
  <2>1. Elems(c) \cap Elems(a) = {}
    BY <1>2, <1>19
  <2> QED BY <1>2, <1>19, <2>1, JoinedElems
<1> HIDE DEF a, b
<1>21. /\ g.first \in [ListNames -> NodesOrNone] /\ g.last \in [ListNames -> NodesOrNone]
  BY HeapTypes
<1>22. /\ r.first[l] = g.next[pos] /\ r.last[l] = IF p = Len(s) THEN None ELSE LastOf(s)
       /\ r.first[k] = (IF c = <<>> THEN s[1] ELSE FirstOf(c)) /\ r.last[k] = pos
       /\ \A j \in ListNames : j # l /\ j # k => r.first[j] = g.first[j] /\ r.last[j] = g.last[j]
  <2>1. /\ r.first[l] = g.next[pos] /\ r.last[k] = pos
        /\ r.last[l] = (IF g.next[pos] = None THEN None ELSE g.last[l])
        /\ r.first[k] = (IF g.first[k] = None THEN g.first[l] ELSE g.first[k])
        /\ \A j \in ListNames : j # l /\ j # k => r.first[j] = g.first[j] /\ r.last[j] = g.last[j]
    BY <1>15, <1>21
  <2>2. g.next[pos] = None <=> p = Len(s)
    <3>1. p < Len(s) => p + 1 \in 1..Len(s) /\ p # Len(s)
      BY <1>4
    <3>2. ~(p < Len(s)) => p = Len(s)
      BY <1>4
    <3> QED BY <1>5, <1>9, <1>13, <3>1, <3>2
  <2>3. g.first[k] = None <=> c = <<>>
    BY <1>2, <1>3, Ends
  <2> QED BY <1>3, <1>12, <2>1, <2>2, <2>3
<1>23. Exchanged(g, r, items, l, k, b, c \o a)
  <2>1. \A x \in Nodes : x \in Elems(b) \/ x \in Elems(c \o a) <=> InList(items, l, x) \/ InList(items, k, x)
    BY <1>19, <1>20 DEF InList
  <2>2. \A x \in Nodes : ~(x \in Elems(b) /\ x \in Elems(c \o a))
    BY <1>2, <1>19, <1>20
  <2>3. \A x \in Nodes : ~InList(items, l, x) /\ ~InList(items, k, x) => r.next[x] = g.next[x] /\ r.prev[x] = g.prev[x]
    <3> SUFFICES ASSUME NEW x \in Nodes, x \notin Elems(s), x \notin Elems(c)
                 PROVE  r.next[x] = g.next[x] /\ r.prev[x] = g.prev[x]
      BY DEF InList
    <3>1. x # pos /\ x # g.first[l]
      BY <1>3, <1>4, <1>5, <1>12
    <3>2. x # g.last[k]
      <4>1. Len(c) # 0 => Len(c) \in 1..Len(c)
        BY <1>4
      <4> QED BY <1>3, <1>5, <1>9, <1>14, <4>1
    <3>3. x # g.next[pos]
      <4>1. p < Len(s) => p + 1 \in 1..Len(s)
        BY <1>4
      <4> QED BY <1>5, <1>9, <1>13, <4>1
    <3> QED BY <1>15, <3>1, <3>2, <3>3
  <2>4. /\ Is(b, r.first[l], r.last[l], r.next, r.prev)
        /\ Is(c \o a, r.first[k], r.last[k], r.next, r.prev)
    BY <1>17, <1>18, <1>22
  <2> QED BY <1>15, <1>22, <2>1, <2>2, <2>3, <2>4 DEF Exchanged
<1>24. StandsFor(r, [items EXCEPT ![l] = b, ![k] = c \o a], spare, {})
  BY <1>15, <1>23, Exchanges
<1>25. r.data = g.data /\ r.count = [g.count EXCEPT ![l] = @ - p, ![k] = @ + p]
  BY <1>11 DEF MovedTail
<1>26. MovesTail(g, r, items, l, k, p)
  BY <1>15, <1>24, <1>25 DEF MovesTail, a, b
<1> QED BY <1>26 DEF r

LEMMA MoveToHeadMoves ==
  ASSUME NEW g \in Heap, NEW l \in ListNames, NEW k \in ListNames, l # k, NEW items, NEW spare,
         StandsFor(g, items, spare, {}), NEW p \in 1..Len(items[l])
  PROVE  MovesHead(g, MoveToHeadOf(g, l, items[l][p], k), items, l, k, p)
<1> DEFINE s == items[l]
           c == items[k]
           n == Len(s)
           pos == s[p]
           r == MoveToHeadOf(g, l, pos, k)
           a == SubSeq(s, p, n)
           b == SubSeq(s, 1, p - 1)
<1>1. items \in Sequences /\ Held(g, items) /\ Apart(items, spare, g.free, {})
  BY DEF StandsFor
<1>2. s \in Seq(Nodes) /\ Distinct(s) /\ c \in Seq(Nodes) /\ Distinct(c) /\ Elems(s) \cap Elems(c) = {}
  BY <1>1 DEF Sequences, Apart
<1>3. /\ g.first[l] = FirstOf(s) /\ g.last[l] = LastOf(s) /\ TwoWay(s, g.next, g.prev)
      /\ g.first[k] = FirstOf(c) /\ g.last[k] = LastOf(c) /\ TwoWay(c, g.next, g.prev)
  BY <1>1 DEF Held
<1>4. /\ n \in Nat /\ p \in Nat /\ 1 \in 1..n /\ n # 0 /\ n \in 1..n /\ p - 1 \in 0..n
      /\ (p - 1) + 1 = p /\ Len(c) \in Nat /\ n - p + 1 \in Nat
  BY <1>2
<1>5. /\ \A i \in 1..n : s[i] \in Nodes /\ s[i] \in Elems(s)
      /\ \A i \in 1..Len(c) : c[i] \in Nodes /\ c[i] \in Elems(c)
  BY <1>2, Ends
<1>6. \A i \in 1..n, j \in 1..Len(c) : s[i] # c[j]
  BY <1>2, <1>5
<1>7. \A i, j \in 1..n : s[i] = s[j] => i = j
  BY <1>2 DEF Distinct
<1>8. \A i, j \in 1..Len(c) : c[i] = c[j] => i = j
  BY <1>2 DEF Distinct
<1>9. pos \in Nodes /\ None \notin Nodes
  BY <1>5, ListConstants
<1>10. Moved(pos, g.next) = n - p + 1
  BY <1>2, <1>3, HeadMoved
<1>11. MovedHead(g, r, l, k, pos, n - p + 1)
  <2>1. Moved(pos, g.next) \in Int
    BY <1>10, <1>4
  <2> QED BY <1>9, <1>10, <2>1, MoveHeadFields
<1> HIDE DEF r
<1>12. FirstOf(s) = s[1] /\ LastOf(s) = s[n]
  BY <1>4 DEF FirstOf, LastOf
<1>13. g.prev[pos] = IF p > 1 THEN s[p - 1] ELSE None
  <2>1. ChainedBack(s, g.prev)
    BY <1>2, <1>3, TwoWayChained
  <2> QED BY <2>1 DEF ChainedBack
<1>14. FirstOf(c) = IF Len(c) = 0 THEN None ELSE c[1]
  BY DEF FirstOf
<1>15. /\ r.prev = [x \in Nodes |-> IF x = pos THEN None ELSE IF x = g.first[k] THEN g.last[l] ELSE g.prev[x]]
       /\ r.next = [x \in Nodes |-> IF x = g.prev[pos] THEN None
                                    ELSE IF x = g.last[l] THEN g.first[k] ELSE g.next[x]]
       /\ r.last = [g.last EXCEPT ![k] = IF @ = None THEN g.last[l] ELSE @, ![l] = g.prev[pos]]
       /\ r.first = [g.first EXCEPT ![k] = pos, ![l] = IF g.prev[pos] = None THEN None ELSE @]
       /\ r.cache = g.cache /\ r.used = g.used /\ r.free = g.free /\ r \in Heap
  BY <1>11 DEF MovedHead
<1>16. HeadNodes(s, c, p, g.next, g.prev, r.next, r.prev)
  <2>1. \A i \in 1..n : s[i] # g.first[k]
    <3>1. Len(c) # 0 => 1 \in 1..Len(c)
      BY <1>4
    <3> QED BY <1>3, <1>5, <1>6, <1>9, <1>14, <3>1
  <2>2. \A i \in 1..n : r.prev[s[i]] = IF i = p THEN None ELSE g.prev[s[i]]
    BY <1>5, <1>7, <1>15, <2>1
  <2>3. \A i \in 1..n : s[i] = g.prev[pos] <=> i = p - 1
    <3> TAKE i \in 1..n
    <3>1. CASE p > 1
      <4>1. p - 1 \in 1..n
        BY <1>4, <3>1
      <4> QED BY <1>7, <1>13, <3>1, <4>1
    <3>2. CASE ~(p > 1)
      <4>1. i # p - 1
        BY <1>4, <3>2
      <4> QED BY <1>5, <1>9, <1>13, <3>2, <4>1
    <3> QED BY <3>1, <3>2
  <2>4. \A i \in 1..n : s[i] = g.last[l] <=> i = n
    BY <1>3, <1>4, <1>7, <1>12
  <2>5. \A i \in 1..n :
          r.next[s[i]] = IF i = p - 1 THEN None ELSE IF i = n THEN FirstOf(c) ELSE g.next[s[i]]
    BY <1>3, <1>5, <1>15, <2>3, <2>4
  <2>6. \A i \in 1..Len(c) : c[i] # pos /\ c[i] # g.last[l]
    BY <1>3, <1>4, <1>6, <1>12
  <2>7. \A i \in 1..Len(c) : c[i] = g.first[k] <=> i = 1
    <3> TAKE i \in 1..Len(c)
    <3>1. Len(c) # 0 /\ 1 \in 1..Len(c)
      BY <1>4
    <3> QED BY <1>3, <1>8, <1>14, <3>1
  <2>8. \A i \in 1..Len(c) : r.prev[c[i]] = IF i = 1 THEN s[n] ELSE g.prev[c[i]]
    BY <1>3, <1>5, <1>12, <1>15, <2>6, <2>7
  <2>9. \A i \in 1..Len(c) : c[i] # g.prev[pos]
    <3>1. p > 1 => p - 1 \in 1..n
      BY <1>4
    <3> QED BY <1>5, <1>6, <1>9, <1>13, <3>1
  <2>10. \A i \in 1..Len(c) : r.next[c[i]] = g.next[c[i]]
    BY <1>5, <1>15, <2>6, <2>9
  <2> QED BY <2>2, <2>5, <2>8, <2>10 DEF HeadNodes
<1>17. Is(b, IF p = 1 THEN None ELSE FirstOf(s), g.prev[pos], r.next, r.prev)
  BY <1>2, <1>3, <1>16, HeadRest
<1>18. Is(a \o c, pos, IF c = <<>> THEN LastOf(s) ELSE LastOf(c), r.next, r.prev)
  BY <1>2, <1>3, <1>16, HeadJoin
<1>19. /\ a \in Seq(Nodes) /\ Distinct(a) /\ Elems(b) \cup Elems(a) = Elems(s) /\ Elems(b) \cap Elems(a) = {}
  <2>1. IsCut(s, p - 1, b, SubSeq(s, (p - 1) + 1, n))
    BY <1>2, <1>4, CutElems
  <2>2. SubSeq(s, (p - 1) + 1, n) = a
    BY <1>4
  <2> QED BY <2>1, <2>2 DEF IsCut
<1>20. Elems(a \o c) = Elems(a) \cup Elems(c)
  <2>1. Elems(a) \cap Elems(c) = {}
    BY <1>2, <1>19
  <2> QED BY <1>2, <1>19, <2>1, JoinedElems
<1> HIDE DEF a, b
<1>21. /\ g.first \in [ListNames -> NodesOrNone] /\ g.last \in [ListNames -> NodesOrNone]
  BY HeapTypes
<1>22. /\ r.first[l] = (IF p = 1 THEN None ELSE FirstOf(s)) /\ r.last[l] = g.prev[pos]
       /\ r.first[k] = pos /\ r.last[k] = (IF c = <<>> THEN LastOf(s) ELSE LastOf(c))
       /\ \A j \in ListNames : j # l /\ j # k => r.first[j] = g.first[j] /\ r.last[j] = g.last[j]
  <2>1. /\ r.last[l] = g.prev[pos] /\ r.first[k] = pos
        /\ r.first[l] = (IF g.prev[pos] = None THEN None ELSE g.first[l])
        /\ r.last[k] = (IF g.last[k] = None THEN g.last[l] ELSE g.last[k])
        /\ \A j \in ListNames : j # l /\ j # k => r.first[j] = g.first[j] /\ r.last[j] = g.last[j]
    BY <1>15, <1>21
  <2>2. g.prev[pos] = None <=> p = 1
    <3>1. p > 1 => p - 1 \in 1..n /\ p # 1
      BY <1>4
    <3>2. ~(p > 1) => p = 1
      BY <1>4
    <3> QED BY <1>5, <1>9, <1>13, <3>1, <3>2
  <2>3. g.last[k] = None <=> c = <<>>
    BY <1>2, <1>3, Ends
  <2> QED BY <1>3, <2>1, <2>2, <2>3
<1>23. Exchanged(g, r, items, l, k, b, a \o c)
  <2>1. \A x \in Nodes : x \in Elems(b) \/ x \in Elems(a \o c) <=> InList(items, l, x) \/ InList(items, k, x)
    BY <1>19, <1>20 DEF InList
  <2>2. \A x \in Nodes : ~(x \in Elems(b) /\ x \in Elems(a \o c))
    BY <1>2, <1>19, <1>20
  <2>3. \A x \in Nodes : ~InList(items, l, x) /\ ~InList(items, k, x) => r.next[x] = g.next[x] /\ r.prev[x] = g.prev[x]
    <3> SUFFICES ASSUME NEW x \in Nodes, x \notin Elems(s), x \notin Elems(c)
                 PROVE  r.next[x] = g.next[x] /\ r.prev[x] = g.prev[x]
      BY DEF InList
    <3>1. x # pos /\ x # g.last[l]
      BY <1>3, <1>4, <1>5, <1>12
    <3>2. x # g.first[k]
      <4>1. Len(c) # 0 => 1 \in 1..Len(c)
        BY <1>4
      <4> QED BY <1>3, <1>5, <1>9, <1>14, <4>1
    <3>3. x # g.prev[pos]
      <4>1. p > 1 => p - 1 \in 1..n
        BY <1>4
      <4> QED BY <1>5, <1>9, <1>13, <4>1
    <3> QED BY <1>15, <3>1, <3>2, <3>3
  <2>4. /\ Is(b, r.first[l], r.last[l], r.next, r.prev)
        /\ Is(a \o c, r.first[k], r.last[k], r.next, r.prev)
    BY <1>17, <1>18, <1>22
  <2> QED BY <1>15, <1>22, <2>1, <2>2, <2>3, <2>4 DEF Exchanged
<1>24. StandsFor(r, [items EXCEPT ![l] = b, ![k] = a \o c], spare, {})
  BY <1>15, <1>23, Exchanges
<1>25. r.data = g.data /\ r.count = [g.count EXCEPT ![l] = @ - (n - p + 1), ![k] = @ + (n - p + 1)]
  BY <1>11 DEF MovedHead
<1>26. MovesHead(g, r, items, l, k, p)
  BY <1>15, <1>24, <1>25 DEF MovesHead, a, b
<1> QED BY <1>26 DEF r

(* What every operation keeps.                                               *)

Counted(g, items) == \A l \in ListNames : g.count[l] = Len(items[l])
Named(g, items) == \A l \in ListNames : \A i \in 1..Len(items[l]) : g.data[items[l][i]] \in Objects

HeapOf(g, items) ==
  /\ g \in Heap /\ Counted(g, items) /\ Named(g, items)
  /\ \E spare : StandsFor(g, items, spare, {})

LEMMA HeapIs ==
  ASSUME NEW g, NEW items, HeapOf(g, items)
  PROVE  /\ g \in Heap /\ items \in Sequences
         /\ \A l \in ListNames : /\ items[l] \in Seq(Nodes) /\ Len(items[l]) \in Nat /\ Distinct(items[l])
                                 /\ g.count[l] = Len(items[l])
                                 /\ \A i \in 1..Len(items[l]) : /\ items[l][i] \in Nodes
                                                                /\ items[l][i] \in Elems(items[l])
                                                                /\ g.data[items[l][i]] \in Objects
         /\ \A l, k \in ListNames : l # k => Elems(items[l]) \cap Elems(items[k]) = {}
<1>1. g \in Heap /\ Counted(g, items) /\ Named(g, items)
  BY DEF HeapOf
<1>2. PICK spare : StandsFor(g, items, spare, {})
  BY DEF HeapOf
<1>3. items \in Sequences /\ Apart(items, spare, g.free, {})
  BY <1>2 DEF StandsFor
<1>4. \A l \in ListNames : items[l] \in Seq(Nodes) /\ Distinct(items[l])
  BY <1>3 DEF Sequences, Apart
<1>5. \A l, k \in ListNames : l # k => Elems(items[l]) \cap Elems(items[k]) = {}
  BY <1>3 DEF Apart
<1>6. \A l \in ListNames : /\ Len(items[l]) \in Nat
                           /\ \A i \in 1..Len(items[l]) : items[l][i] \in Nodes /\ items[l][i] \in Elems(items[l])
  BY <1>4, Ends
<1>7. \A l \in ListNames : /\ g.count[l] = Len(items[l])
                           /\ \A i \in 1..Len(items[l]) : g.data[items[l][i]] \in Objects
  BY <1>1 DEF Counted, Named
<1> QED BY <1>1, <1>3, <1>4, <1>5, <1>6, <1>7

\* The items, in a list of any kind, name what they named.
LEMMA AddKeeps ==
  ASSUME NEW g, NEW r, NEW items, HeapOf(g, items), NEW l \in ListNames, NEW p \in 1..(Len(items[l]) + 1),
         NEW n, NEW o \in Objects, Adds(g, r, items, l, p, n, o)
  PROVE  HeapOf(r, [items EXCEPT ![l] = InsertedAt(@, p, n)])
<1> DEFINE items2 == [items EXCEPT ![l] = InsertedAt(@, p, n)]
<1>1. /\ g \in Heap /\ items \in Sequences
      /\ \A k \in ListNames : /\ items[k] \in Seq(Nodes) /\ Distinct(items[k]) /\ Len(items[k]) \in Nat
                              /\ g.count[k] = Len(items[k])
                              /\ \A i \in 1..Len(items[k]) : /\ items[k][i] \in Nodes
                                                             /\ items[k][i] \in Elems(items[k])
                                                             /\ g.data[items[k][i]] \in Objects
  BY HeapIs
<1>2. /\ r \in Heap /\ n \in Nodes
      /\ r.data = [g.data EXCEPT ![n] = o] /\ r.count = [g.count EXCEPT ![l] = @ + 1]
      /\ \A k \in ListNames : n \notin Elems(items[k])
      /\ \E spare : StandsFor(r, items2, spare, {})
  BY DEF Adds
<1>3. /\ Len(InsertedAt(items[l], p, n)) = Len(items[l]) + 1
      /\ InsertedAt(items[l], p, n) \in Seq(Nodes)
      /\ Elems(InsertedAt(items[l], p, n)) = Elems(items[l]) \cup {n}
  BY <1>1, <1>2, InsertedElems
<1>4. /\ items2[l] = InsertedAt(items[l], p, n) /\ \A k \in ListNames : k # l => items2[k] = items[k]
  BY <1>1 DEF Sequences
<1> HIDE DEF items2
<1>5. g.count \in [ListNames -> Int] /\ g.data \in [Nodes -> Objects \cup {None}]
  BY <1>1, HeapTypes
<1>6. Counted(r, items2)
  BY <1>1, <1>2, <1>3, <1>4, <1>5 DEF Counted
<1>7. Named(r, items2)
  <2> SUFFICES ASSUME NEW k \in ListNames, NEW x \in Elems(items2[k]) PROVE r.data[x] \in Objects
    BY DEF Named, Elems
  <2>1. \A j \in ListNames : \A y \in Elems(items[j]) : y \in Nodes /\ g.data[y] \in Objects
    BY <1>1 DEF Elems
  <2>2. r.data[n] = o /\ \A y \in Nodes : y # n => r.data[y] = g.data[y]
    BY <1>2, <1>5
  <2>3. x = n \/ \E j \in ListNames : x \in Elems(items[j])
    BY <1>3, <1>4
  <2> QED BY <2>1, <2>2, <2>3
<1>8. HeapOf(r, items2)
  BY <1>2, <1>6, <1>7 DEF HeapOf
<1> QED BY <1>8 DEF items2

\* Only elements of lists are in the lists, and each keeps its object.
Stay(g, r, items, items2) ==
  /\ \A k \in ListNames : \A x \in Elems(items2[k]) : \E j \in ListNames : x \in Elems(items[j])
  /\ \A k \in ListNames : \A x \in Elems(items2[k]) : r.data[x] = g.data[x]

LEMMA NamedStays ==
  ASSUME NEW g, NEW r, NEW items, HeapOf(g, items), NEW items2, Stay(g, r, items, items2)
  PROVE  Named(r, items2)
<1>1. \A j \in ListNames : \A y \in Elems(items[j]) : g.data[y] \in Objects
  BY HeapIs DEF Elems
<1>2. \A k \in ListNames : \A x \in Elems(items2[k]) : r.data[x] \in Objects
  BY <1>1 DEF Stay
<1> QED BY <1>2 DEF Named, Elems

LEMMA RemoveKeeps ==
  ASSUME NEW g, NEW r, NEW items, HeapOf(g, items), NEW l \in ListNames, NEW i \in 1..Len(items[l]),
         Removes(g, r, items, l, i)
  PROVE  HeapOf(r, [items EXCEPT ![l] = RemovedAt(@, i)])
<1> DEFINE items2 == [items EXCEPT ![l] = RemovedAt(@, i)]
           x0 == items[l][i]
<1>1. /\ g \in Heap /\ items \in Sequences
      /\ \A k \in ListNames : /\ items[k] \in Seq(Nodes) /\ Distinct(items[k]) /\ Len(items[k]) \in Nat
                              /\ g.count[k] = Len(items[k])
                              /\ Elems(items[k]) \subseteq Nodes
  BY HeapIs, Ends
<1>2. /\ r \in Heap /\ r.data = [g.data EXCEPT ![x0] = None] /\ r.count = [g.count EXCEPT ![l] = @ - 1]
      /\ \E spare : StandsFor(r, items2, spare, {})
  BY DEF Removes
<1>3. /\ Len(RemovedAt(items[l], i)) = Len(items[l]) - 1
      /\ Elems(RemovedAt(items[l], i)) = Elems(items[l]) \ {x0}
  BY <1>1, RemovedElems
<1>4. /\ items2[l] = RemovedAt(items[l], i) /\ \A k \in ListNames : k # l => items2[k] = items[k]
  BY <1>1 DEF Sequences
<1> HIDE DEF items2
<1>5. g.count \in [ListNames -> Int] /\ g.data \in [Nodes -> Objects \cup {None}]
  BY <1>1, HeapTypes
<1>6. Counted(r, items2)
  <2>1. r.count[l] = g.count[l] - 1 /\ \A k \in ListNames : k # l => r.count[k] = g.count[k]
    BY <1>2, <1>5
  <2> QED BY <1>1, <1>3, <1>4, <2>1 DEF Counted
<1>7. \A k \in ListNames : k # l => Elems(items[l]) \cap Elems(items[k]) = {}
  BY HeapIs
<1>8. x0 \in Elems(items[l])
  BY DEF Elems
<1> HIDE DEF x0
<1>9. \A k \in ListNames : \A x \in Elems(items2[k]) : x \in Elems(items[k]) /\ x \in Nodes /\ x # x0
  BY <1>1, <1>3, <1>4, <1>7, <1>8
<1>10. \A y \in Nodes : y # x0 => r.data[y] = g.data[y]
  BY <1>2, <1>5
<1>11. Named(r, items2)
  <2>1. \A k \in ListNames : \A x \in Elems(items2[k]) : \E j \in ListNames : x \in Elems(items[j])
    BY <1>9
  <2>2. \A k \in ListNames : \A x \in Elems(items2[k]) : r.data[x] = g.data[x]
    BY <1>9, <1>10
  <2>3. Stay(g, r, items, items2)
    BY <2>1, <2>2 DEF Stay
  <2> QED BY <2>3, NamedStays
<1>12. HeapOf(r, items2)
  BY <1>2, <1>6, <1>11 DEF HeapOf
<1> QED BY <1>12 DEF items2

LEMMA EmptyKeeps ==
  ASSUME NEW g, NEW r, NEW items, HeapOf(g, items), NEW l \in ListNames, Empties(g, r, items, l)
  PROVE  HeapOf(r, [items EXCEPT ![l] = <<>>])
<1> DEFINE items2 == [items EXCEPT ![l] = <<>>]
<1>1. /\ g \in Heap /\ items \in Sequences
      /\ \A k \in ListNames : g.count[k] = Len(items[k]) /\ items[k] \in Seq(Nodes)
  BY HeapIs
<1>2. /\ r \in Heap /\ r.count = [g.count EXCEPT ![l] = 0]
      /\ r.data = [x \in Nodes |-> IF x \in Elems(items[l]) THEN None ELSE g.data[x]]
      /\ \E spare : StandsFor(r, items2, spare, {})
  BY DEF Empties
<1>3. Len(<<>>) = 0 /\ Elems(<<>>) = {}
  BY DEF Elems
<1>4. /\ items2[l] = <<>> /\ \A k \in ListNames : k # l => items2[k] = items[k]
  BY <1>1 DEF Sequences
<1> HIDE DEF items2
<1>5. g.count \in [ListNames -> Int]
  BY <1>1, HeapTypes
<1>6. Counted(r, items2)
  BY <1>1, <1>2, <1>3, <1>4, <1>5 DEF Counted
<1>7. \A k \in ListNames : k # l => Elems(items[l]) \cap Elems(items[k]) = {}
  BY HeapIs
<1>8. \A k \in ListNames : Elems(items[k]) \subseteq Nodes
  BY <1>1, Ends
<1>9. \A k \in ListNames : \A x \in Elems(items2[k]) : x \in Elems(items[k]) /\ x \in Nodes /\ x \notin Elems(items[l])
  BY <1>3, <1>4, <1>7, <1>8
<1>10. \A y \in Nodes : y \notin Elems(items[l]) => r.data[y] = g.data[y]
  BY <1>2
<1>11. Named(r, items2)
  <2>1. \A k \in ListNames : \A x \in Elems(items2[k]) : \E j \in ListNames : x \in Elems(items[j])
    BY <1>9
  <2>2. \A k \in ListNames : \A x \in Elems(items2[k]) : r.data[x] = g.data[x]
    BY <1>9, <1>10
  <2>3. Stay(g, r, items, items2)
    BY <2>1, <2>2 DEF Stay
  <2> QED BY <2>3, NamedStays
<1>12. HeapOf(r, items2)
  BY <1>2, <1>6, <1>11 DEF HeapOf
<1> QED BY <1>12 DEF items2

LEMMA ReverseKeeps ==
  ASSUME NEW g, NEW r, NEW items, HeapOf(g, items), NEW l \in ListNames, Reverses(g, r, items, l)
  PROVE  HeapOf(r, [items EXCEPT ![l] = Reversed(@)])
<1> DEFINE items2 == [items EXCEPT ![l] = Reversed(@)]
<1>1. /\ g \in Heap /\ items \in Sequences
      /\ \A k \in ListNames : /\ g.count[k] = Len(items[k]) /\ items[k] \in Seq(Nodes)
                              /\ Distinct(items[k])
  BY HeapIs
<1>2. r \in Heap /\ r.count = g.count /\ r.data = g.data /\ \E spare : StandsFor(r, items2, spare, {})
  BY DEF Reverses
<1>3. TwoWay(items[l], g.next, g.prev)
  BY DEF HeapOf, StandsFor, Held
<1>4. Inner(items[l], g.next, g.prev)
  BY <1>3 DEF TwoWay
<1>5. Len(Reversed(items[l])) = Len(items[l]) /\ Elems(Reversed(items[l])) = Elems(items[l])
  BY <1>1, <1>4, ReversedIs
<1>6. items2[l] = Reversed(items[l]) /\ \A k \in ListNames : k # l => items2[k] = items[k]
  BY <1>1 DEF Sequences
<1> HIDE DEF items2, Reversed
<1>7. Counted(r, items2)
  BY <1>1, <1>2, <1>5, <1>6 DEF Counted
<1>8. Stay(g, r, items, items2)
  <2>1. \A k \in ListNames : Elems(items2[k]) = Elems(items[k])
    BY <1>5, <1>6
  <2> QED BY <1>2, <2>1 DEF Stay
<1>9. Named(r, items2)
  BY <1>8, NamedStays
<1>10. HeapOf(r, items2)
  BY <1>2, <1>7, <1>9 DEF HeapOf
<1> QED BY <1>10 DEF items2, Reversed

\* Two lists have exchanged objects.
LEMMA MoveKeeps ==
  ASSUME NEW g, NEW r \in Heap, NEW items, HeapOf(g, items), NEW l \in ListNames, NEW k \in ListNames, l # k,
         NEW b \in Seq(Nodes), NEW d \in Seq(Nodes), NEW w \in Int, r.data = g.data,
         r.count = [g.count EXCEPT ![l] = @ - w, ![k] = @ + w],
         Len(b) = Len(items[l]) - w, Len(d) = Len(items[k]) + w,
         Elems(b) \cup Elems(d) \subseteq Elems(items[l]) \cup Elems(items[k]),
         \E spare : StandsFor(r, [items EXCEPT ![l] = b, ![k] = d], spare, {})
  PROVE  HeapOf(r, [items EXCEPT ![l] = b, ![k] = d])
<1> DEFINE items2 == [items EXCEPT ![l] = b, ![k] = d]
<1>1. /\ g \in Heap /\ items \in Sequences
      /\ \A j \in ListNames : g.count[j] = Len(items[j]) /\ Len(items[j]) \in Nat
  BY HeapIs
<1>2. items2[l] = b /\ items2[k] = d /\ \A j \in ListNames : j # l /\ j # k => items2[j] = items[j]
  BY <1>1 DEF Sequences
<1>3. \E spare : StandsFor(r, items2, spare, {})
  OBVIOUS
<1> HIDE DEF items2
<1>4. g.count \in [ListNames -> Int]
  BY <1>1, HeapTypes
<1>5. Counted(r, items2)
  <2>1. /\ r.count[l] = g.count[l] - w /\ r.count[k] = g.count[k] + w
        /\ \A j \in ListNames : j # l /\ j # k => r.count[j] = g.count[j]
    BY <1>4
  <2> QED BY <1>1, <1>2, <2>1 DEF Counted
<1>6. Stay(g, r, items, items2)
  <2>1. \A j \in ListNames : \A x \in Elems(items2[j]) : \E i \in ListNames : x \in Elems(items[i])
    BY <1>2
  <2> QED BY <2>1 DEF Stay
<1>7. Named(r, items2)
  BY <1>6, NamedStays
<1>8. HeapOf(r, items2)
  BY <1>3, <1>5, <1>7 DEF HeapOf
<1> QED BY <1>8 DEF items2

LEMMA MoveTailKeeps ==
  ASSUME NEW g, NEW r, NEW items, HeapOf(g, items), NEW l \in ListNames, NEW k \in ListNames, l # k,
         NEW p \in 1..Len(items[l]), MovesTail(g, r, items, l, k, p)
  PROVE  HeapOf(r, [items EXCEPT ![l] = SubSeq(items[l], p + 1, Len(items[l])),
                                 ![k] = items[k] \o SubSeq(items[l], 1, p)])
<1> DEFINE s == items[l]
           c == items[k]
           a == SubSeq(s, 1, p)
           b == SubSeq(s, p + 1, Len(s))
           d == c \o a
<1>1. /\ s \in Seq(Nodes) /\ Distinct(s) /\ c \in Seq(Nodes) /\ Distinct(c) /\ Elems(s) \cap Elems(c) = {}
      /\ Len(s) \in Nat /\ Len(c) \in Nat
  BY HeapIs
<1>2. /\ r \in Heap /\ r.data = g.data /\ r.count = [g.count EXCEPT ![l] = @ - p, ![k] = @ + p]
      /\ \E spare : StandsFor(r, [items EXCEPT ![l] = b, ![k] = d], spare, {})
  BY DEF MovesTail
<1>3. p \in 0..Len(s) /\ p \in Int
  BY <1>1
<1>4. /\ a \in Seq(Nodes) /\ b \in Seq(Nodes) /\ Len(a) = p /\ Len(b) = Len(s) - p /\ Distinct(a)
      /\ Elems(a) \cup Elems(b) = Elems(s)
  BY <1>1, <1>3, CutElems DEF IsCut
<1> HIDE DEF a, b
<1>5. Elems(c) \cap Elems(a) = {}
  BY <1>1, <1>4
<1>6. d \in Seq(Nodes) /\ Len(d) = Len(c) + p /\ Elems(d) = Elems(c) \cup Elems(a)
  BY <1>1, <1>4, <1>5, JoinedElems
<1> HIDE DEF d
<1>7. Elems(b) \cup Elems(d) \subseteq Elems(items[l]) \cup Elems(items[k])
  BY <1>4, <1>6
<1>8. HeapOf(r, [items EXCEPT ![l] = b, ![k] = d])
  BY <1>2, <1>3, <1>4, <1>6, <1>7, MoveKeeps
<1> QED BY <1>8 DEF d, a, b

LEMMA MoveHeadKeeps ==
  ASSUME NEW g, NEW r, NEW items, HeapOf(g, items), NEW l \in ListNames, NEW k \in ListNames, l # k,
         NEW p \in 1..Len(items[l]), MovesHead(g, r, items, l, k, p)
  PROVE  HeapOf(r, [items EXCEPT ![l] = SubSeq(items[l], 1, p - 1),
                                 ![k] = SubSeq(items[l], p, Len(items[l])) \o items[k]])
<1> DEFINE s == items[l]
           c == items[k]
           w == Len(s) - p + 1
           a == SubSeq(s, p, Len(s))
           b == SubSeq(s, 1, p - 1)
           d == a \o c
<1>1. /\ s \in Seq(Nodes) /\ Distinct(s) /\ c \in Seq(Nodes) /\ Distinct(c) /\ Elems(s) \cap Elems(c) = {}
      /\ Len(s) \in Nat /\ Len(c) \in Nat
  BY HeapIs
<1>2. /\ r \in Heap /\ r.data = g.data /\ r.count = [g.count EXCEPT ![l] = @ - w, ![k] = @ + w]
      /\ \E spare : StandsFor(r, [items EXCEPT ![l] = b, ![k] = d], spare, {})
  BY DEF MovesHead
<1>3. p - 1 \in 0..Len(s) /\ w \in Int /\ (p - 1) + 1 = p /\ Len(s) - (p - 1) = w /\ p - 1 = Len(s) - w
  BY <1>1
<1>4. /\ a \in Seq(Nodes) /\ b \in Seq(Nodes) /\ Len(a) = w /\ Len(b) = Len(s) - w /\ Distinct(a)
      /\ Elems(b) \cup Elems(a) = Elems(s)
  <2>1. IsCut(s, p - 1, b, SubSeq(s, (p - 1) + 1, Len(s)))
    BY <1>1, <1>3, CutElems
  <2>2. IsCut(s, p - 1, b, a)
    BY <1>3, <2>1
  <2> QED BY <1>3, <2>2 DEF IsCut
<1> HIDE DEF a, b, w
<1>5. Elems(a) \cap Elems(c) = {}
  BY <1>1, <1>4
<1>6. d \in Seq(Nodes) /\ Len(d) = w + Len(c) /\ Elems(d) = Elems(a) \cup Elems(c)
  BY <1>1, <1>4, <1>5, JoinedElems
<1> HIDE DEF d
<1>7. Elems(b) \cup Elems(d) \subseteq Elems(items[l]) \cup Elems(items[k]) /\ Len(d) = Len(c) + w
  BY <1>1, <1>3, <1>4, <1>6
<1>8. HeapOf(r, [items EXCEPT ![l] = b, ![k] = d])
  BY <1>2, <1>3, <1>4, <1>6, <1>7, MoveKeeps
<1> QED BY <1>8 DEF d, a, b

(* A list that is being copied.                                              *)

CopyRecords ==
  [op : Copyings, from : ListNames, to : ListNames, cursor : NodesOrNone, at : NodesOrNone,
   whole : Seq(Objects)]

\* What whole is of: of d with i objects of s after its first c less those copied, the
\* rest of s, before which a objects of d stood.
Whole(data, s, d, whole, i, c, a) ==
  /\ a \in Nat /\ Len(whole) = Len(d) + Len(s) - i
  /\ \A j \in 1..Len(d) : data[d[j]] = IF j <= c THEN whole[j] ELSE whole[j + Len(s) - i]
  /\ \A j \in 1..Len(s) : data[s[j]] = whole[a + j]

Pointers(y, s, d, i, c) ==
  /\ y.cursor = IF i = Len(s) THEN None ELSE IF y.op \in FromTail THEN s[Len(s) - i] ELSE s[i + 1]
  /\ y.op = "AddTail" => c = Len(d)
  /\ y.op = "AddHead" => c = 0
  /\ y.op = "AddAfter" => y.at = IF c = 0 THEN None ELSE d[c]
  /\ y.op = "AddBefore" => y.at = IF c = Len(d) THEN None ELSE d[c + 1]

Copied(g, items, y, i, c) ==
  /\ y \in CopyRecords /\ y.from # y.to
  /\ i \in 0..Len(items[y.from]) /\ c \in 0..Len(items[y.to])
  /\ y.op \in FromTail => Whole(g.data, items[y.from], items[y.to], y.whole, i, c, c)
  /\ y.op \notin FromTail => Whole(g.data, items[y.from], items[y.to], y.whole, i, c, c - i)
  /\ Pointers(y, items[y.from], items[y.to], i, c)

\* One more has been copied: n, which names o, has come into d after its first c.
OneMore(data, data2, s, d, d2, c, n, o) ==
  /\ Len(d2) = Len(d) + 1 /\ Inserted(d2, d, c + 1, n)
  /\ data2[n] = o
  /\ \A j \in 1..Len(s) : data2[s[j]] = data[s[j]]
  /\ \A j \in 1..Len(d) : data2[d[j]] = data[d[j]]

LEMMA WholeForward ==
  ASSUME NEW data, NEW data2, NEW s \in Seq(Nodes), NEW d \in Seq(Nodes), NEW d2, NEW whole \in Seq(Objects),
         NEW i \in 0..Len(s), i # Len(s), NEW c \in 0..Len(d), NEW n,
         Whole(data, s, d, whole, i, c, c - i), OneMore(data, data2, s, d, d2, c, n, data[s[i + 1]])
  PROVE  Whole(data2, s, d2, whole, i + 1, c + 1, (c + 1) - (i + 1))
<1>1. Len(s) \in Nat /\ Len(d) \in Nat /\ i \in Nat /\ c \in Nat /\ i + 1 \in 1..Len(s) /\ Len(whole) \in Nat
  OBVIOUS
<1>2. /\ c - i \in Nat /\ Len(whole) = Len(d) + Len(s) - i
      /\ \A j \in 1..Len(d) : data[d[j]] = IF j <= c THEN whole[j] ELSE whole[j + Len(s) - i]
      /\ \A j \in 1..Len(s) : data[s[j]] = whole[(c - i) + j]
  BY DEF Whole
<1>3. /\ Len(d2) = Len(d) + 1 /\ data2[n] = data[s[i + 1]]
      /\ \A j \in 1..(Len(d) + 1) : d2[j] = IF j < c + 1 THEN d[j] ELSE IF j = c + 1 THEN n ELSE d[j - 1]
      /\ \A j \in 1..Len(s) : data2[s[j]] = data[s[j]]
      /\ \A j \in 1..Len(d) : data2[d[j]] = data[d[j]]
  BY DEF OneMore, Inserted
<1>4. (c + 1) - (i + 1) = c - i /\ Len(whole) = Len(d2) + Len(s) - (i + 1)
  BY <1>1, <1>2, <1>3
<1>5. \A j \in 1..Len(s) : data2[s[j]] = whole[(c - i) + j]
  BY <1>2, <1>3
<1>6. ASSUME NEW j \in 1..Len(d2)
      PROVE  data2[d2[j]] = IF j <= c + 1 THEN whole[j] ELSE whole[j + Len(s) - (i + 1)]
  <2>1. j \in 1..(Len(d) + 1)
    BY <1>3
  <2>2. CASE j < c + 1
    <3>1. j \in 1..Len(d) /\ j <= c /\ j <= c + 1
      BY <1>1, <2>1, <2>2
    <3>2. d2[j] = d[j]
      BY <1>3, <2>1, <2>2
    <3> QED BY <1>2, <1>3, <3>1, <3>2
  <2>3. CASE j = c + 1
    <3>1. (c - i) + (i + 1) = j /\ j <= c + 1 /\ ~(j < c + 1)
      BY <1>1, <2>3
    <3>2. d2[j] = n
      BY <1>3, <2>1, <2>3, <3>1
    <3>3. data[s[i + 1]] = whole[j]
      BY <1>1, <1>2, <3>1
    <3> QED BY <1>3, <3>1, <3>2, <3>3
  <2>4. CASE j > c + 1
    <3>5. j \in Int /\ c \in Int /\ i \in Int /\ Len(s) \in Int
      BY <1>1
    <3>6. (j - 1) + Len(s) - i = j + Len(s) - (i + 1)
      BY <3>5
    <3>1. /\ j - 1 \in 1..Len(d) /\ ~(j - 1 <= c) /\ ~(j <= c + 1) /\ ~(j < c + 1) /\ j # c + 1
          /\ (j - 1) + Len(s) - i = j + Len(s) - (i + 1)
      BY <1>1, <2>1, <2>4, <3>6
    <3>2. d2[j] = d[j - 1]
      BY <1>3, <2>1, <3>1
    <3>3. data[d[j - 1]] = whole[(j - 1) + Len(s) - i]
      BY <1>2, <3>1
    <3> QED BY <1>3, <3>1, <3>2, <3>3
  <2> QED BY <1>1, <2>1, <2>2, <2>3, <2>4
<1> QED BY <1>2, <1>4, <1>5, <1>6 DEF Whole

LEMMA WholeFromTail ==
  ASSUME NEW data, NEW data2, NEW s \in Seq(Nodes), NEW d \in Seq(Nodes), NEW d2, NEW whole \in Seq(Objects),
         NEW i \in 0..Len(s), i # Len(s), NEW c \in 0..Len(d), NEW n,
         Whole(data, s, d, whole, i, c, c), OneMore(data, data2, s, d, d2, c, n, data[s[Len(s) - i]])
  PROVE  Whole(data2, s, d2, whole, i + 1, c, c)
<1>1. /\ Len(s) \in Nat /\ Len(d) \in Nat /\ i \in Nat /\ c \in Nat /\ Len(s) - i \in 1..Len(s)
      /\ Len(whole) \in Nat
  OBVIOUS
<1>2. /\ Len(whole) = Len(d) + Len(s) - i
      /\ \A j \in 1..Len(d) : data[d[j]] = IF j <= c THEN whole[j] ELSE whole[j + Len(s) - i]
      /\ \A j \in 1..Len(s) : data[s[j]] = whole[c + j]
  BY DEF Whole
<1>3. /\ Len(d2) = Len(d) + 1 /\ data2[n] = data[s[Len(s) - i]]
      /\ \A j \in 1..(Len(d) + 1) : d2[j] = IF j < c + 1 THEN d[j] ELSE IF j = c + 1 THEN n ELSE d[j - 1]
      /\ \A j \in 1..Len(s) : data2[s[j]] = data[s[j]]
      /\ \A j \in 1..Len(d) : data2[d[j]] = data[d[j]]
  BY DEF OneMore, Inserted
<1>4. Len(whole) = Len(d2) + Len(s) - (i + 1)
  BY <1>1, <1>2, <1>3
<1>5. \A j \in 1..Len(s) : data2[s[j]] = whole[c + j]
  BY <1>2, <1>3
<1>6. ASSUME NEW j \in 1..Len(d2)
      PROVE  data2[d2[j]] = IF j <= c THEN whole[j] ELSE whole[j + Len(s) - (i + 1)]
  <2>1. j \in 1..(Len(d) + 1)
    BY <1>3
  <2>2. CASE j < c + 1
    <3>1. j \in 1..Len(d) /\ j <= c
      BY <1>1, <2>1, <2>2
    <3>2. d2[j] = d[j]
      BY <1>3, <2>1, <2>2
    <3> QED BY <1>2, <1>3, <3>1, <3>2
  <2>3. CASE j = c + 1
    <3>1. j + Len(s) - (i + 1) = c + (Len(s) - i) /\ ~(j <= c) /\ ~(j < c + 1)
      BY <1>1, <2>3
    <3>2. d2[j] = n
      BY <1>3, <2>1, <2>3, <3>1
    <3>3. data[s[Len(s) - i]] = whole[c + (Len(s) - i)]
      BY <1>1, <1>2
    <3> QED BY <1>3, <3>1, <3>2, <3>3
  <2>4. CASE j > c + 1
    <3>1. /\ j - 1 \in 1..Len(d) /\ ~(j - 1 <= c) /\ ~(j <= c) /\ ~(j < c + 1) /\ j # c + 1
          /\ (j - 1) + Len(s) - i = j + Len(s) - (i + 1)
      BY <1>1, <2>1, <2>4
    <3>2. d2[j] = d[j - 1]
      BY <1>3, <2>1, <3>1
    <3>3. data[d[j - 1]] = whole[(j - 1) + Len(s) - i]
      BY <1>2, <3>1
    <3> QED BY <1>3, <3>1, <3>2, <3>3
  <2> QED BY <1>1, <2>1, <2>2, <2>3, <2>4
<1> QED BY <1>1, <1>4, <1>5, <1>6 DEF Whole

\* Where the copy takes its next object from.
Turn(y, s, i) == IF y.op \in FromTail THEN Len(s) - i ELSE i + 1

\* What the fields of the copy are.
LEMMA CopyFields ==
  ASSUME NEW y \in CopyRecords
  PROVE  /\ y.op \in Copyings /\ y.from \in ListNames /\ y.to \in ListNames /\ y.cursor \in NodesOrNone
         /\ y.at \in NodesOrNone /\ y.whole \in Seq(Objects)
         /\ y.op = "AddTail" \/ y.op = "AddHead" \/ y.op = "AddAfter" \/ y.op = "AddBefore"
         /\ y.op \in FromTail <=> y.op = "AddHead" \/ y.op = "AddBefore"
BY DEF CopyRecords, Copyings, FromTail

LEMMA TurnIs ==
  ASSUME NEW g, NEW items, HeapOf(g, items), NEW y, NEW i, NEW c, Copied(g, items, y, i, c),
         i # Len(items[y.from])
  PROVE  /\ Turn(y, items[y.from], i) \in 1..Len(items[y.from])
         /\ y.cursor = items[y.from][Turn(y, items[y.from], i)]
         /\ g.data[y.cursor] \in Objects
<1> DEFINE s == items[y.from]
<1>1. y \in CopyRecords /\ i \in 0..Len(s) /\ Pointers(y, s, items[y.to], i, c)
  BY DEF Copied
<1>2. y.from \in ListNames
  BY <1>1, CopyFields
<1>3. Len(s) \in Nat /\ \A j \in 1..Len(s) : g.data[s[j]] \in Objects
  BY <1>2, HeapIs
<1> HIDE DEF s
<1>4. Turn(y, s, i) \in 1..Len(s)
  BY <1>1, <1>3 DEF Turn, s
<1>5. y.cursor = s[Turn(y, s, i)]
  BY <1>1 DEF Pointers, Turn, s
<1> QED BY <1>3, <1>4, <1>5 DEF s

\* The operation on the list that the copy is for puts a node after the first c.
LEMMA CopyAdds ==
  ASSUME NEW g, NEW items, HeapOf(g, items), NEW y, NEW i, NEW c, Copied(g, items, y, i, c),
         NEW o \in Objects, NEW n, n = NodeFor(g, y.to), n # None, NEW r,
         r = CASE y.op = "AddTail" -> AddTailI(g, y.to, o)
               [] y.op = "AddHead" -> AddHeadI(g, y.to, o)
               [] y.op = "AddAfter" -> AddAfterI(g, y.to, y.at, o)
               [] y.op = "AddBefore" -> AddBeforeI(g, y.to, y.at, o)
  PROVE  Adds(g, r, items, y.to, c + 1, n, o)
<1> DEFINE d == items[y.to]
<1>1. y \in CopyRecords /\ c \in 0..Len(d) /\ Pointers(y, items[y.from], d, i, c)
  BY DEF Copied
<1>2. y.to \in ListNames
  BY <1>1, CopyFields
<1>3. g \in Heap
  BY HeapIs
<1>4. PICK spare : StandsFor(g, items, spare, {})
  BY DEF HeapOf
<1>5. Ready(g, items, spare, y.to, n)
  BY <1>4 DEF Ready
<1>6. /\ Len(d) \in Nat /\ \A j \in 1..Len(d) : d[j] \in Nodes /\ d[j] # None
  <2>1. \A j \in 1..Len(d) : d[j] \in Nodes
    BY <1>2, HeapIs
  <2>2. Len(d) \in Nat
    BY <1>2, HeapIs
  <2> QED BY <2>1, <2>2, ListConstants
<1>7. Adds(g, AddTailI(g, y.to, o), items, y.to, Len(d) + 1, n, o)
  BY <1>2, <1>3, <1>5, AddTailAdds
<1>8. Adds(g, AddHeadI(g, y.to, o), items, y.to, 1, n, o)
  BY <1>2, <1>3, <1>5, AddHeadAdds
<1>9. CASE y.op = "AddTail"
  <2>1. c = Len(d)
    BY <1>1, <1>9 DEF Pointers
  <2>2. r = AddTailI(g, y.to, o)
    BY <1>9
  <2> QED BY <1>7, <2>1, <2>2
<1>10. CASE y.op = "AddHead"
  <2>1. c = 0 /\ c + 1 = 1
    BY <1>1, <1>10 DEF Pointers
  <2>2. r = AddHeadI(g, y.to, o)
    BY <1>10
  <2> QED BY <1>8, <2>1, <2>2
<1>11. CASE y.op = "AddAfter"
  <2>1. y.at = IF c = 0 THEN None ELSE d[c]
    BY <1>1, <1>11 DEF Pointers
  <2>2. r = AddAfterI(g, y.to, y.at, o)
    BY <1>11
  <2>3. CASE c = 0
    <3>1. r = AddHeadI(g, y.to, o)
      BY <2>1, <2>2, <2>3 DEF AddAfterI
    <3>2. c + 1 = 1
      BY <2>3
    <3> QED BY <1>8, <3>1, <3>2
  <2>4. CASE c # 0
    <3>1. c \in 1..Len(d)
      BY <1>1, <1>6, <2>4
    <3>2. y.at = d[c]
      BY <2>1, <2>4
    <3>3. Adds(g, AddAfterI(g, y.to, d[c], o), items, y.to, c + 1, n, o)
      BY <1>2, <1>3, <1>5, <3>1, AddAfterAdds
    <3> QED BY <2>2, <3>2, <3>3
  <2> QED BY <2>3, <2>4
<1>12. CASE y.op = "AddBefore"
  <2>1. y.at = IF c = Len(d) THEN None ELSE d[c + 1]
    BY <1>1, <1>12 DEF Pointers
  <2>2. r = AddBeforeI(g, y.to, y.at, o)
    BY <1>12
  <2>3. CASE c = Len(d)
    <3>1. r = AddTailI(g, y.to, o)
      BY <2>1, <2>2, <2>3 DEF AddBeforeI
    <3> QED BY <1>7, <2>3, <3>1
  <2>4. CASE c # Len(d)
    <3>1. c + 1 \in 1..Len(d)
      BY <1>1, <1>6, <2>4
    <3>2. y.at = d[c + 1]
      BY <2>1, <2>4
    <3>3. Adds(g, AddBeforeI(g, y.to, d[c + 1], o), items, y.to, c + 1, n, o)
      BY <1>2, <1>3, <1>5, <3>1, AddBeforeAdds
    <3> QED BY <2>2, <3>2, <3>3
  <2> QED BY <2>3, <2>4
<1> QED BY <1>1, <1>9, <1>10, <1>11, <1>12, CopyFields

\* The node that was added, and what the lists held before.
LEMMA OneMoreIn ==
  ASSUME NEW g, NEW r, NEW items, HeapOf(g, items), NEW k \in ListNames, NEW l \in ListNames,
         NEW c \in 0..Len(items[l]), NEW n, NEW o, Adds(g, r, items, l, c + 1, n, o)
  PROVE  OneMore(g.data, r.data, items[k], items[l], InsertedAt(items[l], c + 1, n), c, n, o)
<1>1. /\ g \in Heap /\ Len(items[l]) \in Nat
      /\ \A j \in ListNames : /\ items[j] \in Seq(Nodes) /\ Distinct(items[j])
                              /\ \A x \in 1..Len(items[j]) : items[j][x] \in Nodes /\ items[j][x] \in Elems(items[j])
  BY HeapIs
<1>2. /\ n \in Nodes /\ r.data = [g.data EXCEPT ![n] = o]
      /\ \A j \in ListNames : n \notin Elems(items[j])
  BY DEF Adds
<1>3. g.data \in [Nodes -> Objects \cup {None}]
  BY <1>1, HeapTypes
<1>4. r.data[n] = o /\ \A x \in Nodes : x # n => r.data[x] = g.data[x]
  BY <1>2, <1>3
<1>5. \A j \in ListNames : \A x \in 1..Len(items[j]) : r.data[items[j][x]] = g.data[items[j][x]]
  BY <1>1, <1>2, <1>4
<1>6. c + 1 \in 1..(Len(items[l]) + 1)
  BY <1>1
<1>7. /\ Len(InsertedAt(items[l], c + 1, n)) = Len(items[l]) + 1
      /\ Inserted(InsertedAt(items[l], c + 1, n), items[l], c + 1, n)
  BY <1>1, <1>2, <1>6, InsertedElems
<1> QED BY <1>4, <1>5, <1>7 DEF OneMore

\* The copy when one more has been copied.
Advanced(g, y, n) ==
  [y EXCEPT !.at = NextAt(y.op, @, n),
            !.cursor = IF y.op \in FromTail THEN g.prev[@] ELSE g.next[@]]

\* How many objects stand before the next one, in the list that the copy is for.
After(y, c) == IF y.op \in FromTail THEN c ELSE c + 1

LEMMA AdvancedFields ==
  ASSUME NEW g \in Heap, NEW y \in CopyRecords, y.cursor \in Nodes, NEW n \in Nodes
  PROVE  /\ Advanced(g, y, n) \in CopyRecords
         /\ Advanced(g, y, n).op = y.op /\ Advanced(g, y, n).from = y.from /\ Advanced(g, y, n).to = y.to
         /\ Advanced(g, y, n).whole = y.whole
         /\ Advanced(g, y, n).at = NextAt(y.op, y.at, n)
         /\ Advanced(g, y, n).cursor = IF y.op \in FromTail THEN g.prev[y.cursor] ELSE g.next[y.cursor]
<1> DEFINE z == Advanced(g, y, n)
<1>1. /\ z.op = y.op /\ z.from = y.from /\ z.to = y.to /\ z.whole = y.whole
      /\ z.at = NextAt(y.op, y.at, n)
      /\ z.cursor = IF y.op \in FromTail THEN g.prev[y.cursor] ELSE g.next[y.cursor]
  BY DEF Advanced, CopyRecords
<1>2. NextAt(y.op, y.at, n) \in NodesOrNone
  BY CopyFields DEF NextAt, NodesOrNone
<1>3. g.prev[y.cursor] \in NodesOrNone /\ g.next[y.cursor] \in NodesOrNone
  BY HeapTypes
<1>4. z.at \in NodesOrNone /\ z.cursor \in NodesOrNone
  BY <1>1, <1>2, <1>3
<1>5. z \in CopyRecords
  BY <1>2, <1>3 DEF Advanced, CopyRecords
<1> QED BY <1>1, <1>5

\* The cursor goes on to the next one.
LEMMA CursorGoesOn ==
  ASSUME NEW g, NEW items, HeapOf(g, items), NEW y, NEW i, NEW c, Copied(g, items, y, i, c),
         NEW s, s = items[y.from], i # Len(s)
  PROVE  (IF y.op \in FromTail THEN g.prev[y.cursor] ELSE g.next[y.cursor])
           = (IF i + 1 = Len(s) THEN None ELSE IF y.op \in FromTail THEN s[Len(s) - (i + 1)] ELSE s[(i + 1) + 1])
<1>1. y \in CopyRecords /\ i \in 0..Len(s) /\ Pointers(y, s, items[y.to], i, c)
  BY DEF Copied
<1>2. y.from \in ListNames
  BY <1>1, CopyFields
<1>3. s \in Seq(Nodes) /\ Len(s) \in Nat
  BY <1>2, HeapIs
<1>4. TwoWay(s, g.next, g.prev)
  BY <1>2 DEF HeapOf, StandsFor, Held
<1>5. Chained(s, g.next) /\ ChainedBack(s, g.prev)
  BY <1>3, <1>4, TwoWayChained
<1>6. /\ \A j \in 1..Len(s) : g.next[s[j]] = IF j < Len(s) THEN s[j + 1] ELSE None
      /\ \A j \in 1..Len(s) : g.prev[s[j]] = IF j > 1 THEN s[j - 1] ELSE None
  BY <1>5 DEF Chained, ChainedBack
<1>7. CASE y.op \in FromTail
  <2>1. y.cursor = s[Len(s) - i]
    BY <1>1, <1>7 DEF Pointers
  <2>2. Len(s) - i \in 1..Len(s)
    BY <1>1, <1>3
  <2>3. g.prev[y.cursor] = IF Len(s) - i > 1 THEN s[(Len(s) - i) - 1] ELSE None
    BY <1>6, <2>1, <2>2
  <2>4. (Len(s) - i > 1 <=> i + 1 # Len(s)) /\ (Len(s) - i) - 1 = Len(s) - (i + 1)
    BY <1>1, <1>3
  <2> QED BY <1>7, <2>3, <2>4
<1>8. CASE y.op \notin FromTail
  <2>1. y.cursor = s[i + 1]
    BY <1>1, <1>8 DEF Pointers
  <2>2. i + 1 \in 1..Len(s)
    BY <1>1, <1>3
  <2>3. g.next[y.cursor] = IF i + 1 < Len(s) THEN s[(i + 1) + 1] ELSE None
    BY <1>6, <2>1, <2>2
  <2>4. i + 1 < Len(s) <=> i + 1 # Len(s)
    BY <1>1, <1>3
  <2> QED BY <1>8, <2>3, <2>4
<1> QED BY <1>7, <1>8

LEMMA PointersGoOn ==
  ASSUME NEW y \in CopyRecords, NEW z, NEW s, NEW d, NEW d2, NEW i, NEW c, NEW n, Pointers(y, s, d, i, c),
         NEW m, m = Len(d), m \in Nat, c \in 0..m, Len(d2) = m + 1, Inserted(d2, d, c + 1, n),
         z.op = y.op, z.at = NextAt(y.op, y.at, n),
         z.cursor = (IF i + 1 = Len(s) THEN None
                     ELSE IF y.op \in FromTail THEN s[Len(s) - (i + 1)] ELSE s[(i + 1) + 1])
  PROVE  Pointers(z, s, d2, i + 1, After(y, c))
<1> DEFINE c2 == After(y, c)
<1>1. c + 1 \in 1..(m + 1)
  OBVIOUS
<1>2. d2[c + 1] = n
  BY <1>1 DEF Inserted
<1>3. ASSUME y.op = "AddTail" PROVE c2 = Len(d2)
  <2>1. c = m
    BY <1>3 DEF Pointers
  <2>2. c2 = c + 1
    BY <1>3 DEF After, FromTail
  <2> QED BY <2>1, <2>2
<1>4. ASSUME y.op = "AddHead" PROVE c2 = 0
  BY <1>4 DEF Pointers, After, FromTail
<1>5. ASSUME y.op = "AddAfter" PROVE z.at = IF c2 = 0 THEN None ELSE d2[c2]
  <2>1. c2 = c + 1
    BY <1>5 DEF After, FromTail
  <2>2. c2 # 0
    BY <2>1
  <2>3. z.at = n
    BY <1>5 DEF NextAt
  <2> QED BY <1>2, <2>1, <2>2, <2>3
<1>6. ASSUME y.op = "AddBefore" PROVE z.at = IF c2 = Len(d2) THEN None ELSE d2[c2 + 1]
  <2>1. c2 = c
    BY <1>6 DEF After, FromTail
  <2>2. c2 # Len(d2)
    BY <2>1
  <2>3. z.at = n
    BY <1>6 DEF NextAt
  <2> QED BY <1>2, <2>1, <2>2, <2>3
<1> QED BY <1>3, <1>4, <1>5, <1>6 DEF Pointers

\* One step of a copy.
LEMMA CopiedOne ==
  ASSUME NEW g, NEW r, NEW items, HeapOf(g, items), NEW y, NEW i, NEW c, Copied(g, items, y, i, c),
         i # Len(items[y.from]), NEW n, Adds(g, r, items, y.to, c + 1, n, g.data[y.cursor])
  PROVE  Copied(r, [items EXCEPT ![y.to] = InsertedAt(@, c + 1, n)], Advanced(g, y, n), i + 1, After(y, c))
<1> DEFINE s == items[y.from]
           d == items[y.to]
           d2 == InsertedAt(d, c + 1, n)
           items2 == [items EXCEPT ![y.to] = InsertedAt(@, c + 1, n)]
           z == Advanced(g, y, n)
           o == g.data[y.cursor]
<1>1. /\ y \in CopyRecords /\ y.from # y.to
      /\ i \in 0..Len(s) /\ c \in 0..Len(d)
      /\ y.op \in FromTail => Whole(g.data, s, d, y.whole, i, c, c)
      /\ y.op \notin FromTail => Whole(g.data, s, d, y.whole, i, c, c - i)
      /\ Pointers(y, s, d, i, c)
  BY DEF Copied
<1>2. y.from \in ListNames /\ y.to \in ListNames /\ y.whole \in Seq(Objects)
  BY <1>1, CopyFields
<1>3. /\ g \in Heap /\ items \in Sequences
      /\ s \in Seq(Nodes) /\ Len(s) \in Nat /\ \A j \in 1..Len(s) : s[j] \in Nodes
      /\ d \in Seq(Nodes) /\ Len(d) \in Nat
  BY <1>2, HeapIs
<1>4. n \in Nodes
  BY DEF Adds
<1>5. Turn(y, s, i) \in 1..Len(s) /\ y.cursor = s[Turn(y, s, i)] /\ o \in Objects
  BY TurnIs
<1>6. y.cursor \in Nodes
  BY <1>3, <1>5
<1>7. /\ z \in CopyRecords /\ z.op = y.op /\ z.from = y.from /\ z.to = y.to /\ z.whole = y.whole
      /\ z.at = NextAt(y.op, y.at, n)
      /\ z.cursor = IF y.op \in FromTail THEN g.prev[y.cursor] ELSE g.next[y.cursor]
  BY <1>1, <1>3, <1>4, <1>6, AdvancedFields
<1>8. z.cursor = IF i + 1 = Len(s) THEN None
                 ELSE IF y.op \in FromTail THEN s[Len(s) - (i + 1)] ELSE s[(i + 1) + 1]
  BY <1>7, CursorGoesOn
<1>9. OneMore(g.data, r.data, s, d, d2, c, n, o)
  BY <1>1, <1>2, OneMoreIn
<1>10. Len(d2) = Len(d) + 1 /\ Inserted(d2, d, c + 1, n)
  BY <1>9 DEF OneMore
<1>11. items2[y.to] = d2 /\ items2[y.from] = s
  BY <1>1, <1>2, <1>3 DEF Sequences
<1> HIDE DEF z, d2, items2
<1>12. Pointers(z, s, d2, i + 1, After(y, c))
  BY <1>1, <1>3, <1>7, <1>8, <1>10, PointersGoOn
<1> HIDE DEF s, d, o
<1>13. i + 1 \in 0..Len(s) /\ After(y, c) \in 0..Len(d2)
  <2>1. i + 1 \in 0..Len(s)
    BY <1>1, <1>3 DEF s
  <2>2. c \in 0..Len(d2) /\ c + 1 \in 0..Len(d2)
    BY <1>1, <1>3, <1>10
  <2> QED BY <2>1, <2>2 DEF After
<1>14. ASSUME z.op \in FromTail
       PROVE  Whole(r.data, s, d2, z.whole, i + 1, After(y, c), After(y, c))
  <2>1. Whole(g.data, s, d, y.whole, i, c, c)
    BY <1>1, <1>7, <1>14
  <2>2. o = g.data[s[Len(s) - i]]
    BY <1>5, <1>7, <1>14 DEF Turn, o
  <2>3. OneMore(g.data, r.data, s, d, d2, c, n, g.data[s[Len(s) - i]])
    BY <1>9, <2>2
  <2>4. i # Len(s)
    BY DEF s
  <2>5. Whole(r.data, s, d2, y.whole, i + 1, c, c)
    BY <1>1, <1>2, <1>3, <2>1, <2>3, <2>4, WholeFromTail
  <2> QED BY <1>7, <1>14, <2>5 DEF After
<1>15. ASSUME z.op \notin FromTail
       PROVE  Whole(r.data, s, d2, z.whole, i + 1, After(y, c), After(y, c) - (i + 1))
  <2>1. Whole(g.data, s, d, y.whole, i, c, c - i)
    BY <1>1, <1>7, <1>15
  <2>2. o = g.data[s[i + 1]]
    BY <1>5, <1>7, <1>15 DEF Turn, o
  <2>3. OneMore(g.data, r.data, s, d, d2, c, n, g.data[s[i + 1]])
    BY <1>9, <2>2
  <2>4. i # Len(s)
    BY DEF s
  <2>5. Whole(r.data, s, d2, y.whole, i + 1, c + 1, (c + 1) - (i + 1))
    BY <1>1, <1>2, <1>3, <2>1, <2>3, <2>4, WholeForward
  <2> QED BY <1>7, <1>15, <2>5 DEF After
<1>16. Copied(r, items2, z, i + 1, After(y, c))
  BY <1>1, <1>7, <1>11, <1>12, <1>13, <1>14, <1>15 DEF Copied
<1> QED BY <1>16 DEF items2, z

-----------------------------------------------------------------------------
(* A copy begins.                                                            *)

\* s between the first n of a sequence and the rest of it.
Spliced(w, a, b, n) ==
  /\ Len(w) = Len(a) + Len(b)
  /\ \A j \in 1..Len(a) : a[j] = IF j <= n THEN w[j] ELSE w[j + Len(b)]
  /\ \A j \in 1..Len(b) : b[j] = w[n + j]

LEMMA SpliceIs ==
  ASSUME NEW a \in Seq(Objects), NEW b \in Seq(Objects), NEW n \in 0..Len(a),
         NEW w, w = SubSeq(a, 1, n) \o b \o SubSeq(a, n + 1, Len(a))
  PROVE  w \in Seq(Objects) /\ Spliced(w, a, b, n)
<1> DEFINE u == SubSeq(a, 1, n)
           v == SubSeq(a, n + 1, Len(a))
           x == u \o b
<1>1. Len(a) \in Nat /\ Len(b) \in Nat /\ n \in Nat /\ n <= Len(a)
  OBVIOUS
<1>2. u \in Seq(Objects) /\ Len(u) = n /\ \A j \in 1..n : u[j] = a[j]
  <2>1. \A j \in 1..n : a[j] \in Objects
    BY <1>1, ElementOfSeq
  <2> QED BY <1>1, <2>1, SubSeqProperties
<1>3. v \in Seq(Objects) /\ Len(v) = Len(a) - n /\ \A j \in 1..(Len(a) - n) : v[j] = a[n + j]
  <2>1. \A j \in (n + 1)..Len(a) : a[j] \in Objects
    BY <1>1, ElementOfSeq
  <2> QED BY <1>1, <2>1, SubSeqProperties
<1> HIDE DEF u, v
<1>4. /\ x \in Seq(Objects) /\ Len(x) = n + Len(b)
      /\ \A j \in 1..(n + Len(b)) : x[j] = IF j <= n THEN u[j] ELSE b[j - n]
  BY <1>2, ConcatProperties
<1>5. w = x \o v
  BY DEF u, v
<1> HIDE DEF x
<1>6. /\ w \in Seq(Objects) /\ Len(w) = (n + Len(b)) + (Len(a) - n)
      /\ \A j \in 1..((n + Len(b)) + (Len(a) - n)) : w[j] = IF j <= n + Len(b) THEN x[j] ELSE v[j - (n + Len(b))]
  <2>1. /\ x \o v \in Seq(Objects) /\ Len(x \o v) = Len(x) + Len(v)
        /\ \A j \in 1..(Len(x) + Len(v)) : (x \o v)[j] = IF j <= Len(x) THEN x[j] ELSE v[j - Len(x)]
    BY <1>3, <1>4, ConcatProperties
  <2> QED BY <1>3, <1>4, <1>5, <2>1
<1>11. (n + Len(b)) + (Len(a) - n) = Len(a) + Len(b)
  BY <1>1
<1>7. Len(w) = Len(a) + Len(b) /\ (n + Len(b)) + (Len(a) - n) = Len(a) + Len(b)
  BY <1>6, <1>11
<1>8. \A j \in 1..(Len(a) + Len(b)) : w[j] = IF j <= n + Len(b) THEN x[j] ELSE v[j - (n + Len(b))]
  BY <1>6, <1>7
<1>9. ASSUME NEW j \in 1..Len(a) PROVE a[j] = IF j <= n THEN w[j] ELSE w[j + Len(b)]
  <2>1. CASE j <= n
    <3>1. /\ j \in 1..n /\ j \in 1..(n + Len(b)) /\ j \in 1..(Len(a) + Len(b)) /\ j <= n + Len(b)
      BY <1>1, <2>1
    <3> QED BY <1>2, <1>4, <1>8, <2>1, <3>1
  <2>2. CASE ~(j <= n)
    <3>1. /\ j + Len(b) \in 1..(Len(a) + Len(b)) /\ ~(j + Len(b) <= n + Len(b))
          /\ (j + Len(b)) - (n + Len(b)) = j - n /\ j - n \in 1..(Len(a) - n) /\ n + (j - n) = j
      BY <1>1, <2>2
    <3>2. w[j + Len(b)] = v[j - n]
      BY <1>8, <3>1
    <3>3. v[j - n] = a[j]
      BY <1>3, <3>1
    <3> QED BY <2>2, <3>2, <3>3
  <2> QED BY <2>1, <2>2
<1>10. ASSUME NEW j \in 1..Len(b) PROVE b[j] = w[n + j]
  <2>1. /\ n + j \in 1..(Len(a) + Len(b)) /\ n + j \in 1..(n + Len(b)) /\ n + j <= n + Len(b) /\ ~(n + j <= n)
        /\ (n + j) - n = j
    BY <1>1
  <2>2. w[n + j] = x[n + j]
    BY <1>8, <2>1
  <2>3. x[n + j] = b[j]
    BY <1>4, <2>1
  <2> QED BY <2>2, <2>3
<1> QED BY <1>6, <1>7, <1>9, <1>10 DEF Spliced

\* Where in d the objects of the other list go.
PlaceOf(op, d, pos) ==
  CASE op = "AddTail" -> Len(d)
    [] op = "AddHead" -> 0
    [] op = "AddAfter" -> IF pos = None THEN 0 ELSE CHOOSE j \in DOMAIN d : d[j] = pos
    [] op = "AddBefore" -> IF pos = None THEN Len(d) ELSE (CHOOSE j \in DOMAIN d : d[j] = pos) - 1

LEMMA PlaceIs ==
  ASSUME NEW op \in Copyings, NEW d \in Seq(Nodes), NEW pos \in Elems(d) \cup {None}
  PROVE  /\ PlaceOf(op, d, pos) \in 0..Len(d)
         /\ op = "AddTail" => PlaceOf(op, d, pos) = Len(d)
         /\ op = "AddHead" => PlaceOf(op, d, pos) = 0
         /\ op = "AddAfter" => pos = IF PlaceOf(op, d, pos) = 0 THEN None ELSE d[PlaceOf(op, d, pos)]
         /\ op = "AddBefore" => pos = IF PlaceOf(op, d, pos) = Len(d) THEN None ELSE d[PlaceOf(op, d, pos) + 1]
<1> DEFINE q == CHOOSE j \in DOMAIN d : d[j] = pos
<1>1. Len(d) \in Nat /\ DOMAIN d = 1..Len(d) /\ \A j \in 1..Len(d) : d[j] \in Nodes
  OBVIOUS
<1>2. ASSUME pos # None PROVE q \in 1..Len(d) /\ d[q] = pos
  <2>1. \E j \in DOMAIN d : d[j] = pos
    BY <1>1, <1>2 DEF Elems
  <2> QED BY <1>1, <2>1
<1> HIDE DEF q
<1>3. CASE op = "AddTail"
  <2>1. PlaceOf(op, d, pos) = Len(d)
    BY <1>3 DEF PlaceOf
  <2> QED BY <1>1, <1>3, <2>1
<1>4. CASE op = "AddHead"
  <2>1. PlaceOf(op, d, pos) = 0
    BY <1>4 DEF PlaceOf
  <2> QED BY <1>1, <1>4, <2>1
<1>5. CASE op = "AddAfter"
  <2>1. PlaceOf(op, d, pos) = IF pos = None THEN 0 ELSE q
    BY <1>5 DEF PlaceOf, q
  <2>2. CASE pos = None
    BY <1>1, <1>5, <2>1, <2>2
  <2>3. CASE pos # None
    <3>1. PlaceOf(op, d, pos) = q /\ q # 0 /\ q \in 0..Len(d)
      BY <1>1, <1>2, <2>1, <2>3
    <3> QED BY <1>2, <1>5, <2>3, <3>1
  <2> QED BY <2>2, <2>3
<1>6. CASE op = "AddBefore"
  <2>1. PlaceOf(op, d, pos) = IF pos = None THEN Len(d) ELSE q - 1
    BY <1>6 DEF PlaceOf, q
  <2>2. CASE pos = None
    BY <1>1, <1>6, <2>1, <2>2
  <2>3. CASE pos # None
    <3>1. PlaceOf(op, d, pos) = q - 1
      BY <2>1, <2>3
    <3>2. q - 1 # Len(d) /\ q - 1 \in 0..Len(d) /\ (q - 1) + 1 = q
      BY <1>1, <1>2, <2>3
    <3> QED BY <1>2, <1>6, <2>3, <3>1, <3>2
  <2> QED BY <2>2, <2>3
<1> QED BY <1>3, <1>4, <1>5, <1>6 DEF Copyings

\* The objects that a list holds.
LEMMA DataIs ==
  ASSUME NEW items, HeapOf(h, items), NEW l \in ListNames
  PROVE  /\ DataOf(items[l]) \in Seq(Objects) /\ Len(DataOf(items[l])) = Len(items[l])
         /\ DOMAIN DataOf(items[l]) = 1..Len(items[l])
         /\ \A j \in 1..Len(items[l]) : DataOf(items[l])[j] = h.data[items[l][j]]
<1>1. items[l] \in Seq(Nodes) /\ Len(items[l]) \in Nat /\ \A j \in 1..Len(items[l]) : h.data[items[l][j]] \in Objects
  BY HeapIs
<1>2. DataOf(items[l]) = [j \in 1..Len(items[l]) |-> h.data[items[l][j]]]
  BY <1>1 DEF DataOf
<1>3. DataOf(items[l]) \in Seq(Objects) /\ Len(DataOf(items[l])) = Len(items[l])
  BY <1>1, <1>2
<1> QED BY <1>2, <1>3

LEMMA ExpectedIs ==
  ASSUME NEW items, HeapOf(h, items), \A j \in ListNames : Forward(j) = items[j],
         NEW l \in ListNames, NEW k \in ListNames, NEW op \in Copyings, NEW pos \in Elems(items[l]) \cup {None}
  PROVE  /\ Expected(op, l, k, pos) \in Seq(Objects)
         /\ Spliced(Expected(op, l, k, pos), DataOf(items[l]), DataOf(items[k]), PlaceOf(op, items[l], pos))
<1> DEFINE a == DataOf(items[l])
           b == DataOf(items[k])
           n == PlaceOf(op, items[l], pos)
<1>1. a \in Seq(Objects) /\ Len(a) = Len(items[l]) /\ b \in Seq(Objects) /\ DOMAIN a = DOMAIN items[l]
  BY DataIs, HeapIs
<1>2. items[l] \in Seq(Nodes)
  BY HeapIs
<1>3. n \in 0..Len(a)
  BY <1>1, <1>2, PlaceIs
<1>4. Expected(op, l, k, pos) = SubSeq(a, 1, n) \o b \o SubSeq(a, n + 1, Len(a))
  <2> DEFINE f == Forward(l)
             fa == DataOf(f)
             q == CHOOSE i \in DOMAIN fa : f[i] = pos
  <2>1. f = items[l] /\ fa = a /\ DataOf(Forward(k)) = b
    OBVIOUS
  <2>2. Expected(op, l, k, pos) =
          LET m == CASE op = "AddTail" -> Len(fa)
                     [] op = "AddHead" -> 0
                     [] op = "AddAfter" -> IF pos = None THEN 0 ELSE q
                     [] op = "AddBefore" -> IF pos = None THEN Len(fa) ELSE q - 1
          IN  SubSeq(fa, 1, m) \o DataOf(Forward(k)) \o SubSeq(fa, m + 1, Len(fa))
    BY DEF Expected
  <2> HIDE DEF f, fa, a, b
  <2>3. q = CHOOSE j \in DOMAIN items[l] : items[l][j] = pos
    <3>1. DOMAIN fa = DOMAIN items[l]
      BY <1>1, <2>1
    <3> QED BY <2>1, <3>1
  <2> DEFINE q2 == CHOOSE j \in DOMAIN items[l] : items[l][j] = pos
             n2 == CASE op = "AddTail" -> Len(items[l])
                     [] op = "AddHead" -> 0
                     [] op = "AddAfter" -> IF pos = None THEN 0 ELSE q2
                     [] op = "AddBefore" -> IF pos = None THEN Len(items[l]) ELSE q2 - 1
  <2>4. n = n2
    BY DEF PlaceOf
  <2>5. Len(fa) = Len(items[l]) /\ q = q2
    BY <1>1, <2>1, <2>3
  <2> HIDE DEF q, q2
  <2>6. Expected(op, l, k, pos) = SubSeq(fa, 1, n2) \o DataOf(Forward(k)) \o SubSeq(fa, n2 + 1, Len(fa))
    BY <2>2, <2>5
  <2> HIDE DEF n, n2
  <2> QED BY <2>1, <2>4, <2>6
<1> HIDE DEF a, b, n
<1>5. Expected(op, l, k, pos) \in Seq(Objects) /\ Spliced(Expected(op, l, k, pos), a, b, n)
  BY <1>1, <1>3, <1>4, SpliceIs
<1> QED BY <1>5 DEF a, b, n

LEMMA CopiedAtFirst ==
  ASSUME NEW items, HeapOf(h, items), \A j \in ListNames : Forward(j) = items[j],
         NEW l \in ListNames, NEW k \in ListNames, l # k, NEW op \in Copyings,
         NEW pos \in Elems(items[l]) \cup {None},
         NEW y, y = [op |-> op, from |-> k, to |-> l, at |-> pos,
                     cursor |-> IF op \in FromTail THEN h.last[k] ELSE h.first[k],
                     whole |-> Expected(op, l, k, pos)]
  PROVE  Copied(h, items, y, 0, PlaceOf(op, items[l], pos))
<1> DEFINE s == items[k]
           d == items[l]
           c == PlaceOf(op, d, pos)
           w == Expected(op, l, k, pos)
<1>1. /\ h \in Heap /\ s \in Seq(Nodes) /\ d \in Seq(Nodes) /\ Len(s) \in Nat /\ Len(d) \in Nat
  BY HeapIs
<1>2. h.first[k] = FirstOf(s) /\ h.last[k] = LastOf(s)
  BY DEF HeapOf, StandsFor, Held
<1>3. /\ c \in 0..Len(d)
      /\ op = "AddTail" => c = Len(d)
      /\ op = "AddHead" => c = 0
      /\ op = "AddAfter" => pos = IF c = 0 THEN None ELSE d[c]
      /\ op = "AddBefore" => pos = IF c = Len(d) THEN None ELSE d[c + 1]
  BY <1>1, PlaceIs
<1>4. w \in Seq(Objects) /\ Spliced(w, DataOf(d), DataOf(s), c)
  BY ExpectedIs
<1>5. /\ Len(DataOf(d)) = Len(d) /\ \A j \in 1..Len(d) : DataOf(d)[j] = h.data[d[j]]
      /\ Len(DataOf(s)) = Len(s) /\ \A j \in 1..Len(s) : DataOf(s)[j] = h.data[s[j]]
  BY DataIs
<1>6. /\ FirstOf(s) \in NodesOrNone /\ LastOf(s) \in NodesOrNone /\ Elems(d) \subseteq Nodes
  BY <1>1, Ends
<1>7. y \in CopyRecords
  BY <1>2, <1>4, <1>6 DEF CopyRecords, NodesOrNone
<1>8. /\ y.op = op /\ y.from = k /\ y.to = l /\ y.at = pos /\ y.whole = w
      /\ y.cursor = IF op \in FromTail THEN LastOf(s) ELSE FirstOf(s)
  BY <1>2
<1> HIDE DEF c, w
<1>9. Whole(h.data, s, d, w, 0, c, c)
  <2>1. /\ Len(w) = Len(d) + Len(s)
        /\ \A j \in 1..Len(d) : h.data[d[j]] = IF j <= c THEN w[j] ELSE w[j + Len(s)]
        /\ \A j \in 1..Len(s) : h.data[s[j]] = w[c + j]
    BY <1>4, <1>5 DEF Spliced
  <2>2. c \in Nat /\ Len(w) = Len(d) + Len(s) - 0
    BY <1>1, <1>3, <2>1
  <2>3. \A j \in 1..Len(d) : h.data[d[j]] = IF j <= c THEN w[j] ELSE w[j + Len(s) - 0]
    <3>1. \A j \in 1..Len(d) : j + Len(s) - 0 = j + Len(s)
      BY <1>1
    <3> QED BY <2>1, <3>1
  <2> QED BY <2>1, <2>2, <2>3 DEF Whole
<1>10. c - 0 = c
  BY <1>1, <1>3
<1>11. Pointers(y, s, d, 0, c)
  <2>1. y.cursor = IF 0 = Len(s) THEN None ELSE IF y.op \in FromTail THEN s[Len(s) - 0] ELSE s[0 + 1]
    <3>1. Len(s) - 0 = Len(s) /\ 0 + 1 = 1
      BY <1>1
    <3> QED BY <1>8, <3>1 DEF FirstOf, LastOf
  <2> QED BY <1>3, <1>8, <2>1 DEF Pointers
<1>12. Copied(h, items, y, 0, c)
  BY <1>1, <1>3, <1>7, <1>8, <1>9, <1>10, <1>11 DEF Copied
<1> QED BY <1>12 DEF c

(* What the actions do.                                                      *)

LEMMA Walked ==
  ASSUME NEW items, HeapOf(h, items)
  PROVE  /\ \A l \in ListNames : Forward(l) = items[l] /\ Backward(l) = Reversed(items[l])
         /\ \A l \in ListNames : Elements(Forward(l)) = Elems(items[l])
         /\ \E spare : StandsFor(h, items, spare, {}) /\ \A l \in ListNames : Cached(l) = spare[l]
<1>1. PICK spare : StandsFor(h, items, spare, {})
  BY DEF HeapOf
<1>2. Walks(h, items, spare)
  BY <1>1, WalksMeet
<1>3. /\ \A l \in ListNames : Forward(l) = items[l] /\ Backward(l) = Reversed(items[l])
      /\ \A l \in ListNames : Cached(l) = spare[l]
  BY <1>2 DEF Walks, Forward, Backward, Cached
<1>4. \A l \in ListNames : items[l] \in Seq(Nodes)
  BY HeapIs
<1>5. \A l \in ListNames : Elements(Forward(l)) = Elems(items[l])
  BY <1>3, <1>4, ElementsAre
<1> QED BY <1>1, <1>3, <1>5

LEMMA WalkedNext ==
  ASSUME NEW items, HeapOf(h', items)
  PROVE  \A l \in ListNames : Forward(l)' = items[l]
<1>1. PICK spare : StandsFor(h', items, spare, {})
  BY DEF HeapOf
<1>2. Walks(h', items, spare)
  BY <1>1, WalksMeet
<1> QED BY <1>2 DEF Walks, Forward

\* The node for a new object.
LEMMA NewNode ==
  ASSUME NEW items, HeapOf(h, items), NEW l \in ListNames, NodeFor(h, l) # None
  PROVE  \E spare : Ready(h, items, spare, l, NodeFor(h, l))
BY DEF HeapOf, Ready

LEMMA AddStep ==
  ASSUME NEW items, HeapOf(h, items), Add
  PROVE  \E l \in ListNames, o \in Objects : \E p \in 1..(Len(items[l]) + 1) :
           Adds(h, h', items, l, p, NodeFor(h, l), o)
<1>1. PICK l \in ListNames, o \in Objects :
        /\ NodeFor(h, l) # None
        /\ \/ h' = AddTailI(h, l, o)
           \/ h' = AddHeadI(h, l, o)
           \/ \E pos \in Elements(Forward(l)) : h' = AddAfterI(h, l, pos, o)
           \/ \E pos \in Elements(Forward(l)) : h' = AddBeforeI(h, l, pos, o)
  BY DEF Add
<1> DEFINE s == items[l]
           n == NodeFor(h, l)
<1>2. h \in Heap /\ Len(s) \in Nat
  BY HeapIs
<1>3. PICK spare : Ready(h, items, spare, l, n)
  BY <1>1, NewNode
<1>4. Elements(Forward(l)) = Elems(s)
  BY Walked
<1>5. CASE h' = AddTailI(h, l, o)
  <2>1. Adds(h, h', items, l, Len(s) + 1, n, o)
    BY <1>2, <1>3, <1>5, AddTailAdds
  <2>2. Len(s) + 1 \in 1..(Len(s) + 1)
    BY <1>2
  <2> QED BY <2>1, <2>2
<1>6. CASE h' = AddHeadI(h, l, o)
  <2>1. Adds(h, h', items, l, 1, n, o)
    BY <1>2, <1>3, <1>6, AddHeadAdds
  <2>2. 1 \in 1..(Len(s) + 1)
    BY <1>2
  <2> QED BY <2>1, <2>2
<1>7. CASE \E pos \in Elements(Forward(l)) : h' = AddAfterI(h, l, pos, o)
  <2>1. PICK i \in 1..Len(s) : h' = AddAfterI(h, l, s[i], o)
    BY <1>4, <1>7 DEF Elems
  <2>2. Adds(h, h', items, l, i + 1, n, o)
    BY <1>2, <1>3, <2>1, AddAfterAdds
  <2>3. i + 1 \in 1..(Len(s) + 1)
    BY <1>2
  <2> QED BY <2>2, <2>3
<1>8. CASE \E pos \in Elements(Forward(l)) : h' = AddBeforeI(h, l, pos, o)
  <2>1. PICK i \in 1..Len(s) : h' = AddBeforeI(h, l, s[i], o)
    BY <1>4, <1>8 DEF Elems
  <2>2. Adds(h, h', items, l, i, n, o)
    BY <1>2, <1>3, <2>1, AddBeforeAdds
  <2>3. i \in 1..(Len(s) + 1)
    BY <1>2
  <2> QED BY <2>2, <2>3
<1> QED BY <1>1, <1>5, <1>6, <1>7, <1>8

LEMMA RemoveStep ==
  ASSUME NEW items, HeapOf(h, items), Remove
  PROVE  \E l \in ListNames : \E i \in 1..Len(items[l]) : Removes(h, h', items, l, i)
<1>1. PICK l \in ListNames :
        \/ h.first[l] # None /\ h' = RemoveI(h, l, h.first[l])
        \/ h.last[l] # None /\ h' = RemoveI(h, l, h.last[l])
        \/ \E pos \in Elements(Forward(l)) : h' = RemoveI(h, l, pos)
  BY DEF Remove
<1> DEFINE s == items[l]
<1>2. h \in Heap /\ Len(s) \in Nat
  BY HeapIs
<1>3. PICK spare : StandsFor(h, items, spare, {})
  BY DEF HeapOf
<1>4. h.first[l] = FirstOf(s) /\ h.last[l] = LastOf(s)
  BY <1>3 DEF StandsFor, Held
<1>5. Elements(Forward(l)) = Elems(s)
  BY Walked
<1>6. \E i \in 1..Len(s) : h' = RemoveI(h, l, s[i])
  <2>1. CASE h.first[l] # None /\ h' = RemoveI(h, l, h.first[l])
    <3>1. h.first[l] = s[1] /\ 1 \in 1..Len(s)
      BY <1>2, <1>4, <2>1 DEF FirstOf
    <3> QED BY <2>1, <3>1
  <2>2. CASE h.last[l] # None /\ h' = RemoveI(h, l, h.last[l])
    <3>1. h.last[l] = s[Len(s)] /\ Len(s) \in 1..Len(s)
      BY <1>2, <1>4, <2>2 DEF LastOf
    <3> QED BY <2>2, <3>1
  <2>3. CASE \E pos \in Elements(Forward(l)) : h' = RemoveI(h, l, pos)
    BY <1>5, <2>3 DEF Elems
  <2> QED BY <1>1, <2>1, <2>2, <2>3
<1>7. PICK i \in 1..Len(s) : h' = RemoveI(h, l, s[i])
  BY <1>6
<1>8. Removes(h, h', items, l, i)
  BY <1>2, <1>3, <1>7, RemoveTakes
<1> QED BY <1>8

LEMMA RemoveAllStep ==
  ASSUME NEW items, HeapOf(h, items), RemoveAll
  PROVE  \E l \in ListNames : Empties(h, h', items, l)
<1>1. PICK l \in ListNames : h' = RemoveAllOf(h, l)
  BY DEF RemoveAll
<1>2. h \in Heap
  BY HeapIs
<1>3. PICK spare : StandsFor(h, items, spare, {})
  BY DEF HeapOf
<1>4. Empties(h, h', items, l)
  BY <1>1, <1>2, <1>3, RemoveAllEmpties
<1> QED BY <1>4

LEMMA MoveToTailStep ==
  ASSUME NEW items, HeapOf(h, items), MoveToTail
  PROVE  \E l, k \in ListNames : \E p \in 1..Len(items[l]) : l # k /\ MovesTail(h, h', items, l, k, p)
<1>1. PICK l \in ListNames, k \in ListNames :
        l # k /\ \E pos \in Elements(Forward(l)) : h' = MoveToTailOf(h, l, pos, k)
  BY DEF MoveToTail
<1>2. h \in Heap
  BY HeapIs
<1>3. PICK spare : StandsFor(h, items, spare, {})
  BY DEF HeapOf
<1>4. Elements(Forward(l)) = Elems(items[l])
  BY Walked
<1>5. PICK p \in 1..Len(items[l]) : h' = MoveToTailOf(h, l, items[l][p], k)
  BY <1>1, <1>4 DEF Elems
<1>6. MovesTail(h, h', items, l, k, p)
  BY <1>1, <1>2, <1>3, <1>5, MoveToTailMoves
<1> QED BY <1>1, <1>6

LEMMA MoveToHeadStep ==
  ASSUME NEW items, HeapOf(h, items), MoveToHead
  PROVE  \E l, k \in ListNames : \E p \in 1..Len(items[l]) : l # k /\ MovesHead(h, h', items, l, k, p)
<1>1. PICK l \in ListNames, k \in ListNames :
        l # k /\ \E pos \in Elements(Forward(l)) : h' = MoveToHeadOf(h, l, pos, k)
  BY DEF MoveToHead
<1>2. h \in Heap
  BY HeapIs
<1>3. PICK spare : StandsFor(h, items, spare, {})
  BY DEF HeapOf
<1>4. Elements(Forward(l)) = Elems(items[l])
  BY Walked
<1>5. PICK p \in 1..Len(items[l]) : h' = MoveToHeadOf(h, l, items[l][p], k)
  BY <1>1, <1>4 DEF Elems
<1>6. MovesHead(h, h', items, l, k, p)
  BY <1>1, <1>2, <1>3, <1>5, MoveToHeadMoves
<1> QED BY <1>1, <1>6

LEMMA ReverseStep ==
  ASSUME NEW items, HeapOf(h, items), Reverse
  PROVE  \E l \in ListNames : Reverses(h, h', items, l)
<1>1. PICK l \in ListNames : h' = ReverseOf(h, l)
  BY DEF Reverse
<1>2. h \in Heap
  BY HeapIs
<1>3. PICK spare : StandsFor(h, items, spare, {})
  BY DEF HeapOf
<1>4. Reverses(h, h', items, l)
  BY <1>1, <1>2, <1>3, ReverseTurns
<1> QED BY <1>4

LEMMA CopyOneStep ==
  ASSUME NEW items, HeapOf(h, items), NEW i, NEW c, Copied(h, items, copy, i, c), CopyOne
  PROVE  /\ i # Len(items[copy.from]) /\ copy.to \in ListNames /\ c + 1 \in 1..(Len(items[copy.to]) + 1)
         /\ h.data[copy.cursor] \in Objects
         /\ Adds(h, h', items, copy.to, c + 1, NodeFor(h, copy.to), h.data[copy.cursor])
         /\ copy' = Advanced(h, copy, NodeFor(h, copy.to))
<1>1. /\ copy \in CopyRecords /\ c \in 0..Len(items[copy.to])
      /\ Pointers(copy, items[copy.from], items[copy.to], i, c)
  BY DEF Copied
<1>2. copy.to \in ListNames
  BY <1>1, CopyFields
<1>3. copy.cursor # None /\ NodeFor(h, copy.to) # None
  BY DEF CopyOne
<1>4. i # Len(items[copy.from])
  BY <1>1, <1>3 DEF Pointers
<1>5. h.data[copy.cursor] \in Objects
  BY <1>4, TurnIs
<1>6. Adds(h, h', items, copy.to, c + 1, NodeFor(h, copy.to), h.data[copy.cursor])
  <2>1. h' = CASE copy.op = "AddTail" -> AddTailI(h, copy.to, h.data[copy.cursor])
               [] copy.op = "AddHead" -> AddHeadI(h, copy.to, h.data[copy.cursor])
               [] copy.op = "AddAfter" -> AddAfterI(h, copy.to, copy.at, h.data[copy.cursor])
               [] copy.op = "AddBefore" -> AddBeforeI(h, copy.to, copy.at, h.data[copy.cursor])
    BY DEF CopyOne
  <2> QED BY <1>3, <1>5, <2>1, CopyAdds
<1>7. copy' = Advanced(h, copy, NodeFor(h, copy.to))
  BY DEF CopyOne, Advanced
<1>8. Len(items[copy.to]) \in Nat
  BY <1>2, HeapIs
<1>9. c + 1 \in 1..(Len(items[copy.to]) + 1)
  BY <1>1, <1>8
<1> QED BY <1>2, <1>4, <1>5, <1>6, <1>7, <1>9

(* The inductive invariant: the members stand for a sequence of nodes for    *)
(* each list, and a copy in progress has what is left of it still to come.   *)

ListsInv ==
  \E items : HeapOf(h, items) /\ (copy = NoCopy \/ \E i, c : Copied(h, items, copy, i, c))

LEMMA ListsInvInit == Init => ListsInv
<1> SUFFICES ASSUME Init PROVE ListsInv
  OBVIOUS
<1> DEFINE none == [l \in ListNames |-> <<>>]
<1>1. /\ h.first = [l \in ListNames |-> None] /\ h.last = [l \in ListNames |-> None]
      /\ h.count = [l \in ListNames |-> 0] /\ h.cache = [l \in ListNames |-> None]
      /\ h.used = [l \in ListNames |-> 0] /\ h.free = Nodes
  BY DEF Init
<1>2. h \in Heap
  BY DEF Init, Heap, NodesOrNone
<1>3. none \in Sequences /\ \A l \in ListNames : none[l] = <<>>
  BY DEF Sequences
<1> HIDE DEF none
<1>4. Len(<<>>) = 0 /\ Elems(<<>>) = {} /\ Distinct(<<>>) /\ FirstOf(<<>>) = None /\ LastOf(<<>>) = None
  BY DEF Elems, Distinct, FirstOf, LastOf
<1>5. TwoWay(<<>>, h.next, h.prev) /\ Chained(<<>>, h.next)
  BY <1>4 DEF TwoWay, Inner, Closed, Chained
<1>6. Held(h, none)
  BY <1>1, <1>3, <1>4, <1>5 DEF Held
<1>7. Spared(h, none)
  BY <1>1, <1>3, <1>4, <1>5, ListConstants DEF Spared
<1>8. Apart(none, none, h.free, {})
  BY <1>1, <1>3, <1>4 DEF Apart
<1>9. StandsFor(h, none, none, {})
  BY <1>3, <1>6, <1>7, <1>8 DEF StandsFor
<1>10. Counted(h, none) /\ Named(h, none)
  BY <1>1, <1>3, <1>4 DEF Counted, Named
<1>11. HeapOf(h, none)
  BY <1>2, <1>9, <1>10 DEF HeapOf
<1>12. copy = NoCopy
  BY DEF Init
<1> QED BY <1>11, <1>12 DEF ListsInv

LEMMA CopyOneKeeps ==
  ASSUME NEW items, HeapOf(h, items), NEW i, NEW c, Copied(h, items, copy, i, c), CopyOne
  PROVE  ListsInv'
<1> DEFINE n == NodeFor(h, copy.to)
           items2 == [items EXCEPT ![copy.to] = InsertedAt(@, c + 1, n)]
<1>1. /\ i # Len(items[copy.from]) /\ copy.to \in ListNames /\ c + 1 \in 1..(Len(items[copy.to]) + 1)
      /\ h.data[copy.cursor] \in Objects
      /\ Adds(h, h', items, copy.to, c + 1, n, h.data[copy.cursor])
      /\ copy' = Advanced(h, copy, n)
  BY CopyOneStep
<1>2. HeapOf(h', items2)
  BY <1>1, AddKeeps
<1>3. Copied(h', items2, copy', i + 1, After(copy, c))
  BY <1>1, CopiedOne
<1> HIDE DEF items2
<1> QED BY <1>2, <1>3 DEF ListsInv

LEMMA BeginCopyKeeps ==
  ASSUME NEW items, HeapOf(h, items), BeginCopy
  PROVE  ListsInv'
<1>1. PICK l \in ListNames, k \in ListNames, op \in Copyings : l # k /\
        \E pos \in Elements(Forward(l)) \cup {None} :
          copy' = [op |-> op, from |-> k, to |-> l, at |-> pos,
                   cursor |-> IF op \in FromTail THEN h.last[k] ELSE h.first[k],
                   whole |-> Expected(op, l, k, pos)]
  BY DEF BeginCopy
<1>2. PICK pos \in Elements(Forward(l)) \cup {None} :
          copy' = [op |-> op, from |-> k, to |-> l, at |-> pos,
                   cursor |-> IF op \in FromTail THEN h.last[k] ELSE h.first[k],
                   whole |-> Expected(op, l, k, pos)]
  BY <1>1
<1>3. \A j \in ListNames : Forward(j) = items[j]
  BY Walked
<1>4. pos \in Elems(items[l]) \cup {None}
  BY Walked
<1>5. Copied(h, items, copy', 0, PlaceOf(op, items[l], pos))
  BY <1>1, <1>2, <1>3, <1>4, CopiedAtFirst
<1>6. h' = h
  BY DEF BeginCopy
<1> QED BY <1>5, <1>6 DEF ListsInv

LEMMA ListsInvNext == ListsInv /\ [Next]_vars => ListsInv'
<1> SUFFICES ASSUME ListsInv, [Next]_vars PROVE ListsInv'
  OBVIOUS
<1>1. PICK items : HeapOf(h, items) /\ (copy = NoCopy \/ \E i, c : Copied(h, items, copy, i, c))
  BY DEF ListsInv
<1>2. ASSUME NEW items2, HeapOf(h', items2), copy' = NoCopy PROVE ListsInv'
  BY <1>2 DEF ListsInv
<1>3. CASE Add
  <2>1. PICK l \in ListNames, o \in Objects : \E p \in 1..(Len(items[l]) + 1) :
           Adds(h, h', items, l, p, NodeFor(h, l), o)
    BY <1>1, <1>3, AddStep
  <2>2. PICK p \in 1..(Len(items[l]) + 1) : Adds(h, h', items, l, p, NodeFor(h, l), o)
    BY <2>1
  <2>3. HeapOf(h', [items EXCEPT ![l] = InsertedAt(@, p, NodeFor(h, l))])
    BY <1>1, <2>2, AddKeeps
  <2>4. copy' = NoCopy
    BY <1>3 DEF Add, Idle
  <2> QED BY <1>2, <2>3, <2>4
<1>4. CASE Remove
  <2>1. PICK l \in ListNames : \E i \in 1..Len(items[l]) : Removes(h, h', items, l, i)
    BY <1>1, <1>4, RemoveStep
  <2>2. PICK i \in 1..Len(items[l]) : Removes(h, h', items, l, i)
    BY <2>1
  <2>3. HeapOf(h', [items EXCEPT ![l] = RemovedAt(@, i)])
    BY <1>1, <2>2, RemoveKeeps
  <2>4. copy' = NoCopy
    BY <1>4 DEF Remove, Idle
  <2> QED BY <1>2, <2>3, <2>4
<1>5. CASE RemoveAll
  <2>1. PICK l \in ListNames : Empties(h, h', items, l)
    BY <1>1, <1>5, RemoveAllStep
  <2>2. HeapOf(h', [items EXCEPT ![l] = <<>>])
    BY <1>1, <2>1, EmptyKeeps
  <2>3. copy' = NoCopy
    BY <1>5 DEF RemoveAll, Idle
  <2> QED BY <1>2, <2>2, <2>3
<1>6. CASE MoveToTail
  <2>1. PICK l \in ListNames, k \in ListNames :
          \E p \in 1..Len(items[l]) : l # k /\ MovesTail(h, h', items, l, k, p)
    BY <1>1, <1>6, MoveToTailStep
  <2>2. PICK p \in 1..Len(items[l]) : l # k /\ MovesTail(h, h', items, l, k, p)
    BY <2>1
  <2>3. HeapOf(h', [items EXCEPT ![l] = SubSeq(items[l], p + 1, Len(items[l])),
                                 ![k] = items[k] \o SubSeq(items[l], 1, p)])
    BY <1>1, <2>2, MoveTailKeeps
  <2>4. copy' = NoCopy
    BY <1>6 DEF MoveToTail, Idle
  <2> QED BY <1>2, <2>3, <2>4
<1>7. CASE MoveToHead
  <2>1. PICK l \in ListNames, k \in ListNames :
          \E p \in 1..Len(items[l]) : l # k /\ MovesHead(h, h', items, l, k, p)
    BY <1>1, <1>7, MoveToHeadStep
  <2>2. PICK p \in 1..Len(items[l]) : l # k /\ MovesHead(h, h', items, l, k, p)
    BY <2>1
  <2>3. HeapOf(h', [items EXCEPT ![l] = SubSeq(items[l], 1, p - 1),
                                 ![k] = SubSeq(items[l], p, Len(items[l])) \o items[k]])
    BY <1>1, <2>2, MoveHeadKeeps
  <2>4. copy' = NoCopy
    BY <1>7 DEF MoveToHead, Idle
  <2> QED BY <1>2, <2>3, <2>4
<1>8. CASE Reverse
  <2>1. PICK l \in ListNames : Reverses(h, h', items, l)
    BY <1>1, <1>8, ReverseStep
  <2>2. HeapOf(h', [items EXCEPT ![l] = Reversed(@)])
    BY <1>1, <2>1, ReverseKeeps
  <2>3. copy' = NoCopy
    BY <1>8 DEF Reverse, Idle
  <2> QED BY <1>2, <2>2, <2>3
<1>9. CASE BeginCopy
  BY <1>1, <1>9, BeginCopyKeeps
<1>10. CASE CopyOne
  <2>1. copy # NoCopy
    BY <1>10 DEF CopyOne, NoCopy
  <2>2. PICK i, c : Copied(h, items, copy, i, c)
    BY <1>1, <2>1
  <2> QED BY <1>1, <1>10, <2>2, CopyOneKeeps
<1>11. CASE EndCopy
  <2>1. h' = h /\ copy' = NoCopy
    BY <1>11 DEF EndCopy
  <2> QED BY <1>1, <1>2, <2>1
<1>12. CASE UNCHANGED vars
  <2>1. h' = h /\ copy' = copy
    BY <1>12 DEF vars
  <2> QED BY <1>1, <2>1 DEF ListsInv
<1> QED BY <1>3, <1>4, <1>5, <1>6, <1>7, <1>8, <1>9, <1>10, <1>11, <1>12 DEF Next

LEMMA ListsInvHolds == Spec => []ListsInv
BY ListsInvInit, ListsInvNext, PTL DEF Spec

(* What the invariant says of what the runs check.                           *)

LEMMA TypesFollow == ListsInv => TypeOK
<1> SUFFICES ASSUME ListsInv PROVE TypeOK
  OBVIOUS
<1>1. PICK items : HeapOf(h, items) /\ (copy = NoCopy \/ \E i, c : Copied(h, items, copy, i, c))
  BY DEF ListsInv
<1>2. h \in Heap
  BY <1>1, HeapIs
<1>3. /\ h.first \in [ListNames -> NodesOrNone] /\ h.last \in [ListNames -> NodesOrNone]
      /\ h.count \in [ListNames -> Int] /\ h.cache \in [ListNames -> NodesOrNone]
      /\ h.used \in [ListNames -> Int] /\ h.free \in SUBSET Nodes
      /\ h.next \in [Nodes -> NodesOrNone] /\ h.prev \in [Nodes -> NodesOrNone]
      /\ h.data \in [Nodes -> Objects \cup {None}]
  BY <1>2, HeapTypes
<1>4. h.count \in [ListNames -> 0 .. Cardinality(Nodes)]
  <2>1. ASSUME NEW l \in ListNames PROVE h.count[l] \in 0 .. Cardinality(Nodes)
    <3>1. items[l] \in Seq(Nodes) /\ Len(items[l]) \in Nat /\ Distinct(items[l]) /\ h.count[l] = Len(items[l])
      BY <1>1, HeapIs
    <3>2. Len(items[l]) <= Cardinality(Nodes) /\ Cardinality(Nodes) \in Nat
      BY <3>1, DistinctFew, NodesCounted
    <3> QED BY <3>1, <3>2
  <2> QED BY <1>3, <2>1
<1>5. h.used \in [ListNames -> Nat]
  <2>1. PICK spare : StandsFor(h, items, spare, {})
    BY <1>1 DEF HeapOf
  <2>2. \A l \in ListNames : h.used[l] = Len(spare[l]) /\ spare[l] \in Seq(Nodes)
    BY <2>1 DEF StandsFor, Spared, Sequences
  <2>3. \A l \in ListNames : h.used[l] \in Nat
    BY <2>2
  <2> QED BY <1>3, <2>3
<1>6. copy.op \in Copyings \cup {None}
  <2>1. CASE copy = NoCopy
    BY <2>1 DEF NoCopy
  <2>2. CASE \E i, c : Copied(h, items, copy, i, c)
    BY <2>2, CopyFields DEF Copied
  <2> QED BY <1>1, <2>1, <2>2
<1> QED BY <1>3, <1>4, <1>5, <1>6 DEF TypeOK, NodesOrNone

LEMMA LinksFollow == ListsInv => LinksAgree
<1> SUFFICES ASSUME ListsInv, NEW l \in ListNames
             PROVE  /\ Len(Forward(l)) = h.count[l] /\ Len(Backward(l)) = h.count[l]
                    /\ \A i \in DOMAIN Forward(l) : Backward(l)[Len(Backward(l)) + 1 - i] = Forward(l)[i]
  BY DEF LinksAgree
<1>1. PICK items : HeapOf(h, items)
  BY DEF ListsInv
<1> DEFINE s == items[l]
<1>2. s \in Seq(Nodes) /\ Len(s) \in Nat /\ h.count[l] = Len(s)
  BY <1>1, HeapIs
<1>3. Forward(l) = s /\ Backward(l) = Reversed(s)
  BY <1>1, Walked
<1>4. Len(Reversed(s)) = Len(s) /\ \A j \in 1..Len(s) : Reversed(s)[j] = s[Len(s) + 1 - j]
  BY <1>2 DEF Reversed
<1> HIDE DEF s
<1>5. ASSUME NEW i \in DOMAIN s PROVE Reversed(s)[Len(Reversed(s)) + 1 - i] = s[i]
  <2>1. i \in 1..Len(s)
    BY <1>2
  <2>2. Len(s) + 1 - i \in 1..Len(s) /\ Len(s) + 1 - (Len(s) + 1 - i) = i
    BY <1>2, <2>1
  <2> QED BY <1>4, <2>2
<1> QED BY <1>2, <1>3, <1>4, <1>5

LEMMA PlacesFollow == ListsInv => NodeInOnePlace
<1> SUFFICES ASSUME ListsInv PROVE NodeInOnePlace
  OBVIOUS
<1>1. PICK items : HeapOf(h, items)
  BY DEF ListsInv
<1>2. PICK spare : StandsFor(h, items, spare, {}) /\ \A l \in ListNames : Cached(l) = spare[l]
  BY <1>1, Walked
<1>3. /\ Spared(h, spare) /\ Apart(items, spare, h.free, {})
      /\ \A l \in ListNames : spare[l] \in Seq(Nodes)
  BY <1>2 DEF StandsFor, Sequences
<1>4. \A l \in ListNames : h.used[l] = Len(Cached(l)) /\ h.used[l] <= m_iCacheSize
  BY <1>2, <1>3 DEF Spared
<1>5. \A l \in ListNames : Elements(Forward(l)) = Elems(items[l]) /\ Elements(Cached(l)) = Elems(spare[l])
  BY <1>1, <1>2, <1>3, Walked, ElementsAre
<1>6. ASSUME NEW n \in Nodes
      PROVE  Cardinality({l \in ListNames : n \in Elements(Forward(l))})
               + Cardinality({l \in ListNames : n \in Elements(Cached(l))})
               + (IF n \in h.free THEN 1 ELSE 0) = 1
  <2> DEFINE lists == {l \in ListNames : n \in Elements(Forward(l))}
             caches == {l \in ListNames : n \in Elements(Cached(l))}
  <2>1. OnePlace(items, spare, h.free, {}, n)
    BY <1>3, ApartOnePlace
  <2>2. \/ n \in h.free /\ lists = {} /\ caches = {}
        \/ n \notin h.free /\ (\E j \in ListNames : lists = {j}) /\ caches = {}
        \/ n \notin h.free /\ lists = {} /\ (\E j \in ListNames : caches = {j})
    <3>1. lists = {l \in ListNames : InList(items, l, n)} /\ caches = {l \in ListNames : InList(spare, l, n)}
      BY <1>5 DEF InList
    <3>2. CASE n \in h.free /\ \A k \in ListNames : ~InList(items, k, n) /\ ~InList(spare, k, n)
      BY <3>1, <3>2
    <3>3. CASE n \notin h.free /\ \E j \in ListNames : \A k \in ListNames : (InList(items, k, n) <=> k = j) /\ ~InList(spare, k, n)
      BY <3>1, <3>3
    <3>4. CASE n \notin h.free /\ \E j \in ListNames : \A k \in ListNames : ~InList(items, k, n) /\ (InList(spare, k, n) <=> k = j)
      BY <3>1, <3>4
    <3> QED BY <2>1, <3>2, <3>3, <3>4 DEF OnePlace
  <2>3. Cardinality({}) = 0 /\ \A j : Cardinality({j}) = 1
    BY FS_EmptySet, FS_Singleton
  <2> HIDE DEF lists, caches
  <2>4. \/ n \in h.free /\ Cardinality(lists) = 0 /\ Cardinality(caches) = 0
        \/ n \notin h.free /\ Cardinality(lists) = 1 /\ Cardinality(caches) = 0
        \/ n \notin h.free /\ Cardinality(lists) = 0 /\ Cardinality(caches) = 1
    BY <2>2, <2>3
  <2>5. Cardinality(lists) + Cardinality(caches) + (IF n \in h.free THEN 1 ELSE 0) = 1
    BY <2>4
  <2> QED BY <2>5 DEF lists, caches
<1> QED BY <1>4, <1>6 DEF NodeInOnePlace

LEMMA OrderFollows == ListsInv => CopyKeepsOrder
<1> SUFFICES ASSUME ListsInv, copy.op # None, copy.cursor = None
             PROVE  DataOf(Forward(copy.to)) = copy.whole
  BY DEF CopyKeepsOrder
<1>1. PICK items : HeapOf(h, items) /\ (copy = NoCopy \/ \E i, c : Copied(h, items, copy, i, c))
  BY DEF ListsInv
<1>2. PICK i, c : Copied(h, items, copy, i, c)
  BY <1>1 DEF NoCopy
<1> DEFINE s == items[copy.from]
           d == items[copy.to]
           w == copy.whole
<1>3. copy \in CopyRecords /\ i \in 0..Len(s) /\ c \in 0..Len(d)
  BY <1>2 DEF Copied
<1>4. copy.from \in ListNames /\ copy.to \in ListNames /\ w \in Seq(Objects)
  BY <1>3, CopyFields
<1>5. /\ Len(s) \in Nat /\ \A j \in 1..Len(s) : s[j] \in Nodes
      /\ Len(d) \in Nat /\ d \in Seq(Nodes)
  BY <1>1, <1>4, HeapIs
<1>6. i = Len(s)
  <2>1. SUFFICES ASSUME i # Len(s) PROVE FALSE
    OBVIOUS
  <2>2. Turn(copy, s, i) \in 1..Len(s) /\ copy.cursor = s[Turn(copy, s, i)]
    BY <1>1, <1>2, <2>1, TurnIs
  <2>3. copy.cursor \in Nodes
    BY <1>5, <2>2
  <2> QED BY <2>3, ListConstants
<1>7. Whole(h.data, s, d, w, i, c, c) \/ Whole(h.data, s, d, w, i, c, c - i)
  BY <1>2 DEF Copied
<1>8. /\ Len(w) = Len(d) + Len(s) - i
      /\ \A j \in 1..Len(d) : h.data[d[j]] = IF j <= c THEN w[j] ELSE w[j + Len(s) - i]
  BY <1>7 DEF Whole
<1>9. Len(w) = Len(d) /\ \A j \in 1..Len(d) : j + Len(s) - i = j
  BY <1>5, <1>6, <1>8
<1>10. \A j \in 1..Len(d) : h.data[d[j]] = w[j]
  BY <1>8, <1>9
<1>11. /\ DataOf(d) \in Seq(Objects) /\ Len(DataOf(d)) = Len(d)
       /\ \A j \in 1..Len(d) : DataOf(d)[j] = h.data[d[j]]
  BY <1>1, <1>4, DataIs
<1> HIDE DEF d, w
<1>12. DataOf(d) = w
  <2>1. w \in Seq(Objects)
    BY <1>4 DEF w
  <2> QED BY <1>9, <1>10, <1>11, <2>1, SeqEqual
<1>13. Forward(copy.to) = d
  BY <1>1, <1>4, Walked DEF d
<1> QED BY <1>12, <1>13 DEF w

\* After any sequence of calls the members of the lists and of the nodes have values of
\* their kinds, and m_Count is no more than the nodes there are.
THEOREM TypesHold == Spec => []TypeOK
BY ListsInvHolds, TypesFollow, PTL

\* After any sequence of calls of CBaseList a walk from m_pFirst along m_pNext meets, in the
\* opposite order, the nodes that one from m_pLast along m_pPrev meets, m_Count of them.
THEOREM LinksHold == Spec => []LinksAgree
BY ListsInvHolds, LinksFollow, PTL

\* No node is ever lost or in two places: each is in one list, in one cache or released, and
\* no cache outgrows its size.
THEOREM PlacesHold == Spec => []NodeInOnePlace
BY ListsInvHolds, PlacesFollow, PTL

\* The two together: the lists and their caches stay whole.
THEOREM NodesHold == Spec => []NodesKept
<1>1. LinksAgree /\ NodeInOnePlace => NodesKept
  BY DEF NodesKept
<1> QED BY <1>1, LinksHold, PlacesHold, PTL

\* When AddTail, AddHead, AddAfter or AddBefore of a list has come to the end of the other
\* list, the objects of both are where its comment in wxlist.h says, in their order.
THEOREM OrderHolds == Spec => []CopyKeepsOrder
BY ListsInvHolds, OrderFollows, PTL

(* The linked nodes are the sequences of positions that Lists specifies.     *)

\* The sequences that the lists are.
Items == [l \in ListNames |-> Forward(l)]

LEMMA ItemsAre ==
  ASSUME NEW items, HeapOf(h, items)
  PROVE  Items = items
<1>1. items \in Sequences /\ \A l \in ListNames : Forward(l) = items[l]
  BY HeapIs, Walked
<1> QED BY <1>1 DEF Items, Sequences

LEMMA ItemsWillBe ==
  ASSUME NEW items, HeapOf(h', items)
  PROVE  Items' = items
<1>1. items \in Sequences /\ \A l \in ListNames : Forward(l)' = items[l]
  BY HeapIs, WalkedNext
<1> QED BY <1>1 DEF Items, Sequences

LEMMA NotInLists ==
  ASSUME NEW items, HeapOf(h, items), NEW n, \A l \in ListNames : n \notin Elems(items[l])
  PROVE  n \notin Abstract!InLists
<1>1. Items = items
  BY ItemsAre
<1>2. Abstract!InLists = UNION {Abstract!S!ToSet(Items[l]) : l \in ListNames}
  BY DEF Abstract!InLists, Items
<1>3. \A l \in ListNames : Abstract!S!ToSet(items[l]) = Elems(items[l])
  <2>1. \A l \in ListNames : items[l] \in Seq(Nodes)
    BY HeapIs
  <2> QED BY <2>1 DEF Abstract!S!ToSet, Elems
<1> QED BY <1>1, <1>2, <1>3

LEMMA AddImplements ==
  ASSUME NEW items, HeapOf(h, items), NEW l \in ListNames, NEW p \in 1..(Len(items[l]) + 1), NEW n,
         NEW o \in Objects, Adds(h, h', items, l, p, n, o)
  PROVE  Abstract!Add
<1>1. Items = items
  BY ItemsAre
<1>2. Items' = [items EXCEPT ![l] = InsertedAt(@, p, n)]
  BY AddKeeps, ItemsWillBe
<1>3. n \in Nodes /\ h'.data = [h.data EXCEPT ![n] = o] /\ \A k \in ListNames : n \notin Elems(items[k])
  BY DEF Adds
<1>4. n \notin Abstract!InLists
  BY <1>3, NotInLists
<1>5. Len(items[l]) \in Nat
  BY HeapIs
<1>6. p - 1 \in 0 .. Len(items[l]) /\ (p - 1) + 1 = p
  BY <1>5
<1>7. Items' = [Items EXCEPT ![l] = SubSeq(@, 1, p - 1) \o <<n>> \o SubSeq(@, (p - 1) + 1, Len(@))]
  BY <1>1, <1>2, <1>6 DEF InsertedAt
<1>8. (h.data)' = [h.data EXCEPT ![n] = o]
  BY <1>3
<1>9. n \in Nodes \ Abstract!InLists
  BY <1>3, <1>4
<1>10. \E m \in 0 .. Len(Items[l]) :
         Items' = [Items EXCEPT ![l] = SubSeq(@, 1, m) \o <<n>> \o SubSeq(@, m + 1, Len(@))]
  BY <1>1, <1>6, <1>7
<1>11. \E k \in ListNames, q \in Nodes \ Abstract!InLists, e \in Objects :
         /\ (h.data)' = [h.data EXCEPT ![q] = e]
         /\ \E m \in 0 .. Len(Items[k]) :
              Items' = [Items EXCEPT ![k] = SubSeq(@, 1, m) \o <<q>> \o SubSeq(@, m + 1, Len(@))]
  BY <1>8, <1>9, <1>10
<1> QED BY <1>11 DEF Abstract!Add, Items

LEMMA RemoveImplements ==
  ASSUME NEW items, HeapOf(h, items), NEW l \in ListNames, NEW i \in 1..Len(items[l]),
         Removes(h, h', items, l, i)
  PROVE  Abstract!Remove
<1>1. Items = items
  BY ItemsAre
<1>2. Items' = [items EXCEPT ![l] = RemovedAt(@, i)]
  BY RemoveKeeps, ItemsWillBe
<1>3. (h.data)' = [h.data EXCEPT ![Items[l][i]] = None]
  BY <1>1 DEF Removes
<1>4. items[l] \in Seq(Nodes)
  BY HeapIs
<1>5. i \in DOMAIN Items[l]
  BY <1>1, <1>4
<1>6. Items' = [Items EXCEPT ![l] = SubSeq(@, 1, i - 1) \o SubSeq(@, i + 1, Len(@))]
  BY <1>1, <1>2 DEF RemovedAt
<1> QED BY <1>3, <1>5, <1>6 DEF Abstract!Remove, Items

LEMMA RemoveAllImplements ==
  ASSUME NEW items, HeapOf(h, items), NEW l \in ListNames, Empties(h, h', items, l)
  PROVE  Abstract!RemoveAll
<1>1. Items = items
  BY ItemsAre
<1>2. Items' = [items EXCEPT ![l] = <<>>]
  BY EmptyKeeps, ItemsWillBe
<1>3. items[l] \in Seq(Nodes)
  BY HeapIs
<1>4. Abstract!S!ToSet(Items[l]) = Elems(items[l])
  BY <1>1, <1>3 DEF Abstract!S!ToSet, Elems
<1>5. (h.data)' = [p \in Nodes |-> IF p \in Elems(items[l]) THEN None ELSE h.data[p]]
  BY DEF Empties
<1>6. (h.data)' = [p \in Nodes |-> IF p \in Abstract!S!ToSet(Items[l]) THEN None ELSE h.data[p]]
  BY <1>4, <1>5
<1>7. Items' = [Items EXCEPT ![l] = <<>>]
  BY <1>1, <1>2
<1> QED BY <1>6, <1>7 DEF Abstract!RemoveAll, Items

LEMMA MoveToTailImplements ==
  ASSUME NEW items, HeapOf(h, items), NEW l \in ListNames, NEW k \in ListNames, l # k,
         NEW p \in 1..Len(items[l]), MovesTail(h, h', items, l, k, p)
  PROVE  Abstract!MoveToTail
<1>1. Items = items
  BY ItemsAre
<1>2. Items' = [items EXCEPT ![l] = SubSeq(items[l], p + 1, Len(items[l])),
                             ![k] = items[k] \o SubSeq(items[l], 1, p)]
  BY MoveTailKeeps, ItemsWillBe
<1>3. (h.data)' = h.data
  BY DEF MovesTail
<1>4. items[l] \in Seq(Nodes)
  BY HeapIs
<1>5. p \in DOMAIN Items[l]
  BY <1>1, <1>4
<1>6. Items' = [Items EXCEPT ![l] = SubSeq(@, p + 1, Len(@)), ![k] = @ \o SubSeq(Items[l], 1, p)]
  BY <1>1, <1>2
<1>7. \E j, m \in ListNames : \E q \in DOMAIN Items[j] :
        j # m /\ Items' = [Items EXCEPT ![j] = SubSeq(@, q + 1, Len(@)), ![m] = @ \o SubSeq(Items[j], 1, q)]
  BY <1>5, <1>6
<1> QED BY <1>3, <1>7 DEF Abstract!MoveToTail, Items

LEMMA MoveToHeadImplements ==
  ASSUME NEW items, HeapOf(h, items), NEW l \in ListNames, NEW k \in ListNames, l # k,
         NEW p \in 1..Len(items[l]), MovesHead(h, h', items, l, k, p)
  PROVE  Abstract!MoveToHead
<1>1. Items = items
  BY ItemsAre
<1>2. Items' = [items EXCEPT ![l] = SubSeq(items[l], 1, p - 1),
                             ![k] = SubSeq(items[l], p, Len(items[l])) \o items[k]]
  BY MoveHeadKeeps, ItemsWillBe
<1>3. (h.data)' = h.data
  BY DEF MovesHead
<1>4. items[l] \in Seq(Nodes)
  BY HeapIs
<1>5. p \in DOMAIN Items[l]
  BY <1>1, <1>4
<1>6. Items' = [Items EXCEPT ![l] = SubSeq(@, 1, p - 1), ![k] = SubSeq(Items[l], p, Len(Items[l])) \o @]
  BY <1>1, <1>2
<1>7. \E j, m \in ListNames : \E q \in DOMAIN Items[j] :
        j # m /\ Items' = [Items EXCEPT ![j] = SubSeq(@, 1, q - 1), ![m] = SubSeq(Items[j], q, Len(Items[j])) \o @]
  BY <1>5, <1>6
<1> QED BY <1>3, <1>7 DEF Abstract!MoveToHead, Items

LEMMA ReverseImplements ==
  ASSUME NEW items, HeapOf(h, items), NEW l \in ListNames, Reverses(h, h', items, l)
  PROVE  Abstract!ReverseList
<1>1. Items = items
  BY ItemsAre
<1>2. Items' = [items EXCEPT ![l] = Reversed(@)]
  BY ReverseKeeps, ItemsWillBe
<1>3. (h.data)' = h.data
  BY DEF Reverses
<1>4. Len(items[l]) \in Nat
  BY HeapIs
<1>5. Reversed(items[l]) = Abstract!S!Reverse(items[l])
  <2>1. \A i \in 1..Len(items[l]) : Len(items[l]) + 1 - i = (Len(items[l]) - i) + 1
    BY <1>4
  <2> QED BY <2>1 DEF Reversed, Abstract!S!Reverse
<1>6. Items' = [Items EXCEPT ![l] = Abstract!S!Reverse(@)]
  BY <1>1, <1>2, <1>5
<1> QED BY <1>3, <1>6 DEF Abstract!ReverseList, Items

LEMMA ItemsInit == Init => Abstract!Init
<1> SUFFICES ASSUME Init PROVE Abstract!Init
  OBVIOUS
<1>1. ListsInv
  BY ListsInvInit
<1>2. PICK items : HeapOf(h, items)
  BY <1>1 DEF ListsInv
<1>3. /\ Items = items /\ items \in Sequences
      /\ \A l \in ListNames : h.count[l] = Len(items[l]) /\ items[l] \in Seq(Nodes)
  BY <1>2, ItemsAre, HeapIs
<1>4. \A l \in ListNames : h.count[l] = 0
  BY DEF Init
<1>5. \A l \in ListNames : items[l] = <<>>
  BY <1>3, <1>4
<1>6. Items = [l \in ListNames |-> <<>>]
  BY <1>3, <1>5 DEF Sequences
<1>7. h.data = [p \in Nodes |-> None]
  BY DEF Init
<1> QED BY <1>6, <1>7 DEF Abstract!Init, Items

LEMMA ItemsNext == ListsInv /\ [Next]_vars => [Abstract!Next]_(Abstract!vars)
<1> SUFFICES ASSUME ListsInv, [Next]_vars PROVE [Abstract!Next]_(Abstract!vars)
  OBVIOUS
<1>1. PICK items : HeapOf(h, items) /\ (copy = NoCopy \/ \E i, c : Copied(h, items, copy, i, c))
  BY DEF ListsInv
<1>2. ASSUME h' = h PROVE UNCHANGED Abstract!vars
  <2>1. Items' = items
    BY <1>1, <1>2, ItemsWillBe
  <2>2. Items = items
    BY <1>1, ItemsAre
  <2>3. Items' = Items /\ (h.data)' = h.data
    BY <1>2, <2>1, <2>2
  <2> QED BY <2>3 DEF Abstract!vars, Items
<1>3. CASE Add
  <2>1. PICK l \in ListNames, o \in Objects : \E p \in 1..(Len(items[l]) + 1) :
           Adds(h, h', items, l, p, NodeFor(h, l), o)
    BY <1>1, <1>3, AddStep
  <2>2. Abstract!Add
    BY <1>1, <2>1, AddImplements
  <2> QED BY <2>2 DEF Abstract!Next
<1>4. CASE Remove
  <2>1. PICK l \in ListNames : \E i \in 1..Len(items[l]) : Removes(h, h', items, l, i)
    BY <1>1, <1>4, RemoveStep
  <2>2. Abstract!Remove
    BY <1>1, <2>1, RemoveImplements
  <2> QED BY <2>2 DEF Abstract!Next
<1>5. CASE RemoveAll
  <2>1. PICK l \in ListNames : Empties(h, h', items, l)
    BY <1>1, <1>5, RemoveAllStep
  <2>2. Abstract!RemoveAll
    BY <1>1, <2>1, RemoveAllImplements
  <2> QED BY <2>2 DEF Abstract!Next
<1>6. CASE MoveToTail
  <2>1. PICK l \in ListNames, k \in ListNames :
          \E p \in 1..Len(items[l]) : l # k /\ MovesTail(h, h', items, l, k, p)
    BY <1>1, <1>6, MoveToTailStep
  <2>2. Abstract!MoveToTail
    BY <1>1, <2>1, MoveToTailImplements
  <2> QED BY <2>2 DEF Abstract!Next
<1>7. CASE MoveToHead
  <2>1. PICK l \in ListNames, k \in ListNames :
          \E p \in 1..Len(items[l]) : l # k /\ MovesHead(h, h', items, l, k, p)
    BY <1>1, <1>7, MoveToHeadStep
  <2>2. Abstract!MoveToHead
    BY <1>1, <2>1, MoveToHeadImplements
  <2> QED BY <2>2 DEF Abstract!Next
<1>8. CASE Reverse
  <2>1. PICK l \in ListNames : Reverses(h, h', items, l)
    BY <1>1, <1>8, ReverseStep
  <2>2. Abstract!ReverseList
    BY <1>1, <2>1, ReverseImplements
  <2> QED BY <2>2 DEF Abstract!Next
<1>9. CASE BeginCopy
  BY <1>2, <1>9 DEF BeginCopy
<1>10. CASE CopyOne
  <2>1. copy # NoCopy
    BY <1>10 DEF CopyOne, NoCopy
  <2>2. PICK i, c : Copied(h, items, copy, i, c)
    BY <1>1, <2>1
  <2>3. /\ copy.to \in ListNames /\ c + 1 \in 1..(Len(items[copy.to]) + 1) /\ h.data[copy.cursor] \in Objects
        /\ Adds(h, h', items, copy.to, c + 1, NodeFor(h, copy.to), h.data[copy.cursor])
    BY <1>1, <1>10, <2>2, CopyOneStep
  <2>4. Abstract!Add
    BY <1>1, <2>3, AddImplements
  <2> QED BY <2>4 DEF Abstract!Next
<1>11. CASE EndCopy
  BY <1>2, <1>11 DEF EndCopy
<1>12. CASE UNCHANGED vars
  BY <1>2, <1>12 DEF vars
<1> QED BY <1>3, <1>4, <1>5, <1>6, <1>7, <1>8, <1>9, <1>10, <1>11, <1>12 DEF Next

\* The linked nodes implement the sequences of positions of Lists: a position names its
\* object until it is removed, whatever is added, removed, moved or reversed around it.
THEOREM ImplementsLists == Spec => IsLists
BY ItemsInit, ItemsNext, ListsInvHolds, PTL DEF Spec, IsLists, Abstract!Spec

=============================================================================
