----------------------------- MODULE GenericList -----------------------------
(***************************************************************************)
(* CBaseList (wxlist.cpp, wxlist.h), on which the queues, pin lists and    *)
(* free lists of the base classes stand: nodes linked both ways, a count,  *)
(* and a cache of nodes for each list.  Its owner calls one operation at a *)
(* time; those that copy a list take one step for each object.  The        *)
(* members of all lists and nodes are the fields of h.                     *)
(***************************************************************************)
EXTENDS Integers, Sequences, FiniteSets

CONSTANTS
  ListNames, Nodes, Objects, None,
  m_iCacheSize

ASSUME ListAssumption ==
  /\ None \notin ListNames \cup Nodes \cup Objects /\ m_iCacheSize \in Nat
  /\ IsFiniteSet(Nodes) /\ IsFiniteSet(ListNames)

VARIABLES
  h,       \* m_pFirst, m_pLast, m_Count; m_pNext, m_pPrev, m_pObject; the caches
  copy     \* AddTail, AddHead, AddAfter or AddBefore of a list, in progress

vars == <<h, copy>>

NoCopy == [op |-> None, from |-> None, to |-> None, cursor |-> None, at |-> None,
           whole |-> <<>>]

\* The nodes a walk along the given links meets; bounded, as a cycle has no end.
Walk(start, link) ==
  LET path[n \in 0 .. Cardinality(Nodes) + 1] ==
        [x \in Nodes \cup {None} |->
           IF x = None \/ n = 0 THEN <<>> ELSE <<x>> \o path[n - 1][link[x]]]
  IN  path[Cardinality(Nodes) + 1][start]

Forward(l) == Walk(h.first[l], h.next)
Backward(l) == Walk(h.last[l], h.prev)
Cached(l) == Walk(h.cache[l], h.next)
Elements(s) == {s[i] : i \in DOMAIN s}

-----------------------------------------------------------------------------
(* The cache of nodes, and the nodes that "new" may return.                *)

\* What a node holds when it is not in a list is never read.
Clear(s, n) == [s EXCEPT !.prev[n] = None, !.data[n] = None]

\* Fault: the cache takes one node more than its size.
AddToCacheOneMore(s, l, n) ==
  IF s.used[l] <= m_iCacheSize
  THEN [Clear(s, n) EXCEPT !.next[n] = s.cache[l], !.cache[l] = n, !.used[l] = @ + 1]
  ELSE [Clear(s, n) EXCEPT !.next[n] = None, !.free = @ \cup {n}]

AddToCache(s, l, n) ==
  IF s.used[l] < m_iCacheSize
  THEN [Clear(s, n) EXCEPT !.next[n] = s.cache[l], !.cache[l] = n, !.used[l] = @ + 1]
  ELSE [Clear(s, n) EXCEPT !.next[n] = None, !.free = @ \cup {n}]

\* The node for a new object, or None when memory is short.
NodeFor(s, l) ==
  IF s.cache[l] # None THEN s.cache[l]
  ELSE IF s.free # {} THEN CHOOSE n \in s.free : TRUE ELSE None

TakeNode(s, l) ==
  LET n == NodeFor(s, l)
  IN  IF s.cache[l] = n THEN [s EXCEPT !.cache[l] = s.next[n], !.used[l] = @ - 1]
      ELSE [s EXCEPT !.free = @ \ {n}]

-----------------------------------------------------------------------------
(* The operations, as functions on the members.                            *)

Linked(s, l, n, before, after, o) ==
  [s EXCEPT !.data[n] = o, !.prev[n] = before, !.next[n] = after, !.count[l] = @ + 1]

AddTailI(s, l, o) ==
  LET n == NodeFor(s, l)
      t == Linked(TakeNode(s, l), l, n, s.last[l], None, o)
  IN  IF s.last[l] = None THEN [t EXCEPT !.first[l] = n, !.last[l] = n]
      ELSE [t EXCEPT !.next[s.last[l]] = n, !.last[l] = n]

\* Fault: the first node is not linked back to the new one.
AddHeadForward(s, l, o) ==
  LET n == NodeFor(s, l)
      t == Linked(TakeNode(s, l), l, n, None, s.first[l], o)
  IN  IF s.first[l] = None THEN [t EXCEPT !.first[l] = n, !.last[l] = n]
      ELSE [t EXCEPT !.first[l] = n]

AddHeadI(s, l, o) ==
  LET n == NodeFor(s, l)
      t == Linked(TakeNode(s, l), l, n, None, s.first[l], o)
  IN  IF s.first[l] = None THEN [t EXCEPT !.first[l] = n, !.last[l] = n]
      ELSE [t EXCEPT !.prev[s.first[l]] = n, !.first[l] = n]

Between(s, l, before, after, o) ==
  LET n == NodeFor(s, l)
  IN  [Linked(TakeNode(s, l), l, n, before, after, o)
         EXCEPT !.prev[after] = n, !.next[before] = n]

AddAfterI(s, l, pos, o) ==
  IF pos = None THEN AddHeadI(s, l, o)
  ELSE IF pos = s.last[l] THEN AddTailI(s, l, o)
  ELSE Between(s, l, pos, s.next[pos], o)

AddBeforeI(s, l, pos, o) ==
  IF pos = None THEN AddTailI(s, l, o)
  ELSE IF pos = s.first[l] THEN AddHeadI(s, l, o)
  ELSE Between(s, l, s.prev[pos], pos, o)

RemoveI(s, l, pos) ==
  LET before == s.prev[pos]
      after == s.next[pos]
      t == IF before = None THEN [s EXCEPT !.first[l] = after]
           ELSE [s EXCEPT !.next[before] = after]
      u == IF after = None THEN [t EXCEPT !.last[l] = before]
           ELSE [t EXCEPT !.prev[after] = before]
  IN  [AddToCache(u, l, pos) EXCEPT !.count[l] = @ - 1]

\* Fault: the list is empty and goes on counting what it held.
RemoveAllButCount(s, l) ==
  LET gone == Elements(Forward(l))
      kept(f) == [n \in Nodes |-> IF n \in gone THEN None ELSE f[n]]
  IN  [s EXCEPT !.next = kept(@), !.prev = kept(@), !.data = kept(@), !.free = @ \cup gone,
                !.first[l] = None, !.last[l] = None]

\* RemoveAll deletes the nodes and leaves the cache as it is.
RemoveAllOf(s, l) ==
  LET gone == Elements(Forward(l))
      kept(f) == [n \in Nodes |-> IF n \in gone THEN None ELSE f[n]]
  IN  [s EXCEPT !.next = kept(@), !.prev = kept(@), !.data = kept(@), !.free = @ \cup gone,
                !.first[l] = None, !.last[l] = None, !.count[l] = 0]

\* How many nodes there are from pos to the end that the walk meets.
Moved(pos, link) == Len(Walk(pos, link))

\* The order of the code: the lists are joined before either end is moved.
Join(s, before, after) ==
  LET t == IF before # None THEN [s EXCEPT !.next[before] = after] ELSE s
  IN  IF after # None THEN [t EXCEPT !.prev[after] = before] ELSE t

MoveToTailOf(s, l, pos, k) ==
  LET t == Join(s, s.last[k], s.first[l])
      rest == s.next[pos]
      u == [t EXCEPT !.first[k] = IF @ = None THEN s.first[l] ELSE @,
                     !.first[l] = rest, !.last[k] = pos,
                     !.last[l] = IF rest = None THEN None ELSE @]
      v == IF rest # None THEN [u EXCEPT !.prev[rest] = None] ELSE u
      moved == Moved(pos, s.prev)
  IN  [v EXCEPT !.next[pos] = None, !.count[l] = @ - moved, !.count[k] = @ + moved]

MoveToHeadOf(s, l, pos, k) ==
  LET t == Join(s, s.last[l], s.first[k])
      rest == s.prev[pos]
      u == [t EXCEPT !.last[k] = IF @ = None THEN s.last[l] ELSE @,
                     !.last[l] = rest, !.first[k] = pos,
                     !.first[l] = IF rest = None THEN None ELSE @]
      v == IF rest # None THEN [u EXCEPT !.next[rest] = None] ELSE u
      moved == Moved(pos, s.next)
  IN  [v EXCEPT !.prev[pos] = None, !.count[l] = @ - moved, !.count[k] = @ + moved]

\* Fault: the list is turned round and keeps its last node.
ReverseAllButLast(s, l) ==
  LET mine == Elements(Forward(l))
      turned(f, g) == [n \in Nodes |-> IF n \in mine THEN g[n] ELSE f[n]]
  IN  [s EXCEPT !.next = turned(s.next, s.prev), !.prev = turned(s.prev, s.next),
                !.first[l] = s.last[l]]

ReverseOf(s, l) ==
  LET mine == Elements(Forward(l))
      turned(f, g) == [n \in Nodes |-> IF n \in mine THEN g[n] ELSE f[n]]
  IN  [s EXCEPT !.next = turned(s.next, s.prev), !.prev = turned(s.prev, s.next),
                !.first[l] = s.last[l], !.last[l] = s.first[l]]

-----------------------------------------------------------------------------
(* What the owner calls.                                                   *)

Init ==
  /\ h = [first |-> [l \in ListNames |-> None], last |-> [l \in ListNames |-> None],
          count |-> [l \in ListNames |-> 0], cache |-> [l \in ListNames |-> None],
          used |-> [l \in ListNames |-> 0], free |-> Nodes,
          next |-> [n \in Nodes |-> None], prev |-> [n \in Nodes |-> None],
          data |-> [n \in Nodes |-> None]]
  /\ copy = NoCopy

Idle == copy = NoCopy

Add ==
  /\ Idle /\ UNCHANGED copy
  /\ \E l \in ListNames, o \in Objects :
       /\ NodeFor(h, l) # None
       /\ \/ h' = AddTailI(h, l, o)
          \/ h' = AddHeadI(h, l, o)
          \/ \E pos \in Elements(Forward(l)) : h' = AddAfterI(h, l, pos, o)
          \/ \E pos \in Elements(Forward(l)) : h' = AddBeforeI(h, l, pos, o)

Remove ==
  /\ Idle /\ UNCHANGED copy
  /\ \E l \in ListNames :
       \/ h.first[l] # None /\ h' = RemoveI(h, l, h.first[l])
       \/ h.last[l] # None /\ h' = RemoveI(h, l, h.last[l])
       \/ \E pos \in Elements(Forward(l)) : h' = RemoveI(h, l, pos)

RemoveAll ==
  /\ Idle /\ UNCHANGED copy
  /\ \E l \in ListNames : h' = RemoveAllOf(h, l)

MoveToTail ==
  /\ Idle /\ UNCHANGED copy
  /\ \E l, k \in ListNames : l # k /\ \E pos \in Elements(Forward(l)) : h' = MoveToTailOf(h, l, pos, k)

MoveToHead ==
  /\ Idle /\ UNCHANGED copy
  /\ \E l, k \in ListNames : l # k /\ \E pos \in Elements(Forward(l)) : h' = MoveToHeadOf(h, l, pos, k)

Reverse ==
  /\ Idle /\ UNCHANGED copy
  /\ \E l \in ListNames : h' = ReverseOf(h, l)

\* AddHead and AddBefore walk the other list from its tail.
Copyings == {"AddTail", "AddHead", "AddAfter", "AddBefore"}
FromTail == {"AddHead", "AddBefore"}

DataOf(s) == [i \in DOMAIN s |-> h.data[s[i]]]

\* The objects that the list must hold when all of the other has been copied.
Expected(op, l, k, pos) ==
  LET mine == DataOf(Forward(l))
      other == DataOf(Forward(k))
      place == CHOOSE i \in DOMAIN mine : Forward(l)[i] = pos
      n == CASE op = "AddTail" -> Len(mine)
             [] op = "AddHead" -> 0
             [] op = "AddAfter" -> IF pos = None THEN 0 ELSE place
             [] op = "AddBefore" -> IF pos = None THEN Len(mine) ELSE place - 1
  IN  SubSeq(mine, 1, n) \o other \o SubSeq(mine, n + 1, Len(mine))

\* A list is copied into another one.
BeginCopy ==
  /\ Idle /\ UNCHANGED h
  /\ \E l, k \in ListNames, op \in Copyings : l # k /\
       \E pos \in Elements(Forward(l)) \cup {None} : (op \notin {"AddAfter", "AddBefore"} => pos = None) /\
         copy' = [op |-> op, from |-> k, to |-> l, at |-> pos,
                  cursor |-> IF op \in FromTail THEN h.last[k] ELSE h.first[k],
                  whole |-> Expected(op, l, k, pos)]

\* Fault: every object goes next to the same position.
NextAtSame(op, at, n) == at

\* AddAfter and AddBefore go on from the node just added.
NextAt(op, at, n) == IF op \in {"AddAfter", "AddBefore"} THEN n ELSE at

CopyOne ==
  LET o == h.data[copy.cursor]
      n == NodeFor(h, copy.to)
  IN  /\ copy.cursor # None /\ n # None
      /\ h' = CASE copy.op = "AddTail" -> AddTailI(h, copy.to, o)
                [] copy.op = "AddHead" -> AddHeadI(h, copy.to, o)
                [] copy.op = "AddAfter" -> AddAfterI(h, copy.to, copy.at, o)
                [] copy.op = "AddBefore" -> AddBeforeI(h, copy.to, copy.at, o)
      /\ copy' = [copy EXCEPT !.at = NextAt(copy.op, @, n),
                              !.cursor = IF copy.op \in FromTail THEN h.prev[@] ELSE h.next[@]]

\* The copy is whole, or memory is short and FALSE is returned.
EndCopy ==
  /\ ~Idle /\ UNCHANGED h
  /\ copy.cursor = None \/ NodeFor(h, copy.to) = None
  /\ copy' = NoCopy

Next ==
  \/ Add \/ Remove \/ RemoveAll \/ MoveToTail \/ MoveToHead \/ Reverse
  \/ BeginCopy \/ CopyOne \/ EndCopy

Spec == Init /\ [][Next]_vars

-----------------------------------------------------------------------------
(* Properties.                                                             *)

\* Every member has a value of its kind, and m_Count, which is only ever counted up and
\* down, stays within the number of nodes there are.
TypeOK ==
  /\ {h.first, h.last, h.cache} \subseteq [ListNames -> Nodes \cup {None}]
  /\ {h.next, h.prev} \subseteq [Nodes -> Nodes \cup {None}]
  /\ h.data \in [Nodes -> Objects \cup {None}]
  /\ h.count \in [ListNames -> 0 .. Cardinality(Nodes)] /\ h.used \in [ListNames -> Nat]
  /\ h.free \subseteq Nodes
  /\ copy.op \in Copyings \cup {None}

\* The links of a list agree in both directions and with m_Count, after any sequence
\* of insertions, removals, moves between lists and reversals.
LinksAgree ==
  \A l \in ListNames :
    LET there == Forward(l)
        back == Backward(l)
    IN  /\ Len(there) = h.count[l] /\ Len(back) = h.count[l]
        /\ \A i \in DOMAIN there : back[Len(back) + 1 - i] = there[i]

\* Every node is in exactly one place: a list, a list's cache, or released; a cache
\* holds as many as it counts and no more than its size.
NodeInOnePlace ==
  /\ \A l \in ListNames : h.used[l] = Len(Cached(l)) /\ h.used[l] <= m_iCacheSize
  /\ \A n \in Nodes :
       Cardinality({l \in ListNames : n \in Elements(Forward(l))})
         + Cardinality({l \in ListNames : n \in Elements(Cached(l))})
         + (IF n \in h.free THEN 1 ELSE 0) = 1

\* Whatever is added, removed, moved and reversed: each node is in one place, and those of
\* a list are met in the same order from both of its ends.
NodesKept == LinksAgree /\ NodeInOnePlace

\* A list copied to the head, the tail or the middle of another keeps its order.
CopyKeepsOrder ==
  copy.op # None /\ copy.cursor = None => DataOf(Forward(copy.to)) = copy.whole

\* The linked nodes are the sequences of positions that Lists specifies: no operation
\* disturbs another position or the object it names.
Abstract == INSTANCE Lists WITH Positions <- Nodes, object <- h.data,
                                items <- [l \in ListNames |-> Forward(l)]
IsLists == Abstract!Spec

=============================================================================
