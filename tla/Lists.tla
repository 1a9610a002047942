-------------------------------- MODULE Lists --------------------------------
(***************************************************************************)
(* What the lists of wxlist.h promise: a list is a sequence of positions,  *)
(* each of which names an object and keeps naming it, wherever the list is *)
(* extended, cut or moved, until it is removed.                            *)
(***************************************************************************)
EXTENDS Sequences, Naturals

S == INSTANCE SequencesExt

CONSTANTS ListNames, Positions, Objects, None

VARIABLES items, object

vars == <<items, object>>

InLists == UNION {S!ToSet(items[l]) : l \in ListNames}

\* A new position anywhere in a list.
Add ==
  \E l \in ListNames, p \in Positions \ InLists, o \in Objects :
    /\ object' = [object EXCEPT ![p] = o]
    /\ \E n \in 0 .. Len(items[l]) :
         items' = [items EXCEPT ![l] = SubSeq(@, 1, n) \o <<p>> \o SubSeq(@, n + 1, Len(@))]

\* What Remove does to a position that is in the list.
Remove ==
  \E l \in ListNames : \E n \in DOMAIN items[l] :
    /\ object' = [object EXCEPT ![items[l][n]] = None]
    /\ items' = [items EXCEPT ![l] = SubSeq(@, 1, n - 1) \o SubSeq(@, n + 1, Len(@))]

RemoveAll ==
  \E l \in ListNames :
    /\ object' = [p \in Positions |->
                    IF p \in S!ToSet(items[l]) THEN None ELSE object[p]]
    /\ items' = [items EXCEPT ![l] = <<>>]

\* The first n items of l go behind those of k.
MoveToTail ==
  /\ UNCHANGED object
  /\ \E l, k \in ListNames : \E n \in DOMAIN items[l] :
       l # k /\ items' = [items EXCEPT ![l] = SubSeq(@, n + 1, Len(@)), ![k] = @ \o SubSeq(items[l], 1, n)]

\* The items of l from the n-th on go before those of k.
MoveToHead ==
  /\ UNCHANGED object
  /\ \E l, k \in ListNames : \E n \in DOMAIN items[l] :
       l # k /\ items' = [items EXCEPT ![l] = SubSeq(@, 1, n - 1),
                                       ![k] = SubSeq(items[l], n, Len(items[l])) \o @]

ReverseList ==
  /\ UNCHANGED object
  /\ \E l \in ListNames : items' = [items EXCEPT ![l] = S!Reverse(@)]

Init ==
  /\ items = [l \in ListNames |-> <<>>]
  /\ object = [p \in Positions |-> None]

Next == Add \/ Remove \/ RemoveAll \/ MoveToTail \/ MoveToHead \/ ReverseList

Spec == Init /\ [][Next]_vars

=============================================================================
