------------------------------- MODULE Channel -------------------------------
(***************************************************************************)
(* What a queue between two filters promises: things go in at one end and  *)
(* come out at the other in the order in which they went in, each at most  *)
(* once.  A call may put a thing in and take others out; what is taken out *)
(* without having come out is lost, and never from behind something that   *)
(* stays.                                                                  *)
(***************************************************************************)
EXTENDS Integers, Sequences

CONSTANT Kinds

VARIABLES
  accepted, \* how many things have gone in
  pending,  \* what is in the channel
  out       \* all that has come out

Init == accepted = 0 /\ pending = <<>> /\ out = <<>>

InOrder(place) == \A i, j \in DOMAIN place : i < j => place[i] < place[j]

\* A thing may be put in; of the first ones, in order, some come out and the
\* others are lost.
Move ==
  \E new \in {<<>>} \cup {<<[kind |-> k, id |-> accepted + 1]>> : k \in Kinds} :
    LET all == pending \o new IN
    \E gone \in 0..Len(all) :
      /\ accepted' = accepted + Len(new)
      /\ pending' = SubSeq(all, gone + 1, Len(all))
      /\ \E n \in 0..gone : \E place \in [1..n -> 1..gone] :
           /\ InOrder(place)
           /\ out' = out \o [i \in 1..n |-> all[place[i]]]

Spec == Init /\ [][Move]_<<accepted, pending, out>>

=============================================================================
