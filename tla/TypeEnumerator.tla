--------------------------- MODULE TypeEnumerator ---------------------------
(***************************************************************************)
(* The enumerator of the media types of a pin (CEnumMediaTypes in          *)
(* amfilter.cpp).  It takes no lock: the pin changes its list between any  *)
(* two of the calls it makes, and all they share is a version that the pin *)
(* increments after each change (IncrementTypeVersion).                    *)
(***************************************************************************)
EXTENDS Integers, Sequences, SequencesExt

CONSTANTS
  Kinds,      \* media types
  MaxTypes,   \* bound on the types of the pin
  MaxVersion, \* bound on the changes of its list
  MaxBatch    \* bound on the types that one call asks for

TypeEnumeratorAssumption ==
  MaxTypes \in Nat /\ MaxVersion \in Nat \ {0} /\ MaxBatch \in Nat

VARIABLES
  types,        \* what GetMediaType answers
  typeVersion,  \* m_TypeVersion
  typePending,  \* the list has changed, m_TypeVersion not yet
  te            \* an enumerator and its clone

vars == <<types, typeVersion, typePending, te>>

Enums == {1, 2}
NoEnum == [at |-> "none", m_Position |-> 0, m_Version |-> 0,
           want |-> 0, fetched |-> <<>>,
           \* auxiliary: what Next has returned since Reset, and whether types
           \* have been skipped or lost
           got |-> <<>>, skipped |-> FALSE]

TypeOK ==
  /\ types \in Seq(Kinds) /\ Len(types) <= MaxTypes
  /\ typeVersion \in 1..MaxVersion
  /\ typePending \in BOOLEAN
  /\ \A e \in Enums :
       /\ te[e].at \in {"none", "idle", "loop"}
       /\ te[e].m_Position \in Nat
       /\ te[e].m_Version \in 0..MaxVersion
       /\ te[e].want \in 0..MaxBatch
       /\ Len(te[e].fetched) <= te[e].want

Init ==
  /\ types = <<>>
  /\ typeVersion = 1
  /\ typePending = FALSE
  /\ te = [e \in Enums |-> NoEnum]

-----------------------------------------------------------------------------
(* The pin.                                                                *)

ChangeTypes ==
  /\ ~typePending /\ typeVersion < MaxVersion
  /\ types' \in BoundedSeq(Kinds, MaxTypes) \ {types}
  /\ typePending' = TRUE
  /\ UNCHANGED <<typeVersion, te>>

IncrementTypeVersion ==
  /\ typePending
  /\ typeVersion' = typeVersion + 1
  /\ typePending' = FALSE
  /\ UNCHANGED <<types, te>>

-----------------------------------------------------------------------------
(* CEnumMediaTypes.                                                        *)

TypeStep(e, r) ==
  /\ te' = [te EXCEPT ![e] = r]
  /\ UNCHANGED <<types, typeVersion, typePending>>

InSync(r) == r.m_Version = typeVersion

\* Bound on m_Position, which Next and Skip move past the end of the list.
Beyond == MaxTypes + 1

NewTypes(e) ==
  /\ te[e].at = "none"
  /\ TypeStep(e, [NoEnum EXCEPT !.at = "idle", !.m_Version = typeVersion])

ResetTypes(e) ==
  /\ te[e].at = "idle"
  /\ TypeStep(e, [NoEnum EXCEPT !.at = "idle", !.m_Version = typeVersion])

CloneTypes(e, f) ==
  /\ te[e].at = "idle" /\ te[f].at = "none"
  /\ InSync(te[e])
  /\ TypeStep(f, te[e])

ReleaseTypes(e) == te[e].at = "idle" /\ TypeStep(e, NoEnum)

NextTypes(e, n) ==
  /\ te[e].at = "idle"
  /\ te[e].m_Position < Beyond
  /\ InSync(te[e])
  /\ TypeStep(e, [te[e] EXCEPT !.at = "loop", !.want = n])

\* One round: m_Position goes on also where there is no type, or no memory.
FetchType(e) ==
  LET r == te[e]
      n == r.m_Position + 1
      ended == [r EXCEPT !.m_Position = n, !.at = "idle", !.want = 0,
                         !.fetched = <<>>, !.got = @ \o r.fetched]
  IN /\ r.at = "loop" /\ Len(r.fetched) < r.want
     /\ \/ n \notin DOMAIN types /\ TypeStep(e, ended)
        \/ n \in DOMAIN types /\ TypeStep(e, [ended EXCEPT !.skipped = TRUE])
        \/ /\ n \in DOMAIN types
           /\ TypeStep(e, [r EXCEPT !.m_Position = n,
                             !.fetched = Append(@, [at |-> n, type |-> types[n]])])

ReturnTypes(e) ==
  LET r == te[e]
  IN /\ r.at = "loop" /\ Len(r.fetched) = r.want
     /\ TypeStep(e, [r EXCEPT !.at = "idle", !.want = 0, !.fetched = <<>>,
                              !.got = @ \o r.fetched])

SkipTypes(e, n) ==
  /\ te[e].at = "idle"
  /\ InSync(te[e])
  /\ te[e].m_Position + n <= Beyond
  /\ TypeStep(e, [te[e] EXCEPT !.m_Position = @ + n, !.skipped = TRUE])

-----------------------------------------------------------------------------
Next ==
  \/ ChangeTypes \/ IncrementTypeVersion
  \/ NewTypes(1) \/ CloneTypes(1, 2)
  \/ \E e \in Enums :
       \/ ResetTypes(e) \/ ReleaseTypes(e) \/ FetchType(e) \/ ReturnTypes(e)
       \/ \E n \in 1..MaxBatch : NextTypes(e, n) \/ SkipTypes(e, n)

Spec == Init /\ [][Next]_vars

-----------------------------------------------------------------------------
(* Properties.                                                             *)

\* The types an enumerator in sync and its clones have returned are those at
\* rising positions of the pin's list, and the first ones of it unless some
\* were skipped or memory was short.
TypesInOrder ==
  \A e \in Enums :
    LET r == te[e]
    IN InSync(r) /\ ~typePending =>
         \A k \in DOMAIN r.got :
           /\ r.got[k].at \in DOMAIN types
           /\ r.got[k].type = types[r.got[k].at]
           /\ k > 1 => r.got[k - 1].at < r.got[k].at
           /\ ~r.skipped => r.got[k].at = k

=============================================================================
