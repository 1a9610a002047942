------------------------------- MODULE Server -------------------------------
(***************************************************************************)
(* The DLL as a COM server: class factories and the objects they make      *)
(* (dllentry.cpp), the reference count of an object and the count of       *)
(* objects (CUnknown, CBaseObject in combase.cpp), and the question        *)
(* whether the DLL may be unloaded (DllCanUnloadNow).                      *)
(*                                                                         *)
(* Clients are threads.  What is interlocked is one step; a plain ++ or -- *)
(* is a read and a write.  COM itself is external: it has clients load     *)
(* and unload the DLL, one at a time.                                      *)
(***************************************************************************)
EXTENDS Integers, FiniteSets, Functions

CONSTANTS
  Clients,
  Factories,  \* class factories, whose AddRef is not interlocked
  Filters,    \* the other objects
  None,
  MaxHeld,    \* bound on the references of a client to an object
  Preempted   \* a client may run between the read and the write of another

ServerAssumption ==
  /\ Factories \cap Filters = {} /\ None \notin Factories \cup Filters
  /\ MaxHeld \in Nat \ {0} /\ Preempted \in BOOLEAN

ASSUME ServerConstants == ServerAssumption

VARIABLES
  loaded,      \* the DLL is in memory
  m_cObjects, m_cLocked,
  life,        \* of an object: "none", "made", "alive", "destroyed"
  m_cRef,
  destructors, \* auxiliary: how many times an object's destructor has begun
  held,        \* auxiliary: the references that a client has
  locks,       \* auxiliary: the locks that a client has
  at           \* what a client does: a step, an object, the value it has read

serverVars == <<loaded, m_cObjects, m_cLocked, life, m_cRef, destructors, held, locks, at>>
static == <<loaded, m_cObjects, m_cLocked, locks>>

Objects == Factories \cup Filters
Idle == [step |-> "idle", object |-> None, value |-> 0]

ServerTypeOK ==
  /\ loaded \in BOOLEAN /\ m_cObjects \in Int /\ m_cLocked \in Int
  /\ life \in [Objects -> {"none", "made", "alive", "destroyed"}]
  /\ m_cRef \in [Objects -> Int] /\ destructors \in [Objects -> Nat]
  /\ held \in [Clients -> [Objects -> 0..MaxHeld]]
  /\ locks \in [Clients -> 0..MaxHeld]
  /\ at \in [Clients -> [step : {"idle", "made", "query", "release", "destructor", "self",
                                  "destroy", "addref", "lock", "unlock", "unload"},
                          object : Objects \cup {None}, value : Int]]

ServerInit ==
  /\ loaded = FALSE /\ m_cObjects = 0 /\ m_cLocked = 0
  /\ life = [o \in Objects |-> "none"]
  /\ m_cRef = [o \in Objects |-> 0]
  /\ destructors = [o \in Objects |-> 0]
  /\ held = [c \in Clients |-> [o \in Objects |-> 0]]
  /\ locks = [c \in Clients |-> 0]
  /\ at = [c \in Clients |-> Idle]

-----------------------------------------------------------------------------
Is(c, step) == at[c].step = step
Free(c) == Is(c, "idle") /\ (Preempted \/ \A d \in Clients : at[d].step \notin
                               {"addref", "lock", "unlock", "unload"})
Go(c, step, o) == at' = [at EXCEPT ![c] = [step |-> step, object |-> o, value |-> 0]]
Has(c, o) == held[c][o] > 0
Holding(c, o, n) == held' = [held EXCEPT ![c][o] = n]

\* DllGetClassObject, for which COM loads the DLL: a factory with one reference.
DllGetClassObject(c, f) ==
  /\ Free(c) /\ life[f] = "none"
  /\ loaded' = TRUE
  /\ m_cObjects' = m_cObjects + 1
  /\ life' = [life EXCEPT ![f] = "alive"]
  /\ m_cRef' = [m_cRef EXCEPT ![f] = 1]
  /\ destructors' = [destructors EXCEPT ![f] = 0]
  /\ Holding(c, f, 1)
  /\ UNCHANGED <<m_cLocked, locks, at>>

\* CreateInstance: the constructor may report a failure, and the object may not
\* have the interface.
CreateInstance(c, f, o) ==
  /\ Free(c) /\ Has(c, f) /\ life[o] = "none"
  /\ m_cObjects' = m_cObjects + 1
  /\ life' = [life EXCEPT ![o] = "made"]
  /\ m_cRef' = [m_cRef EXCEPT ![o] = 0]
  /\ destructors' = [destructors EXCEPT ![o] = 0]
  /\ Go(c, "made", o)
  /\ UNCHANGED <<loaded, m_cLocked, held, locks>>

CreationFails(c) ==
  /\ Is(c, "made")
  /\ destructors' = [destructors EXCEPT ![at[c].object] = @ + 1]
  /\ life' = [life EXCEPT ![at[c].object] = "destroyed"]
  /\ Go(c, "destroy", at[c].object)
  /\ UNCHANGED <<static, m_cRef, held>>

CreationSucceeds(c) ==
  LET o == at[c].object
  IN /\ Is(c, "made")
     /\ m_cRef' = [m_cRef EXCEPT ![o] = @ + 1]
     /\ life' = [life EXCEPT ![o] = "alive"]
     /\ Go(c, "query", o)
     /\ UNCHANGED <<static, destructors, held>>

NonDelegatingQueryInterface(c) ==
  LET o == at[c].object
  IN /\ Is(c, "query")
     /\ \/ m_cRef' = [m_cRef EXCEPT ![o] = @ + 1] /\ Holding(c, o, 1)
        \/ UNCHANGED <<m_cRef, held>>
     /\ Go(c, "release", o)
     /\ UNCHANGED <<static, life, destructors>>

\* The last reference: NonDelegatingRelease of a CUnknown adds one for the time
\* of the destructor, Release of a factory does not.
ReleaseReference(c, o) ==
  /\ m_cRef' = [m_cRef EXCEPT ![o] = IF @ = 1 /\ o \in Filters THEN 1 ELSE @ - 1]
  /\ IF m_cRef[o] = 1
     THEN /\ destructors' = [destructors EXCEPT ![o] = @ + 1]
          /\ life' = [life EXCEPT ![o] = "destroyed"]
          /\ Go(c, IF o \in Filters THEN "destructor" ELSE "destroy", o)
     ELSE at' = [at EXCEPT ![c] = Idle] /\ UNCHANGED <<destructors, life>>

Release(c) ==
  \/ /\ Is(c, "release") /\ ReleaseReference(c, at[c].object)
     /\ UNCHANGED <<static, held>>
  \/ \E o \in Objects :
       /\ Free(c) /\ Has(c, o)
       /\ ReleaseReference(c, o)
       /\ Holding(c, o, held[c][o] - 1)
       /\ UNCHANGED static

\* The destructor of an aggregator releases interfaces that count on itself:
\* it takes a reference to itself before, and this one is released after.
SelfReference(c) ==
  LET o == at[c].object
  IN /\ Is(c, "destructor")
     /\ \/ Go(c, "destroy", o) /\ UNCHANGED m_cRef
        \/ Go(c, "self", o) /\ m_cRef' = [m_cRef EXCEPT ![o] = @ + 1]
     /\ UNCHANGED <<static, life, destructors, held>>

SelfReleased(c) ==
  LET o == at[c].object
  IN /\ Is(c, "self")
     /\ m_cRef' = [m_cRef EXCEPT ![o] = @ - 1]
     /\ destructors' = [destructors EXCEPT ![o] = IF m_cRef[o] = 1 THEN @ + 1 ELSE @]
     /\ Go(c, "destroy", o)
     /\ UNCHANGED <<static, life, held>>

Destroy(c) ==
  /\ Is(c, "destroy")
  /\ m_cObjects' = m_cObjects - 1
  /\ life' = [life EXCEPT ![at[c].object] = "none"]
  /\ at' = [at EXCEPT ![c] = Idle]
  /\ UNCHANGED <<loaded, m_cLocked, m_cRef, destructors, held, locks>>

\* AddRef, of a filter at once, of a factory in a read and a write.
AddRef(c, o) ==
  /\ Free(c) /\ Has(c, o) /\ held[c][o] < MaxHeld
  /\ IF o \in Filters
     THEN /\ m_cRef' = [m_cRef EXCEPT ![o] = @ + 1]
          /\ Holding(c, o, held[c][o] + 1)
          /\ UNCHANGED at
     ELSE /\ at' = [at EXCEPT ![c] = [step |-> "addref", object |-> o, value |-> m_cRef[o]]]
          /\ UNCHANGED <<m_cRef, held>>
  /\ UNCHANGED <<static, life, destructors>>

AddRefWrites(c) ==
  LET o == at[c].object
  IN /\ Is(c, "addref")
     /\ m_cRef' = [m_cRef EXCEPT ![o] = at[c].value + 1]
     /\ Holding(c, o, held[c][o] + 1)
     /\ at' = [at EXCEPT ![c] = Idle]
     /\ UNCHANGED <<static, life, destructors>>

\* A client gives another one its own reference.
Give(c, d, o) ==
  /\ Free(c) /\ Is(d, "idle") /\ Has(c, o) /\ held[d][o] < MaxHeld
  /\ held' = [held EXCEPT ![c][o] = @ - 1, ![d][o] = @ + 1]
  /\ UNCHANGED <<static, life, m_cRef, destructors, at>>

LockServer(c) ==
  /\ Free(c) /\ \E f \in Factories : Has(c, f)
  /\ \E step \in {"lock", "unlock"} :
       /\ IF step = "lock" THEN locks[c] < MaxHeld ELSE locks[c] > 0
       /\ at' = [at EXCEPT ![c] = [step |-> step, object |-> None, value |-> m_cLocked]]
  /\ UNCHANGED <<static, life, m_cRef, destructors, held>>

LockServerWrites(c) ==
  LET n == IF Is(c, "lock") THEN 1 ELSE -1
  IN /\ at[c].step \in {"lock", "unlock"}
     /\ m_cLocked' = at[c].value + n
     /\ locks' = [locks EXCEPT ![c] = @ + n]
     /\ at' = [at EXCEPT ![c] = Idle]
     /\ UNCHANGED <<loaded, m_cObjects, life, m_cRef, destructors, held>>

\* DllCanUnloadNow looks at the locks, and if there are none at the objects.
DllCanUnloadNow(c) ==
  /\ Free(c) /\ loaded /\ m_cLocked <= 0
  /\ \A d \in Clients : ~Is(d, "unload")
  /\ Go(c, "unload", None)
  /\ UNCHANGED <<static, life, m_cRef, destructors, held>>

\* Nothing is counted: COM unloads the DLL, whose counts begin again at 0.
DllCanUnload(c) ==
  /\ Is(c, "unload")
  /\ IF m_cObjects # 0
     THEN UNCHANGED <<loaded, m_cLocked>>
     ELSE loaded' = FALSE /\ m_cLocked' = 0
  /\ at' = [at EXCEPT ![c] = Idle]
  /\ UNCHANGED <<m_cObjects, locks, life, m_cRef, destructors, held>>

-----------------------------------------------------------------------------
ServerNext ==
  \E c \in Clients :
    \/ \E f \in Factories : DllGetClassObject(c, f) \/ \E o \in Filters : CreateInstance(c, f, o)
    \/ CreationFails(c) \/ CreationSucceeds(c) \/ NonDelegatingQueryInterface(c)
    \/ Release(c) \/ SelfReference(c) \/ SelfReleased(c) \/ Destroy(c)
    \/ \E o \in Objects : AddRef(c, o) \/ \E d \in Clients \ {c} : Give(c, d, o)
    \/ AddRefWrites(c) \/ LockServer(c) \/ LockServerWrites(c)
    \/ DllCanUnloadNow(c) \/ DllCanUnload(c)

ServerSpec == ServerInit /\ [][ServerNext]_serverVars

-----------------------------------------------------------------------------
(* Properties.                                                             *)

\* An object to which a client has a reference is alive, and is destroyed once:
\* whoever else releases it, whatever its destructor does.
AliveWhileHeld(o) ==
  /\ (\E c \in Clients : Has(c, o)) => life[o] = "alive"
  /\ destructors[o] <= 1

\* Of an object of which nobody has a reference nothing is left.
GoneWhenReleased(o) == (\A c \in Clients : at[c] = Idle /\ ~Has(c, o)) => life[o] = "none"

HeldIsAlive == \A o \in Objects : AliveWhileHeld(o)

\* When the clients have given back all they have, no object is left, and none
\* is counted: also after an instance that failed at any of its stages.
NothingLeft ==
  (\A c \in Clients : at[c] = Idle /\ \A o \in Objects : ~Has(c, o)) =>
    m_cObjects = 0 /\ \A o \in Objects : life[o] = "none"

\* dllentry.cpp: DllCanUnloadNow answers "ok unless there are outstanding objects
\* or a lock requested by IClassFactory::LockServer".
NeverUnloadedInUse ==
  ~loaded => /\ \A o \in Objects : life[o] = "none"
             /\ \A c \in Clients : locks[c] = 0

=============================================================================
