---------------------------- MODULE Registration ----------------------------
(***************************************************************************)
(* Registering and unregistering what the DLL has to offer (dllsetup.cpp): *)
(* AMovieDllRegisterServer2, which the DLL calls, and the older            *)
(* AMovieDllRegisterServer and AMovieDllUnregisterServer.                  *)
(*                                                                         *)
(* A call is a sequence of single changes to the registry, "todo", that    *)
(* ends at the first one to fail.  Its process may end at any point.       *)
(***************************************************************************)
EXTENDS Integers, Sequences, SequencesExt, Functions

CONSTANTS
  Count,     \* g_cTemplates
  Filters,   \* the templates, of 1..Count, with setup data of a filter
  Denials    \* the sets of what a caller may be denied

Rights == {"open", "delete key", "delete InprocServer32"}

RegistrationAssumption ==
  Count \in Nat /\ Filters \subseteq 1..Count /\ Denials \subseteq SUBSET Rights

VARIABLES
  server,    \* of a template: the keys and values under CLSID
  filter,    \* templates registered with the filter mapper
  todo,      \* what is left of the call in progress
  denied,    \* what the caller has no right to: to open a key, or to delete one
  failed,    \* an HRESULT that is an error
  last       \* auxiliary: the call, while it runs and when it has succeeded

vars == <<server, filter, todo, denied, failed, last>>

\* "key" is the CLSID's; "InprocServer32" is below it; the others are values.
Parts == <<"key", "name", "InprocServer32", "file", "ThreadingModel">>
Templates == 1..Count

\* What is changed: a part of the keys of a server, or that which is named.
Changes ==
  Range(Parts) \cup {"clear filter", "filter", "no filter", "no InprocServer32", "no key", "mapper"}

RegistrationTypeOK ==
  /\ server \in [Templates -> SUBSET Range(Parts)]
  /\ filter \subseteq Filters
  /\ todo \in Seq([op : Changes, template : Templates \cup {0}])
  /\ denied \in SUBSET Rights /\ failed \in BOOLEAN
  /\ last \in {"none", "Register2", "Unregister2", "Register", "Unregister"}

Init ==
  /\ server = [t \in Templates |-> {}] /\ filter = {}
  /\ todo = <<>> /\ denied = {} /\ failed = FALSE /\ last = "none"

-----------------------------------------------------------------------------
(* The calls.                                                              *)

Step(op, t) == [op |-> op, template |-> t]

\* AMovieSetupRegisterServer.
RegisterServer(t) == [k \in DOMAIN Parts |-> Step(Parts[k], t)]
\* AMovieSetupRegisterFilter2, or that of a filter's IAMovieSetup.
RegisterFilter(t) ==
  IF t \in Filters THEN <<Step("clear filter", t), Step("filter", t)>> ELSE <<>>
UnregisterFilter(t) == IF t \in Filters THEN <<Step("no filter", t)>> ELSE <<>>
UnregisterServer(t) == <<Step("no InprocServer32", t), Step("no key", t)>>

RegisterAllServers(bRegister) ==
  FlattenSeq([t \in Templates |-> IF bRegister THEN RegisterServer(t) ELSE UnregisterServer(t)])
AllFilters(bRegister) ==
  FlattenSeq([t \in Templates |-> IF bRegister THEN RegisterFilter(t) ELSE UnregisterFilter(t)])

Mapper == <<Step("mapper", 0)>>
OneByOne == FlattenSeq([t \in Templates |-> RegisterServer(t) \o RegisterFilter(t)])
Backwards == FlattenSeq([k \in Templates |->
               UnregisterFilter(Count + 1 - k) \o UnregisterServer(Count + 1 - k)])

\* All the servers and then all the filters, unregistered the other way about;
\* or one template after the other, unregistered backwards.
Steps(call) ==
  CASE call = "Register2" -> RegisterAllServers(TRUE) \o Mapper \o AllFilters(TRUE)
    [] call = "Unregister2" -> Mapper \o AllFilters(FALSE) \o RegisterAllServers(FALSE)
    [] call = "Register" -> OneByOne
    [] call = "Unregister" -> Backwards

Call(call) ==
  /\ todo = <<>>
  /\ todo' = Steps(call)
  /\ last' = call
  /\ denied' \in Denials /\ failed' = FALSE
  /\ UNCHANGED <<server, filter>>

\* The end of the process, in a call.
Killed ==
  /\ todo # <<>>
  /\ todo' = <<>> /\ last' = "none"
  /\ UNCHANGED <<server, filter, denied, failed>>

-----------------------------------------------------------------------------
(* The changes.                                                            *)

Now(op) == todo # <<>> /\ Head(todo).op = op
template == Head(todo).template
Done == todo' = Tail(todo) /\ UNCHANGED <<denied, failed, last>>
Fail == todo' = <<>> /\ failed' = TRUE /\ last' = "none" /\ UNCHANGED denied

\* The mapper, new or old, may not be there at all.
FilterMapper ==
  /\ Now("mapper")
  /\ Done \/ Fail
  /\ UNCHANGED <<server, filter>>

SetPart ==
  /\ \E part \in Range(Parts) :
       /\ Now(part)
       /\ \/ /\ "open" \notin denied
             /\ server' = [server EXCEPT ![template] = @ \cup {part}] /\ Done
          \/ Fail /\ UNCHANGED server
  /\ UNCHANGED filter

\* What UnregisterFilter returns is not looked at before RegisterFilter; else a
\* filter that was not registered is no error.
SetFilter ==
  /\ \/ Now("clear filter") /\ filter' \in {filter, filter \ {template}} /\ Done
     \/ Now("filter") /\ filter' = filter \cup {template} /\ Done
     \/ Now("no filter") /\ filter' = filter \ {template} /\ Done
     \/ (Now("filter") \/ Now("no filter")) /\ UNCHANGED filter /\ Fail
  /\ UNCHANGED server

\* EliminateSubKey deletes the first subkey until there is none, and then the key.
\* A key that cannot be opened it leaves alone; what the deletions return it does not
\* look at, and finds a subkey that it may not delete again and again.
EliminateSubKey ==
  /\ \/ /\ Now("no InprocServer32")
        /\ IF "open" \in denied \/ "InprocServer32" \notin server[template]
           THEN Done /\ UNCHANGED server
           ELSE /\ UNCHANGED <<todo, denied, failed, last>>
                /\ server' = IF "delete InprocServer32" \in denied THEN server
                             ELSE [server EXCEPT ![template] = @ \cap {"key", "name"}]
     \/ /\ Now("no key") /\ Done
        /\ server' = IF denied \cap {"open", "delete key"} # {} THEN server
                     ELSE [server EXCEPT ![template] = {}]
  /\ UNCHANGED filter

-----------------------------------------------------------------------------
Setup == FilterMapper \/ SetPart \/ SetFilter \/ EliminateSubKey
Next ==
  \/ \E call \in {"Register2", "Unregister2", "Register", "Unregister"} : Call(call)
  \/ Killed \/ Setup

Spec == Init /\ [][Next]_vars /\ WF_vars(Setup)

-----------------------------------------------------------------------------
(* Properties.                                                             *)

\* What the filter mapper offers can be made: wherever a call fails or its
\* process ends, no filter is registered whose server is not.
FilterHasServer == \A t \in filter : server[t] = Range(Parts)

\* A call that returns success has registered everything; one that unregisters has
\* left nothing, if it was denied nothing: else it returns success all the same.
SuccessIsWhole ==
  todo = <<>> =>
    /\ last \in {"Register2", "Register"} =>
         filter = Filters /\ \A t \in Templates : server[t] = Range(Parts)
    /\ last \in {"Unregister2", "Unregister"} =>
         filter = {} /\ (denied = {} => \A t \in Templates : server[t] = {})

\* EliminateSubKey has met a subkey that it may not delete: it does not return.
Endless ==
  /\ Now("no InprocServer32") /\ "InprocServer32" \in server[template]
  /\ "delete InprocServer32" \in denied /\ "open" \notin denied

\* A call ends, but for the one case in which it does not.
CallEnds == todo # <<>> ~> todo = <<>> \/ Endless

=============================================================================
