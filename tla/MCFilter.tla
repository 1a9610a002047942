------------------------------ MODULE MCFilter ------------------------------
(* An instance for TLC of the filter: what it does to the samples (Injector), *)
(* the threads that take them through it (Streaming) and the DLL that makes   *)
(* it (Server), each with an environment of its own; "part" is the one that   *)
(* takes steps.                                                               *)
EXTENDS Injector, Streaming, Server

VARIABLE part

\* The choices of the other parts are made.
OneStart ==
  /\ part # "samples" => inType = CHOOSE type \in InputTypes : TRUE
  /\ part # "threads" => inputConnected /\ outputConnected /\ rBlocks

MCNext ==
  /\ UNCHANGED part
  /\ \/ part = "samples" /\ Next /\ UNCHANGED <<transformVars, serverVars>>
     \/ part = "threads" /\ StreamNext /\ UNCHANGED <<vars, serverVars>>
     \/ part = "dll" /\ ServerNext /\ UNCHANGED <<vars, transformVars>>

MCInit ==
  /\ part \in {"samples", "threads", "dll"}
  /\ Init /\ StreamInit /\ ServerInit /\ OneStart

\* The fairness of Streaming, while its threads take steps.
MCSpec ==
  /\ MCInit
  /\ [][MCNext]_<<part, vars, transformVars, serverVars>>
  /\ WF_transformVars(part = "threads" /\ StreamStep)
  /\ WF_transformVars(part = "threads" /\ GraphStep)
  /\ WF_transformVars(part = "threads" /\ SeekStep)
  /\ SF_transformVars(part = "threads" /\ graph = "stop" /\ GraphStep)
  /\ SF_transformVars(part = "threads" /\ seek \in {"begin", "end"} /\ SeekStep)
  /\ WF_transformVars(part = "threads" /\ Present)

-----------------------------------------------------------------------------
(* The properties of the parts, whose comments are there, by theme.          *)

\* Every variable has a value of its kind, those of the other parts too.
TypesOK == TypeOK /\ StreamTypeOK /\ ServerTypeOK

\* What is kept through connections, stops and unloading: what was agreed on is true of
\* the samples, the metadata comes once per second and nothing is divided by zero; a
\* change of state leaves no sample behind and no allocator without its memory; objects
\* and the DLL stay as long as a client refers to them, and no longer.
FilterKept ==
  /\ part = "samples" => AgreementKept /\ OncePerSecond /\ NoTrap
  /\ part = "threads" => StatesAreClean
  /\ part = "dll" => HeldIsAlive /\ NothingLeft /\ NeverUnloadedInUse

=============================================================================
