----------------------------- MODULE MCInjector -----------------------------
(* Instances of Injector for TLC.  A second is a few ticks long, and the     *)
(* counter wraps at a value that is no multiple of the largest rate.         *)
EXTENDS Injector

=============================================================================
