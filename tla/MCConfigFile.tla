---------------------------- MODULE MCConfigFile ----------------------------
(* Instances of ConfigFile for TLC: a hand-written file and two states of    *)
(* the device, so that a load can meet three contents and the empty file.    *)
EXTENDS ConfigFile

=============================================================================
