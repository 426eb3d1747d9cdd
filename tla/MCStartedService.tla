-------------------------- MODULE MCStartedService --------------------------
(* Instances of StartedService for TLC.                                     *)
EXTENDS StartedService
=============================================================================
