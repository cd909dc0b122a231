-------------------------- MODULE MCStudioRuntime ---------------------------
(***************************************************************************)
(* Instances of StudioRuntime for TLC: the server and the interface, whose *)
(* launch the start-up sequence treats as every service's and the last.    *)
(***************************************************************************)
EXTENDS StudioRuntime, TLC

CONSTANTS server, interface

TwoServices == <<server, interface>>
=============================================================================
