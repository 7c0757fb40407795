------------------------------- MODULE MCBus -------------------------------
(***************************************************************************)
(* Bus.tla for TLC.  The list is bounded by the protocol itself, so the    *)
(* state space is finite without a constraint.                             *)
(***************************************************************************)
EXTENDS Bus

=============================================================================
