--------------------------- MODULE MCEventPipeline ---------------------------
(***************************************************************************)
(* An instance of EventPipeline for TLC.                                   *)
(***************************************************************************)
EXTENDS EventPipeline

CONSTANTS w1, o1, c1
=============================================================================
