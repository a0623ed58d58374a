---------------------------- MODULE MCUsagePipeline ----------------------------
(***************************************************************************)
(* Instances of UsagePipeline for TLC. Its liveness properties rule out    *)
(* symmetry.                                                               *)
(***************************************************************************)
EXTENDS UsagePipeline
=============================================================================
