---------------------------- MODULE MCMultiNode ----------------------------
(***************************************************************************)
(* MultiNode for TLC.  Every VMID is used by one node and the numbers of   *)
(* nodes order them, so there is no symmetry to exploit; the state space   *)
(* is finite without further bounds, because each node makes each call at  *)
(* most once.                                                              *)
(***************************************************************************)
EXTENDS MultiNode
=============================================================================
