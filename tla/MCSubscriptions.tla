---------------------------- MODULE MCSubscriptions ----------------------------
(***************************************************************************)
(* Instances of Subscriptions for TLC: subscriptions and sessions are      *)
(* model values that nothing tells apart.                                  *)
(***************************************************************************)
EXTENDS Subscriptions, TLC

Symmetry == Permutations(Subs) \cup Permutations(Clients)
=============================================================================
