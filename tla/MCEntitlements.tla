---------------------------- MODULE MCEntitlements ----------------------------
(***************************************************************************)
(* Instances of Entitlements for TLC. Keys and clients are model values    *)
(* that nothing tells apart.                                               *)
(***************************************************************************)
EXTENDS Entitlements, TLC

SymmetricKeys == Permutations(Keys)
Symmetry == SymmetricKeys \cup Permutations(Clients)
=============================================================================
