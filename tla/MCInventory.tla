---------------------------- MODULE MCInventory -----------------------------
(* Model-checking instances of Inventory. *)
EXTENDS Inventory, TLC

PFSymmetry == Permutations(PFs)
=============================================================================
