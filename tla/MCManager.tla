----------------------------- MODULE MCManager ------------------------------
(* Model-checking instances of Manager: the resources are interchangeable. *)
EXTENDS Manager, TLC

ResourceSymmetry == Permutations(Resource)
=============================================================================
