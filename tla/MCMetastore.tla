---------------------------- MODULE MCMetastore ----------------------------
(* An instance of Metastore: active replicas are interchangeable. *)
EXTENDS Metastore
Symmetry == Permutations(Active)
=============================================================================
