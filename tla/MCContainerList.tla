--------------------------- MODULE MCContainerList ---------------------------
(* ContainerList with two containers, which are interchangeable. *)
EXTENDS ContainerList, TLC

Symmetry == Permutations(Containers)
=============================================================================
