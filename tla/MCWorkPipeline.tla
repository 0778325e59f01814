--------------------------- MODULE MCWorkPipeline ---------------------------
(* Instances of WorkPipeline for TLC: symmetry of packages and workers. *)
EXTENDS WorkPipeline, TLC

Symmetry == Permutations(Packages \ InitPackages) \union Permutations(InitPackages)
            \union Permutations(Workers)
=============================================================================
