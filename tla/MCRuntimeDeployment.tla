------------------------- MODULE MCRuntimeDeployment -------------------------
(* RuntimeDeployment for TLC.                                               *)
EXTENDS RuntimeDeployment, TLC

Symmetry == Permutations(Profiles) \cup Permutations(Settings)

(* The search goes on until a worker cannot compensate its failure, dies   *)
(* half way or leaves a journal although the two overlap: the properties    *)
(* say nothing of what follows.                                             *)
Compensated == gaps \subseteq {"overlap"} \/ gaps \subseteq {"leftover"}
=============================================================================
