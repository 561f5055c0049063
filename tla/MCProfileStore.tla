--------------------------- MODULE MCProfileStore ---------------------------
(* ProfileStore with the symmetry of processes, profiles and names.        *)
EXTENDS ProfileStore

Symmetry == Permutations(Procs) \cup Permutations(Ids) \cup Permutations(Names)
============================================================================
