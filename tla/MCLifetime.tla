----------------------------- MODULE MCLifetime -----------------------------
(* Instances of Lifetime for TLC.                                          *)
EXTENDS Lifetime, TLC

CONSTANTS s1, s2, u

Symmetry == Permutations(Instances \ Installers)
=============================================================================
