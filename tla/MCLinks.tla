------------------------------ MODULE MCLinks ------------------------------
(* Links for TLC.                                                            *)
EXTENDS Links, TLC

\* The names of links and of goroutines are interchangeable.
Symmetry == Permutations(Dialers) \cup Permutations(Accepts)
=============================================================================
