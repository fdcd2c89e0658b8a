---- MODULE MCElections ----
EXTENDS RaftElections, TLC
Symmetry == Permutations(Contenders)
====
