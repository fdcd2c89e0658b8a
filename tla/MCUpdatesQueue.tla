---- MODULE MCUpdatesQueue ----
EXTENDS UpdatesQueue, TLC
Symmetry == Permutations(Followers \ Emitters) \cup Permutations(Writers)
====
