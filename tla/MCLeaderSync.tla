---- MODULE MCLeaderSync ----
EXTENDS LeaderSync, TLC
CONSTANTS a, b, c, d, s1, s2, s3
MCNodesOf == (a :> {s1}) @@ (b :> {s1, s2}) @@ (c :> {s2}) @@ (d :> {s2, s3})
Symmetry == Permutations(Threads)
====
