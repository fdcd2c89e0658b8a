---- MODULE MCRoleSwitch ----
EXTENDS RoleSwitch, TLC
Symmetry == Permutations(Namespaces)
====
