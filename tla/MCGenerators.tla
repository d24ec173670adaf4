--------------------------- MODULE MCGenerators ---------------------------
(* Instances of Generators for TLC: two workspaces, no two names of which are *)
(* one in camelCase, and one generator run after another.                     *)
EXTENDS Generators, TLC

CONSTANTS w1, w2, m1, m2
MCCamelCase == [w \in Workspaces |-> w]
MCMaxRuns == [server |-> 2, code |-> 3, frontend |-> 5]
Symmetry == Permutations(Workspaces) \cup Permutations(Modules)
=============================================================================
