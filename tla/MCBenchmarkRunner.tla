--------------------------- MODULE MCBenchmarkRunner ---------------------------
EXTENDS BenchmarkRunner, TLC

CONSTANTS n1, n2, n3

\* The benchmark's Pods ask for no topology: the labels do not matter to them.
MCClass == [n \in Nodes |-> ""]

MCOthers == {<<0, 1>>}

NodeSymmetry == Permutations(Nodes)
=============================================================================
