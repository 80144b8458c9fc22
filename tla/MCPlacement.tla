------------------------------ MODULE MCPlacement ------------------------------
EXTENDS Placement, TLC

CONSTANTS p1, p2, p3

\* One Node of each topology class of internal/topology, and one without label.
MCNodes == {"n1", "n2", "n3"}
MCClass == [n \in MCNodes |-> CASE n = "n1" -> "nvlink-capable"
                                [] n = "n2" -> "pcie-only"
                                [] n = "n3" -> ""]

PodSymmetry == Permutations(Pods)
=============================================================================
