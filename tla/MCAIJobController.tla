-------------------------- MODULE MCAIJobController --------------------------
(* Instances of AIJobController for TLC; the cfg files give the bounds. *)
EXTENDS AIJobController, TLC

CONSTANTS c1, t1, t2, l1, l2

TemplateSymmetry == Permutations({t1, t2})

=============================================================================
