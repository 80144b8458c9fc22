----------------------------- MODULE MCExercises -----------------------------
(* Instances of Exercises for TLC. *)
EXTENDS Exercises

Everywhere == {"scenario", "afterwards"}

Exercise(kind, quota) ==
    [e2e |-> FALSE, scenarios |-> <<kind>>, quota |-> quota, lingering |-> FALSE,
     faults |-> Everywhere]

E2E(scenarios, phases) ==
    [e2e |-> TRUE, scenarios |-> scenarios, quota |-> 12, lingering |-> FALSE,
     faults |-> phases]

\* The lab's ClusterQueue admits 12 GPUs; 16 let the capacity AIJob through.
\* The three scenarios of e2e are taken one and two at a time.
MCSetups ==
    {Exercise("capacity", 12), Exercise("capacity", 16), Exercise("failure", 12),
     Exercise("restart", 12),
     [Exercise("restart", 12) EXCEPT !.lingering = TRUE, !.faults = {}],
     E2E(<<"success">>, Everywhere), E2E(<<"restart">>, {"scenario"}),
     E2E(<<"success", "failure">>, {"scenario"}), E2E(<<"failure", "restart">>, {})}

=============================================================================
