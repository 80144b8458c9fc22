--------------------------- MODULE AIJobLifecycle ---------------------------
(***************************************************************************)
(* What one AIJob name promises to its user: the controller owns at most   *)
(* one JobSet for the AIJob, reports only lifecycle conditions of a JobSet *)
(* it owns, a terminal one only as that JobSet has ended, and never        *)
(* withdraws a terminal one.  AIJobController implements this with one     *)
(* process (ImplementsLifecycle); the AIJobs of Exercises, whose           *)
(* controller is coarser, stay within it as well (AIJobsFollow).           *)
(***************************************************************************)

CONSTANTS
    Conditions,   \* lifecycle conditions an AIJob can report
    Final         \* those that end it

VARIABLES
    present,    \* does an AIJob of the name exist?
    observed,   \* does its status describe its current generation?
    owned,      \* does it control a JobSet?
    ended,      \* the condition in which that JobSet has ended, or "Unset"
    condition   \* the lifecycle condition it reports, or "Unset"

lifecycleVars == <<present, observed, owned, ended, condition>>

Fresh == ~observed' /\ ~owned' /\ ended' = "Unset" /\ condition' = "Unset"

Init == ~present /\ ~observed /\ ~owned /\ ended = "Unset" /\ condition = "Unset"

Submit == ~present /\ present' /\ Fresh

Edit == present /\ ~observed' /\ UNCHANGED <<present, owned, ended, condition>>

\* A JobSet is created, or one of an earlier AIJob is taken over as it is.
Own ==
    /\ present
    /\ ~owned
    /\ owned'
    /\ ended' \in Final \cup {"Unset"}
    /\ UNCHANGED <<present, observed, condition>>

\* The JobSet ends, once.
End ==
    /\ owned
    /\ ended = "Unset"
    /\ ended' \in Final
    /\ UNCHANGED <<present, observed, owned, condition>>

\* A status write: a terminal condition is the one the JobSet has ended in.
Report(c) ==
    /\ present
    /\ c # "Unset" => owned
    /\ c \in Final => c = ended
    /\ c = "Unset" => condition = "Unset"
    /\ condition \in Final => c = condition
    /\ condition' = c
    /\ observed'
    /\ UNCHANGED <<present, owned, ended>>

Delete == present /\ ~present' /\ Fresh

Next ==
    \/ Submit
    \/ Edit
    \/ Own
    \/ End
    \/ \E c \in Conditions \cup {"Unset"} : Report(c)
    \/ Delete

Spec == Init /\ [][Next]_lifecycleVars

=============================================================================
