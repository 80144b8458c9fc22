------------------------------- MODULE Worker -------------------------------
(***************************************************************************)
(* The synthetic worker: internal/worker/worker.go and cmd/worker/main.go, *)
(* as the Pods of one Indexed Job run it.                                  *)
(*                                                                         *)
(* Each Pod runs one process that parses its arguments, writes a start     *)
(* record, waits, writes a result record and exits.  Beside it act the     *)
(* kubelet, which delivers SIGTERM and SIGKILL and reports the container's *)
(* state some time later, the Job controller, which fails the Job with its *)
(* first failed Pod and deletes the others, and the user.                  *)
(***************************************************************************)
EXTENDS Integers, Sequences

CONSTANTS
    Indexes,    \* completion indexes, one Pod each
    Arguments,  \* the argument lists of the worker container
    MaxKills,   \* bound: containers killed before they exit (out of memory, grace period)
    None        \* no exit code, no index

\* A negative number stands for every text that is not a natural number.
ASSUME WorkerAssumption ==
    /\ Indexes \subseteq Nat
    /\ Arguments \subseteq [wellFormed : BOOLEAN, mode : {"complete", "wait", "other"},
                            duration : Int, delay : Int, failIndexes : SUBSET Int,
                            index : {"given", "absent", "invalid"}]
    /\ MaxKills \in Nat

ASSUME NoneAssumption == None \notin Nat

VARIABLES
    args,      \* the arguments of this Job's workers
    pc,        \* where each worker process is
    due,       \* has the timer of its current wait fired?
    fired,     \* timers of the process that have fired (history)
    signalled, \* has SIGTERM been delivered to it?
    log,       \* the records it has written
    returned,  \* what Run has returned
    code,      \* exit code of its container
    status,    \* container state in the Pod's status: the kubelet's last report
    deleted,   \* Pods whose deletion has been requested
    job,       \* the Job: active, complete, failed, or deleted by the user
    kills      \* containers killed so far

process == <<pc, due, fired, signalled, log, returned, code>>
workerVars == <<args, process, status, deleted, job, kills>>

-----------------------------------------------------------------------------
(* Configuration and outcomes. *)

\* ParseConfig, parseIndexes and parseIndex: every one of the checks must pass.
Valid(a) ==
    /\ a.wellFormed
    /\ a.mode \in {"complete", "wait"}
    /\ a.duration >= 0
    /\ a.delay >= 0
    /\ a.failIndexes \subseteq Nat
    /\ a.index # "invalid"

\* Variant: a worker without an index fails with the first one.
SelectedUnindexed(w) == (IF args.index = "given" THEN w ELSE 0) \in args.failIndexes

\* A worker that was given no index is never selected.
Selected(w) == args.index = "given" /\ w \in args.failIndexes

ExitCode(outcome) ==
    CASE outcome = "succeeded"  -> 0
      [] outcome = "terminated" -> 3
      [] outcome = "failed"     -> 10

ExitValidation == 2

\* SIGTERM before NotifyContext: the default action, which a container's first
\* process survives, whereupon the Go runtime exits with 2.
DefaultAction == {2, 143}
Killed == 137

StartRecord == [type |-> "start", code |-> None]
ResultRecord(outcome) == [type |-> "result", code |-> ExitCode(outcome)]

-----------------------------------------------------------------------------
(* The process. *)

InstallHandler(w) ==
    /\ pc[w] = "new"
    /\ pc' = [pc EXCEPT ![w] = "parse"]
    /\ UNCHANGED <<args, due, fired, signalled, log, returned, code, status, deleted, job,
                   kills>>

\* Run up to its first wait.
Parse(w) ==
    /\ pc[w] = "parse"
    /\ IF Valid(args)
       THEN /\ log' = [log EXCEPT ![w] = Append(@, StartRecord)]
            /\ pc' = [pc EXCEPT ![w] = "delay"]
            /\ UNCHANGED returned
       ELSE /\ pc' = [pc EXCEPT ![w] = "exit"]
            /\ returned' = [returned EXCEPT ![w] = ExitValidation]
            /\ UNCHANGED log
    /\ UNCHANGED <<args, due, fired, signalled, code, status, deleted, job, kills>>

\* The timed wait the process is in, if it is in one.
Waiting(w) == pc[w] = "delay" \/ (pc[w] = "work" /\ args.mode = "complete")
WaitTime(w) == IF pc[w] = "delay" THEN args.delay ELSE args.duration

TimerFires(w) ==
    /\ Waiting(w)
    /\ WaitTime(w) > 0
    /\ ~due[w]
    /\ due' = [due EXCEPT ![w] = TRUE]
    /\ fired' = [fired EXCEPT ![w] = @ + 1]
    /\ UNCHANGED <<args, pc, signalled, log, returned, code, status, deleted, job, kills>>

\* Variant: the end of the context ends the wait like the timer.
WaitElapsesEitherWay(w) == Waiting(w) /\ (WaitTime(w) = 0 \/ due[w] \/ signalled[w])

\* wait returns true: select takes the timer, even if the context is done too;
\* a wait of no time only looks at the context.
WaitElapses(w) == Waiting(w) /\ IF WaitTime(w) = 0 THEN ~signalled[w] ELSE due[w]

\* Variant: a worker that waits for its termination does not see it.
WaitInterruptedByTimerOnly(w) == Waiting(w) /\ signalled[w]

\* wait returns false, or ModeWait sees the end of the context.
WaitInterrupted(w) == pc[w] \in {"delay", "work"} /\ signalled[w]

EndDelay(w) ==
    /\ pc[w] = "delay"
    /\ WaitElapses(w)
    /\ pc' = [pc EXCEPT ![w] = "work"]
    /\ due' = [due EXCEPT ![w] = FALSE]
    /\ UNCHANGED <<args, fired, signalled, log, returned, code, status, deleted, job, kills>>

\* The outcomes Run may reach from here; none while it must go on waiting.
Outcomes(w) ==
    (IF WaitInterrupted(w) THEN {"terminated"} ELSE {})
    \cup
    (IF pc[w] = "work" /\ WaitElapses(w)
     THEN {IF Selected(w) THEN "failed" ELSE "succeeded"} ELSE {})

\* Variant: no return after an interrupted delay.
FinishFallsThrough(w) ==
    \E outcome \in Outcomes(w) :
        /\ log' = [log EXCEPT ![w] = Append(@, ResultRecord(outcome))]
        /\ returned' = [returned EXCEPT ![w] = ExitCode(outcome)]
        /\ pc' = [pc EXCEPT ![w] = IF pc[w] = "delay" THEN "work" ELSE "exit"]
        /\ UNCHANGED <<args, due, fired, signalled, code, status, deleted, job, kills>>

\* The result record, then the return of Run.
Finish(w) ==
    \E outcome \in Outcomes(w) :
        /\ log' = [log EXCEPT ![w] = Append(@, ResultRecord(outcome))]
        /\ returned' = [returned EXCEPT ![w] = ExitCode(outcome)]
        /\ pc' = [pc EXCEPT ![w] = "exit"]
        /\ UNCHANGED <<args, due, fired, signalled, code, status, deleted, job, kills>>

Ends(w, exitCode) ==
    /\ pc' = [pc EXCEPT ![w] = "ended"]
    /\ code' = [code EXCEPT ![w] = exitCode]
    /\ UNCHANGED <<args, due, fired, log, returned, status, deleted, job>>

Exit(w) ==
    /\ pc[w] = "exit"
    /\ Ends(w, returned[w])
    /\ UNCHANGED <<signalled, kills>>

ProcessStep(w) ==
    \/ InstallHandler(w)
    \/ Parse(w)
    \/ EndDelay(w)
    \/ Finish(w)
    \/ Exit(w)

-----------------------------------------------------------------------------
(* The kubelet, the Job controller and the user. *)

Signal(w) ==
    /\ w \in deleted
    /\ pc[w] # "ended"
    /\ ~signalled[w]
    /\ signalled' = [signalled EXCEPT ![w] = TRUE]
    /\ UNCHANGED kills
    /\ IF pc[w] = "new" THEN \E c \in DefaultAction : Ends(w, c)
       ELSE UNCHANGED <<args, pc, due, fired, log, returned, code, status, deleted, job>>

Kill(w) ==
    /\ pc[w] # "ended"
    /\ kills < MaxKills
    /\ kills' = kills + 1
    /\ Ends(w, Killed)
    /\ UNCHANGED signalled

\* What the container does now: a code once it has ended.
Container(w) == IF pc[w] = "ended" THEN code[w] ELSE -1
Running == -1
Waits == -2

KubeletReports(w) ==
    /\ status[w] # Container(w)
    /\ status' = [status EXCEPT ![w] = Container(w)]
    /\ UNCHANGED <<args, process, deleted, job, kills>>

Terminated(s) == s >= 0

\* The template has backoffLimit 0 and Pods that never restart.
JobFails ==
    /\ job = "active"
    /\ \E w \in Indexes : Terminated(status[w]) /\ status[w] # 0
    /\ job' = "failed"
    /\ deleted' = deleted \cup {w \in Indexes : ~Terminated(status[w])}
    /\ UNCHANGED <<args, process, status, kills>>

JobCompletes ==
    /\ job = "active"
    /\ \A w \in Indexes : status[w] = 0
    /\ job' = "complete"
    /\ UNCHANGED <<args, process, status, deleted, kills>>

\* The user, or a cleanup, deletes the AIJob and with it every Pod.
UserDeletes ==
    /\ job # "deleted"
    /\ job' = "deleted"
    /\ deleted' = Indexes
    /\ UNCHANGED <<args, process, status, kills>>

-----------------------------------------------------------------------------

WorkerInit ==
    /\ args \in Arguments
    /\ pc = [w \in Indexes |-> "new"]
    /\ due = [w \in Indexes |-> FALSE]
    /\ fired = [w \in Indexes |-> 0]
    /\ signalled = [w \in Indexes |-> FALSE]
    /\ log = [w \in Indexes |-> <<>>]
    /\ returned = [w \in Indexes |-> None]
    /\ code = [w \in Indexes |-> None]
    /\ status = [w \in Indexes |-> Waits]
    /\ deleted = {}
    /\ job = "active"
    /\ kills = 0

WorkerNext ==
    \/ JobFails
    \/ JobCompletes
    \/ UserDeletes
    \/ \E w \in Indexes :
          \/ ProcessStep(w)
          \/ TimerFires(w)
          \/ Signal(w)
          \/ Kill(w)
          \/ KubeletReports(w)

\* The kernel runs the process and its timers; the kubelet and the Job
\* controller act on what they see.  Kills and the user are not fair.
WorkerFairness ==
    /\ \A w \in Indexes :
          /\ WF_workerVars(ProcessStep(w))
          /\ WF_workerVars(TimerFires(w))
          /\ WF_workerVars(Signal(w))
          /\ WF_workerVars(KubeletReports(w))
    /\ WF_workerVars(JobFails)
    /\ WF_workerVars(JobCompletes)

-----------------------------------------------------------------------------
(* Properties. *)

Outcome(w) == IF Len(log[w]) < 2 THEN None ELSE log[w][2].code

\* The worker that --fail-indexes and JOB_COMPLETION_INDEX single out.
ConfiguredToFail(w) == args.index = "given" /\ w \in args.failIndexes

\* A worker reports success or its configured failure only if every time it was
\* to wait has passed, whichever branch the selects took when a timer and the
\* termination were both ready (wait, ModeWait).
OutcomeIsEarned ==
    \A w \in Indexes :
        /\ Outcome(w) \in {0, 10} =>
              /\ args.mode = "complete"
              /\ fired[w] = (IF args.delay > 0 THEN 1 ELSE 0)
                          + (IF args.duration > 0 THEN 1 ELSE 0)
        /\ Outcome(w) = 3 => signalled[w]

\* A worker that has been told to terminate ends, wherever it waits.
TerminationIsHonoured ==
    \A w \in Indexes : signalled[w] ~> pc[w] = "ended"

\* Left alone, the Job of bounded workers ends as their arguments say.
JobEndsAsConfigured ==
    (Valid(args) /\ args.mode = "complete") =>
        <>(\/ kills > 0
           \/ job = "deleted"
           \/ job = IF \E w \in Indexes : ConfiguredToFail(w) THEN "failed" ELSE "complete")

=============================================================================
