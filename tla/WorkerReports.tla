---------------------------- MODULE WorkerReports ----------------------------
(***************************************************************************)
(* What the lab reports about the workers of a run: workerRuntimeReports   *)
(* in internal/lab/worker_reports.go over the logs that WorkerLogs in      *)
(* cluster.go reads, while the workers of Worker go on.                    *)
(*                                                                         *)
(* The container states come from the snapshot of Discover, each log from  *)
(* a later call.  A log lags behind what its worker has written and may    *)
(* end in the middle of a record.  The reports are made Pod by Pod; the    *)
(* collection is followed for one of them, subject.                        *)
(***************************************************************************)
EXTENDS Worker

Records == [type : {"start", "result"}, code : Nat \cup {None}]
Logs == [records : Seq(Records), torn : BOOLEAN]

ASSUME NoLogAssumption == None \notin Logs

VARIABLES
    subject,   \* the Pod whose report is followed, or None before the snapshot
    snapshot,  \* its container state, as Discover saw it
    data,      \* its log as read: records and whether a torn one follows, or None
    phase,     \* of the collection: idle, reading, done
    removed    \* Pods the API server no longer has

collector == <<subject, snapshot, data, phase>>
vars == <<workerVars, collector, removed>>

-----------------------------------------------------------------------------
(* The collection. *)

\* workerContainerStarted
Started(s) == s = Running \/ Terminated(s)

TakeSnapshot(w) ==
    /\ phase = "idle"
    /\ w \notin removed
    /\ subject' = w
    /\ snapshot' = status[w]
    /\ phase' = IF Started(status[w]) THEN "reading" ELSE "done"
    /\ UNCHANGED <<workerVars, data, removed>>

\* WorkerLogs: a prefix of the log, possibly with a torn record at its end.  A
\* request that fails, as for a Pod that is gone, gives an error and no log.
ReadLog ==
    /\ phase = "reading"
    /\ phase' = "done"
    /\ \/ /\ subject \notin removed
          /\ \E n \in 0..Len(log[subject]), torn \in BOOLEAN :
                /\ torn => n < Len(log[subject])
                /\ data' = [records |-> SubSeq(log[subject], 1, n), torn |-> torn]
       \/ UNCHANGED data
    /\ UNCHANGED <<workerVars, subject, snapshot, removed>>

\* A deleted Pod goes away once its container has ended and that is reported.
PodRemoved(w) ==
    /\ w \in deleted \ removed
    /\ Terminated(status[w])
    /\ removed' = removed \cup {w}
    /\ UNCHANGED <<workerVars, collector>>

-----------------------------------------------------------------------------
(* The reports, as functions of what was collected. *)

NoReport == [started |-> FALSE, finished |-> FALSE, code |-> None]

\* applyContainerState
FromContainer(s) ==
    [started  |-> Started(s),
     finished |-> Terminated(s),
     code     |-> IF Terminated(s) THEN s ELSE None]

\* Variant: nothing is kept of a Pod whose log cannot be decoded.
WithRecordsOrNothing(report) ==
    LET types == {data.records[i].type : i \in DOMAIN data.records}
    IN  IF data.torn THEN NoReport
        ELSE [started  |-> report.started \/ "start" \in types,
              finished |-> report.finished \/ "result" \in types,
              code     |-> IF "result" \in types THEN data.records[Len(data.records)].code
                                                 ELSE report.code]

\* applyWorkerRecords: each whole record sets its fields; a torn one ends the
\* decoding with an error and leaves what came before it.
WithRecords(report) ==
    LET types == {data.records[i].type : i \in DOMAIN data.records}
    IN  [started  |-> report.started \/ "start" \in types,
         finished |-> report.finished \/ "result" \in types,
         code     |-> IF "result" \in types THEN data.records[Len(data.records)].code
                                            ELSE report.code]

Report == IF data = None THEN FromContainer(snapshot) ELSE WithRecords(FromContainer(snapshot))

-----------------------------------------------------------------------------

Init ==
    /\ WorkerInit
    /\ subject = None
    /\ snapshot = Waits
    /\ data = None
    /\ phase = "idle"
    /\ removed = {}

Next ==
    \/ WorkerNext /\ UNCHANGED <<collector, removed>>
    \/ ReadLog
    \/ \E w \in Indexes : TakeSnapshot(w) \/ PodRemoved(w)

Spec == Init /\ [][Next]_vars

FairSpec == Spec /\ WorkerFairness

-----------------------------------------------------------------------------
(* Properties. *)

TypeOK ==
    /\ args \in Arguments
    /\ pc \in [Indexes -> {"new", "parse", "delay", "work", "exit", "ended"}]
    /\ due \in [Indexes -> BOOLEAN]
    /\ fired \in [Indexes -> 0..2]
    /\ signalled \in [Indexes -> BOOLEAN]
    /\ \A w \in Indexes :
          log[w] \in {<<>>, <<StartRecord>>}
                     \cup {<<StartRecord, ResultRecord(o)>> :
                              o \in {"succeeded", "terminated", "failed"}}
    /\ returned \in [Indexes -> {None, 0, 2, 3, 10}]
    /\ code \in [Indexes -> {None, 0, 2, 3, 10, Killed} \cup DefaultAction]
    /\ status \in [Indexes -> {Waits, Running, 0, 2, 3, 10, Killed} \cup DefaultAction]
    /\ deleted \subseteq Indexes
    /\ removed \subseteq deleted
    /\ job \in {"active", "complete", "failed", "deleted"}
    /\ kills \in 0..MaxKills
    /\ subject \in Indexes \cup {None}
    /\ phase \in {"idle", "reading", "done"}

\* The exit code in a report is the one the container ends with, from whichever
\* of the two sources it comes, and a Pod that had ended when the run was looked
\* at has one, also if its log is gone, cut off in a record, or behind.  The
\* exception is a worker killed between its result record and its exit
\* (applyContainerState before applyWorkerRecords).
ReportTellsTheExit ==
    phase = "done" =>
        /\ Terminated(snapshot) => Report.finished /\ Report.code # None
        /\ Report.code # None /\ code[subject] \notin {None, Killed}
              => Report.code = code[subject]

=============================================================================
