-------------------------- MODULE WorkerReportsProofs -------------------------
(***************************************************************************)
(* Theorems about Worker and WorkerReports for every set of indexes, every *)
(* set of argument lists and any number of kills.                          *)
(***************************************************************************)
EXTENDS WorkerReports, SequenceTheorems, TLAPS

-----------------------------------------------------------------------------
(* The inductive invariant. *)

OutcomeNames == {"succeeded", "terminated", "failed"}
FullLog(o) == <<StartRecord, ResultRecord(o)>>
WorkerLog == {<<>>, <<StartRecord>>} \cup {FullLog(o) : o \in OutcomeNames}

ExitCodes == {0, 2, 3, 10, 137, 143}

\* A timed wait of a positive time is one timer.
Timers(time) == IF time > 0 THEN 1 ELSE 0

WorkerTypes ==
    /\ args \in Arguments
    /\ pc \in [Indexes -> {"new", "parse", "delay", "work", "exit", "ended"}]
    /\ due \in [Indexes -> BOOLEAN]
    /\ fired \in [Indexes -> 0..2]
    /\ signalled \in [Indexes -> BOOLEAN]
    /\ log \in [Indexes -> WorkerLog]
    /\ returned \in [Indexes -> {None, 0, 2, 3, 10}]
    /\ code \in [Indexes -> {None} \cup ExitCodes]
    /\ status \in [Indexes -> {Waits, Running} \cup ExitCodes]
    /\ deleted \subseteq Indexes
    /\ removed \subseteq deleted
    /\ job \in {"active", "complete", "failed", "deleted"}
    /\ kills \in 0..MaxKills

\* Where a process is tells what it has written, waited for and returned.
Progress(w) ==
    /\ pc[w] \in {"new", "parse"} =>
          log[w] = <<>> /\ fired[w] = 0 /\ ~due[w] /\ returned[w] = None
    /\ pc[w] = "delay" =>
          /\ Valid(args) /\ log[w] = <<StartRecord>> /\ returned[w] = None
          /\ due[w] => args.delay > 0
          /\ fired[w] = IF due[w] THEN 1 ELSE 0
    /\ pc[w] = "work" =>
          /\ Valid(args) /\ log[w] = <<StartRecord>> /\ returned[w] = None
          /\ due[w] => args.mode = "complete" /\ args.duration > 0
          /\ fired[w] = Timers(args.delay) + IF due[w] THEN 1 ELSE 0
    /\ pc[w] = "exit" =>
          \/ log[w] = <<>> /\ returned[w] = ExitValidation
          \/ \E o \in OutcomeNames : log[w] = FullLog(o) /\ returned[w] = ExitCode(o)

\* What the container's end tells, and whom.
Ending(w) ==
    /\ pc[w] # "ended" => code[w] = None
    /\ pc[w] = "ended" =>
          /\ code[w] \in ExitCodes
          /\ \A o \in OutcomeNames :
                log[w] = FullLog(o) /\ code[w] # Killed => code[w] = ExitCode(o)
    /\ status[w] >= 0 => pc[w] = "ended" /\ status[w] = code[w]

Earned(w) ==
    \A o \in OutcomeNames : log[w] = FullLog(o) =>
       /\ o # "terminated" => /\ args.mode = "complete"
                              /\ fired[w] = Timers(args.delay) + Timers(args.duration)
                              /\ pc[w] \in {"exit", "ended"}
       /\ o = "terminated" => signalled[w]

WorkerInv == WorkerTypes /\ \A w \in Indexes : Progress(w) /\ Ending(w) /\ Earned(w)

\* The log that was read begins the log there is.
ReadIsPrefix ==
    data # None =>
       /\ data \in Logs
       /\ Len(data.records) <= Len(log[subject])
       /\ \A i \in 1..Len(data.records) : data.records[i] = log[subject][i]

CollectorInv ==
    /\ phase \in {"idle", "reading", "done"}
    /\ phase # "done" => data = None
    /\ phase = "idle" => subject = None /\ snapshot = Waits
    /\ phase # "idle" =>
          /\ subject \in Indexes
          /\ snapshot \in {Waits, Running} \cup ExitCodes
          /\ snapshot >= 0 => pc[subject] = "ended" /\ snapshot = code[subject]
          /\ ReadIsPrefix

IInv == WorkerInv /\ CollectorInv

-----------------------------------------------------------------------------
(* Logs and exit codes. *)

LEMMA ExitCodeValues ==
    /\ ExitCode("succeeded") = 0
    /\ ExitCode("terminated") = 3
    /\ ExitCode("failed") = 10
BY DEF ExitCode

LEMMA ExitCodeType == \A o \in OutcomeNames : ExitCode(o) \in {0, 3, 10}
BY ExitCodeValues DEF OutcomeNames

LEMMA RecordFields ==
    /\ StartRecord.type = "start"
    /\ \A o \in OutcomeNames : /\ ResultRecord(o).type = "result"
                               /\ ResultRecord(o).code = ExitCode(o)
BY DEF StartRecord, ResultRecord

\* A log tells its outcome, and whether it has one.
LEMMA LogShapes ==
    /\ Len(<<>>) = 0 /\ Len(<<StartRecord>>) = 1 /\ <<StartRecord>>[1] = StartRecord
    /\ \A o \in OutcomeNames :
          /\ Len(FullLog(o)) = 2
          /\ FullLog(o)[1] = StartRecord
          /\ FullLog(o)[2] = ResultRecord(o)
BY DEF FullLog

LEMMA LogsAreDistinct ==
    /\ <<>> # <<StartRecord>>
    /\ \A o \in OutcomeNames : FullLog(o) # <<>> /\ FullLog(o) # <<StartRecord>>
    /\ \A o1, o2 \in OutcomeNames : FullLog(o1) = FullLog(o2) => o1 = o2
<1>1. \A o1, o2 \in OutcomeNames : FullLog(o1) = FullLog(o2) => ExitCode(o1) = ExitCode(o2)
  <2>1. \A o \in OutcomeNames : FullLog(o)[2].code = ExitCode(o)
    BY RecordFields, LogShapes
  <2> QED BY <2>1
<1>2. \A o1, o2 \in OutcomeNames : ExitCode(o1) = ExitCode(o2) => o1 = o2
  BY ExitCodeValues DEF OutcomeNames
<1> QED BY <1>1, <1>2, LogShapes

LEMMA LogAppends ==
    /\ Append(<<>>, StartRecord) = <<StartRecord>>
    /\ \A o \in OutcomeNames : Append(<<StartRecord>>, ResultRecord(o)) = FullLog(o)
<1>1. \A a : Append(<<>>, a) = <<a>>
  OBVIOUS
<1>2. ASSUME NEW a, NEW b PROVE Append(<<a>>, b) = <<a, b>>
  <2>1. <<a>> \in Seq({a, b}) /\ <<a, b>> \in Seq({a, b})
    OBVIOUS
  <2>2. \A i \in 1..2 : Append(<<a>>, b)[i] = <<a, b>>[i]
    BY <2>1, AppendProperties
  <2>3. Append(<<a>>, b) \in Seq({a, b}) /\ Len(Append(<<a>>, b)) = Len(<<a, b>>)
    BY <2>1, AppendProperties
  <2> QED BY <2>1, <2>2, <2>3, SeqEqual
<1> QED BY <1>1, <1>2 DEF FullLog

LEMMA WorkerLogCases ==
    ASSUME NEW l \in WorkerLog
    PROVE  l = <<>> \/ l = <<StartRecord>> \/ \E o \in OutcomeNames : l = FullLog(o)
BY DEF WorkerLog

LEMMA NoneIsNoCode == None \notin ExitCodes /\ None \notin {0, 2, 3, 10}
BY NoneAssumption DEF ExitCodes

-----------------------------------------------------------------------------
(* The steps of one worker keep WorkerInv. *)

\* A step that leaves the process of every other worker alone concerns one.
LEMMA OneWorker ==
    ASSUME WorkerInv, NEW w \in Indexes, WorkerTypes', UNCHANGED args,
           \A v \in Indexes \ {w} :
              /\ pc'[v] = pc[v] /\ due'[v] = due[v] /\ fired'[v] = fired[v]
              /\ signalled'[v] = signalled[v] /\ log'[v] = log[v]
              /\ returned'[v] = returned[v] /\ code'[v] = code[v]
              /\ status'[v] = status[v],
           Progress(w)', Ending(w)', Earned(w)'
    PROVE  WorkerInv'
<1> SUFFICES ASSUME NEW v \in Indexes \ {w} PROVE (Progress(v) /\ Ending(v) /\ Earned(v))'
  BY DEF WorkerInv
<1> QED BY DEF WorkerInv, Progress, Ending, Earned

LEMMA InstallHandlerKeeps ==
    ASSUME WorkerInv, UNCHANGED removed, NEW w \in Indexes, InstallHandler(w)
    PROVE  WorkerInv'
<1>1. WorkerTypes'
  BY DEF WorkerInv, WorkerTypes, InstallHandler
<1>2. pc[w] = "new" /\ pc'[w] = "parse" /\ log[w] = <<>>
  BY DEF InstallHandler, WorkerInv, WorkerTypes, Progress
<1>3. Progress(w)' /\ Ending(w)'
  BY <1>2 DEF InstallHandler, WorkerInv, WorkerTypes, Progress, Ending
<1>4. Earned(w)'
  BY <1>2, LogsAreDistinct DEF InstallHandler, Earned
<1> QED BY <1>1, <1>3, <1>4, OneWorker DEF InstallHandler, WorkerInv, WorkerTypes

LEMMA ParseKeeps ==
    ASSUME WorkerInv, UNCHANGED removed, NEW w \in Indexes, Parse(w)
    PROVE  WorkerInv'
<1>1. /\ pc[w] = "parse" /\ log[w] = <<>> /\ fired[w] = 0 /\ ~due[w] /\ returned[w] = None
      /\ code[w] = None /\ ~(status[w] >= 0)
  BY DEF Parse, WorkerInv, Progress, Ending
<1>2. CASE Valid(args)
  <2>1. log'[w] = <<StartRecord>> /\ pc'[w] = "delay"
    BY <1>1, <1>2, LogAppends DEF Parse, WorkerInv, WorkerTypes
  <2>2. log' \in [Indexes -> WorkerLog]
    BY <1>1, <1>2, LogAppends DEF Parse, WorkerInv, WorkerTypes, WorkerLog
  <2>3. WorkerTypes'
    BY <1>2, <2>2 DEF Parse, WorkerInv, WorkerTypes
  <2>4. Progress(w)' /\ Ending(w)'
    BY <1>1, <1>2, <2>1, LogsAreDistinct
       DEF Parse, WorkerInv, WorkerTypes, Progress, Ending, Valid
  <2>5. Earned(w)'
    BY <2>1, LogsAreDistinct DEF Earned
  <2> QED BY <1>2, <2>3, <2>4, <2>5, OneWorker DEF Parse, WorkerInv, WorkerTypes
<1>3. CASE ~Valid(args)
  <2>1. pc'[w] = "exit" /\ returned'[w] = 2 /\ log'[w] = <<>>
    BY <1>1, <1>3 DEF Parse, WorkerInv, WorkerTypes, ExitValidation
  <2>2. WorkerTypes'
    BY <1>3 DEF Parse, WorkerInv, WorkerTypes, ExitValidation
  <2>3. Progress(w)' /\ Ending(w)'
    BY <1>1, <1>3, <2>1 DEF Parse, Progress, Ending, ExitValidation
  <2>4. Earned(w)'
    BY <2>1, LogsAreDistinct DEF Earned
  <2> QED BY <1>3, <2>2, <2>3, <2>4, OneWorker DEF Parse, WorkerInv, WorkerTypes
<1> QED BY <1>2, <1>3

LEMMA TimerKeeps ==
    ASSUME WorkerInv, UNCHANGED removed, NEW w \in Indexes, TimerFires(w)
    PROVE  WorkerInv'
<1>1. /\ ~due[w] /\ due'[w] /\ fired'[w] = fired[w] + 1 /\ log[w] = <<StartRecord>>
      /\ \/ pc[w] = "delay" /\ args.delay > 0 /\ fired[w] = 0
         \/ /\ pc[w] = "work" /\ args.mode = "complete" /\ args.duration > 0
            /\ fired[w] = Timers(args.delay)
  <2>1. ~due[w] /\ due'[w] /\ fired'[w] = fired[w] + 1
    BY DEF TimerFires, WorkerInv, WorkerTypes
  <2>2. CASE pc[w] = "delay"
    BY <2>1, <2>2 DEF TimerFires, WaitTime, WorkerInv, Progress
  <2>3. CASE pc[w] = "work" /\ args.mode = "complete"
    <3>1. fired[w] = Timers(args.delay) + 0
      BY <2>1, <2>3 DEF WorkerInv, Progress
    <3> QED BY <2>1, <2>3, <3>1 DEF TimerFires, WaitTime, WorkerInv, Progress, Timers
  <2> QED BY <2>2, <2>3 DEF TimerFires, Waiting
<1>2. fired'[w] \in 0..2
  BY <1>1 DEF Timers
<1>3. WorkerTypes'
  BY <1>2 DEF TimerFires, WorkerInv, WorkerTypes
<1>4. Progress(w)' /\ Ending(w)'
  BY <1>1 DEF TimerFires, WorkerInv, Progress, Ending
<1>5. Earned(w)'
  BY <1>1, LogsAreDistinct DEF TimerFires, Earned
<1> QED BY <1>3, <1>4, <1>5, OneWorker DEF TimerFires, WorkerInv, WorkerTypes

LEMMA EndDelayKeeps ==
    ASSUME WorkerInv, UNCHANGED removed, NEW w \in Indexes, EndDelay(w)
    PROVE  WorkerInv'
<1>1. /\ pc[w] = "delay" /\ pc'[w] = "work" /\ ~due'[w] /\ log[w] = <<StartRecord>>
      /\ fired[w] = Timers(args.delay)
  BY DEF EndDelay, WaitElapses, WaitTime, WorkerInv, WorkerTypes, Progress, Timers,
         Valid, WorkerAssumption
<1>2. WorkerTypes'
  BY DEF EndDelay, WorkerInv, WorkerTypes
<1>3. Progress(w)' /\ Ending(w)'
  BY <1>1 DEF EndDelay, WorkerInv, WorkerTypes, Progress, Ending, Timers, Valid
<1>4. Earned(w)'
  BY <1>1, LogsAreDistinct DEF EndDelay, Earned
<1> QED BY <1>2, <1>3, <1>4, OneWorker DEF EndDelay, WorkerInv, WorkerTypes

LEMMA FinishKeeps ==
    ASSUME WorkerInv, UNCHANGED removed, NEW w \in Indexes, Finish(w)
    PROVE  WorkerInv'
<1> PICK outcome \in Outcomes(w) :
      /\ log' = [log EXCEPT ![w] = Append(@, ResultRecord(outcome))]
      /\ returned' = [returned EXCEPT ![w] = ExitCode(outcome)]
      /\ pc' = [pc EXCEPT ![w] = "exit"]
      /\ UNCHANGED <<args, due, fired, signalled, code, status, deleted, job, kills>>
  BY DEF Finish
<1>1. /\ outcome \in OutcomeNames
      /\ pc[w] \in {"delay", "work"}
      /\ outcome = "terminated" => signalled[w]
      /\ outcome # "terminated" => pc[w] = "work" /\ WaitElapses(w)
  BY DEF Outcomes, WaitInterrupted, OutcomeNames
<1>2. log[w] = <<StartRecord>> /\ code[w] = None /\ ~(status[w] >= 0)
  BY <1>1 DEF WorkerInv, Progress, Ending
<1>3. log'[w] = FullLog(outcome) /\ pc'[w] = "exit" /\ returned'[w] = ExitCode(outcome)
  BY <1>1, <1>2, LogAppends DEF WorkerInv, WorkerTypes
<1>4. WorkerTypes'
  <2>1. log' \in [Indexes -> WorkerLog]
    BY <1>1, <1>2, LogAppends DEF WorkerInv, WorkerTypes, WorkerLog
  <2>2. ExitCode(outcome) \in {None, 0, 2, 3, 10}
    BY <1>1, ExitCodeType
  <2> QED BY <2>1, <2>2 DEF WorkerInv, WorkerTypes
<1>5. Progress(w)' /\ Ending(w)'
  BY <1>1, <1>2, <1>3 DEF Progress, Ending
<1>6. outcome # "terminated" =>
         args.mode = "complete" /\ fired[w] = Timers(args.delay) + Timers(args.duration)
  BY <1>1, WorkerAssumption DEF WaitElapses, Waiting, WaitTime, WorkerInv, WorkerTypes, Progress,
     Valid, Timers
<1>7. Earned(w)'
  BY <1>1, <1>3, <1>6, LogsAreDistinct DEF Earned
<1> QED BY <1>4, <1>5, <1>7, OneWorker DEF WorkerInv, WorkerTypes

\* The container ends: by itself, with what Run returned, or before it has
\* written anything, or because it is killed.
LEMMA EndsKeeps ==
    ASSUME WorkerInv, UNCHANGED removed, NEW w \in Indexes, NEW exitCode \in ExitCodes,
           Ends(w, exitCode), pc[w] # "ended",
           kills' \in 0..MaxKills,
           signalled' \in [Indexes -> BOOLEAN],
           \A v \in Indexes : signalled[v] => signalled'[v],
           \A v \in Indexes \ {w} : signalled'[v] = signalled[v],
           \/ exitCode = Killed
           \/ log[w] = <<>>
           \/ pc[w] = "exit" /\ exitCode = returned[w]
    PROVE  WorkerInv'
<1>1. pc'[w] = "ended" /\ code'[w] = exitCode /\ log'[w] = log[w]
  BY DEF Ends, WorkerInv, WorkerTypes
<1>2. WorkerTypes'
  BY DEF Ends, WorkerInv, WorkerTypes
<1>3. Progress(w)'
  BY <1>1 DEF Progress
<1>4. Ending(w)'
  <2>1. ~(status'[w] >= 0)
    BY DEF Ends, WorkerInv, Ending
  <2>2. ASSUME NEW o \in OutcomeNames, log[w] = FullLog(o), exitCode # Killed
        PROVE  exitCode = ExitCode(o)
    <3>1. log[w] # <<>>
      BY <2>2, LogsAreDistinct
    <3>2. PICK o1 \in OutcomeNames : log[w] = FullLog(o1) /\ returned[w] = ExitCode(o1)
      BY <2>2, <3>1 DEF WorkerInv, Progress
    <3> QED BY <2>2, <3>1, <3>2, LogsAreDistinct
  <2> QED BY <1>1, <2>1, <2>2 DEF Ending
<1>5. Earned(w)'
  BY <1>1 DEF Ends, WorkerInv, Earned
<1> QED BY <1>2, <1>3, <1>4, <1>5, OneWorker DEF Ends, WorkerInv, WorkerTypes

LEMMA ExitKeeps ==
    ASSUME WorkerInv, UNCHANGED removed, NEW w \in Indexes, Exit(w)
    PROVE  WorkerInv'
<1>1. returned[w] \in ExitCodes
  BY ExitCodeType DEF Exit, WorkerInv, Progress, ExitCodes, ExitValidation
<1> QED BY <1>1, EndsKeeps DEF Exit, WorkerInv, WorkerTypes

LEMMA SignalKeeps ==
    ASSUME WorkerInv, UNCHANGED removed, NEW w \in Indexes, Signal(w)
    PROVE  WorkerInv'
<1>1. /\ signalled' \in [Indexes -> BOOLEAN]
      /\ \A v \in Indexes : signalled[v] => signalled'[v]
      /\ \A v \in Indexes \ {w} : signalled'[v] = signalled[v]
  BY DEF Signal, WorkerInv, WorkerTypes
<1>2. CASE pc[w] = "new"
  <2>1. PICK c \in DefaultAction : Ends(w, c)
    BY <1>2 DEF Signal
  <2>2. c \in ExitCodes
    BY DEF DefaultAction, ExitCodes
  <2>3. log[w] = <<>>
    BY <1>2 DEF WorkerInv, Progress
  <2> QED BY <1>1, <1>2, <2>1, <2>2, <2>3, EndsKeeps DEF Signal, WorkerInv, WorkerTypes
<1>3. CASE pc[w] # "new"
  <2>1. WorkerTypes'
    BY <1>1, <1>3 DEF Signal, WorkerInv, WorkerTypes
  <2> QED BY <1>1, <1>3, <2>1, OneWorker DEF Signal, WorkerInv, Progress, Ending, Earned
<1> QED BY <1>2, <1>3

LEMMA KillKeeps ==
    ASSUME WorkerInv, UNCHANGED removed, NEW w \in Indexes, Kill(w)
    PROVE  WorkerInv'
<1>1. Killed \in ExitCodes /\ kills' \in 0..MaxKills
  BY WorkerAssumption DEF Kill, Killed, ExitCodes, WorkerInv, WorkerTypes
<1> QED BY <1>1, EndsKeeps DEF Kill, WorkerInv, WorkerTypes

LEMMA KubeletReportsKeeps ==
    ASSUME WorkerInv, UNCHANGED removed, NEW w \in Indexes, KubeletReports(w)
    PROVE  WorkerInv'
<1>1. /\ status' = [status EXCEPT ![w] = Container(w)]
      /\ UNCHANGED <<args, pc, due, fired, signalled, log, returned, code, deleted, job, kills>>
  BY DEF KubeletReports, process
<1>2. Container(w) \in {Running} \cup ExitCodes
  BY DEF Container, Running, WorkerInv, Ending
<1>3. WorkerTypes'
  BY <1>1, <1>2 DEF WorkerInv, WorkerTypes
<1>4. Ending(w)'
  BY <1>1 DEF WorkerInv, WorkerTypes, Ending, Container
<1> QED BY <1>1, <1>3, <1>4, OneWorker DEF WorkerInv, Progress, Earned

LEMMA OthersKeepWorkerInv ==
    ASSUME WorkerInv, UNCHANGED <<args, process, status, kills>>,
           deleted' \subseteq Indexes, removed' \subseteq deleted',
           job' \in {"active", "complete", "failed", "deleted"}
    PROVE  WorkerInv'
BY DEF process, WorkerInv, WorkerTypes, Progress, Ending, Earned

LEMMA WorkerStepKeeps ==
    ASSUME WorkerInv, WorkerNext, UNCHANGED removed
    PROVE  WorkerInv'
<1>1. CASE JobFails \/ JobCompletes \/ UserDeletes
  BY <1>1, OthersKeepWorkerInv
     DEF JobFails, JobCompletes, UserDeletes, WorkerInv, WorkerTypes
<1>2. ASSUME NEW w \in Indexes,
             ProcessStep(w) \/ TimerFires(w) \/ Signal(w) \/ Kill(w) \/ KubeletReports(w)
      PROVE  WorkerInv'
  BY <1>2, InstallHandlerKeeps, ParseKeeps, TimerKeeps, EndDelayKeeps, FinishKeeps, ExitKeeps,
     SignalKeeps, KillKeeps, KubeletReportsKeeps DEF ProcessStep
<1> QED BY <1>1, <1>2 DEF WorkerNext

-----------------------------------------------------------------------------
(* The collection beside the workers. *)

\* What has been read or seen of a worker stays true of it: a container ends
\* once, and a log only grows.
LEMMA WorkersOnlyAdvance ==
    ASSUME WorkerInv, WorkerNext, NEW w \in Indexes
    PROVE  /\ pc[w] = "ended" => pc'[w] = "ended" /\ code'[w] = code[w]
           /\ Len(log[w]) <= Len(log'[w])
           /\ \A i \in 1..Len(log[w]) : log'[w][i] = log[w][i]
<1> DEFINE Advances == /\ pc[w] = "ended" => pc'[w] = "ended" /\ code'[w] = code[w]
                       /\ Len(log[w]) <= Len(log'[w])
                       /\ \A i \in 1..Len(log[w]) : log'[w][i] = log[w][i]
<1> USE DEF process
<1>0. Len(log[w]) \in {0, 1, 2}
  BY LogShapes, WorkerLogCases DEF WorkerInv, WorkerTypes
<1>1. CASE UNCHANGED <<pc[w], code[w], log[w]>>
  BY <1>0, <1>1
<1>2. CASE JobFails \/ JobCompletes \/ UserDeletes
  BY <1>1, <1>2 DEF JobFails, JobCompletes, UserDeletes
<1>3. ASSUME NEW v \in Indexes, v # w,
             ProcessStep(v) \/ TimerFires(v) \/ Signal(v) \/ Kill(v) \/ KubeletReports(v)
      PROVE  Advances
  <2>1. UNCHANGED <<pc[w], code[w], log[w]>>
    BY <1>3 DEF ProcessStep, InstallHandler, Parse, EndDelay, Finish, Exit, Ends, TimerFires,
                Signal, Kill, KubeletReports, WorkerInv, WorkerTypes
  <2> QED BY <1>1, <2>1
<1>4. CASE Parse(w)
  <2>1. log[w] = <<>> /\ pc[w] # "ended"
    BY <1>4 DEF Parse, WorkerInv, Progress
  <2>2. log'[w] \in {<<>>, <<StartRecord>>}
    BY <1>4, <2>1, LogAppends DEF Parse, WorkerInv, WorkerTypes
  <2> QED BY <2>1, <2>2, LogShapes
<1>5. CASE Finish(w)
  <2>1. log[w] = <<StartRecord>> /\ pc[w] # "ended"
    BY <1>5 DEF Finish, Outcomes, WaitInterrupted, WorkerInv, Progress
  <2>2. PICK o \in OutcomeNames : log'[w] = FullLog(o)
    BY <1>5, <2>1, LogAppends
       DEF Finish, Outcomes, OutcomeNames, WorkerInv, WorkerTypes
  <2> QED BY <2>1, <2>2, LogShapes
<1>6. CASE InstallHandler(w) \/ EndDelay(w) \/ TimerFires(w) \/ Exit(w) \/ Signal(w) \/ Kill(w)
             \/ KubeletReports(w)
  <2>1. UNCHANGED log /\ (pc[w] = "ended" => UNCHANGED <<pc, code>>)
    BY <1>6 DEF InstallHandler, EndDelay, TimerFires, Exit, Signal, Kill, KubeletReports, Ends
  <2> QED BY <1>0, <2>1
<1> QED BY <1>2, <1>3, <1>4, <1>5, <1>6 DEF WorkerNext, ProcessStep

LEMMA WorkerStepKeepsIInv ==
    ASSUME IInv, WorkerNext, UNCHANGED <<collector, removed>>
    PROVE  IInv'
<1>1. WorkerInv'
  BY WorkerStepKeeps DEF IInv
<1>2. UNCHANGED <<subject, snapshot, data, phase>>
  BY DEF collector
<1>3. CASE phase = "idle"
  BY <1>1, <1>2, <1>3 DEF IInv, CollectorInv
<1>4. CASE phase # "idle"
  <2>1. /\ pc[subject] = "ended" => pc'[subject] = "ended" /\ code'[subject] = code[subject]
        /\ Len(log[subject]) <= Len(log'[subject])
        /\ \A i \in 1..Len(log[subject]) : log'[subject][i] = log[subject][i]
    BY <1>4, WorkersOnlyAdvance DEF IInv, CollectorInv
  <2>2. Len(log[subject]) \in Nat /\ Len(log'[subject]) \in Nat
    BY <1>1, <1>4, LogShapes, WorkerLogCases DEF IInv, CollectorInv, WorkerInv, WorkerTypes
  <2>3. ReadIsPrefix'
    <3> SUFFICES ASSUME data # None PROVE ReadIsPrefix'
      BY <1>2 DEF ReadIsPrefix
    <3>1. /\ data \in Logs
          /\ Len(data.records) <= Len(log[subject])
          /\ \A i \in 1..Len(data.records) : data.records[i] = log[subject][i]
      BY <1>4 DEF IInv, CollectorInv, ReadIsPrefix
    <3>2. Len(data.records) \in Nat
      BY <3>1, LenProperties DEF Logs
    <3> QED BY <1>2, <2>1, <2>2, <3>1, <3>2 DEF ReadIsPrefix
  <2> QED BY <1>1, <1>2, <1>4, <2>1, <2>3 DEF IInv, CollectorInv
<1> QED BY <1>3, <1>4

LEMMA SnapshotKeepsIInv ==
    ASSUME IInv, NEW w \in Indexes, TakeSnapshot(w)
    PROVE  IInv'
<1>1. WorkerInv'
  BY DEF IInv, WorkerInv, WorkerTypes, Progress, Ending, Earned, TakeSnapshot, workerVars, process
<1>2. ReadIsPrefix' /\ data' = None
  BY DEF IInv, CollectorInv, TakeSnapshot, ReadIsPrefix
<1>3. phase' \in {"reading", "done"} /\ subject' = w /\ snapshot' = status[w]
  BY DEF TakeSnapshot
<1>4. UNCHANGED <<pc, code>>
  BY DEF TakeSnapshot, workerVars, process
<1> QED BY <1>1, <1>2, <1>3, <1>4 DEF IInv, CollectorInv, WorkerInv, WorkerTypes, Ending

LEMMA RecordsOfALog ==
    ASSUME NEW l \in WorkerLog
    PROVE  /\ Len(l) \in 0..2
           /\ \A i \in 1..Len(l) : l[i] \in Records
<1>1. StartRecord \in Records
  BY DEF StartRecord, Records
<1>2. \A o \in OutcomeNames : ResultRecord(o) \in Records
  BY ExitCodeType DEF ResultRecord, Records
<1> QED BY <1>1, <1>2, LogShapes, WorkerLogCases

LEMMA ReadLogKeepsIInv ==
    ASSUME IInv, ReadLog
    PROVE  IInv'
<1>1. UNCHANGED <<args, pc, due, fired, signalled, log, returned, code, status, deleted, job,
                  kills, subject, snapshot, removed>>
  BY DEF ReadLog, workerVars, process
<1>2. WorkerInv'
  BY <1>1 DEF IInv, WorkerInv, WorkerTypes, Progress, Ending, Earned
<1>3. phase = "reading" /\ phase' = "done" /\ data = None
  BY DEF ReadLog, IInv, CollectorInv
<1>4. ReadIsPrefix'
  <2>1. CASE UNCHANGED data
    BY <1>3, <2>1 DEF ReadIsPrefix
  <2>2. ASSUME NEW n \in 0..Len(log[subject]), NEW torn \in BOOLEAN,
               data' = [records |-> SubSeq(log[subject], 1, n), torn |-> torn]
        PROVE  ReadIsPrefix'
    <3>1. Len(log[subject]) \in 0..2 /\ \A i \in 1..Len(log[subject]) : log[subject][i] \in Records
      BY <1>3, RecordsOfALog DEF IInv, CollectorInv, WorkerInv, WorkerTypes
    <3>2. n \in Int /\ \A i \in 1..n : log[subject][i] \in Records
      BY <3>1
    <3>3. /\ SubSeq(log[subject], 1, n) \in Seq(Records)
          /\ Len(SubSeq(log[subject], 1, n)) = n
          /\ \A i \in 1..n : SubSeq(log[subject], 1, n)[i] = log[subject][i]
      BY <3>1, <3>2, SubSeqProperties
    <3> QED BY <1>1, <2>2, <3>1, <3>3 DEF ReadIsPrefix, Logs
  <2> QED BY <2>1, <2>2 DEF ReadLog
<1> QED BY <1>1, <1>2, <1>3, <1>4 DEF IInv, CollectorInv

LEMMA PodRemovedKeepsIInv ==
    ASSUME IInv, NEW w \in Indexes, PodRemoved(w)
    PROVE  IInv'
BY DEF IInv, WorkerInv, WorkerTypes, Progress, Ending, Earned, CollectorInv, ReadIsPrefix,
       PodRemoved, workerVars, process, collector

THEOREM InductiveInvariant == Spec => []IInv
<1>1. Init => IInv
  <2> SUFFICES ASSUME Init PROVE IInv
    OBVIOUS
  <2>1. WorkerTypes
    BY WorkerAssumption DEF Init, WorkerInit, WorkerTypes, WorkerLog
  <2>2. \A w \in Indexes : Progress(w) /\ Ending(w) /\ Earned(w)
    <3> SUFFICES ASSUME NEW w \in Indexes PROVE Progress(w) /\ Ending(w) /\ Earned(w)
      OBVIOUS
    <3>1. /\ pc[w] = "new" /\ log[w] = <<>> /\ fired[w] = 0 /\ ~due[w]
          /\ returned[w] = None /\ code[w] = None /\ status[w] = -2
      BY DEF Init, WorkerInit, Waits
    <3> QED BY <3>1, LogsAreDistinct DEF Progress, Ending, Earned
  <2>3. CollectorInv
    BY DEF Init, CollectorInv
  <2> QED BY <2>1, <2>2, <2>3 DEF IInv, WorkerInv
<1>2. IInv /\ [Next]_vars => IInv'
  <2> SUFFICES ASSUME IInv, [Next]_vars PROVE IInv'
    OBVIOUS
  <2>1. CASE UNCHANGED vars
    BY <2>1 DEF IInv, WorkerInv, WorkerTypes, Progress, Ending, Earned, CollectorInv,
                ReadIsPrefix, vars, workerVars, process, collector
  <2> QED BY <2>1, WorkerStepKeepsIInv, ReadLogKeepsIInv, SnapshotKeepsIInv,
             PodRemovedKeepsIInv DEF Next
<1> QED BY <1>1, <1>2, PTL DEF Spec

-----------------------------------------------------------------------------
(* The theorems. *)

\* The values every variable of the workers and the collection takes (Run, wait,
\* WorkerLogs).
THEOREM TypeCorrect == Spec => []TypeOK
<1>1. IInv => TypeOK
  <2> SUFFICES ASSUME IInv PROVE TypeOK
    OBVIOUS
  <2>1. \A w \in Indexes :
          log[w] \in {<<>>, <<StartRecord>>}
                     \cup {<<StartRecord, ResultRecord(o)>> :
                              o \in {"succeeded", "terminated", "failed"}}
    BY DEF IInv, WorkerInv, WorkerTypes, WorkerLog, FullLog, OutcomeNames
  <2>2. /\ code \in [Indexes -> {None, 0, 2, 3, 10, Killed} \cup DefaultAction]
        /\ status \in [Indexes -> {Waits, Running, 0, 2, 3, 10, Killed} \cup DefaultAction]
    BY DEF IInv, WorkerInv, WorkerTypes, ExitCodes, Killed, DefaultAction
  <2>3. subject \in Indexes \cup {None} /\ phase \in {"idle", "reading", "done"}
    BY DEF IInv, CollectorInv
  <2> QED BY <2>1, <2>2, <2>3 DEF IInv, WorkerInv, WorkerTypes, TypeOK
<1> QED BY <1>1, InductiveInvariant, PTL

\* A worker that reports success, or the failure it was configured for, has
\* waited as long as its arguments say, also when the termination and the timer
\* are both ready (wait, ModeWait).
THEOREM OutcomesEarned == Spec => []OutcomeIsEarned
<1>1. IInv => OutcomeIsEarned
  <2> SUFFICES ASSUME IInv, NEW w \in Indexes
               PROVE  /\ Outcome(w) \in {0, 10} =>
                            /\ args.mode = "complete"
                            /\ fired[w] = Timers(args.delay) + Timers(args.duration)
                      /\ Outcome(w) = 3 => signalled[w]
    BY DEF OutcomeIsEarned, Timers
  <2>1. CASE log[w] \in {<<>>, <<StartRecord>>}
    BY <2>1, LogShapes, NoneAssumption DEF Outcome
  <2>2. ASSUME NEW o \in OutcomeNames, log[w] = FullLog(o)
        PROVE  Outcome(w) = ExitCode(o) /\ Earned(w)
    <3>1. Len(log[w]) = 2 /\ log[w][2].code = ExitCode(o)
      BY <2>2, LogShapes, RecordFields
    <3> QED BY <3>1 DEF Outcome, IInv, WorkerInv
  <2> QED BY <2>1, <2>2, WorkerLogCases, ExitCodeValues
          DEF IInv, WorkerInv, WorkerTypes, Earned, OutcomeNames
<1> QED BY <1>1, InductiveInvariant, PTL

\* A report gives the exit code that the container has, whether from the
\* container's state or from the log, however late the log is read and wherever
\* it is cut off (applyContainerState, applyWorkerRecords).
THEOREM ReportsTellTheExit == Spec => []ReportTellsTheExit
<1>1. IInv => ReportTellsTheExit
  <2> SUFFICES ASSUME IInv, phase = "done"
               PROVE  /\ Terminated(snapshot) => Report.finished /\ Report.code # None
                      /\ Report.code # None /\ code[subject] \notin {None, Killed}
                            => Report.code = code[subject]
    BY DEF ReportTellsTheExit
  <2>1. /\ subject \in Indexes
        /\ Terminated(snapshot) => snapshot = code[subject] /\ snapshot # None
    BY NoneIsNoCode DEF IInv, CollectorInv, Terminated, Waits, Running
  <2> DEFINE types == {data.records[i].type : i \in DOMAIN data.records}
  <2>2. CASE data = None
    BY <2>1, <2>2 DEF Report, FromContainer
  <2>3. CASE data # None /\ "result" \notin types
    <3>1. /\ Terminated(snapshot) => Report.finished
          /\ Report.code = IF Terminated(snapshot) THEN snapshot ELSE None
      <4>1. Report = WithRecords(FromContainer(snapshot))
        BY <2>3 DEF Report
      <4> QED BY <2>3, <4>1 DEF WithRecords, FromContainer
    <3> QED BY <2>1, <3>1
  <2>4. CASE data # None /\ "result" \in types
    <3>1. Report.finished /\ Report.code = data.records[Len(data.records)].code
      BY <2>4 DEF Report, WithRecords
    <3>2. /\ Len(data.records) \in Nat /\ DOMAIN data.records = 1..Len(data.records)
          /\ Len(data.records) <= Len(log[subject])
          /\ \A i \in 1..Len(data.records) : data.records[i] = log[subject][i]
      BY <2>4, LenProperties DEF IInv, CollectorInv, ReadIsPrefix, Logs
    <3>3. PICK i \in 1..Len(data.records) : log[subject][i].type = "result"
      BY <2>4, <3>2
    <3>4. log[subject] \in WorkerLog
      BY <2>1 DEF IInv, WorkerInv, WorkerTypes
    <3>5. PICK o \in OutcomeNames : log[subject] = FullLog(o)
      BY <3>2, <3>3, <3>4, LogShapes, WorkerLogCases DEF StartRecord
    <3>6. Len(data.records) = 2 /\ data.records[2].code = ExitCode(o)
      <4>1. i = 2
        BY <3>2, <3>3, <3>5, LogShapes, RecordFields
      <4>2. Len(data.records) = 2
        BY <3>2, <3>5, <4>1, LogShapes
      <4>3. data.records[2] = ResultRecord(o)
        BY <3>2, <3>5, <4>2, LogShapes
      <4> QED BY <4>2, <4>3, RecordFields
    <3>7. code[subject] \notin {None, Killed} => code[subject] = ExitCode(o)
      BY <2>1, <3>5 DEF IInv, WorkerInv, Ending
    <3> QED BY <3>1, <3>6, <3>7, ExitCodeType, NoneAssumption
  <2> QED BY <2>2, <2>3, <2>4
<1> QED BY <1>1, InductiveInvariant, PTL

=============================================================================
