--------------------------- MODULE JobQueueProofs ---------------------------
(***************************************************************************)
(* For every number of jobs and of command line processes: no job runs      *)
(* more often than it was put in the queue, one that has ended stays ended, *)
(* and its status is the result of its last run.                            *)
(*                                                                          *)
(* RunsMatchQueued is not inductive: it says nothing of a job that is back  *)
(* in the queue while the worker still holds it.  Credit says that a job in *)
(* the queue, or claimed by the worker, has a run left, and two when it is  *)
(* both.  The other results rest on what this invariant, CountInv, says of  *)
(* the worker and of the commands that are under way.                       *)
(***************************************************************************)
EXTENDS JobQueue, FiniteSetTheorems, TLAPS

\* The thread has a job of the table unless it waits for one.
WorkerHolds ==
    thread \notin {"none", "dead", "idle"} =>
        job \in Jobs /\ status[job] # "absent"

\* A command that is under way is about a job of the table.
CommandHolds ==
    \A c \in Clients : command[c].at # "none" =>
        /\ command[c].job \in Jobs
        /\ status[command[c].job] # "absent"
        /\ command[c].target \in {"QUEUED", "CANCELLED"}

TargetKnown ==
    /\ thread \in {"claim_select", "claim_update"} => target = "RUNNING"
    /\ thread \in {"finish_select", "finish_update"} =>
          target \in {"SUCCEEDED", "WAITING_CONFIRMATION", "FAILED"}

\* What the worker chose can only have been cancelled or queued again since.
ClaimFresh == thread = "claim_select" => status[job] \in {"QUEUED", "CANCELLED"}

Credit ==
    /\ \A j \in Jobs : status[j] = "QUEUED" => runs[j] <= requeues[j]
    /\ thread \in {"claim_update", "run"} => runs[job] <= requeues[job]
    /\ thread = "run" /\ status[job] = "QUEUED" =>
          runs[job] + 1 <= requeues[job]

\* No row, no runs.
NoRowNoRuns == \A j \in Jobs : status[j] = "absent" => runs[j] = 0

CommandRecords ==
    [at : {"none", "select", "update"}, job : Jobs \cup {None},
     target : {"none", "QUEUED", "CANCELLED"}, attempts : Nat]

\* The part of the type invariant the counting rests on.
CountTypeOK ==
    /\ status \in [Jobs -> JobStatus \cup {"absent"}]
    /\ runs \in [Jobs -> Nat]
    /\ requeues \in [Jobs -> Nat]
    /\ thread \in Threads
    /\ command \in [Clients -> CommandRecords]
    /\ attempts \in [Jobs -> Nat]
    /\ readAttempts \in Nat

CountInv ==
    /\ CountTypeOK /\ WorkerHolds /\ CommandHolds /\ TargetKnown
    /\ ClaimFresh /\ RunsMatchQueued /\ Credit /\ NoRowNoRuns

USE DEF rowVars, jobVars, workerVars, historyVars
-----------------------------------------------------------------------------
LEMMA InitCount == Init => CountInv
<1>. SUFFICES ASSUME Init PROVE CountInv
  OBVIOUS
<1>1. CountTypeOK
  BY JobAssumption
     DEF Init, CountTypeOK, JobStatus, Threads, CommandRecords, NoCommand
<1>2. WorkerHolds /\ CommandHolds /\ TargetKnown
  BY DEF Init, WorkerHolds, CommandHolds, TargetKnown, NoCommand
<1>3. ClaimFresh /\ RunsMatchQueued /\ Credit /\ NoRowNoRuns
  BY DEF Init, ClaimFresh, RunsMatchQueued, Credit, NoRowNoRuns
<1>. QED BY <1>1, <1>2, <1>3 DEF CountInv

LEMMA CreateCount ==
    ASSUME CountInv, NEW j \in Jobs, Create(j)
    PROVE  CountInv'
<1>1. /\ status' = [status EXCEPT ![j] = "QUEUED"]
      /\ UNCHANGED <<attempts, thread, job, target, readAttempts, command, runs,
                     requeues>>
      /\ status[j] = "absent" /\ runs[j] = 0
  BY DEF Create, CountInv, NoRowNoRuns
<1>2. CountTypeOK' /\ WorkerHolds' /\ CommandHolds' /\ TargetKnown'
  BY <1>1 DEF CountInv, CountTypeOK, WorkerHolds, CommandHolds, TargetKnown,
              JobStatus
<1>3. RunsMatchQueued' /\ NoRowNoRuns'
  BY <1>1 DEF CountInv, CountTypeOK, RunsMatchQueued, NoRowNoRuns
<1>4. ClaimFresh' /\ Credit'
  BY <1>1 DEF CountInv, CountTypeOK, WorkerHolds, ClaimFresh, Credit
<1>. QED BY <1>2, <1>3, <1>4 DEF CountInv

\* Steps that write no row and run no job.
LEMMA QuietCount ==
    ASSUME CountInv, UNCHANGED <<status, attempts, runs, requeues, command>>,
           readAttempts' \in {readAttempts, 0},
           \/ UNCHANGED <<thread, job, target>>
           \/ thread' \in {"none", "dead", "idle"}
    PROVE  CountInv'
<1>1. CountTypeOK'
  BY DEF CountInv, CountTypeOK, Threads
<1>2. WorkerHolds' /\ CommandHolds' /\ TargetKnown'
  BY DEF CountInv, WorkerHolds, CommandHolds, TargetKnown
<1>3. ClaimFresh' /\ RunsMatchQueued' /\ NoRowNoRuns' /\ Credit'
  BY DEF CountInv, ClaimFresh, RunsMatchQueued, NoRowNoRuns, Credit
<1>. QED BY <1>1, <1>2, <1>3 DEF CountInv

\* An update of a row that has one, by whoever validated it before.
LEMMA UpdateCount ==
    ASSUME CountInv, NEW j \in Jobs, NEW new \in JobStatus, NEW read \in Nat,
           Update(j, new, read), status[j] # "absent"
    PROVE  /\ status' \in [Jobs -> JobStatus \cup {"absent"}]
           /\ attempts' \in [Jobs -> Nat]
           /\ status'[j] = new
           /\ \A i \in Jobs \ {j} : status'[i] = status[i]
           /\ \A i \in Jobs : status'[i] = "absent" => status[i] = "absent"
           /\ \A i \in Jobs : status[i] # "absent" => status'[i] # "absent"
BY DEF CountInv, CountTypeOK, Update, JobStatus

LEMMA NextQueuedCount ==
    ASSUME CountInv, NextQueued
    PROVE  CountInv'
<1>1. PICK j \in Jobs : Due(j) /\ Claims(j)
  BY DEF NextQueued
<1>2. UNCHANGED <<status, attempts, runs, requeues, command, readAttempts>>
  BY DEF NextQueued
<1>3. CountTypeOK' /\ WorkerHolds' /\ CommandHolds' /\ TargetKnown'
  BY <1>1, <1>2 DEF CountInv, CountTypeOK, WorkerHolds, CommandHolds,
                    TargetKnown, Claims, Due, Threads
<1>4. ClaimFresh' /\ RunsMatchQueued' /\ NoRowNoRuns' /\ Credit'
  BY <1>1, <1>2 DEF CountInv, ClaimFresh, RunsMatchQueued, NoRowNoRuns, Credit,
                    Claims, Due
<1>. QED BY <1>3, <1>4 DEF CountInv

LEMMA SelectCount ==
    ASSUME CountInv, ClaimSelect \/ FinishSelect
    PROVE  CountInv'
<1>1. UNCHANGED <<status, attempts, runs, requeues, command>>
  BY DEF ClaimSelect, FinishSelect, WorkerSelects
<1>2. CASE Dies
  BY <1>1, <1>2, QuietCount DEF Dies
<1>3. CASE ~Dies
  <2>1. /\ UNCHANGED <<job, target>>
        /\ target \in ValidTransitions(status[job])
        /\ readAttempts' = attempts[job] /\ job \in Jobs
        /\ \/ thread = "claim_select" /\ thread' = "claim_update"
           \/ thread = "finish_select" /\ thread' = "finish_update"
    BY <1>3 DEF ClaimSelect, FinishSelect, WorkerSelects, CountInv, WorkerHolds
  <2>2. CountTypeOK' /\ WorkerHolds' /\ CommandHolds' /\ TargetKnown'
    BY <1>1, <2>1 DEF CountInv, CountTypeOK, WorkerHolds, CommandHolds,
                      TargetKnown, Threads
  <2>3. ClaimFresh' /\ RunsMatchQueued' /\ NoRowNoRuns'
    BY <1>1, <2>1 DEF CountInv, ClaimFresh, RunsMatchQueued, NoRowNoRuns
  <2>4. thread = "claim_select" => status[job] = "QUEUED"
    BY <2>1 DEF CountInv, TargetKnown, ClaimFresh, ValidTransitions
  <2>5. Credit'
    BY <1>1, <2>1, <2>4 DEF CountInv, WorkerHolds, Credit
  <2>. QED BY <2>2, <2>3, <2>5 DEF CountInv
<1>. QED BY <1>2, <1>3

LEMMA ClaimUpdateCount ==
    ASSUME CountInv, ClaimUpdate
    PROVE  CountInv'
<1>1. /\ job \in Jobs /\ status[job] # "absent" /\ target = "RUNNING"
      /\ runs[job] <= requeues[job] /\ readAttempts \in Nat
  BY DEF ClaimUpdate, CountInv, WorkerHolds, TargetKnown, Credit,
         CountTypeOK
<1>2. /\ thread = "claim_update" /\ thread' = "run"
      /\ UNCHANGED <<job, target, runs, requeues, command, readAttempts>>
      /\ Update(job, "RUNNING", readAttempts)
  BY <1>1 DEF ClaimUpdate
<1>3. /\ status' \in [Jobs -> JobStatus \cup {"absent"}]
      /\ attempts' \in [Jobs -> Nat]
      /\ status'[job] = "RUNNING"
      /\ \A i \in Jobs \ {job} : status'[i] = status[i]
      /\ \A i \in Jobs : status'[i] = "absent" => status[i] = "absent"
      /\ \A i \in Jobs : status[i] # "absent" => status'[i] # "absent"
  BY <1>1, <1>2, UpdateCount DEF JobStatus
<1>4. CountTypeOK' /\ WorkerHolds' /\ CommandHolds' /\ TargetKnown'
  BY <1>1, <1>2, <1>3 DEF CountInv, CountTypeOK, WorkerHolds, CommandHolds,
                          TargetKnown, Threads
<1>5. ClaimFresh' /\ RunsMatchQueued' /\ NoRowNoRuns' /\ Credit'
  BY <1>1, <1>2, <1>3 DEF CountInv, ClaimFresh, RunsMatchQueued, NoRowNoRuns,
                          Credit
<1>. QED BY <1>4, <1>5 DEF CountInv

LEMMA RunCount ==
    ASSUME CountInv, Run
    PROVE  CountInv'
<1>1. /\ thread = "run" /\ thread' = "finish_select"
      /\ job \in Jobs /\ status[job] # "absent"
      /\ UNCHANGED <<status, attempts, requeues, command, job, readAttempts>>
      /\ target' \in {"SUCCEEDED", "WAITING_CONFIRMATION", "FAILED"}
      /\ runs' = [runs EXCEPT ![job] = @ + 1]
  BY DEF Run, StatusAfter, Results, CountInv, WorkerHolds
<1>2. /\ runs' \in [Jobs -> Nat] /\ runs'[job] = runs[job] + 1
      /\ \A i \in Jobs \ {job} : runs'[i] = runs[i]
  BY <1>1 DEF CountInv, CountTypeOK
<1>3. CountTypeOK' /\ WorkerHolds' /\ CommandHolds' /\ TargetKnown'
  BY <1>1, <1>2 DEF CountInv, CountTypeOK, WorkerHolds, CommandHolds,
                    TargetKnown, Threads
<1>4. ClaimFresh' /\ RunsMatchQueued' /\ NoRowNoRuns' /\ Credit'
  BY <1>1, <1>2 DEF CountInv, CountTypeOK, ClaimFresh, RunsMatchQueued,
                    NoRowNoRuns, Credit
<1>. QED BY <1>3, <1>4 DEF CountInv

LEMMA FinishUpdateCount ==
    ASSUME CountInv, FinishUpdate
    PROVE  CountInv'
<1>1. /\ job \in Jobs /\ status[job] # "absent" /\ readAttempts \in Nat
      /\ target \in {"SUCCEEDED", "WAITING_CONFIRMATION", "FAILED"}
      /\ target \in JobStatus
  BY DEF FinishUpdate, CountInv, WorkerHolds, TargetKnown, CountTypeOK,
         JobStatus
<1>2. /\ thread' = "idle" /\ readAttempts' = 0
      /\ UNCHANGED <<runs, requeues, command>>
      /\ Update(job, target, readAttempts)
  BY DEF FinishUpdate
<1>3. /\ status' \in [Jobs -> JobStatus \cup {"absent"}]
      /\ attempts' \in [Jobs -> Nat]
      /\ status'[job] = target
      /\ \A i \in Jobs \ {job} : status'[i] = status[i]
      /\ \A i \in Jobs : status'[i] = "absent" => status[i] = "absent"
      /\ \A i \in Jobs : status[i] # "absent" => status'[i] # "absent"
  BY <1>1, <1>2, UpdateCount
<1>4. CountTypeOK' /\ WorkerHolds' /\ CommandHolds' /\ TargetKnown'
  BY <1>2, <1>3 DEF CountInv, CountTypeOK, WorkerHolds, CommandHolds,
                    TargetKnown, Threads
<1>5. ClaimFresh' /\ RunsMatchQueued' /\ NoRowNoRuns' /\ Credit'
  BY <1>1, <1>2, <1>3 DEF CountInv, ClaimFresh, RunsMatchQueued, NoRowNoRuns,
                          Credit
<1>. QED BY <1>4, <1>5 DEF CountInv

LEMMA BeginCount ==
    ASSUME CountInv, NEW c \in Clients, NEW j \in Jobs,
           NEW new \in {"QUEUED", "CANCELLED"}, Begin(c, j, new)
    PROVE  CountInv'
<1>1. UNCHANGED <<status, attempts, runs, requeues, thread, job, target,
                  readAttempts>>
  BY DEF Begin
<1>2. CountTypeOK' /\ CommandHolds'
  BY <1>1 DEF Begin, CountInv, CountTypeOK, CommandHolds, CommandRecords
<1>3. /\ WorkerHolds' /\ TargetKnown' /\ ClaimFresh'
      /\ RunsMatchQueued' /\ NoRowNoRuns' /\ Credit'
  BY <1>1 DEF CountInv, WorkerHolds, TargetKnown, ClaimFresh, RunsMatchQueued,
              NoRowNoRuns, Credit
<1>. QED BY <1>2, <1>3 DEF CountInv

LEMMA ClientSelectsCount ==
    ASSUME CountInv, NEW c \in Clients, ClientSelects(c)
    PROVE  CountInv'
<1>. DEFINE r == [command[c] EXCEPT !.at = "update",
                                    !.attempts = attempts[command[c].job]]
<1>1. UNCHANGED <<status, attempts, runs, requeues, thread, job, target,
                  readAttempts>>
  BY DEF ClientSelects
<1>2. \/ command' = [command EXCEPT ![c] = NoCommand]
      \/ command' = [command EXCEPT ![c] = r]
  BY DEF ClientSelects
<1>3. command[c].at = "select" /\ command[c].job \in Jobs
  BY DEF ClientSelects, CountInv, CommandHolds
<1>4. attempts[command[c].job] \in Nat
  BY <1>3 DEF CountInv, CountTypeOK
<1>5. ASSUME command' = [command EXCEPT ![c] = NoCommand]
      PROVE  CountTypeOK' /\ CommandHolds'
  <2>1. NoCommand \in CommandRecords /\ NoCommand.at = "none"
    BY DEF CommandRecords, NoCommand
  <2>2. CountTypeOK'
    BY <1>1, <1>5, <2>1 DEF CountInv, CountTypeOK
  <2>3. /\ command'[c] = NoCommand
        /\ \A d \in Clients \ {c} : command'[d] = command[d]
    BY <1>5 DEF CountInv, CountTypeOK
  <2>4. CommandHolds'
    BY <1>1, <2>1, <2>3 DEF CountInv, CommandHolds
  <2>. QED BY <2>2, <2>4
<1>6. ASSUME command' = [command EXCEPT ![c] = r]
      PROVE  CountTypeOK' /\ CommandHolds'
  <2>1. /\ r \in CommandRecords
        /\ r.job = command[c].job /\ r.target = command[c].target
    BY <1>4 DEF CountInv, CountTypeOK, CommandRecords
  <2>. HIDE DEF r
  <2>2. CountTypeOK'
    BY <1>1, <1>6, <2>1 DEF CountInv, CountTypeOK
  <2>3. /\ command'[c] = r
        /\ \A d \in Clients \ {c} : command'[d] = command[d]
    BY <1>6 DEF CountInv, CountTypeOK
  <2>4. /\ command[c].job \in Jobs /\ status[command[c].job] # "absent"
        /\ command[c].target \in {"QUEUED", "CANCELLED"}
    BY <1>3 DEF CountInv, CommandHolds
  <2>5. \A d \in Clients \ {c} : command[d].at # "none" =>
          /\ command[d].job \in Jobs
          /\ status[command[d].job] # "absent"
          /\ command[d].target \in {"QUEUED", "CANCELLED"}
    BY DEF CountInv, CommandHolds
  <2>6. ASSUME NEW d \in Clients, (command[d].at # "none")'
        PROVE  (/\ command[d].job \in Jobs
                /\ status[command[d].job] # "absent"
                /\ command[d].target \in {"QUEUED", "CANCELLED"})'
    <3>1. CASE d = c
      BY <3>1, <1>1, <2>1, <2>3, <2>4
    <3>2. CASE d # c
      BY <3>2, <2>6, <1>1, <2>3, <2>5
    <3>. QED BY <3>1, <3>2
  <2>7. CommandHolds'
    BY <2>6 DEF CommandHolds
  <2>. QED BY <2>2, <2>7
<1>7. /\ WorkerHolds' /\ TargetKnown' /\ ClaimFresh'
      /\ RunsMatchQueued' /\ NoRowNoRuns' /\ Credit'
  BY <1>1 DEF CountInv, WorkerHolds, TargetKnown, ClaimFresh, RunsMatchQueued,
              NoRowNoRuns, Credit
<1>. QED BY <1>2, <1>5, <1>6, <1>7 DEF CountInv

LEMMA ClientUpdatesCount ==
    ASSUME CountInv, NEW c \in Clients, ClientUpdates(c)
    PROVE  CountInv'
<1>. DEFINE j == command[c].job
            new == command[c].target
<1>1. /\ j \in Jobs /\ status[j] # "absent" /\ new \in {"QUEUED", "CANCELLED"}
      /\ command[c].attempts \in Nat
  BY DEF ClientUpdates, CountInv, CommandHolds, CountTypeOK, CommandRecords
<1>2. /\ UNCHANGED <<thread, job, target, readAttempts, runs>>
      /\ Update(j, new, command[c].attempts)
      /\ requeues' = [requeues EXCEPT ![j] = IF new = "QUEUED" THEN @ + 1 ELSE @]
      /\ command' = [command EXCEPT ![c] = NoCommand]
  BY DEF ClientUpdates
<1>3. /\ status' \in [Jobs -> JobStatus \cup {"absent"}]
      /\ attempts' \in [Jobs -> Nat]
      /\ status'[j] = new
      /\ \A i \in Jobs \ {j} : status'[i] = status[i]
      /\ \A i \in Jobs : status'[i] = "absent" => status[i] = "absent"
      /\ \A i \in Jobs : status[i] # "absent" => status'[i] # "absent"
  BY <1>1, <1>2, UpdateCount DEF JobStatus
<1>4. /\ requeues' \in [Jobs -> Nat]
      /\ \A i \in Jobs \ {j} : requeues'[i] = requeues[i]
      /\ requeues'[j] = IF new = "QUEUED" THEN requeues[j] + 1 ELSE requeues[j]
  BY <1>1, <1>2 DEF CountInv, CountTypeOK
<1>5. CountTypeOK' /\ WorkerHolds' /\ CommandHolds' /\ TargetKnown'
  BY <1>1, <1>2, <1>3, <1>4
     DEF CountInv, CountTypeOK, WorkerHolds, CommandHolds, TargetKnown,
         CommandRecords, NoCommand
<1>. HIDE DEF j, new
<1>6. ClaimFresh'
  BY <1>1, <1>2, <1>3 DEF CountInv, ClaimFresh, WorkerHolds
<1>7. RunsMatchQueued' /\ NoRowNoRuns' /\ Credit'
  BY <1>1, <1>2, <1>3, <1>4
     DEF CountInv, CountTypeOK, WorkerHolds, RunsMatchQueued, NoRowNoRuns, Credit
<1>. QED BY <1>5, <1>6, <1>7 DEF CountInv
-----------------------------------------------------------------------------
LEMMA NextCount == CountInv /\ [Next]_vars => CountInv'
<1>. SUFFICES ASSUME CountInv, [Next]_vars PROVE CountInv'
  OBVIOUS
<1>1. ASSUME NEW j \in Jobs, Create(j) PROVE CountInv'
  BY <1>1, CreateCount
<1>2. ASSUME SchedulerStep PROVE CountInv'
  <2>1. CASE NextQueued
    BY <2>1, NextQueuedCount
  <2>2. CASE ClaimSelect \/ FinishSelect
    BY <2>2, SelectCount
  <2>3. CASE ClaimUpdate
    BY <2>3, ClaimUpdateCount
  <2>4. CASE Run
    BY <2>4, RunCount
  <2>5. CASE NotifyFails
    BY <2>5, QuietCount DEF NotifyFails, Dies
  <2>6. CASE FinishUpdate
    BY <2>6, FinishUpdateCount
  <2>7. CASE LoopEnds
    BY <2>7, QuietCount DEF LoopEnds
  <2>. QED BY <1>2, <2>1, <2>2, <2>3, <2>4, <2>5, <2>6, <2>7 DEF SchedulerStep
<1>3. ASSUME NEW c \in Clients, ClientStep(c) PROVE CountInv'
  BY <1>3, ClientSelectsCount, ClientUpdatesCount DEF ClientStep
<1>4. ASSUME NEW c \in Clients, NEW j \in Jobs,
             JobsRetry(c, j) \/ JobsCancel(c, j)
      PROVE  CountInv'
  BY <1>4, BeginCount DEF JobsRetry, JobsCancel
<1>5. CASE Tick \/ StopGateway \/ UNCHANGED vars
  BY <1>5, QuietCount DEF Tick, StopGateway, vars
<1>6. CASE StartGateway \/ ExitGateway
  BY <1>6, QuietCount DEF StartGateway, ExitGateway
<1>. QED BY <1>1, <1>2, <1>3, <1>4, <1>5, <1>6 DEF Next

LEMMA CountInvariant == Spec => []CountInv
BY InitCount, NextCount, PTL DEF Spec

\* A job runs at most once for each time it was put in the queue: however
\* many processes retry and cancel it between the two halves of a transition
\* of the worker, and wherever the gateway is killed.
THEOREM NeverRunsTwice == Spec => []RunsMatchQueued
<1>1. CountInv => RunsMatchQueued
  BY DEF CountInv
<1>. QED BY <1>1, CountInvariant, PTL
-----------------------------------------------------------------------------
(* A job that has ended stays ended.                                        *)

LEMMA EndedStep ==
    ASSUME CountInv, [Next]_vars, NEW j \in Jobs,
           status[j] \in TerminalStatuses, ~InFlight(j)
    PROVE  status'[j] = status[j] /\ ~InFlight(j)'
<1>. USE DEF TerminalStatuses
<1>1. ValidTransitions(status[j]) = {}
  BY DEF ValidTransitions
<1>2. ASSUME UNCHANGED <<status, thread, job, command>>
      PROVE  status'[j] = status[j] /\ ~InFlight(j)'
  BY <1>2 DEF InFlight
<1>3. ASSUME NEW i \in Jobs, Create(i)
      PROVE  status'[j] = status[j] /\ ~InFlight(j)'
  <2>1. i # j /\ status' = [status EXCEPT ![i] = "QUEUED"]
    BY <1>3 DEF Create
  <2>2. UNCHANGED <<thread, job, command>>
    BY <1>3 DEF Create
  <2>. QED BY <2>1, <2>2 DEF CountInv, CountTypeOK, InFlight
<1>4. ASSUME SchedulerStep
      PROVE  status'[j] = status[j] /\ ~InFlight(j)'
  <2>0. UNCHANGED command
    BY <1>4 DEF SchedulerStep, NextQueued, ClaimSelect, FinishSelect,
                WorkerSelects, ClaimUpdate, Run, NotifyFails, FinishUpdate,
                LoopEnds
  <2>1. CASE NextQueued \/ Run \/ NotifyFails \/ LoopEnds
    <3>1. UNCHANGED status /\ thread' \notin {"claim_update", "finish_update"}
      BY <2>1 DEF NextQueued, Claims, Run, NotifyFails, Dies, LoopEnds
    <3>. QED BY <3>1, <2>0 DEF InFlight
  <2>2. CASE ClaimSelect \/ FinishSelect
    <3>1. UNCHANGED <<status, job>>
      BY <2>2 DEF ClaimSelect, FinishSelect, WorkerSelects, Dies
    <3>2. job = j => thread' = "dead"
      BY <2>2, <1>1 DEF ClaimSelect, FinishSelect, WorkerSelects, Dies
    <3>. QED BY <3>1, <3>2, <2>0 DEF InFlight
  <2>3. CASE ClaimUpdate \/ FinishUpdate
    <3>1. /\ job # j /\ thread' \in {"run", "idle"}
          /\ status' = [status EXCEPT ![job] = target]
      BY <2>3 DEF ClaimUpdate, FinishUpdate, Update, InFlight
    <3>. QED BY <3>1, <2>0 DEF CountInv, CountTypeOK, InFlight
  <2>. QED BY <1>4, <2>1, <2>2, <2>3 DEF SchedulerStep
<1>5. ASSUME NEW c \in Clients,
             \/ ClientStep(c)
             \/ \E i \in Jobs : JobsRetry(c, i) \/ JobsCancel(c, i)
      PROVE  status'[j] = status[j] /\ ~InFlight(j)'
  <2>1. UNCHANGED <<thread, job>>
    BY <1>5 DEF ClientStep, ClientSelects, ClientUpdates, JobsRetry, JobsCancel,
                Begin
  <2>2. CASE \E i \in Jobs : JobsRetry(c, i) \/ JobsCancel(c, i)
    <3>1. /\ UNCHANGED status
          /\ \E r : r.at = "select" /\ command' = [command EXCEPT ![c] = r]
      BY <2>2 DEF JobsRetry, JobsCancel, Begin
    <3>. QED BY <3>1, <2>1 DEF InFlight, CountInv, CountTypeOK
  <2>3. CASE ClientSelects(c)
    <3>1. /\ UNCHANGED status
          /\ \A d \in Clients \ {c} : command'[d] = command[d]
      BY <2>3 DEF ClientSelects, CountInv, CountTypeOK
    <3>2. CASE command[c].job = j
      <4>1. command' = [command EXCEPT ![c] = NoCommand]
        BY <2>3, <3>2, <1>1 DEF ClientSelects
      <4>2. command'[c].at = "none"
        BY <4>1 DEF NoCommand, CountInv, CountTypeOK
      <4>. QED BY <4>2, <3>1, <2>1 DEF InFlight
    <3>3. CASE command[c].job # j
      <4>1. command'[c].at = "none" \/ command'[c].job = command[c].job
        BY <2>3 DEF ClientSelects, NoCommand, CountInv, CountTypeOK,
                    CommandRecords
      <4>. QED BY <4>1, <3>1, <3>3, <2>1 DEF InFlight
    <3>. QED BY <3>2, <3>3
  <2>4. CASE ClientUpdates(c)
    <3>1. /\ command[c].job # j
          /\ status' = [status EXCEPT ![command[c].job] = command[c].target]
          /\ command' = [command EXCEPT ![c] = NoCommand]
      BY <2>4 DEF ClientUpdates, Update, InFlight
    <3>. QED BY <3>1, <2>1 DEF InFlight, NoCommand, CountInv, CountTypeOK
  <2>. QED BY <1>5, <2>2, <2>3, <2>4 DEF ClientStep
<1>6. CASE Tick \/ StartGateway \/ StopGateway \/ ExitGateway
  <2>1. /\ UNCHANGED <<status, command>>
        /\ UNCHANGED <<thread, job>> \/ thread' \in {"idle", "none"}
    BY <1>6 DEF Tick, StartGateway, StopGateway, ExitGateway
  <2>. QED BY <2>1 DEF InFlight
<1>7. CASE UNCHANGED vars
  BY <1>2, <1>7 DEF vars
<1>. QED BY <1>3, <1>4, <1>5, <1>6, <1>7 DEF Next

\* A job that has ended stays ended, however many commands are under way,
\* unless a transition validated before its end is still to be written.
THEOREM EndedStaysEnded == Spec => EndedUnlessRaced
<1>1. CountInv /\ [Next]_vars
        => [\A j \in Jobs : status[j] \in TerminalStatuses /\ ~InFlight(j)
              => status'[j] = status[j] /\ ~InFlight(j)']_vars
  BY EndedStep
<1>. QED BY <1>1, CountInvariant, PTL DEF Spec, EndedUnlessRaced
-----------------------------------------------------------------------------
(* The status of a job that has ended is the result of its last run.        *)
(*                                                                          *)
(* What the property leaves out is the run that has not been written: while *)
(* the worker has the job, only commands write its row, and what the worker *)
(* is about to write is the result of the run.                              *)

Written == {"RUNNING", "QUEUED", "CANCELLED"}

RunInHand ==
    /\ thread \in {"run", "finish_select", "finish_update"} =>
          status[job] \in Written
    /\ thread \in {"finish_select", "finish_update"} =>
          lastRun[job] # "none" /\ target = StatusAfter(lastRun[job])

ResultInv ==
    /\ lastRun \in [Jobs -> Results]
    /\ StatusMatchesLastRun
    /\ RunInHand

LEMMA InitResult == Init => ResultInv
BY DEF Init, ResultInv, StatusMatchesLastRun, RunInHand, Results

\* Steps that write no row and no result, and give the worker no new job.
LEMMA QuietResult ==
    ASSUME ResultInv, UNCHANGED <<status, lastRun>>,
           \/ UNCHANGED <<thread, job, target>>
           \/ thread' \in {"none", "dead", "idle", "claim_select", "claim_update"}
           \/ /\ thread = "finish_select" /\ thread' = "finish_update"
              /\ UNCHANGED <<job, target>>
    PROVE  ResultInv'
BY DEF ResultInv, StatusMatchesLastRun, RunInHand

\* A command writes QUEUED or CANCELLED, wherever the worker is.
LEMMA CommandResult ==
    ASSUME CountInv, ResultInv, NEW c \in Clients, ClientUpdates(c)
    PROVE  ResultInv'
<1>. DEFINE j == command[c].job
<1>1. j \in Jobs /\ command[c].target \in {"QUEUED", "CANCELLED"}
  BY DEF ClientUpdates, CountInv, CommandHolds
<1>2. UNCHANGED <<thread, job, target, lastRun>>
  BY DEF ClientUpdates
<1>3. /\ status'[j] \in {"QUEUED", "CANCELLED"}
      /\ \A i \in Jobs \ {j} : status'[i] = status[i]
  BY <1>1 DEF ClientUpdates, Update, CountInv, CountTypeOK
<1>. HIDE DEF j
<1>4. StatusMatchesLastRun'
  BY <1>1, <1>2, <1>3 DEF ResultInv, StatusMatchesLastRun
<1>5. RunInHand'
  BY <1>1, <1>2, <1>3
     DEF ResultInv, RunInHand, Written, CountInv, WorkerHolds
<1>. QED BY <1>2, <1>4, <1>5 DEF ResultInv

LEMMA RunResult ==
    ASSUME CountInv, ResultInv, Run
    PROVE  ResultInv'
<1>1. /\ thread = "run" /\ thread' = "finish_select" /\ job \in Jobs
      /\ UNCHANGED <<status, job>>
  BY DEF Run, CountInv, WorkerHolds
<1>2. PICK result \in Results \ {"none"} :
        /\ lastRun' = [lastRun EXCEPT ![job] = result]
        /\ target' = StatusAfter(result)
  BY DEF Run, Results
<1>3. /\ lastRun' \in [Jobs -> Results] /\ lastRun'[job] = result
      /\ \A i \in Jobs \ {job} : lastRun'[i] = lastRun[i]
  BY <1>1, <1>2 DEF ResultInv
<1>4. StatusMatchesLastRun'
  BY <1>1, <1>3 DEF ResultInv, StatusMatchesLastRun, RunInHand, Written
<1>5. RunInHand'
  BY <1>1, <1>2, <1>3 DEF ResultInv, RunInHand
<1>. QED BY <1>3, <1>4, <1>5 DEF ResultInv

LEMMA UpdateResult ==
    ASSUME CountInv, ResultInv, ClaimUpdate \/ FinishUpdate
    PROVE  ResultInv'
<1>1. /\ job \in Jobs /\ UNCHANGED lastRun
      /\ status' = [status EXCEPT ![job] = target]
  BY DEF ClaimUpdate, FinishUpdate, Update, CountInv, WorkerHolds
<1>2. /\ status'[job] = target
      /\ \A i \in Jobs \ {job} : status'[i] = status[i]
  BY <1>1 DEF CountInv, CountTypeOK
<1>3. CASE ClaimUpdate
  <2>1. target = "RUNNING" /\ thread' = "run" /\ UNCHANGED job
    BY <1>3 DEF ClaimUpdate, CountInv, TargetKnown
  <2>2. StatusMatchesLastRun' /\ RunInHand'
    BY <1>1, <1>2, <2>1
       DEF ResultInv, StatusMatchesLastRun, RunInHand, Written
  <2>. QED BY <1>1, <2>2 DEF ResultInv
<1>4. CASE FinishUpdate
  <2>1. /\ thread' = "idle" /\ lastRun[job] \in Results \ {"none"}
        /\ target = StatusAfter(lastRun[job])
    BY <1>1, <1>4 DEF FinishUpdate, ResultInv, RunInHand
  <2>2. /\ target = "SUCCEEDED" => lastRun[job] = "ok"
        /\ target = "FAILED" => lastRun[job] \in {"refused", "raised"}
        /\ target = "WAITING_CONFIRMATION" => lastRun[job] = "waiting"
    BY <2>1 DEF StatusAfter, Results
  <2>3. StatusMatchesLastRun' /\ RunInHand'
    BY <1>1, <1>2, <2>1, <2>2 DEF ResultInv, StatusMatchesLastRun, RunInHand
  <2>. QED BY <1>1, <2>3 DEF ResultInv
<1>. QED BY <1>3, <1>4

LEMMA NextResult == CountInv /\ ResultInv /\ [Next]_vars => ResultInv'
<1>. SUFFICES ASSUME CountInv, ResultInv, [Next]_vars PROVE ResultInv'
  OBVIOUS
<1>1. ASSUME NEW j \in Jobs, Create(j) PROVE ResultInv'
  <2>1. /\ status[j] = "absent" /\ UNCHANGED <<thread, job, target, lastRun>>
        /\ status' = [status EXCEPT ![j] = "QUEUED"]
    BY <1>1 DEF Create
  <2>2. StatusMatchesLastRun' /\ RunInHand'
    BY <2>1 DEF ResultInv, StatusMatchesLastRun, RunInHand, CountInv,
                CountTypeOK, WorkerHolds, Written
  <2>. QED BY <2>1, <2>2 DEF ResultInv
<1>2. ASSUME SchedulerStep PROVE ResultInv'
  <2>1. CASE NextQueued \/ NotifyFails \/ LoopEnds
    BY <2>1, QuietResult DEF NextQueued, Claims, NotifyFails, Dies, LoopEnds
  <2>2. CASE ClaimSelect \/ FinishSelect
    BY <2>2, QuietResult DEF ClaimSelect, FinishSelect, WorkerSelects, Dies
  <2>3. CASE ClaimUpdate \/ FinishUpdate
    BY <2>3, UpdateResult
  <2>4. CASE Run
    BY <2>4, RunResult
  <2>. QED BY <1>2, <2>1, <2>2, <2>3, <2>4 DEF SchedulerStep
<1>3. ASSUME NEW c \in Clients,
             \/ ClientStep(c)
             \/ \E j \in Jobs : JobsRetry(c, j) \/ JobsCancel(c, j)
      PROVE  ResultInv'
  <2>1. CASE ClientUpdates(c)
    BY <2>1, CommandResult
  <2>2. CASE \/ ClientSelects(c)
             \/ \E j \in Jobs : JobsRetry(c, j) \/ JobsCancel(c, j)
    BY <2>2, QuietResult DEF ClientSelects, JobsRetry, JobsCancel, Begin
  <2>. QED BY <1>3, <2>1, <2>2 DEF ClientStep
<1>4. CASE Tick \/ StartGateway \/ StopGateway \/ ExitGateway \/ UNCHANGED vars
  BY <1>4, QuietResult DEF Tick, StartGateway, StopGateway, ExitGateway, vars
<1>. QED BY <1>1, <1>2, <1>3, <1>4 DEF Next

\* What a job is said to have ended with is what its last run returned, and
\* not what an earlier run, or a command in between, left in the row.
THEOREM StatusIsLastResult == Spec => []StatusMatchesLastRun
<1>1. Init => CountInv /\ ResultInv
  BY InitCount, InitResult
<1>2. CountInv /\ ResultInv /\ [Next]_vars => (CountInv /\ ResultInv)'
  BY NextCount, NextResult
<1>3. ResultInv => StatusMatchesLastRun
  BY DEF ResultInv
<1>. QED BY <1>1, <1>2, <1>3, PTL DEF Spec
-----------------------------------------------------------------------------
(* The type invariant.                                                      *)

LEMMA CreatedType ==
    ASSUME NEW S, S \subseteq Jobs
    PROVE  Cardinality(S) \in Nat
BY JobAssumption, FS_Subset, FS_CardinalityType

LEMMA CreateType ==
    ASSUME TypeOK, NEW j \in Jobs, Create(j)
    PROVE  TypeOK'
<1>1. PICK k \in Kinds, d \in Delays :
        /\ kind' = [kind EXCEPT ![j] = k]
        /\ at' = [at EXCEPT ![j] = now + d]
  BY DEF Create
<1>2. now + d \in Nat
  BY JobAssumption DEF TypeOK
<1>3. Cardinality({i \in Jobs : status[i] # "absent"}) \in Nat
  BY CreatedType
<1>4. created' \in [Jobs -> Nat]
  BY <1>3 DEF Create, TypeOK
<1>5. /\ kind' \in [Jobs -> Kinds \cup {"none"}] /\ at' \in [Jobs -> Nat]
      /\ status' \in [Jobs -> JobStatus \cup {"absent"}]
  BY <1>1, <1>2 DEF Create, TypeOK, JobStatus
<1>. QED BY <1>4, <1>5 DEF Create, TypeOK

\* Update of a row of the table, with the attempts of a record.
LEMMA UpdateType ==
    ASSUME TypeOK, NEW j \in Jobs, NEW new \in JobStatus, NEW read \in Nat,
           Update(j, new, read)
    PROVE  /\ status' \in [Jobs -> JobStatus \cup {"absent"}]
           /\ attempts' \in [Jobs -> Nat]
           /\ error' \in [Jobs -> BOOLEAN]
BY DEF TypeOK, Update

LEMMA SchedulerType ==
    ASSUME TypeOK, CountInv, SchedulerStep
    PROVE  TypeOK'
<1>1. CASE NextQueued
  BY <1>1 DEF NextQueued, Claims, TypeOK, Threads, JobStatus
<1>2. CASE ClaimSelect \/ FinishSelect
  <2>1. job \in Jobs
    BY <1>2 DEF ClaimSelect, FinishSelect, WorkerSelects, CountInv, WorkerHolds
  <2>2. thread' \in Threads /\ readAttempts' \in Nat /\ UNCHANGED <<job, target>>
    BY <1>2, <2>1 DEF ClaimSelect, FinishSelect, WorkerSelects, Dies, TypeOK,
                      Threads
  <2>. QED BY <1>2, <2>2 DEF ClaimSelect, FinishSelect, WorkerSelects, TypeOK
<1>3. CASE ClaimUpdate \/ FinishUpdate
  <2>1. /\ job \in Jobs /\ target \in JobStatus /\ readAttempts \in Nat
        /\ Update(job, target, readAttempts)
    BY <1>3 DEF ClaimUpdate, FinishUpdate, CountInv, WorkerHolds, TargetKnown,
                JobStatus, TypeOK
  <2>2. /\ status' \in [Jobs -> JobStatus \cup {"absent"}]
        /\ attempts' \in [Jobs -> Nat] /\ error' \in [Jobs -> BOOLEAN]
    BY <2>1, UpdateType
  <2>3. /\ thread' \in Threads /\ job' \in Jobs \cup {None}
        /\ target' \in JobStatus \cup {"none"} /\ readAttempts' \in Nat
    BY <1>3 DEF ClaimUpdate, FinishUpdate, TypeOK, Threads
  <2>. QED BY <1>3, <2>2, <2>3 DEF ClaimUpdate, FinishUpdate, TypeOK
<1>4. CASE Run
  <2>1. PICK result \in Results \ {"none"} :
          /\ lastRun' = [lastRun EXCEPT ![job] = result]
          /\ target' = StatusAfter(result)
    BY <1>4 DEF Run, Results
  <2>2. target' \in JobStatus
    BY <2>1 DEF StatusAfter, Results, JobStatus
  <2>3. job \in Jobs
    BY <1>4 DEF Run, CountInv, WorkerHolds
  <2>4. lastRun' \in [Jobs -> Results]
    BY <2>1, <2>3 DEF TypeOK
  <2>5. runs' \in [Jobs -> Nat]
    BY <1>4, <2>3 DEF Run, TypeOK
  <2>. QED BY <1>4, <2>2, <2>4, <2>5 DEF Run, TypeOK, Threads
<1>5. CASE NotifyFails \/ LoopEnds
  BY <1>5 DEF NotifyFails, LoopEnds, Dies, TypeOK, Threads
<1>. QED BY <1>1, <1>2, <1>3, <1>4, <1>5 DEF SchedulerStep

LEMMA ClientType ==
    ASSUME TypeOK, CountInv, CountInv', NEW c \in Clients,
           \/ ClientStep(c)
           \/ \E j \in Jobs : JobsRetry(c, j) \/ JobsCancel(c, j)
    PROVE  TypeOK'
<1>1. command' \in [Clients -> [at : {"none", "select", "update"},
                                job : Jobs \cup {None},
                                target : {"none", "QUEUED", "CANCELLED"},
                                attempts : Nat]]
  BY DEF CountInv, CountTypeOK, CommandRecords
<1>2. requeues' \in [Jobs -> Nat]
  BY DEF CountInv, CountTypeOK
<1>3. CASE ClientUpdates(c)
  <2>1. /\ command[c].job \in Jobs /\ command[c].target \in JobStatus
        /\ command[c].attempts \in Nat
    BY <1>3 DEF ClientUpdates, CountInv, CommandHolds, CountTypeOK,
                CommandRecords, JobStatus
  <2>2. /\ status' \in [Jobs -> JobStatus \cup {"absent"}]
        /\ attempts' \in [Jobs -> Nat] /\ error' \in [Jobs -> BOOLEAN]
    BY <1>3, <2>1, UpdateType DEF ClientUpdates
  <2>. QED BY <1>1, <1>2, <1>3, <2>2 DEF ClientUpdates, TypeOK
<1>4. CASE ClientSelects(c)
  BY <1>1, <1>4 DEF ClientSelects, TypeOK
<1>5. CASE \E j \in Jobs : JobsRetry(c, j) \/ JobsCancel(c, j)
  BY <1>1, <1>5 DEF JobsRetry, JobsCancel, Begin, TypeOK
<1>. QED BY <1>3, <1>4, <1>5 DEF ClientStep

\* The type invariant.
THEOREM TypeCorrect == Spec => []TypeOK
<1>1. Init => TypeOK
  BY JobAssumption DEF Init, TypeOK, Threads, NoCommand, Results, JobStatus
<1>2. TypeOK /\ CountInv /\ CountInv' /\ [Next]_vars => TypeOK'
  <2>. SUFFICES ASSUME TypeOK, CountInv, CountInv', [Next]_vars PROVE TypeOK'
    OBVIOUS
  <2>1. ASSUME NEW j \in Jobs, Create(j) PROVE TypeOK'
    BY <2>1, CreateType
  <2>2. CASE SchedulerStep
    BY <2>2, SchedulerType
  <2>3. ASSUME NEW c \in Clients,
               \/ ClientStep(c)
               \/ \E j \in Jobs : JobsRetry(c, j) \/ JobsCancel(c, j)
        PROVE  TypeOK'
    BY <2>3, ClientType
  <2>4. CASE Tick \/ StartGateway \/ StopGateway \/ ExitGateway
    BY <2>4 DEF Tick, StartGateway, StopGateway, ExitGateway, TypeOK, Threads
  <2>5. CASE UNCHANGED vars
    BY <2>5 DEF vars, TypeOK
  <2>. QED BY <2>1, <2>2, <2>3, <2>4, <2>5 DEF Next
<1>. QED BY <1>1, <1>2, CountInvariant, PTL DEF Spec
=============================================================================
