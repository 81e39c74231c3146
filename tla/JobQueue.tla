------------------------------ MODULE JobQueue ------------------------------
(***************************************************************************)
(* The persistent job queue: reminders and requests wait in a SQLite table,*)
(* the scheduler thread of the gateway runs the ones that are due, one at a *)
(* time, and command line processes retry or cancel them.                   *)
(*                                                                         *)
(*   jobs/models.py, jobs/repository.py   the table and its transitions     *)
(*   jobs/worker.py, jobs/scheduler.py    the scheduler thread              *)
(*   cli.py, execution/executor.py        who retries, cancels and creates  *)
(*                                                                         *)
(* JobRepository.transition reads the record, validates the transition and *)
(* then updates the row without a condition.  Its lock is one of the        *)
(* connection, so between the two another process can write the same row:   *)
(* the read and the update are two steps here.                              *)
(***************************************************************************)
EXTENDS Naturals, FiniteSets

CONSTANTS
    Jobs,         \* the job ids uuid4 will hand out
    Clients,      \* command line processes
    Kinds,        \* kinds of jobs that are created
    Delays,       \* how far ahead a job is scheduled
    MaxTime,      \* bound: the clock
    MaxRequeues,  \* bound: retries of one job
    MaxRestarts,  \* bound: how often the gateway stops or is killed
    LogMayFail,   \* whether writing notifications.log can raise
    None

ASSUME JobAssumption ==
    /\ IsFiniteSet(Jobs)
    /\ Kinds \subseteq {"reminder", "request"}
    /\ Delays \subseteq Nat
    /\ MaxTime \in Nat
    /\ MaxRequeues \in Nat
    /\ MaxRestarts \in Nat
    /\ LogMayFail \in BOOLEAN
    /\ None \notin Jobs

JobStatus ==
    {"QUEUED", "RUNNING", "WAITING_CONFIRMATION", "SUCCEEDED", "FAILED",
     "CANCELLED", "CANCELLING"}

TerminalStatuses == {"SUCCEEDED", "CANCELLED"}

\* Seeded fault: a cancelled job can be queued again.
ValidTransitions_Revives(current) ==
    CASE current = "QUEUED"    -> {"RUNNING", "CANCELLED"}
      [] current = "RUNNING"   -> {"WAITING_CONFIRMATION", "SUCCEEDED",
                                   "FAILED", "CANCELLING"}
      [] current = "FAILED"    -> {"QUEUED", "CANCELLED"}
      [] current = "CANCELLED" -> {"QUEUED"}
      [] OTHER                 -> {}

\* VALID_TRANSITIONS
ValidTransitions(current) ==
    CASE current = "QUEUED"     -> {"RUNNING", "CANCELLED"}
      [] current = "RUNNING"    -> {"WAITING_CONFIRMATION", "SUCCEEDED",
                                    "FAILED", "CANCELLING"}
      [] current = "WAITING_CONFIRMATION" -> {"RUNNING", "CANCELLED", "FAILED"}
      [] current = "FAILED"     -> {"QUEUED", "CANCELLED"}
      [] current = "CANCELLING" -> {"CANCELLED"}
      [] OTHER                  -> {}

VARIABLES
    status,      \* jobs.status; "absent" when there is no row
    kind,        \* payload["type"]
    at,          \* COALESCE(scheduled_for, created_at)
    created,     \* the order of created_at
    attempts,    \* jobs.attempts
    error,       \* whether jobs.last_error is set
    now,
    gateway,     \* the gateway process: "down", "up" or "stopping"
    restarts,
    thread,      \* the scheduler thread: where it is
    job,         \* the job it works on
    target,      \* the status it is about to give it
    readAttempts,\* the attempts its last SELECT returned
    command,     \* per client: the command it runs and where it is
    runs,        \* history: how often a job was handled or notified
    requeues,    \* history: how often a retry put it back in the queue
    lastRun      \* history: the result of the last run

rowVars     == <<status, attempts, error>>
jobVars     == <<kind, at, created>>
workerVars  == <<thread, job, target, readAttempts>>
historyVars == <<runs, requeues, lastRun>>
vars == <<rowVars, jobVars, now, gateway, restarts, workerVars, command,
          historyVars>>

Threads ==
    {"none", "dead", "idle", "claim_select", "claim_update", "run",
     "finish_select", "finish_update"}

Results == {"none", "ok", "waiting", "refused", "raised"}

NoCommand == [at |-> "none", job |-> None, target |-> "none", attempts |-> 0]

TypeOK ==
    /\ status \in [Jobs -> JobStatus \cup {"absent"}]
    /\ kind \in [Jobs -> Kinds \cup {"none"}]
    /\ at \in [Jobs -> Nat]
    /\ created \in [Jobs -> Nat]
    /\ attempts \in [Jobs -> Nat]
    /\ error \in [Jobs -> BOOLEAN]
    /\ now \in Nat
    /\ gateway \in {"down", "up", "stopping"}
    /\ restarts \in Nat
    /\ thread \in Threads
    /\ job \in Jobs \cup {None}
    /\ target \in JobStatus \cup {"none"}
    /\ readAttempts \in Nat
    /\ command \in [Clients -> [at : {"none", "select", "update"},
                                job : Jobs \cup {None},
                                target : {"none", "QUEUED", "CANCELLED"},
                                attempts : Nat]]
    /\ runs \in [Jobs -> Nat]
    /\ requeues \in [Jobs -> Nat]
    /\ lastRun \in [Jobs -> Results]

Init ==
    /\ status = [j \in Jobs |-> "absent"]
    /\ kind = [j \in Jobs |-> "none"]
    /\ at = [j \in Jobs |-> 0]
    /\ created = [j \in Jobs |-> 0]
    /\ attempts = [j \in Jobs |-> 0]
    /\ error = [j \in Jobs |-> FALSE]
    /\ now = 0
    /\ gateway = "down"
    /\ restarts = 0
    /\ thread = "none"
    /\ job = None
    /\ target = "none"
    /\ readAttempts = 0
    /\ command = [c \in Clients |-> NoCommand]
    /\ runs = [j \in Jobs |-> 0]
    /\ requeues = [j \in Jobs |-> 0]
    /\ lastRun = [j \in Jobs |-> "none"]
-----------------------------------------------------------------------------
(* The table.                                                              *)

\* JobRepository.create, called by schedule_reminder.
Create(j) ==
    /\ status[j] = "absent"
    /\ \E k \in Kinds, d \in Delays :
          /\ now + d <= MaxTime
          /\ kind' = [kind EXCEPT ![j] = k]
          /\ at' = [at EXCEPT ![j] = now + d]
    /\ created' = [created EXCEPT ![j] =
                     Cardinality({i \in Jobs : status[i] # "absent"})]
    /\ status' = [status EXCEPT ![j] = "QUEUED"]
    /\ UNCHANGED <<attempts, error, now, gateway, restarts, workerVars,
                   command, historyVars>>

\* The UPDATE of transition: attempts come from the record read before.
Update(j, new, read) ==
    /\ status' = [status EXCEPT ![j] = new]
    /\ attempts' = [attempts EXCEPT ![j] =
                      IF new = "RUNNING" THEN read + 1 ELSE read]
    /\ error' = [error EXCEPT ![j] = (new = "FAILED")]

\* WHERE status = 'queued' AND scheduled_for <= now
Due(j) == status[j] = "QUEUED" /\ at[j] <= now

\* ORDER BY COALESCE(scheduled_for, created_at), created_at
Before(i, j) == at[i] < at[j] \/ (at[i] = at[j] /\ created[i] < created[j])

-----------------------------------------------------------------------------
(* The scheduler thread: JobScheduler._run_loop and JobWorker.run_once.     *)

\* An exception nothing catches ends the thread; the gateway stays up.
Dies ==
    /\ thread' = "dead"
    /\ UNCHANGED <<job, target, readAttempts>>

Claims(j) == job' = j /\ thread' = "claim_select" /\ target' = "RUNNING"

\* Seeded fault: the loop ends when it finds no job that is due.
NextQueued_EndsWhenEmpty ==
    /\ thread = "idle" /\ gateway = "up"
    /\ \/ \E j \in Jobs : Due(j) /\ Claims(j)
       \/ /\ \A j \in Jobs : ~Due(j)
          /\ thread' = "none"
          /\ UNCHANGED <<job, target>>
    /\ UNCHANGED <<rowVars, jobVars, now, gateway, restarts, readAttempts,
                   command, historyVars>>

\* next_queued: the oldest job that is due, if any.
NextQueued ==
    /\ thread = "idle" /\ gateway = "up"
    /\ \E j \in Jobs : /\ Due(j)
                       /\ \A i \in Jobs : Due(i) => ~Before(i, j)
                       /\ Claims(j)
    /\ UNCHANGED <<rowVars, jobVars, now, gateway, restarts, readAttempts,
                   command, historyVars>>

\* The SELECT of transition and ensure_valid_transition.
WorkerSelects(from, next) ==
    /\ thread = from
    /\ \/ /\ target \in ValidTransitions(status[job])
          /\ readAttempts' = attempts[job]
          /\ thread' = next
          /\ UNCHANGED <<job, target>>
       \/ target \notin ValidTransitions(status[job]) /\ Dies
    /\ UNCHANGED <<rowVars, jobVars, now, gateway, restarts, command,
                   historyVars>>

ClaimSelect  == WorkerSelects("claim_select", "claim_update")
FinishSelect == WorkerSelects("finish_select", "finish_update")

\* Seeded fault: the claim is not written.
ClaimUpdate_NotWritten ==
    /\ thread = "claim_update"
    /\ thread' = "run"
    /\ UNCHANGED <<rowVars, jobVars, now, gateway, restarts, job, target,
                   readAttempts, command, historyVars>>

ClaimUpdate ==
    /\ thread = "claim_update"
    /\ Update(job, target, readAttempts)
    /\ thread' = "run"
    /\ UNCHANGED <<jobVars, now, gateway, restarts, job, target, readAttempts,
                   command, historyVars>>

\* Seeded fault: a response that is not ok counts as a success.
StatusAfter_IgnoresOk(result) ==
    CASE result = "waiting" -> "WAITING_CONFIRMATION"
      [] result = "raised"  -> "FAILED"
      [] OTHER              -> "SUCCEEDED"

\* The status run_once gives the job for what the run returned.
StatusAfter(result) ==
    CASE result = "ok"      -> "SUCCEEDED"
      [] result = "waiting" -> "WAITING_CONFIRMATION"
      [] result = "refused" -> "FAILED"
      [] result = "raised"  -> "FAILED"

\* service.handle, or the notification of a reminder.
Run ==
    /\ thread = "run"
    /\ \E result \in IF kind[job] = "reminder" THEN {"ok"}
                     ELSE Results \ {"none"} :
          /\ lastRun' = [lastRun EXCEPT ![job] = result]
          /\ target' = StatusAfter(result)
    /\ runs' = [runs EXCEPT ![job] = @ + 1]
    /\ thread' = "finish_select"
    /\ UNCHANGED <<rowVars, jobVars, now, gateway, restarts, job, readAttempts,
                   command, requeues>>

\* _notify_reminder is outside the try: notifications.log cannot be written.
NotifyFails ==
    /\ thread = "run"
    /\ LogMayFail
    /\ kind[job] = "reminder"
    /\ Dies
    /\ UNCHANGED <<rowVars, jobVars, now, gateway, restarts, command,
                   historyVars>>

FinishUpdate ==
    /\ thread = "finish_update"
    /\ Update(job, target, readAttempts)
    /\ thread' = "idle"
    /\ job' = None
    /\ target' = "none"
    /\ readAttempts' = 0
    /\ UNCHANGED <<jobVars, now, gateway, restarts, command, historyVars>>

\* stop_event is looked at between two jobs.
LoopEnds ==
    /\ thread = "idle" /\ gateway = "stopping"
    /\ thread' = "none"
    /\ UNCHANGED <<rowVars, jobVars, now, gateway, restarts, job, target,
                   readAttempts, command, historyVars>>
-----------------------------------------------------------------------------
(* argos jobs retry and argos jobs cancel, each a process of its own.       *)

Begin(c, j, new) ==
    /\ command[c].at = "none"
    /\ status[j] # "absent"
    /\ command' = [command EXCEPT ![c] =
                     [at |-> "select", job |-> j, target |-> new,
                      attempts |-> 0]]
    /\ UNCHANGED <<rowVars, jobVars, now, gateway, restarts, workerVars,
                   historyVars>>

JobsRetry(c, j)  == requeues[j] < MaxRequeues /\ Begin(c, j, "QUEUED")
JobsCancel(c, j) == Begin(c, j, "CANCELLED")

\* An invalid transition ends the command with a message.
ClientSelects(c) ==
    LET j == command[c].job
    IN  /\ command[c].at = "select"
        /\ command' = [command EXCEPT ![c] =
                         IF command[c].target \in ValidTransitions(status[j])
                         THEN [@ EXCEPT !.at = "update",
                                        !.attempts = attempts[j]]
                         ELSE NoCommand]
        /\ UNCHANGED <<rowVars, jobVars, now, gateway, restarts, workerVars,
                       historyVars>>

ClientUpdates(c) ==
    LET j == command[c].job
        new == command[c].target
    IN  /\ command[c].at = "update"
        /\ Update(j, new, command[c].attempts)
        /\ requeues' = [requeues EXCEPT ![j] =
                          IF new = "QUEUED" THEN @ + 1 ELSE @]
        /\ command' = [command EXCEPT ![c] = NoCommand]
        /\ UNCHANGED <<jobVars, now, gateway, restarts, workerVars, runs,
                       lastRun>>
-----------------------------------------------------------------------------
(* Time and the gateway process.                                           *)

Tick ==
    /\ now < MaxTime
    /\ now' = now + 1
    /\ UNCHANGED <<rowVars, jobVars, gateway, restarts, workerVars, command,
                   historyVars>>

\* The lifespan of the application starts the scheduler.
StartGateway ==
    /\ gateway = "down"
    /\ gateway' = "up"
    /\ thread' = "idle"
    /\ UNCHANGED <<rowVars, jobVars, now, restarts, job, target, readAttempts,
                   command, historyVars>>

\* Its end sets stop_event and joins the thread, for five seconds at most.
StopGateway ==
    /\ gateway = "up"
    /\ restarts < MaxRestarts
    /\ restarts' = restarts + 1
    /\ gateway' = "stopping"
    /\ UNCHANGED <<rowVars, jobVars, now, workerVars, command, historyVars>>

\* The process ends, or is killed; a daemon thread ends with it wherever it is.
ExitGateway ==
    /\ \/ gateway = "stopping" /\ UNCHANGED restarts
       \/ /\ gateway = "up" /\ restarts < MaxRestarts
          /\ restarts' = restarts + 1
    /\ gateway' = "down"
    /\ thread' = "none"
    /\ job' = None
    /\ target' = "none"
    /\ readAttempts' = 0
    /\ UNCHANGED <<rowVars, jobVars, now, command, historyVars>>
-----------------------------------------------------------------------------
SchedulerStep ==
    \/ NextQueued \/ ClaimSelect \/ ClaimUpdate \/ Run \/ NotifyFails
    \/ FinishSelect \/ FinishUpdate \/ LoopEnds

ClientStep(c) == ClientSelects(c) \/ ClientUpdates(c)

Next ==
    \/ \E j \in Jobs : Create(j)
    \/ SchedulerStep
    \/ \E c \in Clients :
          ClientStep(c) \/ \E j \in Jobs : JobsRetry(c, j) \/ JobsCancel(c, j)
    \/ Tick \/ StartGateway \/ StopGateway \/ ExitGateway

Spec == Init /\ [][Next]_vars

\* The thread runs while there is something for it to do, commands finish,
\* time passes and a gateway that is down is started again.
Fairness ==
    /\ WF_vars(SchedulerStep)
    /\ \A c \in Clients : WF_vars(ClientStep(c))
    /\ WF_vars(Tick)
    /\ WF_vars(StartGateway)
    /\ WF_vars(gateway = "stopping" /\ ExitGateway)

FairSpec == Spec /\ Fairness
-----------------------------------------------------------------------------
(* What the queue promises.                                                *)

\* A job runs at most once for each time it was put in the queue, whatever
\* commands interleave with the worker and wherever the gateway is killed
\* (next_queued, the claim by the transition to RUNNING).
RunsMatchQueued == \A j \in Jobs : runs[j] <= 1 + requeues[j]

\* The status a job ends with is that of its last run: SUCCEEDED and FAILED
\* are never left over from an earlier one (run_once).
StatusMatchesLastRun ==
    \A j \in Jobs :
        /\ status[j] = "SUCCEEDED" => lastRun[j] = "ok"
        /\ status[j] = "FAILED" => lastRun[j] \in {"refused", "raised"}
        /\ status[j] = "WAITING_CONFIRMATION" => lastRun[j] = "waiting"

\* A transition has been validated and not yet written.
InFlight(j) ==
    \/ thread \in {"claim_update", "finish_update"} /\ job = j
    \/ \E c \in Clients : command[c].at = "update" /\ command[c].job = j

\* A job that has ended stays ended for good, unless a transition that was
\* validated before it ended is still to be written: no later command and no
\* step of the worker is let through (TERMINAL_STATUSES, transition).
EndedUnlessRaced ==
    [][\A j \in Jobs : status[j] \in TerminalStatuses /\ ~InFlight(j)
         => status'[j] = status[j] /\ ~InFlight(j)']_vars

\* A job that is due leaves the queue in the end, whatever the other jobs and
\* the commands do, unless an error has ended the thread (JobScheduler).
DueJobTakenUp ==
    \A j \in Jobs : Due(j) ~> (status[j] # "QUEUED" \/ thread = "dead")
=============================================================================
