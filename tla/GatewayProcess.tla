--------------------------- MODULE GatewayProcess ---------------------------
(***************************************************************************)
(* One gateway in the background: how `argos start`, `stop` and `status`   *)
(* find it, and what two of them leave behind.                             *)
(*                                                                         *)
(*   gateway/process.py    the pid file, start, stop, status, serve        *)
(*   gateway/auth.py       the token file                                   *)
(*   gateway/app.py        the scheduler starts with the application       *)
(*   jobs/scheduler.py, jobs/worker.py, jobs/repository.py                 *)
(*                         the thread of each gateway, over one table      *)
(*   cli.py                the commands                                     *)
(*                                                                         *)
(* The commands take no lock.  The application starts its scheduler before *)
(* the server binds its port, so a gateway that loses the port has had a    *)
(* scheduler: JobQueue is about one scheduler, this module about two.       *)
(***************************************************************************)
EXTENDS Naturals, FiniteSets

CONSTANTS
    Commands,   \* processes of the command line
    Pids,       \* process ids of the system, which it uses again
    None

ASSUME GatewayProcessAssumption ==
    None # "empty" /\ Pids \cap {"empty", None} = {}

VARIABLES
    pidFile,    \* gateway.pid: a pid, "empty", or None when there is no file
    pidTmp,     \* gateway.pid.tmp, which all starts share
    token,      \* whether the token file exists
    tokenTmp,   \* whether its temporary file exists
    gateway,    \* per pid: what the process of that pid is doing
    thread,     \* per pid: its scheduler thread
    job,        \* the status of one job of the table
    command,    \* per command line process: its command and where it is
    runs,       \* history: how often the job was run
    stray,      \* history: gateways that live and whose start met another
                \* command or was interrupted
    crowded,    \* history: one came to the token file while another was making
                \* it, and some of them are not done, or run without the file
    contested   \* history: a scheduler picked the job that another had picked

fileVars    == <<pidFile, pidTmp>>
tokenVars   == <<token, tokenTmp>>
gatewayVars == <<gateway, thread>>
jobVars     == <<job, runs>>
pastVars    == <<stray, crowded, contested>>
vars == <<fileVars, tokenVars, gatewayVars, jobVars, command, pastVars>>

Contents == Pids \cup {"empty", None}

GatewayStates ==
    {"none", "foreign", "loading", "token_write", "token_replace",
     "token_harden", "token_undo", "starting", "binding", "serving",
     "stopping"}

\* A process that is a gateway.
Live(g) == gateway[g] \notin {"none", "foreign"}

Threads == {"none", "idle", "picked", "selected", "running", "finishing"}

\* met: history, of a start that has not spawned: it met another command.
NoCommand == [name |-> "none", at |-> "none", pid |-> None, fd |-> "none",
              met |-> FALSE]

TypeOK ==
    /\ pidFile \in Contents
    /\ pidTmp \in Contents
    /\ token \in BOOLEAN
    /\ tokenTmp \in BOOLEAN
    /\ gateway \in [Pids -> GatewayStates]
    /\ thread \in [Pids -> Threads]
    /\ job \in {"none", "QUEUED", "RUNNING", "SUCCEEDED"}
    /\ command \in
          [Commands ->
              [name : {"none", "start", "stop"},
               at : {"none", "exists", "read", "probe", "unlink", "spawn",
                     "open", "write", "replace", "kill", "poll",
                     "unlink_stopped"},
               pid : Pids \cup {None},
               fd : {"none", "tmp", "pid", "gone"},
               met : BOOLEAN]]
    /\ runs \in Nat
    /\ stray \in SUBSET Pids
    /\ crowded \in BOOLEAN
    /\ contested \in BOOLEAN

Init ==
    /\ pidFile = None
    /\ pidTmp = None
    /\ token = FALSE
    /\ tokenTmp = FALSE
    /\ gateway = [g \in Pids |-> "none"]
    /\ thread = [g \in Pids |-> "none"]
    /\ job = "none"
    /\ command = [c \in Commands |-> NoCommand]
    /\ runs = 0
    /\ stray = {}
    /\ crowded = FALSE
    /\ contested = FALSE
-----------------------------------------------------------------------------
(* The command line.                                                       *)

GoesTo(c, at) == command' = [command EXCEPT ![c].at = at]

Ends(c) == command' = [command EXCEPT ![c] = NoCommand]

\* What the file descriptor of a write in progress points at, when the
\* pid file is unlinked, and when the temporary file takes its place.
Unlinked(fd) == IF fd = "pid" THEN "gone" ELSE fd
Replaced(fd) == IF fd = "tmp" THEN "pid" ELSE Unlinked(fd)

\* pid_file.unlink(missing_ok=True), then the command goes on at `next`.
UnlinkPid(c, next) ==
    /\ pidFile' = None
    /\ command' = [x \in Commands |->
           LET moved == [command[x] EXCEPT !.fd = Unlinked(@)] IN
           IF x # c THEN moved
           ELSE IF next = "none" THEN NoCommand ELSE [moved EXCEPT !.at = next]]

Busy(c) == command[c].name # "none"

\* A start that has not written the pid of its gateway yet.
Recording(c) == command[c].at \in {"open", "write", "replace"}
Records(c, g) == Recording(c) /\ command[c].pid = g

\* `argos start` and `argos stop`; a command that only asks for the status is
\* a stop that is interrupted before it kills.
Begin(c, name) ==
    LET others == {d \in Commands \ {c} : Busy(d)}
        starts == {d \in others : command[d].name = "start"}
    IN  /\ ~Busy(c)
        /\ command' = [x \in Commands |->
              IF x = c
              THEN [NoCommand EXCEPT !.name = name, !.at = "exists",
                                     !.met = name = "start" /\ others # {}]
              ELSE [command[x] EXCEPT
                      !.met = @ \/ (x \in starts /\ ~Recording(x))]]
        /\ stray' = stray \cup {g \in Pids : /\ Live(g)
                                           /\ \E d \in starts : Records(d, g)}
        /\ UNCHANGED <<fileVars, tokenVars, gatewayVars, jobVars, crowded,
                       contested>>

\* What follows status() when nothing runs.
WhenStopped(c) == IF command[c].name = "start" THEN "spawn" ELSE "none"

\* Seeded fault: start does not look whether a gateway runs.
WhenRunning_Starts(c) == IF command[c].name = "start" THEN "spawn" ELSE "kill"

\* What follows status() when a gateway runs.
WhenRunning(c) == IF command[c].name = "stop" THEN "kill" ELSE "none"

Continue(c, next) == IF next = "none" THEN Ends(c) ELSE GoesTo(c, next)

\* The command goes on without the pid it has read.
Forgets(c, at) ==
    command' = [command EXCEPT ![c].at = at, ![c].pid = None]

\* _read_pid: the file is looked for,
FindPid(c) ==
    /\ command[c].at = "exists"
    /\ IF pidFile = None THEN Continue(c, WhenStopped(c)) ELSE GoesTo(c, "read")
    /\ UNCHANGED <<fileVars, tokenVars, gatewayVars, jobVars, pastVars>>

\* and read; one that is gone by now, or is not a number, is to be removed.
ReadPid(c) ==
    /\ command[c].at = "read"
    /\ IF pidFile \in Pids
       THEN command' = [command EXCEPT ![c].at = "probe", ![c].pid = pidFile]
       ELSE Forgets(c, "unlink")
    /\ UNCHANGED <<fileVars, tokenVars, gatewayVars, jobVars, pastVars>>

\* _process_exists, of whatever process has that id.
Probe(c) ==
    /\ command[c].at = "probe"
    /\ IF gateway[command[c].pid] # "none"
       THEN Continue(c, WhenRunning(c))
       ELSE Forgets(c, "unlink")
    /\ UNCHANGED <<fileVars, tokenVars, gatewayVars, jobVars, pastVars>>

\* The pid file is removed, by status or by _read_pid, whatever it holds now.
UnlinkStale(c) ==
    /\ command[c].at = "unlink"
    /\ UnlinkPid(c, WhenStopped(c))
    /\ UNCHANGED <<pidTmp, tokenVars, gatewayVars, jobVars, pastVars>>

\* process_spawner: a new process, with an id no process has.
Spawn(c) ==
    /\ command[c].at = "spawn"
    /\ \E g \in Pids :
          /\ gateway[g] = "none"
          /\ gateway' = [gateway EXCEPT ![g] = "loading"]
          /\ command' = [command EXCEPT ![c].at = "open", ![c].pid = g,
                                        ![c].met = FALSE]
          /\ stray' = IF command[c].met THEN stray \cup {g} ELSE stray
    /\ UNCHANGED <<fileVars, tokenVars, thread, jobVars, crowded, contested>>

\* _write_pid: write_text opens the temporary file, which empties it,
OpenTmp(c) ==
    /\ command[c].at = "open"
    /\ pidTmp' = "empty"
    /\ command' = [command EXCEPT ![c].at = "write", ![c].fd = "tmp"]
    /\ UNCHANGED <<pidFile, tokenVars, gatewayVars, jobVars, pastVars>>

\* writes to the file it has opened, wherever that file is by now,
WriteTmp(c) ==
    /\ command[c].at = "write"
    /\ pidTmp' = IF command[c].fd = "tmp" THEN command[c].pid ELSE pidTmp
    /\ pidFile' = IF command[c].fd = "pid" THEN command[c].pid ELSE pidFile
    /\ command' = [command EXCEPT ![c].at = "replace", ![c].fd = "none"]
    /\ UNCHANGED <<tokenVars, gatewayVars, jobVars, pastVars>>

\* and the temporary file replaces the pid file; it raises when another
\* start has moved it.
ReplacePid(c) ==
    /\ command[c].at = "replace"
    /\ IF pidTmp = None
       THEN Ends(c) /\ UNCHANGED fileVars
       ELSE /\ pidFile' = pidTmp
            /\ pidTmp' = None
            /\ command' = [x \in Commands |->
                  IF x = c THEN NoCommand
                  ELSE [command[x] EXCEPT !.fd = Replaced(@)]]
    /\ UNCHANGED <<tokenVars, gatewayVars, jobVars, pastVars>>

\* The gateway makes the token file, or gives it up.
Making(g) ==
    gateway[g] \in {"token_write", "token_replace", "token_harden",
                   "token_undo"}

\* History: g is done with the token file.  The crowd lasts while another makes
\* the file, or runs without it.
Disperses(g) ==
    crowded' = (crowded /\ \E h \in Pids \ {g} :
                              Live(h) /\ (token' => Making(h)))

\* A process ends, and its threads with it.
Dies(g) ==
    /\ gateway' = [gateway EXCEPT ![g] = "none"]
    /\ thread' = [thread EXCEPT ![g] = "none"]
    /\ stray' = stray \ {g}
    /\ Disperses(g)

\* os.kill(SIGTERM): a gateway that has come to its server shuts down in
\* order, one that is still loading ends at once, and so does any on Windows.
Terminated(g) ==
    \/ /\ gateway[g] \in {"binding", "serving", "stopping"}
       /\ gateway' = [gateway EXCEPT ![g] = "stopping"]
       /\ UNCHANGED <<thread, stray, crowded>>
    \/ Dies(g)

Kill(c) ==
    /\ command[c].at = "kill"
    /\ UNCHANGED <<fileVars, tokenVars, jobVars, contested>>
    /\ IF gateway[command[c].pid] = "none"
       THEN Ends(c) /\ UNCHANGED <<gatewayVars, stray, crowded>>
       ELSE GoesTo(c, "poll") /\ Terminated(command[c].pid)

\* Seeded fault: stop removes the pid file without waiting for the process.
Poll_DoesNotWait(c) ==
    /\ command[c].at = "poll"
    /\ Forgets(c, "unlink_stopped")
    /\ UNCHANGED <<fileVars, tokenVars, gatewayVars, jobVars, pastVars>>

\* The process is gone; it is not gone after ten seconds.
Poll(c) ==
    /\ command[c].at = "poll"
    /\ IF gateway[command[c].pid] = "none"
       THEN Forgets(c, "unlink_stopped")
       ELSE Ends(c)
    /\ UNCHANGED <<fileVars, tokenVars, gatewayVars, jobVars, pastVars>>

UnlinkStopped(c) ==
    /\ command[c].at = "unlink_stopped"
    /\ UnlinkPid(c, "none")
    /\ UNCHANGED <<pidTmp, tokenVars, gatewayVars, jobVars, pastVars>>

\* The terminal is closed, or the command interrupted.  A start that has
\* spawned a gateway has not written its pid.
Interrupted(c) ==
    /\ Busy(c)
    /\ Ends(c)
    /\ stray' = stray \cup {g \in Pids : Live(g) /\ Records(c, g)}
    /\ UNCHANGED <<fileVars, tokenVars, gatewayVars, jobVars, crowded,
                   contested>>

Command(c) ==
    \/ \E name \in {"start", "stop"} : Begin(c, name)
    \/ FindPid(c) \/ ReadPid(c) \/ Probe(c) \/ UnlinkStale(c) \/ Spawn(c)
    \/ OpenTmp(c) \/ WriteTmp(c) \/ ReplacePid(c)
    \/ Kill(c) \/ Poll(c) \/ UnlinkStopped(c) \/ Interrupted(c)
-----------------------------------------------------------------------------
(* The gateway: serve().                                                   *)

Becomes(g, state) == gateway' = [gateway EXCEPT ![g] = state]

\* LocalTokenStore.get_or_create: the file is there,
FindToken(g) ==
    /\ gateway[g] = "loading"
    /\ Becomes(g, IF token THEN "starting" ELSE "token_write")
    /\ crowded' = (crowded \/ \E h \in Pids : Making(h))
    /\ UNCHANGED <<fileVars, tokenVars, thread, jobVars, command, stray,
                   contested>>

\* or is written to a temporary file that every gateway shares,
WriteToken(g) ==
    /\ gateway[g] = "token_write"
    /\ tokenTmp' = TRUE
    /\ Becomes(g, "token_replace")
    /\ UNCHANGED <<fileVars, token, thread, jobVars, command, pastVars>>

ReplaceToken(g) ==
    /\ gateway[g] = "token_replace"
    /\ Becomes(g, IF tokenTmp THEN "token_harden" ELSE "token_undo")
    /\ token' = (token \/ tokenTmp)
    /\ tokenTmp' = FALSE
    /\ UNCHANGED <<fileVars, thread, jobVars, command, pastVars>>

\* Seeded fault: a token that cannot be protected is used all the same.
HardenToken_Ignored(g) ==
    /\ gateway[g] = "token_harden"
    /\ \/ Becomes(g, "starting") /\ UNCHANGED token
       \/ Becomes(g, "starting") /\ token' = FALSE
    /\ UNCHANGED <<fileVars, tokenTmp, thread, jobVars, command, pastVars>>

\* and protected, which fails when the file is gone or the system refuses.
HardenToken(g) ==
    /\ gateway[g] = "token_harden"
    /\ UNCHANGED <<fileVars, tokenVars, thread, jobVars, command, stray,
                   contested>>
    /\ \/ token /\ Becomes(g, "starting") /\ Disperses(g)
       \/ Becomes(g, "token_undo") /\ UNCHANGED crowded

\* On an OSError both files are removed and the process ends.
UndoToken(g) ==
    /\ gateway[g] = "token_undo"
    /\ token' = FALSE
    /\ tokenTmp' = FALSE
    /\ Dies(g)
    /\ UNCHANGED <<fileVars, jobVars, command, contested>>

\* The lifespan of the application starts the scheduler.
StartScheduler(g) ==
    /\ gateway[g] = "starting"
    /\ Becomes(g, "binding")
    /\ thread' = [thread EXCEPT ![g] = "idle"]
    /\ UNCHANGED <<fileVars, tokenVars, jobVars, command, pastVars>>

\* The server binds its port, unless another process has it.
Bind(g) ==
    /\ gateway[g] = "binding"
    /\ \/ /\ \A h \in Pids : gateway[h] # "serving"
          /\ Becomes(g, "serving")
       \/ Becomes(g, "stopping")
    /\ UNCHANGED <<fileVars, tokenVars, thread, jobVars, command, pastVars>>

\* The lifespan ends: it waits five seconds at most for the scheduler, a
\* daemon thread that ends with the process.
Exit(g) ==
    /\ gateway[g] = "stopping"
    /\ UNCHANGED <<fileVars, tokenVars, jobVars, command, contested>>
    /\ Dies(g)

\* The process is killed, or serve() raises before the server runs.
Crash(g) ==
    /\ Live(g)
    /\ UNCHANGED <<fileVars, tokenVars, jobVars, command, contested>>
    /\ Dies(g)

\* A process that has nothing to do with Argos gets the id, and ends.
Foreign(g) ==
    /\ \/ gateway[g] = "none" /\ Becomes(g, "foreign")
       \/ gateway[g] = "foreign" /\ Becomes(g, "none")
    /\ UNCHANGED <<fileVars, tokenVars, thread, jobVars, command, pastVars>>

Gateway(g) ==
    \/ FindToken(g) \/ WriteToken(g) \/ ReplaceToken(g) \/ HardenToken(g)
    \/ UndoToken(g) \/ StartScheduler(g) \/ Bind(g) \/ Exit(g) \/ Crash(g)
    \/ Foreign(g)
-----------------------------------------------------------------------------
(* The scheduler threads and one job, the transitions as in JobQueue.      *)

Goes(g, at) == thread' = [thread EXCEPT ![g] = at]

CreateJob ==
    /\ job = "none"
    /\ job' = "QUEUED"
    /\ UNCHANGED <<fileVars, tokenVars, gatewayVars, runs, command, pastVars>>

\* The thread works on the job it has found in the queue.
InHand(g) == thread[g] \notin {"none", "idle"}

\* next_queued
Pick(g) ==
    /\ thread[g] = "idle"
    /\ job = "QUEUED"
    /\ Goes(g, "picked")
    /\ contested' = (contested \/ \E h \in Pids : InHand(h))
    /\ UNCHANGED <<fileVars, tokenVars, gateway, jobVars, command, stray,
                   crowded>>

\* transition(RUNNING): the SELECT; ValueError ends the thread.
Select(g) ==
    /\ thread[g] = "picked"
    /\ Goes(g, IF job = "QUEUED" THEN "selected" ELSE "none")
    /\ UNCHANGED <<fileVars, tokenVars, gateway, jobVars, command, pastVars>>

\* Seeded fault: the claim is not written.
Claim_NotWritten(g) ==
    /\ thread[g] = "selected"
    /\ Goes(g, "running")
    /\ UNCHANGED <<fileVars, tokenVars, gateway, jobVars, command, pastVars>>

\* transition(RUNNING): the UPDATE, which has no condition.
Claim(g) ==
    /\ thread[g] = "selected"
    /\ job' = "RUNNING"
    /\ Goes(g, "running")
    /\ UNCHANGED <<fileVars, tokenVars, gateway, runs, command, pastVars>>

\* The reminder is shown, or the request handled.
Run(g) ==
    /\ thread[g] = "running"
    /\ runs' = runs + 1
    /\ Goes(g, "finishing")
    /\ UNCHANGED <<fileVars, tokenVars, gateway, job, command, pastVars>>

\* transition(SUCCEEDED); it raises when the job has left RUNNING.
Finish(g) ==
    /\ thread[g] = "finishing"
    /\ IF job = "RUNNING" THEN job' = "SUCCEEDED" /\ Goes(g, "idle")
       ELSE Goes(g, "none") /\ UNCHANGED job
    /\ UNCHANGED <<fileVars, tokenVars, gateway, runs, command, pastVars>>

Scheduler(g) == Pick(g) \/ Select(g) \/ Claim(g) \/ Run(g) \/ Finish(g)

Next ==
    \/ \E c \in Commands : Command(c)
    \/ \E g \in Pids : Gateway(g) \/ Scheduler(g)
    \/ CreateJob

Spec == Init /\ [][Next]_vars
-----------------------------------------------------------------------------
(* What holds.                                                             *)

\* A gateway whose start was left to itself is the one the pid file names, or
\* the one whose pid that start is about to write: stop and status can reach
\* it, whatever was started beside other gateways, or interrupted.
OneOwner ==
    \A g \in Pids \ stray :
        Live(g) => \/ pidFile = g
                   \/ \E c \in Commands : Recording(c) /\ command[c].pid = g

\* When stop reports that the gateway has ended, the gateways that are left are
\* those whose start met another command or was interrupted.
StopEnds ==
    \A c \in Commands :
        command[c].at = "unlink_stopped" => \A g \in Pids \ stray : ~Live(g)

\* A gateway that serves has the token file its clients and its own checks
\* read, unless one came to the file while another was making it.
TokenThere == crowded \/ \A g \in Pids : gateway[g] = "serving" => token

\* The job is run once although each scheduler claims with a SELECT and an
\* unconditional UPDATE, unless one picks the job while another has it in hand;
\* a gateway killed between claim and result does not hand it to the next.
JobRunOnce == contested \/ runs <= 1
-----------------------------------------------------------------------------
(* What does not.                                                          *)

\* "`argos stop` encerra o processo e remove PID obsoleto", the gateway's
\* plan: after a stop no gateway runs.
StopEndsAlways ==
    \A c \in Commands :
        command[c].at = "unlink_stopped" => \A g \in Pids : ~Live(g)

\* "executar um unico Argos em segundo plano", the platform roadmap: there
\* is one scheduler.
OneArgos == Cardinality({g \in Pids : thread[g] # "none"}) <= 1

\* A job runs once, without the proviso.
JobRunOnceAlways == runs <= 1
=============================================================================
