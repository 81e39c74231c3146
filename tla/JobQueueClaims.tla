--------------------------- MODULE JobQueueClaims ---------------------------
(***************************************************************************)
(* Statements the plans, the tests and the comments make about the job     *)
(* queue and the code does not keep.  Each is refuted by one TLC run; the   *)
(* line it restates is named with it.  Plan is docs/superpowers/plans/      *)
(* 2026-06-07-argos-jobs-phase-2-start.md.                                  *)
(***************************************************************************)
EXTENDS JobQueue

\* tests/jobs/test_repository.py:62, test_repository_enforces_valid_transitions,
\* and Plan:45: a job only ever takes a transition of VALID_TRANSITIONS.
TransitionsEnforced ==
    [][\A j \in Jobs :
         status[j] # "absent" /\ status'[j] # status[j]
            => status'[j] \in ValidTransitions(status[j])]_vars

\* Plan:114, "scheduler executa jobs vencidos sem depender da CLI aberta": a
\* job that is due does not stay in the queue, commands or not.
DueJobExecuted == \A j \in Jobs : Due(j) ~> status[j] # "QUEUED"

\* Plan:60, "argos jobs cancel <id> cancela jobs ainda nao terminais".
CancelAccepted ==
    [][\A c \in Clients :
         /\ command[c].at = "select"
         /\ command[c].target = "CANCELLED"
         /\ status[command[c].job] \notin TerminalStatuses
         => command'[c].at \in {"select", "update"}]_vars

\* docs/superpowers/plans/2026-06-06-argos-resident-platform-roadmap.md:231,
\* "tarefas assincronas, agendadas e recuperaveis": a job that is running when
\* the gateway dies does not stay so.
RunningRecovered ==
    \A j \in Jobs : status[j] = "RUNNING" ~> status[j] # "RUNNING"
=============================================================================
