---------------------------- MODULE WorkflowRuns ----------------------------
(***************************************************************************)
(* ADW workflows: declarative automations that a user generates, validates, *)
(* approves and enables, and that run step by step under a policy.          *)
(*                                                                         *)
(*   workflows/models.py, repository.py   rows and the allowed transitions  *)
(*   workflows/engine.py, cli.py          the commands                      *)
(*   workflows/validator.py, policies.py  verdicts over a definition        *)
(*   workflows/runner.py                  one run                           *)
(*                                                                         *)
(* Every command is a process of its own on a shared SQLite file.           *)
(* update_workflow_status reads the row, validates the transition and       *)
(* updates the row unconditionally: two steps here.                         *)
(***************************************************************************)
EXTENDS Naturals, Sequences

CONSTANTS
    Workflows,    \* workflow ids
    Definitions,  \* what the planner may return: steps and max_steps
    Runs,         \* the run ids uuid4 will hand out
    Clients,      \* command line processes
    None

Decisions == {"ALLOW", "CONFIRM", "BLOCKED"}

Uses == {"noop", "notification.send", "files.inspect",
         "files.suggest_destination", "workflow.ask_confirmation",
         "files.move", "files.write", "shell.run", "unknown"}

\* WorkflowStep, with what the policy of the workflow declares of its action
\* and whether its command matches a destructive pattern.
Step == [uses : Uses, declared : Decisions \cup {"none"}, asks : BOOLEAN,
         continues : BOOLEAN, destructive : BOOLEAN]

ASSUME WorkflowAssumption ==
    /\ Definitions \subseteq [steps : Seq(Step), maxSteps : Nat]
    /\ None \notin Runs \cup Workflows \cup Definitions

WorkflowStatus == {"DRAFT", "VALIDATED", "APPROVED", "ENABLED", "DISABLED",
                   "REJECTED", "ARCHIVED"}

RunStatus == {"PENDING", "RUNNING", "WAITING_APPROVAL", "SUCCEEDED", "FAILED",
              "CANCELLED", "BLOCKED"}

\* WORKFLOW_TRANSITIONS
WorkflowTransitions(current) ==
    CASE current = "DRAFT"     -> {"VALIDATED", "REJECTED", "ARCHIVED"}
      [] current = "VALIDATED" -> {"APPROVED", "REJECTED", "ARCHIVED"}
      [] current = "APPROVED"  -> {"ENABLED", "REJECTED", "ARCHIVED"}
      [] current = "ENABLED"   -> {"DISABLED", "ARCHIVED"}
      [] current = "DISABLED"  -> {"ENABLED", "ARCHIVED"}
      [] current = "REJECTED"  -> {"ARCHIVED"}
      [] OTHER                 -> {}
-----------------------------------------------------------------------------
(* The verdicts.                                                           *)

\* MINIMUM_POLICY; an action it does not list is blocked.
MinimumPolicy(uses) ==
    CASE uses \in {"noop", "notification.send", "files.inspect",
                   "files.suggest_destination"}             -> "ALLOW"
      [] uses \in {"workflow.ask_confirmation", "files.move",
                   "files.write", "shell.run"}              -> "CONFIRM"
      [] OTHER                                              -> "BLOCKED"

\* _DECISION_RANK
Rank(decision) ==
    CASE decision = "ALLOW"   -> 0
      [] decision = "CONFIRM" -> 1
      [] decision = "BLOCKED" -> 2

\* max by rank
Stricter(d, e) == IF Rank(d) >= Rank(e) THEN d ELSE e

\* Seeded fault: what the workflow declares replaces the minimum.
Evaluate_DeclaredOnly(step) ==
    IF step.declared = "none" THEN MinimumPolicy(step.uses) ELSE step.declared

\* WorkflowPolicyEvaluator.evaluate
Evaluate(step) ==
    LET minimum  == MinimumPolicy(step.uses)
        declared == IF step.declared = "none" THEN minimum ELSE step.declared
        decision == Stricter(minimum, declared)
    IN  CASE step.uses = "shell.run" /\ step.destructive -> "BLOCKED"
          [] step.asks /\ decision = "ALLOW"             -> "CONFIRM"
          [] OTHER                                       -> decision

\* WorkflowValidator._step_findings finds nothing in this step.
StepValid(step) ==
    /\ step.uses # "unknown"
    /\ step.uses = "files.move" => step.asks /\ step.declared = "CONFIRM"
    /\ ~(step.uses = "shell.run" /\ step.destructive)

\* WorkflowValidator.validate: the findings that depend on the definition.
Valid(def) ==
    /\ def.steps # <<>>
    /\ \A i \in DOMAIN def.steps : StepValid(def.steps[i])
    /\ Len(def.steps) <= def.maxSteps

\* build_local_workflow_handlers
Registered == {"noop", "notification.send", "files.inspect",
               "files.suggest_destination", "workflow.ask_confirmation",
               "files.move"}
-----------------------------------------------------------------------------
VARIABLES
    status,     \* workflows.status; "absent" when there is no row
    definition, \* workflows.spec_json; never updated
    stamped,    \* which of approved_at and enabled_at are set
    process,    \* what each process is doing
    runOf,      \* workflow_runs.workflow_id; None when there is no row
    runStatus,  \* workflow_runs.status
    rows,       \* the statuses of the run's workflow_run_steps, in order
    confirmed,  \* history: the steps of a run the user has said yes to
    handled     \* history: the steps of a run whose handler was called

workflowVars == <<status, definition, stamped>>
runVars      == <<runOf, runStatus, rows>>
historyVars  == <<confirmed, handled>>
vars == <<workflowVars, process, runVars, historyVars>>

Steps(w) == definition[w].steps

Stamps == [approved : BOOLEAN, enabled : BOOLEAN]

\* Where a process is: between which two calls of the repository.
Places == {"none", "select", "update", "create", "start", "next", "policy",
           "ask", "begin", "handle", "report", "stop", "finish"}

Idle == [at |-> "none", workflow |-> None, run |-> None, target |-> "none",
         stamps |-> [approved |-> FALSE, enabled |-> FALSE],
         terminal |-> FALSE]

TypeOK ==
    /\ status \in [Workflows -> WorkflowStatus \cup {"absent"}]
    /\ definition \in [Workflows -> Definitions \cup {None}]
    /\ stamped \in [Workflows -> Stamps]
    /\ process \in [Clients -> [at : Places,
                                workflow : Workflows \cup {None},
                                run : Runs \cup {None},
                                target : WorkflowStatus \cup RunStatus
                                           \cup {"none"},
                                stamps : Stamps,
                                terminal : BOOLEAN]]
    /\ runOf \in [Runs -> Workflows \cup {None}]
    /\ runStatus \in [Runs -> RunStatus \cup {"absent"}]
    /\ rows \in [Runs -> Seq(RunStatus)]
    /\ \A r \in Runs :
          Len(rows[r]) <= IF runOf[r] = None THEN 0 ELSE Len(Steps(runOf[r]))
    /\ confirmed \in [Runs -> SUBSET Nat]
    /\ handled \in [Runs -> Seq(Nat)]

Init ==
    /\ status = [w \in Workflows |-> "absent"]
    /\ definition = [w \in Workflows |-> None]
    /\ stamped = [w \in Workflows |-> Idle.stamps]
    /\ process = [c \in Clients |-> Idle]
    /\ runOf = [r \in Runs |-> None]
    /\ runStatus = [r \in Runs |-> "absent"]
    /\ rows = [r \in Runs |-> <<>>]
    /\ confirmed = [r \in Runs |-> {}]
    /\ handled = [r \in Runs |-> <<>>]
-----------------------------------------------------------------------------
(* The life cycle of a workflow.                                           *)

Become(c, record) == process' = [process EXCEPT ![c] = record]

\* generate: whatever the planner returns is saved as a draft.
Generate(w) ==
    /\ status[w] = "absent"
    /\ status' = [status EXCEPT ![w] = "DRAFT"]
    /\ \E def \in Definitions : definition' = [definition EXCEPT ![w] = def]
    /\ UNCHANGED <<stamped, process, runVars, historyVars>>

\* validate, approve, reject, enable, disable, delete: get finds the workflow,
\* and validate goes on only when the report is empty.
Begin(c, w, new) ==
    /\ process[c].at = "none"
    /\ status[w] # "absent"
    /\ new = "VALIDATED" => Valid(definition[w])
    /\ Become(c, [Idle EXCEPT !.at = "select", !.workflow = w, !.target = new])
    /\ UNCHANGED <<workflowVars, runVars, historyVars>>

\* The SELECT of update_workflow_status; an invalid transition raises.
SelectStatus(c) ==
    LET w == process[c].workflow
    IN  /\ process[c].at = "select"
        /\ Become(c, IF process[c].target \in WorkflowTransitions(status[w])
                     THEN [process[c] EXCEPT !.at = "update",
                                             !.stamps = stamped[w]]
                     ELSE Idle)
        /\ UNCHANGED <<workflowVars, runVars, historyVars>>

\* Seeded fault: the stamps the row had are not kept.
UpdateStatus_DropsStamps(c) ==
    LET w == process[c].workflow
        new == process[c].target
    IN  /\ process[c].at = "update"
        /\ status' = [status EXCEPT ![w] = new]
        /\ stamped' = [stamped EXCEPT ![w] =
                         [approved |-> new = "APPROVED",
                          enabled |-> new = "ENABLED"]]
        /\ Become(c, Idle)
        /\ UNCHANGED <<definition, runVars, historyVars>>

\* Its UPDATE, with the stamps of the row it read.
UpdateStatus(c) ==
    LET w == process[c].workflow
        new == process[c].target
        read == process[c].stamps
    IN  /\ process[c].at = "update"
        /\ status' = [status EXCEPT ![w] = new]
        /\ stamped' = [stamped EXCEPT ![w] =
                         [approved |-> new = "APPROVED" \/ read.approved,
                          enabled |-> new = "ENABLED" \/ read.enabled]]
        /\ Become(c, Idle)
        /\ UNCHANGED <<definition, runVars, historyVars>>
-----------------------------------------------------------------------------
(* One run: SequentialWorkflowRunner.run.                                  *)

\* WorkflowEngine.run; a process without a terminal has no confirmer.
BeginRun(c, w) ==
    /\ process[c].at = "none"
    /\ status[w] = "ENABLED"
    /\ \E terminal \in BOOLEAN :
          Become(c, [Idle EXCEPT !.at = "create", !.workflow = w,
                                 !.terminal = terminal])
    /\ UNCHANGED <<workflowVars, runVars, historyVars>>

CreateRun(c) ==
    /\ process[c].at = "create"
    /\ \E r \in Runs :
          /\ runOf[r] = None
          /\ runOf' = [runOf EXCEPT ![r] = process[c].workflow]
          /\ runStatus' = [runStatus EXCEPT ![r] = "PENDING"]
          /\ Become(c, [process[c] EXCEPT !.at = "start", !.run = r])
    /\ UNCHANGED <<workflowVars, rows, historyVars>>

\* The run is RUNNING; a workflow with too many steps is blocked at once.
StartRun(c) ==
    LET r == process[c].run
        w == process[c].workflow
    IN  /\ process[c].at = "start"
        /\ runStatus' = [runStatus EXCEPT ![r] = "RUNNING"]
        /\ Become(c, IF Len(Steps(w)) > definition[w].maxSteps
                     THEN [process[c] EXCEPT !.at = "finish",
                                             !.target = "BLOCKED"]
                     ELSE [process[c] EXCEPT !.at = "next"])
        /\ UNCHANGED <<workflowVars, runOf, rows, historyVars>>

\* The step the run is at: the one whose row was created last.
Current(c) == Len(rows[process[c].run])

CurrentStep(c) == Steps(process[c].workflow)[Current(c)]

StepsLeft(c) == Current(c) < Len(Steps(process[c].workflow))

\* for step in workflow.steps: create_run_step, or the end of the loop.
NextStep(c) ==
    /\ process[c].at = "next"
    /\ \/ /\ StepsLeft(c)
          /\ rows' = [rows EXCEPT ![process[c].run] = Append(@, "PENDING")]
          /\ Become(c, [process[c] EXCEPT !.at = "policy"])
       \/ /\ ~StepsLeft(c)
          /\ Become(c, [process[c] EXCEPT !.at = "finish",
                                          !.target = "SUCCEEDED"])
          /\ UNCHANGED rows
    /\ UNCHANGED <<workflowVars, runOf, runStatus, historyVars>>

Stops(c, new) == Become(c, [process[c] EXCEPT !.at = "stop", !.target = new])

DecideStep(c) ==
    LET decision == Evaluate(CurrentStep(c))
    IN  /\ process[c].at = "policy"
        /\ \/ decision = "BLOCKED" /\ Stops(c, "BLOCKED")
           \/ /\ decision = "CONFIRM"
              /\ Become(c, [process[c] EXCEPT !.at = "ask"])
           \/ /\ decision = "ALLOW"
              /\ Become(c, [process[c] EXCEPT !.at = "begin"])
        /\ UNCHANGED <<workflowVars, runVars, historyVars>>

\* _resolve_confirmation: no confirmer, a yes, a no or an exception.
AskUser(c) ==
    /\ process[c].at = "ask"
    /\ \/ /\ ~process[c].terminal
          /\ Stops(c, "WAITING_APPROVAL")
          /\ UNCHANGED confirmed
       \/ /\ process[c].terminal
          /\ Become(c, [process[c] EXCEPT !.at = "begin"])
          /\ confirmed' = [confirmed EXCEPT ![process[c].run] =
                             @ \cup {Current(c)}]
       \/ /\ process[c].terminal
          /\ Stops(c, "CANCELLED")
          /\ UNCHANGED confirmed
    /\ UNCHANGED <<workflowVars, runVars, handled>>

\* update_run_step_status on the row of the current step.
SetStep(c, new) == rows' = [rows EXCEPT ![process[c].run][Current(c)] = new]

\* The step ends and the run with it, in the same status.
StopStep(c) ==
    /\ process[c].at = "stop"
    /\ SetStep(c, process[c].target)
    /\ Become(c, [process[c] EXCEPT !.at = "finish"])
    /\ UNCHANGED <<workflowVars, runOf, runStatus, historyVars>>

BeginStep(c) ==
    /\ process[c].at = "begin"
    /\ SetStep(c, "RUNNING")
    /\ Become(c, [process[c] EXCEPT !.at = "handle"])
    /\ UNCHANGED <<workflowVars, runOf, runStatus, historyVars>>

\* _execute_handler: a handler may fail or raise, or not be registered.
Handle(c) ==
    LET r == process[c].run
        known == CurrentStep(c).uses \in Registered
    IN  /\ process[c].at = "handle"
        /\ handled' = [handled EXCEPT ![r] =
                         IF known THEN Append(@, Current(c)) ELSE @]
        /\ \E new \in {"FAILED"} \cup IF known THEN {"SUCCEEDED"} ELSE {} :
              Become(c, [process[c] EXCEPT !.at = "report", !.target = new])
        /\ UNCHANGED <<workflowVars, runVars, confirmed>>

\* Seeded fault: a failed step does not end the run.
EndsRun_Never(c) == FALSE

EndsRun(c) == process[c].target = "FAILED" /\ ~CurrentStep(c).continues

ReportStep(c) ==
    /\ process[c].at = "report"
    /\ SetStep(c, process[c].target)
    /\ Become(c, IF EndsRun(c) THEN [process[c] EXCEPT !.at = "finish"]
                 ELSE [process[c] EXCEPT !.at = "next", !.target = "none"])
    /\ UNCHANGED <<workflowVars, runOf, runStatus, historyVars>>

FinishRun(c) ==
    /\ process[c].at = "finish"
    /\ runStatus' = [runStatus EXCEPT ![process[c].run] = process[c].target]
    /\ Become(c, Idle)
    /\ UNCHANGED <<workflowVars, runOf, rows, historyVars>>

\* The process is killed, or a call of the repository raises.
Die(c) ==
    /\ process[c].at # "none"
    /\ Become(c, Idle)
    /\ UNCHANGED <<workflowVars, runVars, historyVars>>
-----------------------------------------------------------------------------
RunStep(c) ==
    \/ CreateRun(c) \/ StartRun(c) \/ NextStep(c) \/ DecideStep(c)
    \/ AskUser(c) \/ StopStep(c) \/ BeginStep(c) \/ Handle(c)
    \/ ReportStep(c) \/ FinishRun(c)

Next ==
    \/ \E w \in Workflows : Generate(w)
    \/ \E c \in Clients :
          \/ \E w \in Workflows, new \in WorkflowStatus \ {"DRAFT"} :
                Begin(c, w, new)
          \/ \E w \in Workflows : BeginRun(c, w)
          \/ SelectStatus(c) \/ UpdateStatus(c) \/ RunStep(c) \/ Die(c)

Spec == Init /\ [][Next]_vars
-----------------------------------------------------------------------------
(* What the workflows promise.                                             *)

\* What the minimum policy and the workflow say of step i of run r allows its
\* handler to be called.
Authorized(r, i) ==
    LET step == Steps(runOf[r])[i]
        limits == {MinimumPolicy(step.uses), step.declared}
    IN  /\ "BLOCKED" \notin limits
        /\ "CONFIRM" \in limits \/ step.asks => i \in confirmed[r]

\* No handler is called for a step that the minimum policy or the workflow
\* blocks, and none for a step that either of them, or the step itself, wants
\* confirmed, before the user has said yes (evaluate, run).
HandlerAuthorized ==
    \A r \in Runs : \A k \in DOMAIN handled[r] : Authorized(r, handled[r][k])

\* Whatever the commands of other processes overwrite: a workflow that is
\* enabled or disabled was approved and enabled before, one that is approved
\* has its stamp (update_workflow_status).
EnabledWasApproved ==
    \A w \in Workflows :
        /\ status[w] \in {"APPROVED", "ENABLED", "DISABLED"} => stamped[w].approved
        /\ status[w] \in {"ENABLED", "DISABLED"} => stamped[w].enabled

\* A run is only ever made of a workflow the validator found nothing in, so
\* that the budget check of the runner never has to end one.
OnlyValidatedRun == \A r \in Runs : runOf[r] # None => Valid(definition[runOf[r]])

\* A step that a run may leave behind.
Passed(r, i) ==
    \/ rows[r][i] = "SUCCEEDED"
    \/ rows[r][i] = "FAILED" /\ Steps(runOf[r])[i].continues

\* What a run says of itself is what its steps say, also when its process died
\* between the two updates: it has passed every step but the last, succeeded
\* only if it passed them all, and otherwise ended as its last step did.
RunMatchesSteps ==
    \A r \in Runs : runOf[r] # None =>
        LET last == Len(rows[r])
        IN  /\ \A i \in 1..(last - 1) : Passed(r, i)
            /\ runStatus[r] = "SUCCEEDED" =>
                  last = Len(Steps(runOf[r])) /\ (last > 0 => Passed(r, last))
            /\ runStatus[r] \in {"FAILED", "CANCELLED", "WAITING_APPROVAL",
                                "BLOCKED"} =>
                  last > 0 /\ rows[r][last] = runStatus[r]

=============================================================================
