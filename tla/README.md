# Argos assistant: a TLA+ model

Argos is a local assistant. A command line client sends text to a gateway process; the
gateway turns it into actions, asks the user before it does anything of consequence, writes
new tools when a capability is missing, and runs jobs on a schedule. What is difficult in it is
not the language processing but the state it keeps across requests, threads, processes and
restarts: who may run what, once, after which consent. That is what these modules model.

Paths below are relative to `src/src/assistant/`; documents are relative to `src/`.

## The system

| component | state | operations | who shares it |
|---|---|---|---|
| capability workflow: `capabilities/adaptive_capability_graph.py`, `workflow_repository.py` | table of workflow records (status, retry status, result, expiry), table of tool leases, LangGraph checkpoints, ephemeral arguments in memory | start from a proposal, decide a tool, decide a retry, cancel, list, clean up expired | all request threads of the gateway |
| provisioning and tools: `capabilities/provisioning.py`, `tools/*.py` | state file of all tools (state and hashes per `name@version`), quarantine and install directories | generate, validate, approve, install, enable, verify, remove | workflow nodes, command line, every session that builds a registry |
| gateway requests: `gateway/service.py`, `app.py`, `sessions/repository.py` | agent per session (memory), session locks, saved snapshots, confirmations | handle a message, resolve a confirmation, resolve workflow decisions, reload a session, run a workflow's action | request threads, the scheduler thread |
| job queue: `jobs/*.py` | table of jobs | create, next due, transition, run, retry, cancel | scheduler thread, command line processes |
| gateway process: `gateway/process.py`, `auth.py` | pid file, token file | start, stop, status | command line processes |
| ADW workflows: `workflows/*.py` | tables of workflows, runs, run steps | generate, validate, approve, enable, disable, archive, run | command line processes |
| agent, planner, intent: `agent.py`, `planner.py`, `intent/*.py` | the open question of a session, with the answers given so far and the questions still to ask; the registry of capabilities it was built with | route a message, resolve what is pending, plan, ask, execute, retry | one session |
| execution: `execution/*.py` | none of its own | file, desktop, search and reminder capabilities; a policy that asks or allows | agent |
| memory: `memory/*.py` | table of records and events, session memory, markdown file | observe, classify, retrieve, change status, migrate | agent, command line |
| recovery: `recovery/*.py` | attempts of the current failure, append-only log | classify, plan, decide a bounded retry | agent |
| the rest: `config.py`, `runtime/`, `files/`, `llm/`, `mcp/`, `skills/`, `notifications/`, `observability/`, `cli_*.py` | configuration, append-only logs | wiring, I/O, rendering | all |

How they meet. `argos start` spawns the gateway, whose application starts the scheduler thread before its server
binds the port. A message goes through `GatewayService.handle`, which first cleans up expired
workflows, then holds the session's lock while the agent works. A message that needs a missing
capability starts a capability workflow; the decisions about it arrive on other request
threads, which take no session lock. The workflow's last node calls back into the service
(`_reload_session_runtime`, `_execute_workflow_action`). The scheduler thread calls the same
`handle` for queued requests. Command line processes open the same SQLite file for jobs and
workflows, so two processes share rows without sharing locks; they also rewrite the one state file of the tools, and
the pid file of the gateway, with no lock at all.

What is hard, and where (the list with every line is `hazards` in `PROJECT.json`):

- a decision sent twice, or two decisions at once, on a graph resumed from wherever it stands;
- a crash between any two of: state file, directories, workflow record, checkpoint;
- reads whose guard is evaluated before another thread or process writes (job transitions,
  workflow status, pending limits, approvals of a definition that has since been replaced);
- expiry and cleanup racing decisions; a lease that expires or is shared;
- a worker thread that ends on an exception while the gateway says it is enabled.

## Modules

| module | models | role |
|---|---|---|
| `ToolLifecycle` | `tools/state.py` | states of a tool and the allowed transitions |
| `CapabilityWorkflow` | the capability workflow with provisioning, tools and the gateway requests that drive it | the core state machine and its properties |
| `OneShotAction` | what the retry life cycle promises: each action runs at most once | abstract specification, implemented by `CapabilityWorkflow` and, for confirmations, by `GatewaySession` |
| `CapabilityClaims` | statements of the documents and tests | properties the code does not keep |
| `MCCapabilityWorkflow` | - | model values and symmetry for TLC |
| `CapabilityWorkflowProofs` | - | type correctness; a workflow that has ended stays ended; the action runs at most once and with consent; stage, retry and result agree; tools are approved and have their files; what a start checked holds at its insert; the refinement |
| `ToolStateFile` | `tools/state.py`, `generator.py`, `installer.py`, `catalog.py` and the commands that call them | the state file under several writers, with the files it is about |
| `MCToolStateFile` | - | model values and symmetry for TLC |
| `ToolStateFileProofs` | - | what is kept although updates are lost |
| `JobQueue` | `jobs/*.py`, the reminder capability, `jobs retry` and `jobs cancel` | the queue, the scheduler thread, commands of other processes |
| `JobQueueClaims` | statements of the plans and tests | properties the code does not keep |
| `MCJobQueue` | - | model values and symmetry for TLC |
| `JobQueueProofs` | - | no job runs more often than it was queued; an ended job stays ended; its status is that of its last run |
| `GatewayProcess` | `gateway/process.py`, `auth.py`, the start of the scheduler in `app.py`, the worker of `jobs/` | start, stop and death of gateways, and what two of them do to one job |
| `MCGatewayProcess` | - | model values and symmetry for TLC |
| `GatewayProcessProofs` | - | who is within reach of stop and status; the token; one run of the job |
| `WorkflowRuns` | `workflows/*.py` and the commands of `cli.py` that drive it | life cycle of an ADW workflow across processes, a run and its steps, policy and validator |
| `WorkflowClaims` | `docs/WORKFLOWS.md`, a test of the engine | properties the code does not keep |
| `MCWorkflowRuns` | a template and two more definitions | model values and symmetry for TLC |
| `WorkflowRunsProofs` | - | handlers are authorized; only approved workflows are enabled; a run agrees with its steps |
| `GatewaySession` | `gateway/service.py`, `sessions/repository.py`, and what `agent.py` does to a session | session locks, the agent cache, snapshots, confirmations |
| `GatewayClaims` | the gateway's plan | a property the code does not keep |
| `MCGatewaySession` | - | model values and symmetry for TLC |
| `GatewaySessionProofs` | - | a confirmation is a one-shot action; answers are kept where the lock is taken; and the proofs about `Dialogue`, which is what goes on in a turn under that lock |
| `Dialogue` | one turn of `agent.py` up to the plan, `planner.py`, `intent/*.py` | from messages, over questions and answers, to an action |
| `MCDialogue` | eleven messages, three chains of questions | values for TLC |
| `AgentTurn` | what `agent.py` does with a plan, with `capabilities/registry.py`, `execution/`, `files/resolver.py`, `recovery/` and `tools/runner.py` | preparation, confirmation, execution and retry of actions in one session |
| `AgentClaims` | - | the properties of `AgentTurn`, and three statements of the designs and the code's own words it does not keep |
| `MCAgentTurn` | four plans over two files and a tool | model values for TLC |
| `AgentTurnProofs` | - | what is done without a yes, how often and for what a yes is good |
| `MemoryStore` | `memory/*.py`, `_get_memory_engine` of `runtime/factory.py` | import of the Markdown file, recall, and what is kept of a message |
| `MemoryClaims` | - | the properties of `MemoryStore`, and three statements the code does not keep |
| `MCMemoryStore` | - | model values for TLC |
| `MemoryStoreProofs` | - | an entry is imported once and not skipped; what the planner is given was agreed to |

### CapabilityWorkflow

Processes are request threads (`Handlers`); `pc[p]` is the node of the graph a thread is in, or
the call inside a node it is about to make. One call of a repository, of the tool state store
or of a directory operation is one action; what happens between two calls is local to the
thread.

| code | model |
|---|---|
| `capability_workflows` row | `status`, `retry`, `result`, `sess`, `def`, membership in `expired` |
| `capability_tool_leases` row | `lease`, and membership in `leaseDue` once `expires_at` has passed |
| LangGraph's checkpoint | `ckpt[w]`: the node that comes next and the tool decision in the graph state |
| `tool-state.json` | `tstate`, `registered` (the definition the stored hashes are of) |
| quarantine and install directories | `draft`, `installed`: which definition's files are there |
| `_ephemeral_arguments` | `ephemeral` |
| `start_from_proposal`, node `create_draft` | `Start`, `GenerateDraft`, `RegisterDraft`, `ValidateDraft`, `ReportDraft`, `CreateRecord`, `DraftCreated` |
| `decide_tool`, `decide_retry`, `cancel` | `DecideTool`, `DecideRetry`, then `Invoke` |
| nodes `wait_tool_approval`, `tool_rejected`, `tool_cancelled` | `WaitToolApproval`, `ToolRejected`, `ToolCancelled` |
| node `enable_tool` | `AcquireLease`, `ApproveTool`, `InstallTool`, `MarkInstalled`, `SetEnabled`, `ReleaseLease`, `ToolEnabled` |
| node `reload_runtime` and the edge behind it: the session's registry, the record, the dry run, the routing with its policy | `ReloadRuntime`, `RecordReload`, `BuildDryRun`, `RouteAfterReload` |
| nodes `wait_retry`, `retry_rejected`, `retry_cancelled` | `OfferRetry`, `WaitRetry`, `RetryRejected`, `RetryCancelled` |
| node `execute_action` | `LoadForExecution`, `ClaimRetry`, `RunAction`, `CompleteRetry`, `RecordOutcome` |
| `cleanup_expired` | `ListExpired`, `InspectDraft`, `RejectDraft`, `RemoveDraft` or `RemovalFails`, `MarkExpired` |
| time, process | `ExpireWorkflow`, `ExpireLease`, `Crash` |

Simplifications, and why they are sound for the properties checked:

- A node's last repository write and the checkpoint LangGraph saves after it are one step. A
  crash between them would run the node again; its writes are compare-and-sets on the status
  it has already left, so the repetition changes nothing.
- A read of a record followed by a local decision is merged with the read; steps of other
  threads that come between read and write are kept wherever the value read is used later
  (`seen`, the status checked by `Decide`).
- Definitions differ in their files: two definitions have different hashes.
- The validator's verdict is left open (`ReportDraft`), and so is the result of an action, which
  may also raise. Creating the Python environment of a tool may fail after the files are
  copied. The branch that installs packages is not reachable: generated tools have an empty
  lock file.
- Each of the three registries built on the way through `reload_runtime` verifies the tools, which may degrade one; each is one
  step of its own. A tool that cannot execute at the dry run is routed to the confirmation at once: what is read later could
  not make it eligible.
- `shutil.rmtree` either removes the draft or raises and leaves it; what it leaves of a directory it has begun to remove is still
  a draft in the way. The exception ends the cleanup of the workflows behind it and the message it came with. One workflow is
  cleaned up per listing here, and a thread goes on to the next by listing again, so that the order of the list is left open.
- One call of `ToolStateStore` is atomic here although it loads, changes and saves the file. The
  race between two such calls is what `ToolStateFile` is about.

`executions` and `granted` are history variables: how often the action really ran and which
consents the user has sent. No action reads them.

### ToolStateFile

`ToolStateStore` has no lock, and every call loads the whole file, changes one record and replaces
the file. `process[p]` is a command of a request thread or of a command line process: the calls it has still to make, the
file as it loaded it, the hashes it computed. `ToolLifecycle` gives the states and transitions.

| code | model |
|---|---|
| `tool-state.json` | `file`: state and hash of each `name@version` |
| quarantine, `tools_dir`, environments | `draft`, `installed`, `env` |
| `tools register`, `generate`, `approve`, `enable`, `disable`; `ToolInstaller.install`; `approve_install_enable`; `expire_draft`; `list_enabled` | `Program`, the calls each makes in order |
| `_load` with the check of a call, `_save` | `Load` with `Accepts`, `Save` with `Change` |
| `ToolDraftGenerator.generate`, `ToolValidator`, `remove_quarantined` | `NewDraft`, `HashDraft`, `Verdict`, `Remove` |
| `ToolInstaller.install` | `Get`, `Copy`, `Environment`, `Dependencies` |
| `list_enabled`, `verify_integrity` | `Get`, `HashInstalled`, `Verify`, `Listed` |
| a killed process, the user's editor | `Killed`, `Edit` |

The contents of a tool's files are one value, with as many as the constants give, and two files with the same hash are the same. `copytree`
is one step when it is complete; cut short it leaves anything, and the command ends. `consented` is a history
variable: what the user has approved, as the hashes of the record an approval writes.

### GatewayProcess

A command of the command line and a gateway process each go step by step through the two files they share; a pid is an id the system
gives to a gateway, to another process, or to nobody.

| code | model |
|---|---|
| `gateway.pid`, `gateway.pid.tmp` | `pidFile`, `pidTmp`; an open file follows the file that is renamed or removed (`Unlinked`, `Replaced`) |
| the token file and its temporary file | `token`, `tokenTmp` |
| `status`, `_read_pid`, `_process_exists` | `FindPid`, `ReadPid`, `Probe`, `UnlinkStale`: looking for the file, reading it, asking for the process and removing the file are four steps |
| `start` | `Spawn`, `OpenTmp`, `WriteTmp`, `ReplacePid` |
| `stop` | `Kill`, `Poll`, `UnlinkStopped` |
| `serve`, `LocalTokenStore.get_or_create` | `FindToken`, `WriteToken`, `ReplaceToken`, `HardenToken`, `UndoToken` |
| the application's lifespan, uvicorn | `StartScheduler`, `Bind`, `Exit`; `Terminated` for what a signal does |
| `JobScheduler`, `JobWorker`, `JobRepository.transition` of each gateway | `Pick`, `Select`, `Claim`, `Run`, `Finish` |
| a killed gateway, a closed terminal, a pid used again | `Crash`, `Interrupted`, `Foreign` |

Three history variables name what the races leave behind, and each property exempts that and nothing else. `stray` is the set of live
gateways whose own start met another command between its first look and its last write, or was interrupted (hazards at
`process.py` 81 and 145); a gateway is no longer in it when it has ended, and what happens beside others is not held against it.
`crowded` says that a gateway came to the token file while another was making it, as long as gateways have been running without a
break since (`auth.py` 54). `contested` says that a scheduler picked the job that another had in hand. Two gateways may run at once
in every property; what they then do wrong is stated as `StopEndsAlways`, `OneArgos` and `JobRunOnceAlways`, which TLC refutes.

A command that only asks for the status is a stop that is interrupted before it kills. The two `unlink` calls that undo a token are
one step. A process that ends while its parent has not collected it, which `os.kill` still finds, and the client's own read of the
token are left out.

### JobQueue

`jobs` rows are `status`, `kind`, `at`, `created`, `attempts`, `error`. `JobRepository.transition`
reads the row, validates the transition and then updates the row with no condition but the
job id. Its lock belongs to one connection and Python's `sqlite3` opens the transaction only at
the `UPDATE`, so another process can write in between; the two halves are two steps, for the
worker (`ClaimSelect`, `ClaimUpdate`, `FinishSelect`, `FinishUpdate`) and for the commands
(`ClientSelects`, `ClientUpdates`).

| code | model |
|---|---|
| `schedule_reminder`, `JobRepository.create` | `Create` |
| `next_queued` | `NextQueued` with `Due` and `Before` |
| `JobWorker.run_once` | `NextQueued`, `ClaimSelect`, `ClaimUpdate`, `Run` or `NotifyFails`, `FinishSelect`, `FinishUpdate` |
| `JobScheduler.start`, `stop`, `_run_loop` | `StartGateway`, `StopGateway`, `LoopEnds`, `Dies` |
| `jobs retry`, `jobs cancel` | `JobsRetry`, `JobsCancel`, `ClientSelects`, `ClientUpdates` |
| the gateway process ends or is killed | `ExitGateway` |

Only reminders are created by the code today; the worker handles requests too (its tests queue
them) and so does the model. One gateway at a time is assumed: what happens when two start is a
question about the pid file (`GatewayProcess`). An UPDATE that fails because the database is locked is not
modelled.

### WorkflowRuns

Every command of `argos workflows` is a process with its own connection. `process[c]` is the call of
the repository the command is about to make, with what it carries there. `update_workflow_status` is
written like the job queue's `transition`, so its two halves are two steps here too.

| code | model |
|---|---|
| `workflows` row | `status`, `definition` (never updated), `stamped` (which of `approved_at`, `enabled_at` are set) |
| `workflow_runs` row | `runOf`, `runStatus` |
| `workflow_run_steps` rows of a run | `rows[r]`, in the order they were created |
| `generate` | `Generate` |
| `validate`, `approve`, `reject`, `enable`, `disable`, `delete` | `Begin`, `SelectStatus`, `UpdateStatus` |
| `WorkflowEngine.run` | `BeginRun` |
| `SequentialWorkflowRunner.run` | `CreateRun`, `StartRun`, then per step `NextStep`, `DecideStep`, `AskUser`, `BeginStep`, `Handle`, `ReportStep` or `StopStep`, and `FinishRun` |
| `WorkflowPolicyEvaluator.evaluate` | `Evaluate` over `MinimumPolicy`, `Rank`, `Stricter` |
| `WorkflowValidator.validate` | `Valid`, `StepValid` |
| a killed process, an exception of the repository | `Die` |

A step is what the policy and the validator look at: its handler, what the workflow's policy
declares for that handler, the step's own wish for a confirmation, whether a failure ends the run, and
whether the command is destructive. Names, arguments and duplicate step ids are left out. A
handler may succeed or fail. The planner of the repository returns four templates, which all pass the
validator; the model allows any definition the engine accepts from a planner, so that the
validator and the stricter branches of the policy matter. `confirmed` and `handled` are history variables.

### GatewaySession

One call of the service or of the session repository is one step of a request thread;
`process[p].at` is the call it makes next. The lock is held from `Acquire` to the end of the
request, whichever way it ends.

| code | model |
|---|---|
| `_session_locks`, `_agents` | `lock`, `cache` (an agent is named after the request whose thread built it) |
| history, audit and context of a `SessionMemory` | `memory`: the requests that have left something there |
| `sessions.snapshot_json` | `saved` |
| `confirmations` row | `status`, and `session` of the request that asked |
| `GatewayService.handle` | `Message`, `Acquire`, the agent, `Think`, then `PersistConfirmation` or `StartWorkflow`, `TakeSnapshot`, `Save` |
| `_get_or_create_agent_for_session` | `Found`, or `NotFound`, `LoadSnapshot`, `BuildAgent` |
| `resolve_confirmation` | `Decide` (the compare-and-set, before the lock), `Acquire`, the agent, `ExecuteConfirmed`, `TakeSnapshot`, `Save`; then the response, or `PersistAgain` when the action asks again, or once more `Pop`, the agent, `PrepareRetry`, `TakeSnapshot`, `Save` and `PersistAgain` when a tool was enabled |
| `_reload_session_runtime` | `Reload`, `Pop`, the agent; no lock |
| `_execute_workflow_action` | `WorkflowAction`, the agent, `ExecuteWorkflowAction`, `TakeSnapshot`, `Save`; no lock |
| an exception anywhere, a restart | `Raise`, `Crash` |

What a request says and what the agent answers are left out: a request is its number, and memory
and snapshot are sets of requests. The agent may answer, execute an action that needs no confirmation, ask for
one, or propose a capability; which of them is text processing. An executed action is counted when
a decision takes it up; the one retry that recovery makes of a failed attempt is part of it. The capability
workflow's own part in `StartWorkflow`, `Reload` and `WorkflowAction` is module `CapabilityWorkflow`; here these come at
any time, which allows more than the workflow does. What the older chain of confirmations does to a tool when it drafts, approves
and installs one without the workflow (`agent.py` 371-486) needs a gateway without a capability graph, which the runtime factory
never builds; that a decision ends in a reload and in a new confirmation (`service.py` 256-338) is part of the model. A new
confirmation is written after the snapshot, so a failure between the two leaves a question in the memory that no row asks.

`mixed` is a history variable: the sessions in which a call without the lock has overlapped another
request. It is what `AnswersKept` excludes, and what `SessionPreserved` does not.

### Dialogue

A message is a record of what the code looks for in its text: marks ("cancel", a path, a time, a new request), a
number or an ordinal, the options it names, and what the router makes of it. A question may have others behind it about the same action; such a
chain is answered over several messages, and a turn ends with the session saved.

| code | model |
|---|---|
| `pending_clarification` with `action`, `options`, `remaining_questions` | `pending`: the question asked, those that follow, the answers given |
| the session's row | `savedPending` |
| `NoExecutionGuard.blocks`, `PendingClarificationResolver.resolve` | `Resolution`, `PathResolution`, `PathAnswer` |
| `_handle` until the planner is called | `Block`, `LetGo`, `AskAgain`, `TakePath`, `PassOn`, with `TurnsAway` |
| `_resolve_pending_clarification` | `Selects` over `Selection` and `Offered`; `CancelSelected`, `Repeat`, `AskNext`, `Complete` |
| `create_plan` with router, heuristics, model and reviews | `RouterAsks`, `Review`, `ModelAsks`, `PlansAnswer`, `PlansAction` |
| a `PlannerError` and the recovery's answer | `PlannerFails` |
| preparation of the action | `Carry`, `Refuse`, `Ambiguous` |
| a confirmation that is decided, and one whose action asks for a path again | `Execute`, `Reask` |
| `SessionRepository.save`; an exception in the agent or in the save; a restart | `SaveSession`, `TurnFails`, `Restart` |
| `_agents`, `_get_or_create_agent_for_session` | `cached`, and `Resumes` at the end of a turn: the next one goes on with the agent of the cache, or with one built from the row |
| `_reload_session_runtime`, without the lock | `ReloadLoads`, `CallBuilds` |
| `_execute_workflow_action`, without the lock | `ActionStarts`, `CallBuilds`, `WorkflowActs` or `WorkflowAsks`, `WorkflowSaves` |
| either of them raises | `CallFails` |

The model's choices are open: it may pick any option that is offered, be unsure, plan any of the chains, or fail. What it
may not do is what `_validate_plan_shape` and the check of the selection exclude. Only the first question of a chain goes through
`_validate_plan_shape`: one behind it may name no field, or be no object, and then the planner raises and the present
question stays (`Invalid`, `Follows`). A first question may lack the action that the answer to a path needs; `build_action` then raises outside
of the try of `_handle`, and the turn can only fail (`TakePath`, `TurnFails`).

A turn works with the agent it has found when it began. A reload or a workflow's action beside it takes another agent into the cache,
with the question of the row as it was when the call loaded it; the turn still saves its own memory, and the next turn goes on
with the other one. A turn that fails leaves its memory in the cache, unsaved; if no agent is cached any more, or another one is, the row or
that agent decides what is open. `restored` counts, for each chain, how often an agent took over that had its question open when it was
not open before; that is what `CarriedOnce` and `DroppedIsGone` allow for, once for each time, and it is what
`CarriedNeverTwice` and `DroppedNeverBack`, which TLC refutes, do not. A decision that reloads the session's registry is left
out here: it needs a gateway without the capability workflow, which has no unlocked calls.

`begun`, `carried`, `restored`, `dropped` and `last` are history variables: which chains there were, how often each led to an action
and came back, and which of them the user turned away from, in a turn that was saved. The answers given are a set with one answer for each field, as the arguments of the action are a
dictionary. `DialogueAssumption` says of messages what follows from how both matchers normalise them: a message that is
the label of the option to cancel names no other option and no position in the list. The module's names differ from those of
`GatewaySession` (`DialogueSpec`, `Nil`), because one proof module is about both.

### AgentTurn

One session, hence one turn at a time: its requests hold the session's lock. `turn` is the plan
that is being executed, with the step the code is at for the first action of what is left.

| code | model |
|---|---|
| `capability_registry`, computed from the manifests when the agent is built | `registry` |
| the manifest of the version `ToolCatalog.get_enabled` returns at the time of a call | `permissions` |
| `pending_clarification` | `pending` |
| rows of `confirmations` of the session | `proposals` |
| `handle` with an action or a plan; with an answer to a question; with something else | `Message`; `Answer`; `Clarify`, `Abandon` |
| `_prepare_registry_action` | `Prepare`, `Ambiguous`, `Refuse`, with `Resolve` for `FileResolver` |
| `decide_policy`, `_dynamic_policy` | `Policy`, `DynamicPolicy` |
| `_execute_action` without a confirmer and with one | `Propose`; `ConfirmerYes`, `ConfirmerNo` |
| `execute_confirmed_action` | `Decide`, then `Prepare` again and the call |
| `_execute_with_recovery`, `ActionExecutor.execute`, `ToolRunner.run` | `CallSucceeds`, `CallFails`, `ToolTimesOut`, with `Retries` for `RecoveryPolicy.decide` |
| `argos tools enable`, `disable`; a reload of the session or a restart; the user's own files | `EnableVersion`; `BuildAgent`; `FilesChange` |

An action is its capability and one path. The built-in actions stand for three groups of the registry: `file.read` for what is allowed and
reads (the searches and the dry run of a deletion too), `file.open` and `open_url` (and `open_application`) for what is allowed and starts
a program (`Launchers`), and four file actions, of which `file.move_many` stands for what works on several files, for what is confirmed. An
action that fails has done nothing, or some of it: a file written in part, one of several files moved, a tool gone a long way; a tool that times out
may have. Whether the resolver finds a file (its search stops after 5000 files and uses the
directory of the latest message) is left open. The policy blocks directories and unknown commands; that is
part of `Refuse`. `calls`, `missing` and `last` are history variables.

### MemoryStore

| code | model |
|---|---|
| the Markdown file of `LongTermMemoryStore` | `file`; `readable`, whether it decodes as UTF-8 |
| rows of `memories` with a `source_ref`; without one | `imported`, a count per entry; `observed` |
| `_memory_engine` of the factory | `runtime` |
| `/remember`, "lembre que" at the terminal; an editor, which may leave any entries, or another encoding | `Remember`; `EditFile`; `GarbleFile` |
| `_get_memory_engine`, `MarkdownMemoryMigrator.migrate` | `Request`, `List`, then per entry `Find` and `Create`, and `Built`; `DatabaseError` and `Reply500` when SQLite raises or the file cannot be read |
| `retrieve`, and the search of the file when it returns nothing | `Plan` |
| `observe` with extractor, classifier and policy | `Observe`, `NotObserved` |

A learning is a model value; which patterns its text matches is given by the constants. Which learnings the words of a
message recall is left open, and so is whether a message is seen to contain a learning. The status of a row never changes: nothing
calls `update_status`. So an entry the user takes out of the file is still recalled once it was imported, which is what
`WithdrawnNotGiven` says it should not be. `lasting`, `written` and `said` are history variables: the entries that have been in the file
ever since the gateway was started, those it has ever had, and what was kept of messages.

## What is checked

`CHECK_DEADLOCK FALSE` everywhere but in `Dialogue`: when every workflow has ended, or the bounds are used up, the
system has nothing to do, and that is right. A user who can always say something more never leaves `Dialogue` without a step.

| run | instance | what it shows |
|---|---|---|
| `Workflow_one` | one workflow with a sensitive, eligible definition, two threads, both approvals, rejection and confirmation any number of times, one crash, with fairness | `ActionAtMostOnce`, `ExecutionConfirmed`, `EnabledOnlyIfApproved`, `OutcomeConsistent`, `NeverReopened`, `ImplementsOneShot`, `ExpiredEventuallyCleaned` |
| `Workflow_shared` | two workflows, two sessions, two definitions of two tools, limit one, approval and cancel | `EnabledHasFiles`, `StartChecksHold`, `PendingWithinLimit` |
| `Tools_file` | two processes, two tools, two contents, four commands, one edit by the user, death at any step | `HashApproved`, `ListedApproved`, `FilesThere` |
| `Jobs_races` | two jobs, reminders and requests, a process that retries and cancels, one retry, one restart, a log that may fail, with fairness | `RunsMatchQueued`, `StatusMatchesLastRun`, `EndedUnlessRaced`, `DueJobTakenUp` |
| `Gateway_process` | two command line processes, two pids, any number of starts, stops, interruptions, deaths | `OneOwner`, `StopEnds`, `TokenThere`, `JobRunOnce` |
| `Runs_authorized` | one workflow with one of three definitions, two processes, two runs, any command and death at any step | `HandlerAuthorized`, `EnabledWasApproved`, `RunMatchesSteps` |
| `Sessions_kept` | one session, two threads, three requests, decisions that ask again or reload, exceptions anywhere, one restart, with fairness | `ConfirmsOneShot`, `AnswersKept`, `RequestEnds` |
| `Dialogue` | eleven messages, two of three chains of one to three questions, any number of messages and failures, one restart or unlocked call with one turn beside it | `AnswersOffered`, `CarriedOnce`, `NothingSkipped`, `DroppedIsGone` |
| `Turns_confirmed` | two files with similar names, one tool with three possible manifests, four plans of one or two actions, two confirmations, with fairness | `TypeOK`, `UnaskedReadsOrOpens`, `OneCallPerYes`, `EffectMatchesApproval`, `TurnEnds` |
| `Memory_imported` | two threads, two directories, a correction and a decision, a file of up to two entries that is edited, one restart, error or file in another encoding, with fairness | `ImportedOnce`, `EarlierImported`, `OnlyAgreed`, `EngineComes` |
| `Claim_reject_enables` | expected to fail; one thread, one crash | a rejection sent after an approval that a restart cut short at `enable_tool` enables the tool |
| `Jobs_due_executed` | expected to fail | a cancelled job ends the scheduler thread and due jobs wait for ever |

Bounds and why they are enough. The races of a workflow are between two requests about the
same record: with two threads each of them can be at any step while the other makes any
other, and a thread that has returned takes part again, so a third adds no new order of two
calls on one record. One crash puts the restart between any two steps. Two workflows and two tools
are the least in which they compete for a lease, a draft or a place within the limit. For jobs, two jobs with one
command beside the worker give the order of the queue, a job held up by another and every interleaving of two transitions; one job with two
commands at a time and two retries was checked as well, and what the theorems state holds for any number of each. `MaxTime`,
`MaxRequeues`, `MaxRestarts` and `MaxCrashes` bound the clock and what the environment may do; each
is a guard of one action and no property depends on its value. For workflows, two
processes put any command between the two halves of any other, or between any two steps of a run;
two runs let a second be made after, or beside, the first; the three definitions reach every verdict
of the policy and of the validator. For the state file, a lost update needs two writers, and a second
tool only to be lost with the first; four commands bring a tool from a draft to a registry and leave one that interferes; contents are two
because approved and not approved are all that is told apart. For the gateway, two commands and two pids are the
least with which two gateways overlap and a pid is used again. For the dialogue, the messages give every resolution of every kind of question, the chains
have a question about a path first, last and alone, one without a field, one that is no object and one without an action, and with two chains one can be open after another was
dropped. `MaxBreaks` counts restarts and unlocked calls, and `MaxBeside` the turns beside one call: one call spans the turn it starts in or one that
starts during it. Calls come one at a time; looking for the agent and loading its row are one step, and so are a snapshot and the act before
it. What the theorems state holds for any number of breaks, of turns beside them and of chains. For sessions, everything but the thread is per session, and the
invariants of the proofs, which hold for any number of sessions, were first checked with two; three requests are a message that
asks, its decision, and one more request beside them or after a restart. For turns, the plans contain a confirmed action before
one that is allowed, the reverse, a write whose path has to be resolved, and the tool alone; two confirmations are
the least of which one can be decided after another was asked for, and two files the least that can be taken for each other.
A marked tool has the policies of one that writes, so the tool of the instance is not marked. For the memory, two threads put any read of one
between the read and the insert of the other, and a file of two entries has one that is imported and one that is not when
a thread fails; a learning that is saved unasked and one that is not are told apart. Rows that wait for a confirmation (from a decision in a message) and entries the policy blocks
enlarge the instance beyond what a run should take; they are covered by the theorems, which hold for any sets. For `Workflow_one`, `cancel` is left out of
the decisions, as it takes the same way as `reject`, and is in `Workflow_shared`; a sixth decision, to reject a retry, is a repetition of it. For turns,
a launcher, a read and a change each come alone or behind a confirmed action. Symmetry is used in the safety runs only. The type invariants that no run
lists were checked by TLC on the same instances, and are proved.

Fairness. Request threads keep running once they are in a request (weak fairness of
`HandlerStep`), and every message to the gateway starts with `cleanup_expired`, so a workflow that
stays expired is listed again and again (strong fairness of `ListExpired`: a listing can lose a race any
number of times). A draft whose removal is tried again and again is removed in the end (strong fairness of `Removes`): the code
has no way past a directory that never goes, and every message would fail with it. The scheduler thread runs while it has something to do, commands finish, the clock
advances, and a gateway that is down is started again. A thread that is inside a gateway request goes on (weak
fairness of `RequestStep`), as a web server's worker does. `TurnEnds` asks the same of a turn that does not wait for the user
at a terminal, and `EngineComes` of each thread that builds the memory engine. `RequestEnds` is about locks that are given back:
with a bound on the requests it does not claim that a waiting thread is served among ever new ones. Nothing forces a user to decide, a client to
retry, or a dead thread to come back.

Each property is run against a mutation of the code it is about (`mutants` in `PROJECT.json`; the
definitions marked "Seeded fault"), and TLC finds it violated there.

## Where documents and code disagree

The runs named above that are expected to fail restate one line of a document or a test each; `findings` in
`PROJECT.json` quotes it. The claims modules state more such lines than there are runs. Each is
refuted by TLC when its name replaces the properties of the configuration named here (as `INVARIANT` when it is a state
predicate).

| property | line it restates | configuration |
|---|---|---|
| `RejectIsTerminal` | `tests/capabilities/test_adaptive_capability_graph.py:116` | `Claim_reject_enables` |
| `InstallExclusive` | adaptive capability design, 507 | `Claim_reject_enables` with two threads |
| `StoredResultKept` | adaptive capability design, 458 | `Claim_reject_enables` with two threads |
| `ExpiredIsNotResumed` | adaptive capability design, 561 | `Claim_reject_enables` |
| `DraftKeptWhileReferenced` | adaptive capability design, 563 | `Claim_reject_enables` with two workflows and two sessions |
| `InstalledIsApproved` | tool SDK design, 339 | the same with two definitions of one tool |
| `TransitionsEnforced` | `tests/jobs/test_repository.py:62` and jobs plan, 45 | `Jobs_due_executed` |
| `CancelAccepted` | jobs plan, 60 | `Jobs_due_executed` |
| `RunningRecovered` | resident platform roadmap, 231 | `Jobs_due_executed` with one restart |
| `InstalledIsEnabled` | adaptive capability design, 514 | `Claim_reject_enables` |
| `RejectedNotEnabled` | `docs/WORKFLOWS.md:100` | `Runs_authorized` |
| `RunsOnlyEnabled` | `tests/workflows/test_engine.py:97` | `Runs_authorized` |
| `SessionPreserved` | gateway plan, 793 and 491 | `Sessions_kept` |
| `EnabledGoesOn` | adaptive capability design, 299 | `Workflow_one` |
| `DisabledStays` | tool SDK design, 348 | `Tools_file` without its symmetry |
| `StopEndsAlways` | gateway plan, 797 | `Gateway_process` |
| `OneArgos` | resident platform roadmap, 136 | `Gateway_process` |
| `JobRunOnceAlways` | the same line, for its one scheduler | `Gateway_process` |
| `SubjectChangeClears` | resident platform roadmap, 188 and 219 | `Dialogue` |
| `CarriedNeverTwice` | the comment on it: a chain leads to one action, whatever comes back | `Dialogue` |
| `DroppedNeverBack` | the same for a question that was cancelled | `Dialogue` |
| `UnaskedIsReadOnly` | `recovery/policy.py:55`, which calls what is allowed a read-only action | `Turns_confirmed` with `Spec` |
| `WithdrawnNotGiven` | the memory has what its file has | `Memory_imported` with `Spec` |
| `EffectsConfirmed` | tool SDK design, 240 | `Turns_confirmed` with `Spec` |
| `WrittenIsShown` | file resolution design, 68 and 88 | `Turns_confirmed` |
| `MigrationNeverFails` | `tests/memory/test_migration.py:10` | `Memory_imported` |
| `NoSecretGiven` | `README.md:308` | `Memory_imported` with `Blocked = {deci}` |

What was found to hold, against the same documents: an action never runs twice, never runs without a
consent that covers it, no tool passes quarantine without an approval, a record that has ended never
waits for the user again, a job is not run more often than it was queued, no
step of an ADW workflow gets past its policy, whatever the commands of other processes overwrite, a
confirmed action is executed once, an agent with an up-to-date registry changes nothing unless the user agreed to it, though it opens
files, applications and pages, and a learning is imported once and recalled only where it belongs. The state file loses updates, but a record
past its approval always has approved hashes; a chain of questions leads to one action, made of what was offered, as long as no older
snapshot of the session is brought back.

## What is proved

TLAPS proves the following for every value of the constants that satisfies their assumptions
(`ConstantsAssumption`, `JobAssumption`, `WorkflowAssumption`, `SessionAssumption`, `ToolFileAssumption`, `GatewayProcessAssumption`, `AgentAssumption`,
`MemoryAssumption`, `DialogueAssumption`, `NilAssumption`: types of the constants, `None` and `Nil` are not an id, and for the dialogue what
`_validate_plan_shape` demands of a question and the fact about messages named above). Every safety property the passing runs check is among them.

- `TypeCorrect`: `Spec => []TypeOK`, for every component (`DialogueTyped` for `Dialogue`); for the capability workflow with one lemma per group of
  variables.
- `EndedStaysEnded`: no step reopens a workflow. Every write of `status` is a compare-and-set whose
  expected value is either a waiting or intermediate status, or the status a thread read before
  its claim and whose target has ended; one lemma lists all the ways `status` can change.
- `AtMostOnce` and `OutcomeAgrees`: `ActionAtMostOnce` is not inductive, since it says nothing of a thread that is
  about to run the action. `ClaimInv` adds who holds the claim: a thread between `ClaimRetry` and
  `CompleteRetry` has its workflow `executing` (`ClaimHeld`), there is one such thread per workflow (`OneClaimer`),
  a workflow whose claim is not taken has not run (`Unclaimed`), and so on. The outcome the
  thread carries links the two updates of the record.
- `RefinesOneShot`: with the same invariant every step is a step of `OneShotAction` or changes neither
  the retry status nor the count of runs.
- `RunsAreConfirmed` and `ToolsAreApproved`: the thread that runs an action or approves a tool looks at nothing the user sent; it
  trusts the node it is in, and a request may resume a graph at a checkpoint another one has left. `ConsentInv` says what a place stands
  for: no thread and no checkpoint is past `wait_tool_approval` unless the workflow was approved, or in `execute_action` unless the
  user let the action run (`AllowedAt`), and an approval a thread or a checkpoint carries was sent (`SentTo`). A tool past
  quarantine has such a workflow, because its record is written by a thread at one of those places.
- `ToolsHaveFiles`: `FilesInv` adds the threads between the copy of the files and the write of the state; nothing in the workflow
  removes an installed directory, so whoever writes `installed` or `enabled` finds what it copied.
- `StartsAreSound`, `LimitIsKept`, `DraftsAreDistinct`: the checks of `start_from_proposal` and the insert are several calls apart. `LockInv` says
  that the session's lock leaves one thread between them (`OneStarter`), that its workflow has no record yet, and that no other step adds
  a draft to its session; a decision may shrink the set of drafts but never lets one back in. Cardinalities are compared with the
  library's theorems on finite sets.
- `NeverRunsTwice`: `RunsMatchQueued` is not inductive either, because a job may be queued again by
  a retry while the worker still holds it. `Credit` counts that: a job in the queue has a run left; a job the
  worker has claimed has one; one that is both has two.
- `EndedStaysEnded` and `StatusIsLastResult` of the queue: an update is written by whoever validated it on an older row, so the invariant
  says what each holder of a validated transition may still write, and `Credit` says whether a run is outstanding.
- `HashesApproved`, `RegistryApproved` and `FilesStay`: any process may write back an older file, so the invariant cannot be about the
  file alone. `Versions` is the file and the copies the processes hold; every record in one of them that is past approval
  was approved (`Approved`) and has its files if it is installed (`There`). A process between its copy and the write that marks the tool installed
  is the only one that removes what it copied (`Alone`). An approval is written for the hash that was loaded, and a new
  registration starts from draft, whatever is overwritten.
- `HandlersAuthorized`: for every definition, any number of processes and runs. `EvaluateSound` shows that
  an `ALLOW` or `CONFIRM` of the policy covers the minimum and the declaration; `RunInv` carries that
  verdict, or the user's yes, from where it was reached to the call of the handler, and says that a run
  belongs to one process.
- `OnlyApprovedEnabled`: an update may overwrite any status, so what has to be invariant is what a command carries
  from its `SELECT` to its `UPDATE` (`CommandKnows`): the stamps it read and, because a definition never
  changes, that the definition is valid.
- `RunsMatchSteps`: `RunMatchesSteps` says nothing of a process between the result of a step and the status of the run. `TraceKnows` does:
  at each place of `run` it says which steps have been passed and what the process is about to write; a run belongs to one process, so no
  other changes its rows.
- `ConfirmationIsOneShot` and `ConfirmedAtMostOnce`: `ConfirmedOnce` says nothing of the thread that carries a decision from the compare-and-set
  through the wait for the lock to the agent. `OneDecider` does: per confirmation one thread at most, which
  has not executed until it comes to its snapshot; `NotAskedYet` keeps a row from being written over a decided one. With these the approval is the one claim of
  `OneShotAction`, the call its one run, and every other step leaves both alone.
- `AnswersSurvive`: `SessionInv` follows a request through its session. Outside `mixed` one thread is inside (`Alone`, from
  `LockHeld` and from what marks a session as mixed), it uses the agent of the cache, and memory, the snapshot it
  carries and the saved one are ordered by inclusion (`UseOK`, `AheadOK`). One lemma says what a step does to
  its own session, one what it does to the others.
- `GatewayOwned`, `StopLeavesStray`: a start that has been left to itself so far (`Clean`) has the files to itself (`Apart`), finds no pid file when it
  spawns and writes its pid to the file it renames (`Knows`). From then on its gateway is named by the file or by the start that is about
  to write it (`Owned`), whatever other commands do: none is about to remove or replace the file without having read that very pid
  (`Named`). `stray` collects, at the step where it happens, the gateways whose start met a command or was interrupted; they are what
  the two theorems do not speak of, and `StopEndsAlways` and `OneArgos` show that they cannot.
- `TokenStays`: while one gateway makes the token file, no other has come to it (`OneMaker`), so whoever is past that has the file (`HasToken`), unless
  `crowded`. `JobAtMostOnce`: one scheduler has the job in hand (`OneHand`) and the job agrees with how far it is (`JobHeld`), unless
  `contested`; both go through with any number of gateways.
- `UnaskedReadsOpens`, `YesIsForOneCall`, `CallMatchesYes`: `TurnOK` carries the verdict of the policy from the preparation of an action to
  its call, and says that through the gateway a decision is about one action, so that nothing else of a plan runs on its yes.
  `Serves` carries the yes: until the first call nothing has been called on it, after one that is repeated the call changed nothing or
  the registry was out of date, and the action at hand is what was shown, or a `file.write` whose file has gone.
- `AnswersAreOffered`, `CarriesOnce`, `NoQuestionSkipped`, `DroppedStaysGone`: four invariants about the dialogue that hold together. `PendingSound` and
  `ActionSound` say of a question and of an action which place of its chain they have reached: what is left is the end of the chain, and
  what is before is answered, or stands behind a question about a path (`Escaped`); they are needed of every place a question is kept in: the row, the agent of the cache, the copy of the turn, and what a call of the
  capability workflow has loaded (`AllSound`). `OnceInv` adds to the actions a chain has led to the one it may still lead to (`Alive`): one in all,
  and one for each time it was restored. `Resumes` is where that happens, and lemma `ResumesKeeps` the one place where the proof speaks of
  it: ends of turns, restarts and calls between two turns are cases of it. `GoneInv` is about the user who turns away: the chain is over in the same turn, or the planner has yet to
  read the message and will find the option to cancel in it. That is the one place where the two matchers of the
  code have to agree, and lemma `CancelMeant` shows that they do: what `PendingClarificationResolver` reads as the option to cancel, `AssistantPlanner` does too.
- `EntryImportedOnce`, `NoEntrySkipped`, `GivenWasAgreed`, `TableHasNoSecret`: `Progress` says of each thread that builds the engine that what
  it has passed by is imported or blocked, whoever imported it, so it does not matter which of them sets the engine and which
  fail. An edit takes entries out of `lasting`, so it asks for less; an unreadable file lets no thread through.
  `RowsOfFile` and `RowsSaid` say where a row comes from: an entry the file has had at some time and the policy lets pass, or a message, with the
  directory it was sent from.

Only model-checked: the liveness properties `ExpiredEventuallyCleaned`, `DueJobTakenUp`, `RequestEnds`, `TurnEnds` and `EngineComes` (the prover
does not handle fairness or ENABLED), and the claims that fail.

One property turned out to be wrong while it was being proved. That no two equivalent workflows of a session wait for
the user held in the instance with two workflows, but its invariant was not inductive, and with three TLC shows why. `cleanup_expired` runs before
the session's lock is taken (`gateway/service.py` 38); of two such threads the slower one may remove the draft of a workflow whose tool
has been enabled since. With the draft gone and nothing that waits for `find_equivalent_pending` (`workflow_repository.py` 180) to find, an equivalent workflow starts
and waits for approval, and only after that is the first one offered for a retry. What the code does keep is `StartChecksHold`, hence that two equivalent
*drafts* never wait (`DraftsAreDistinct`); a draft beside a retry confirmation of an equal workflow is possible.

## Not modelled

- Text: which words make an intent, a path or a secret, prompts and answers of the language model, extraction, templates, rendering, redaction
  of strings. The models leave its outcome open, or give it as a constant.
- Files a tool or a capability writes, but for whether they exist; arguments other than the path.
- The static checks of the tool validator and the child process of a tool: the verdict and the outcome are left open.
- A gateway that has ended and was not collected by its parent, and the client's read of the token.
- What the older chain that drafts, approves and installs a tool without the capability workflow does to the tool (see `GatewaySession`).
- MCP, skills, configuration, wiring, logs: read once, or append-only.

## Plan

1. The claims that fail, each with the condition under which it holds: `InstallExclusive` while no lease has expired and no approval is sent
   twice, `TransitionsEnforced` without a command between the two halves of another, `EffectsConfirmed` with a current registry.
2. More abstract specifications: a queue that `JobQueue` implements, a session whose requests are one step each for `GatewaySession` where it is not mixed.
