------------------------- MODULE CapabilityWorkflow -------------------------
(***************************************************************************)
(* The adaptive capability workflow: a missing capability is answered with *)
(* a quarantined tool draft, the user approves it, the tool is installed   *)
(* and enabled, and the action that was asked for is run at most once.      *)
(*                                                                         *)
(*   capabilities/adaptive_capability_graph.py   the graph and its nodes    *)
(*   capabilities/workflow_repository.py         the SQLite records, leases *)
(*   capabilities/provisioning.py, tools/*.py    drafts, install, states    *)
(*   gateway/service.py                          the requests that drive it *)
(*                                                                         *)
(* Handlers are the gateway's request threads.  One call of a repository or *)
(* of the tool state store is one step; everything between two of them is   *)
(* local to the thread.  pc[p] names the graph node the thread is in, or    *)
(* the call inside a node it is about to make.                              *)
(***************************************************************************)
EXTENDS Naturals, FiniteSets, ToolLifecycle

CONSTANTS
    Handlers,    \* request threads of the gateway process
    Workflows,   \* the workflow ids uuid4 will hand out
    Sessions,
    Defs,        \* tool definitions, told apart by their hash
    Tools,       \* "name@version" keys
    ToolOf,      \* the key of each definition
    Eligible,    \* definitions RunOnceEligibilityEvaluator can accept
    Sensitive,   \* definitions whose action needs ephemeral arguments
    Inputs,      \* the decisions clients send
    MaxPending,  \* max_pending_per_session
    MaxCrashes,  \* bound: restarts of the gateway in one behaviour
    None

ASSUME ConstantsAssumption ==
    /\ ToolOf \in [Defs -> Tools]
    /\ Eligible \subseteq Defs
    /\ Sensitive \subseteq Defs
    /\ MaxPending \in Nat
    /\ MaxCrashes \in Nat
    /\ None \notin Workflows \cup Defs

PendingStatuses == {"WAITING_TOOL_APPROVAL", "WAITING_RETRY_CONFIRMATION"}

TerminalStatuses ==
    {"TOOL_REJECTED", "TOOL_APPROVAL_CANCELLED", "RETRY_REJECTED",
     "RETRY_CANCELLED", "ACTION_EXECUTED", "ACTION_FAILED",
     "WORKFLOW_EXPIRED"}

\* "absent": the repository has no record of the workflow.
Statuses ==
    {"absent", "TOOL_ENABLED", "RUNTIME_RELOADED"}
        \cup PendingStatuses \cup TerminalStatuses

Approvals      == {"approve_enable_only", "approve_enable_and_run_once"}
ToolDecisions  == Approvals \cup {"reject", "cancel"}
RetryDecisions == {"confirm", "reject", "cancel"}
Decisions      == ToolDecisions \cup RetryDecisions
Consents       == Approvals \cup {"confirm"}

Nodes ==
    {"create_draft", "wait_tool_approval", "tool_rejected", "tool_cancelled",
     "enable_tool", "reload_runtime", "wait_retry", "retry_rejected",
     "retry_cancelled", "execute_action"}

\* Calls made inside create_draft, enable_tool, reload_runtime, wait_retry,
\* execute_action and cleanup_expired.
Calls ==
    {"register_draft", "validate_draft", "report_draft", "create_record",
     "draft_created",
     "approve_tool", "install_tool", "mark_installed", "set_enabled",
     "release_lease", "abandon_lease", "tool_enabled",
     "record_reload", "dry_run", "route_reload", "offer_retry",
     "claim_retry", "run_action", "complete_retry", "record_outcome",
     "inspect_draft", "reject_draft", "remove_draft", "mark_expired"}

Pcs == {"idle", "invoke"} \cup Nodes \cup Calls

VARIABLES
    status,      \* capability_workflows.status
    retry,       \* capability_workflows.retry_status
    result,      \* what execution_result_json holds
    sess, def,   \* the session and the definition a workflow was started for
    expired,     \* workflows past their expires_at
    ckpt,        \* LangGraph's latest checkpoint of each workflow
    lease,       \* capability_tool_leases.owner_workflow_id
    leaseDue,    \* tools whose lease has passed its expires_at
    tstate,      \* ToolStateStore: state of each tool
    registered,  \* ToolStateStore: the definition the stored hashes are of
    draft,       \* the definition in the tool's quarantine directory
    installed,   \* the definition in the tool's install directory
    ephemeral,   \* workflows with an entry in _ephemeral_arguments
    pc, wf,      \* per handler: where it is, the workflow it works on
    resume,      \* per handler: the decision it resumes the graph with
    choice,      \* per handler: tool_decision of the graph state it runs on
    seen,        \* per handler: the record's status when it last read it
    outcome,     \* per handler: the result of the action
    crashes,
    executions,  \* history: how often a workflow's action really ran
    granted      \* history: the consents the user has sent to a workflow

recordVars  == <<status, retry, result>>
requestVars == <<sess, def, ephemeral>>
leaseVars   == <<lease, leaseDue>>
toolVars    == <<tstate, registered, draft, installed>>
localVars   == <<wf, resume, choice, seen, outcome>>
historyVars == <<executions, granted>>
vars == <<recordVars, requestVars, expired, ckpt, leaseVars, toolVars,
          pc, localVars, crashes, historyVars>>
-----------------------------------------------------------------------------
Unknown == "unknown"

RecordTypeOK ==
    /\ status \in [Workflows -> Statuses]
    /\ retry \in [Workflows -> {"pending", "executing", "executed", "failed"}]
    /\ result \in [Workflows -> {"none", "dry_run", "ok", "error"}]
    /\ sess \in [Workflows -> Sessions \cup {None}]
    /\ def \in [Workflows -> Defs \cup {None}]
    /\ expired \in SUBSET Workflows
    /\ ckpt \in [Workflows -> [next : Nodes \cup {"none", "end"},
                               choice : Approvals \cup {"none"}]]
    /\ lease \in [Tools -> Workflows \cup {None}]
    /\ leaseDue \in SUBSET Tools
    /\ ephemeral \in SUBSET Workflows
    /\ crashes \in 0 .. MaxCrashes
    /\ executions \in [Workflows -> Nat]
    /\ granted \in [Workflows -> SUBSET Consents]

ToolTypeOK ==
    /\ tstate \in [Tools -> ToolStates \cup {Unknown}]
    /\ registered \in [Tools -> Defs \cup {None}]
    /\ draft \in [Tools -> Defs \cup {None}]
    /\ installed \in [Tools -> Defs \cup {None}]

HandlerTypeOK ==
    /\ pc \in [Handlers -> Pcs]
    /\ wf \in [Handlers -> Workflows \cup {None}]
    /\ resume \in [Handlers -> Decisions \cup {"none"}]
    /\ choice \in [Handlers -> Approvals \cup {"none"}]
    /\ seen \in [Handlers -> Statuses]
    /\ outcome \in [Handlers -> {"none", "ok", "error"}]

TypeOK == RecordTypeOK /\ ToolTypeOK /\ HandlerTypeOK

Init ==
    /\ status = [w \in Workflows |-> "absent"]
    /\ retry = [w \in Workflows |-> "pending"]
    /\ result = [w \in Workflows |-> "none"]
    /\ sess = [w \in Workflows |-> None]
    /\ def = [w \in Workflows |-> None]
    /\ expired = {}
    /\ ckpt = [w \in Workflows |-> [next |-> "none", choice |-> "none"]]
    /\ lease = [t \in Tools |-> None]
    /\ leaseDue = {}
    /\ tstate = [t \in Tools |-> Unknown]
    /\ registered = [t \in Tools |-> None]
    /\ draft = [t \in Tools |-> None]
    /\ installed = [t \in Tools |-> None]
    /\ ephemeral = {}
    /\ pc = [p \in Handlers |-> "idle"]
    /\ wf = [p \in Handlers |-> None]
    /\ resume = [p \in Handlers |-> "none"]
    /\ choice = [p \in Handlers |-> "none"]
    /\ seen = [p \in Handlers |-> "absent"]
    /\ outcome = [p \in Handlers |-> "none"]
    /\ crashes = 0
    /\ executions = [w \in Workflows |-> 0]
    /\ granted = [w \in Workflows |-> {}]
-----------------------------------------------------------------------------
(* Steps shared by the handlers.                                           *)

Goto(p, l) == pc' = [pc EXCEPT ![p] = l]

\* The request ends, with a response or with an exception.
Return(p) ==
    /\ pc' = [pc EXCEPT ![p] = "idle"]
    /\ wf' = [wf EXCEPT ![p] = None]
    /\ resume' = [resume EXCEPT ![p] = "none"]
    /\ choice' = [choice EXCEPT ![p] = "none"]
    /\ seen' = [seen EXCEPT ![p] = "absent"]
    /\ outcome' = [outcome EXCEPT ![p] = "none"]

\* The tool the workflow of handler p is about.
Tool(p) == ToolOf[def[wf[p]]]

\* CapabilityWorkflowRepository.transition: UPDATE ... WHERE status = expected.
\* The nodes ignore whether it changed a row.
Transition(w, expected, target) ==
    status' = [status EXCEPT ![w] = IF @ = expected THEN target ELSE @]

\* LangGraph saves the node that comes next and the state's tool_decision.
Checkpoint(w, next, decision) ==
    ckpt' = [ckpt EXCEPT ![w] = [next |-> next, choice |-> decision]]

SetTool(t, s) == tstate' = [tstate EXCEPT ![t] = s]

\* The workflows of session s that count against its limit.
PendingApprovals(s) ==
    {w \in Workflows : status[w] = "WAITING_TOOL_APPROVAL" /\ sess[w] = s}

\* Seeded fault: > instead of >= in _ensure_pending_capacity_locked.
HasCapacity_OffByOne(s) == Cardinality(PendingApprovals(s)) <= MaxPending

HasCapacity(s) == Cardinality(PendingApprovals(s)) < MaxPending

EquivalentPending(s, d) ==
    {w \in Workflows : /\ status[w] \in PendingStatuses
                       /\ sess[w] = s
                       /\ def[w] = d}

\* GatewayService.handle holds the session's lock while it starts a
\* workflow; the decision endpoints do not take it.
HoldsSessionLock(p, s) ==
    /\ resume[p] = "none"
    /\ pc[p] \in {"create_draft", "register_draft", "validate_draft",
                  "report_draft", "create_record", "draft_created"}
    /\ sess[wf[p]] = s

\* Seeded fault: workflows are started without the session's lock.
SessionLocked_Never(s) == FALSE

SessionLocked(s) == \E q \in Handlers : HoldsSessionLock(q, s)
-----------------------------------------------------------------------------
(* start_from_proposal and the node create_draft.                          *)

\* No equivalent pending workflow, room left: a new id and a first invoke.
Start(p, w, s, d) ==
    /\ pc[p] = "idle"
    /\ ckpt[w].next = "none"
    /\ ~SessionLocked(s)
    /\ EquivalentPending(s, d) = {}
    /\ HasCapacity(s)
    /\ sess' = [sess EXCEPT ![w] = s]
    /\ def' = [def EXCEPT ![w] = d]
    /\ ephemeral' = IF d \in Sensitive THEN ephemeral \cup {w} ELSE ephemeral
    /\ Checkpoint(w, "create_draft", "none")
    /\ Goto(p, "create_draft")
    /\ wf' = [wf EXCEPT ![p] = w]
    /\ UNCHANGED <<recordVars, expired, leaseVars, toolVars, resume, choice,
                   seen, outcome, crashes, historyVars>>

\* ToolDraftGenerator.generate: a validated draft of the same hash is
\* reused, any other directory in the way is a FileExistsError.
GenerateDraft(p) ==
    LET t == Tool(p)
        d == def[wf[p]]
        reusable == draft[t] = d /\ tstate[t] = "validated"
    IN  /\ pc[p] = "create_draft"
        /\ \/ /\ reusable
              /\ Goto(p, "create_record")
              /\ UNCHANGED <<draft, localVars>>
           \/ /\ draft[t] = None
              /\ draft' = [draft EXCEPT ![t] = d]
              /\ Goto(p, "register_draft")
              /\ UNCHANGED localVars
           \/ /\ draft[t] # None /\ ~reusable
              /\ Return(p)
              /\ UNCHANGED draft
        /\ UNCHANGED <<recordVars, requestVars, expired, ckpt, leaseVars,
                       tstate, registered, installed, crashes, historyVars>>

\* ToolStateStore.register_draft overwrites whatever record there was.
RegisterDraft(p) ==
    /\ pc[p] = "register_draft"
    /\ SetTool(Tool(p), "draft")
    /\ registered' = [registered EXCEPT ![Tool(p)] = def[wf[p]]]
    /\ Goto(p, "validate_draft")
    /\ UNCHANGED <<recordVars, requestVars, expired, ckpt, leaseVars, draft,
                   installed, localVars, crashes, historyVars>>

\* A call of ToolStateStore.transition that ends the request when the
\* transition is not allowed.
ToolStep(p, from, target, next) ==
    /\ pc[p] = from
    /\ \/ /\ CanTransition(tstate[Tool(p)], target)
          /\ SetTool(Tool(p), target)
          /\ Goto(p, next)
          /\ UNCHANGED localVars
       \/ /\ ~CanTransition(tstate[Tool(p)], target)
          /\ Return(p)
          /\ UNCHANGED tstate
    /\ UNCHANGED <<recordVars, requestVars, expired, ckpt, leaseVars,
                   registered, draft, installed, crashes, historyVars>>

ValidateDraft(p) == ToolStep(p, "validate_draft", "validating", "report_draft")

\* The validator's report decides; a rejected draft still gets a workflow.
ReportDraft(p) ==
    \E verdict \in {"validated", "rejected"} :
        ToolStep(p, "report_draft", verdict, "create_record")

\* CapabilityWorkflowRepository.create: the limit again, and the primary key.
CreateRecord(p) ==
    LET w == wf[p]
    IN  /\ pc[p] = "create_record"
        /\ \/ /\ status[w] = "absent" /\ HasCapacity(sess[w])
              /\ status' = [status EXCEPT ![w] = "WAITING_TOOL_APPROVAL"]
              /\ Goto(p, "draft_created")
              /\ UNCHANGED localVars
           \/ /\ status[w] # "absent" \/ ~HasCapacity(sess[w])
              /\ Return(p)
              /\ UNCHANGED status
        /\ UNCHANGED <<retry, result, requestVars, expired, ckpt, leaseVars,
                       toolVars, crashes, historyVars>>

\* The graph moves to wait_tool_approval, whose interrupt ends the request.
DraftCreated(p) ==
    /\ pc[p] = "draft_created"
    /\ Checkpoint(wf[p], "wait_tool_approval", "none")
    /\ Return(p)
    /\ UNCHANGED <<recordVars, requestVars, expired, leaseVars, toolVars,
                   crashes, historyVars>>
-----------------------------------------------------------------------------
(* The decisions and the nodes that wait for them.                         *)

\* decide_tool, decide_retry (cancel calls them): the record is read and
\* its status checked; the graph is resumed in a later step.
Decide(p, w, waiting, decision) ==
    /\ pc[p] = "idle"
    /\ status[w] = waiting
    /\ wf' = [wf EXCEPT ![p] = w]
    /\ resume' = [resume EXCEPT ![p] = decision]
    /\ granted' = [granted EXCEPT ![w] = @ \cup ({decision} \cap Consents)]
    /\ Goto(p, "invoke")
    /\ UNCHANGED <<recordVars, requestVars, expired, ckpt, leaseVars,
                   toolVars, choice, seen, outcome, crashes, executions>>

DecideTool(p, w) ==
    \E d \in ToolDecisions \cap Inputs :
        Decide(p, w, "WAITING_TOOL_APPROVAL", d)

DecideRetry(p, w) ==
    \E d \in RetryDecisions \cap Inputs :
        Decide(p, w, "WAITING_RETRY_CONFIRMATION", d)

\* graph.invoke(Command(resume=...)): the run starts at the node the latest
\* checkpoint names, whichever it is; at the end of the graph it does nothing.
Invoke(p) ==
    /\ pc[p] = "invoke"
    /\ \/ /\ ckpt[wf[p]].next \in Nodes
          /\ Goto(p, ckpt[wf[p]].next)
          /\ choice' = [choice EXCEPT ![p] = ckpt[wf[p]].choice]
          /\ UNCHANGED <<wf, resume, seen, outcome>>
       \/ ckpt[wf[p]].next \notin Nodes /\ Return(p)
    /\ UNCHANGED <<recordVars, requestVars, expired, ckpt, leaseVars,
                   toolVars, crashes, historyVars>>

\* Seeded fault: everything but a cancellation approves.
AfterToolDecision_RejectEnables(d) ==
    IF d = "cancel" THEN "tool_cancelled" ELSE "enable_tool"

\* The node the decision of wait_tool_approval leads to.
AfterToolDecision(d) ==
    CASE d \in Approvals -> "enable_tool"
      [] d = "reject"    -> "tool_rejected"
      [] d = "cancel"    -> "tool_cancelled"

\* interrupt() returns the decision; a decision without an edge is a KeyError.
WaitToolApproval(p) ==
    LET d    == resume[p]
        next == AfterToolDecision(d)
        kept == IF d \in Approvals THEN d ELSE "none"
    IN  /\ pc[p] = "wait_tool_approval"
        /\ \/ /\ d \in ToolDecisions
              /\ Checkpoint(wf[p], next, kept)
              /\ Goto(p, next)
              /\ choice' = [choice EXCEPT ![p] = kept]
              /\ UNCHANGED <<wf, resume, seen, outcome>>
           \/ /\ d \notin ToolDecisions
              /\ Return(p)
              /\ UNCHANGED ckpt
        /\ UNCHANGED <<recordVars, requestVars, expired, leaseVars, toolVars,
                       crashes, historyVars>>

\* The four nodes that only record a refusal and end the graph.
Refuse(p, node, expected, target) ==
    /\ pc[p] = node
    /\ Transition(wf[p], expected, target)
    /\ Checkpoint(wf[p], "end", choice[p])
    /\ Return(p)
    /\ UNCHANGED <<retry, result, requestVars, expired, leaseVars, toolVars,
                   crashes, historyVars>>

ToolRejected(p) ==
    Refuse(p, "tool_rejected", "WAITING_TOOL_APPROVAL", "TOOL_REJECTED")
ToolCancelled(p) ==
    Refuse(p, "tool_cancelled", "WAITING_TOOL_APPROVAL",
           "TOOL_APPROVAL_CANCELLED")
RetryRejected(p) ==
    Refuse(p, "retry_rejected", "WAITING_RETRY_CONFIRMATION", "RETRY_REJECTED")
RetryCancelled(p) ==
    Refuse(p, "retry_cancelled", "WAITING_RETRY_CONFIRMATION",
           "RETRY_CANCELLED")

\* Seeded fault: the update has no WHERE status = expected.
OfferRetryRecord_AnyStatus(w) ==
    /\ status' = [status EXCEPT ![w] = "WAITING_RETRY_CONFIRMATION"]
    /\ result' = [result EXCEPT ![w] = "dry_run"]

\* The update wait_retry makes on its way to interrupt(), on every entry.
OfferRetryRecord(w) ==
    /\ Transition(w, "RUNTIME_RELOADED", "WAITING_RETRY_CONFIRMATION")
    /\ result' = [result EXCEPT ![w] =
                    IF status[w] = "RUNTIME_RELOADED" THEN "dry_run" ELSE @]

\* Reached from reload_runtime: the interrupt ends the request.
OfferRetry(p) ==
    /\ pc[p] = "offer_retry"
    /\ OfferRetryRecord(wf[p])
    /\ Return(p)
    /\ UNCHANGED <<retry, requestVars, expired, ckpt, leaseVars, toolVars,
                   crashes, historyVars>>

AfterRetryDecision(d) ==
    CASE d = "confirm" -> "execute_action"
      [] d = "reject"  -> "retry_rejected"
      [] d = "cancel"  -> "retry_cancelled"

\* Entered by an invoke: the interrupt returns the decision.
WaitRetry(p) ==
    LET d == resume[p]
    IN  /\ pc[p] = "wait_retry"
        /\ OfferRetryRecord(wf[p])
        /\ \/ /\ d \in RetryDecisions
              /\ Checkpoint(wf[p], AfterRetryDecision(d), choice[p])
              /\ Goto(p, AfterRetryDecision(d))
              /\ UNCHANGED localVars
           \/ /\ d \notin RetryDecisions
              /\ Return(p)
              /\ UNCHANGED ckpt
        /\ UNCHANGED <<retry, requestVars, expired, leaseVars, toolVars,
                       crashes, historyVars>>
-----------------------------------------------------------------------------
(* The node enable_tool: lease, approve, install, enable, release.         *)

\* acquire_tool_lease: free, our own, or past its expiry.
AcquireLease(p) ==
    LET t == Tool(p)
        free == lease[t] \in {None, wf[p]} \/ t \in leaseDue
    IN  /\ pc[p] = "enable_tool"
        /\ \/ /\ free
              /\ lease' = [lease EXCEPT ![t] = wf[p]]
              /\ leaseDue' = leaseDue \ {t}
              /\ Goto(p, "approve_tool")
              /\ UNCHANGED localVars
           \/ /\ ~free
              /\ Return(p)
              /\ UNCHANGED leaseVars
        /\ UNCHANGED <<recordVars, requestVars, expired, ckpt, toolVars,
                       crashes, historyVars>>

\* Seeded fault: the state is set to installed before the files are copied.
ApproveTool_SkipsCopy(p) ==
    /\ pc[p] = "approve_tool"
    /\ tstate[Tool(p)] = "validated"
    /\ SetTool(Tool(p), "approved")
    /\ Goto(p, "mark_installed")
    /\ UNCHANGED <<recordVars, requestVars, expired, ckpt, leaseVars,
                   registered, draft, installed, localVars, crashes,
                   historyVars>>

\* approve_install_enable up to the approval; an enabled tool is reused.
ApproveTool(p) ==
    LET t == Tool(p)
        reused == tstate[t] = "enabled" /\ installed[t] # None
    IN  /\ pc[p] = "approve_tool"
        /\ \/ /\ reused
              /\ Goto(p, "release_lease")
              /\ UNCHANGED tstate
           \/ /\ ~reused /\ tstate[t] = "validated"
              /\ SetTool(t, "approved")
              /\ Goto(p, "install_tool")
           \/ /\ ~reused /\ tstate[t] # "validated"
              /\ Goto(p, "abandon_lease")
              /\ UNCHANGED tstate
        /\ UNCHANGED <<recordVars, requestVars, expired, ckpt, leaseVars,
                       registered, draft, installed, localVars, crashes,
                       historyVars>>

\* ToolInstaller.install up to the copy; the copy or the environment made
\* after it can fail, which leaves the directory behind.
InstallTool(p) ==
    LET t == Tool(p)
    IN  /\ pc[p] = "install_tool"
        /\ \/ /\ tstate[t] = "approved" /\ draft[t] # None
              /\ installed[t] = None
              /\ installed' = [installed EXCEPT ![t] = draft[t]]
              /\ Goto(p, "mark_installed") \/ Goto(p, "abandon_lease")
           \/ /\ tstate[t] # "approved" \/ draft[t] = None
                 \/ installed[t] # None
              /\ Goto(p, "abandon_lease")
              /\ UNCHANGED installed
        /\ UNCHANGED <<recordVars, requestVars, expired, ckpt, leaseVars,
                       tstate, registered, draft, localVars, crashes,
                       historyVars>>

\* The two transitions after the copy; an invalid one releases the lease.
AdvanceTool(p, from, target, next) ==
    LET t == Tool(p)
    IN  /\ pc[p] = from
        /\ \/ /\ CanTransition(tstate[t], target)
              /\ SetTool(t, target)
              /\ Goto(p, next)
           \/ /\ ~CanTransition(tstate[t], target)
              /\ Goto(p, "abandon_lease")
              /\ UNCHANGED tstate
        /\ UNCHANGED <<recordVars, requestVars, expired, ckpt, leaseVars,
                       registered, draft, installed, localVars, crashes,
                       historyVars>>

MarkInstalled(p) == AdvanceTool(p, "mark_installed", "installed", "set_enabled")
SetEnabled(p)    == AdvanceTool(p, "set_enabled", "enabled", "release_lease")

\* release_tool_lease, in the finally clause: only the owner's row goes.
DropLease(w, t) ==
    lease' = [lease EXCEPT ![t] = IF @ = w THEN None ELSE @]

ReleaseLease(p) ==
    /\ pc[p] \in {"release_lease", "abandon_lease"}
    /\ DropLease(wf[p], Tool(p))
    /\ leaseDue' = IF lease[Tool(p)] = wf[p] THEN leaseDue \ {Tool(p)}
                   ELSE leaseDue
    /\ \/ /\ pc[p] = "release_lease"
          /\ Goto(p, "tool_enabled")
          /\ UNCHANGED localVars
       \/ pc[p] = "abandon_lease" /\ Return(p)
    /\ UNCHANGED <<recordVars, requestVars, expired, ckpt, toolVars, crashes,
                   historyVars>>

\* The end of enable_tool.
ToolEnabled(p) ==
    /\ pc[p] = "tool_enabled"
    /\ Transition(wf[p], "WAITING_TOOL_APPROVAL", "TOOL_ENABLED")
    /\ Checkpoint(wf[p], "reload_runtime", choice[p])
    /\ Goto(p, "reload_runtime")
    /\ UNCHANGED <<retry, result, requestVars, expired, leaseVars, toolVars,
                   localVars, crashes, historyVars>>
-----------------------------------------------------------------------------
(* The nodes reload_runtime and execute_action.                            *)

\* ToolCatalog.list_enabled with verify_integrity: an enabled tool whose
\* files are not the registered ones becomes broken.
VerifiedTools ==
    [t \in Tools |->
        IF /\ tstate[t] = "enabled"
           /\ installed[t] # None
           /\ installed[t] # registered[t]
        THEN "broken" ELSE tstate[t]]

\* The tool is in the registry a session builds now.
Live(t) == VerifiedTools[t] = "enabled" /\ installed[t] # None

\* Seeded fault: the decision is not looked at.
RoutedTo_AnyDecision(w, decision) ==
    IF def[w] \in Eligible /\ Live(ToolOf[def[w]]) /\ retry[w] = "pending"
    THEN "execute_action" ELSE "wait_retry"

\* _route_after_reload: run at once only what was approved for it, is
\* eligible by its definition, can execute and has not been tried.
RoutedTo(w, decision) ==
    IF /\ decision = "approve_enable_and_run_once"
       /\ def[w] \in Eligible
       /\ Live(ToolOf[def[w]])
       /\ retry[w] = "pending"
    THEN "execute_action" ELSE "wait_retry"

\* The session's agent is built again, and its registry asks the catalog for
\* the tools; an error in any part of it ends the request.
ReloadRuntime(p) ==
    /\ pc[p] = "reload_runtime"
    /\ tstate' = VerifiedTools
    /\ \/ Goto(p, "record_reload") /\ UNCHANGED localVars
       \/ Return(p)
    /\ UNCHANGED <<recordVars, requestVars, expired, ckpt, leaseVars,
                   registered, draft, installed, crashes, historyVars>>

RecordReload(p) ==
    /\ pc[p] = "record_reload"
    /\ Transition(wf[p], "TOOL_ENABLED", "RUNTIME_RELOADED")
    /\ Goto(p, "dry_run")
    /\ UNCHANGED <<retry, result, requestVars, expired, ckpt, leaseVars,
                   toolVars, localVars, crashes, historyVars>>

\* The checkpoint after reload_runtime, and on to the node it names.
LeaveReload(p, next) ==
    /\ Checkpoint(wf[p], next, choice[p])
    /\ Goto(p, IF next = "wait_retry" THEN "offer_retry" ELSE next)

\* A registry of its own says whether the tool can execute; when it cannot,
\* nothing that is read later makes the workflow eligible.
BuildDryRun(p) ==
    /\ pc[p] = "dry_run"
    /\ tstate' = VerifiedTools
    /\ IF Live(Tool(p)) THEN Goto(p, "route_reload") /\ UNCHANGED ckpt
                        ELSE LeaveReload(p, "wait_retry")
    /\ UNCHANGED <<recordVars, requestVars, expired, leaseVars, registered,
                   draft, installed, localVars, crashes, historyVars>>

\* The policy builds a third registry, when the decision calls for it; the
\* retry status, read after it, never becomes pending again.
RouteAfterReload(p) ==
    /\ pc[p] = "route_reload"
    /\ tstate' = IF choice[p] = "approve_enable_and_run_once"
                 THEN VerifiedTools ELSE tstate
    /\ LeaveReload(p, RoutedTo(wf[p], choice[p]))
    /\ UNCHANGED <<recordVars, requestVars, expired, leaseVars, registered,
                   draft, installed, localVars, crashes, historyVars>>

\* current = self._require_record(workflow_id)
LoadForExecution(p) ==
    /\ pc[p] = "execute_action"
    /\ seen' = [seen EXCEPT ![p] = status[wf[p]]]
    /\ Goto(p, "claim_retry")
    /\ UNCHANGED <<recordVars, requestVars, expired, ckpt, leaseVars,
                   toolVars, wf, resume, choice, outcome, crashes,
                   historyVars>>

\* Seeded fault: a claim whose holder is gone is taken over.
MayClaim_TakesOver(w) == retry[w] \in {"pending", "executing"}
\* Seeded fault: a failed action may be claimed again.
MayClaim_Failed(w) == retry[w] \in {"pending", "failed"}

\* claim_retry: UPDATE ... SET 'executing' WHERE retry_status = 'pending'.
MayClaim(w) == retry[w] = "pending"

ClaimRetry(p) ==
    LET w == wf[p]
    IN  /\ pc[p] = "claim_retry"
        /\ \/ /\ MayClaim(w)
              /\ retry' = [retry EXCEPT ![w] = "executing"]
              /\ Goto(p, "run_action")
              /\ UNCHANGED <<ckpt, localVars>>
           \/ /\ ~MayClaim(w)
              /\ Checkpoint(w, "end", choice[p])
              /\ Return(p)
              /\ UNCHANGED retry
        /\ UNCHANGED <<status, result, requestVars, expired, leaseVars,
                       toolVars, crashes, historyVars>>

Redacted(w) == def[w] \in Sensitive /\ w \notin ephemeral

\* _execute_action: refused without a live tool or without the arguments;
\* a run succeeds, fails, or ends the request with an exception.
RunAction(p) ==
    LET w == wf[p]
        runs == Live(Tool(p)) /\ ~Redacted(w)
    IN  /\ pc[p] = "run_action"
        /\ tstate' = IF Redacted(w) THEN tstate ELSE VerifiedTools
        /\ executions' = [executions EXCEPT ![w] = IF runs THEN @ + 1 ELSE @]
        /\ \/ /\ \E o \in IF runs THEN {"ok", "error"} ELSE {"error"} :
                    outcome' = [outcome EXCEPT ![p] = o]
              /\ Goto(p, "complete_retry")
              /\ UNCHANGED <<wf, resume, choice, seen>>
           \/ runs /\ Return(p)
        /\ UNCHANGED <<recordVars, requestVars, expired, ckpt, leaseVars,
                       registered, draft, installed, crashes, granted>>

\* Seeded fault: the result is not looked at.
FinalRetry_IgnoresOk(p) == "executed"

\* "executed" if result.get("ok") else "failed"
FinalRetry(p) == IF outcome[p] = "ok" THEN "executed" ELSE "failed"

\* complete_retry: UPDATE ... WHERE retry_status = 'executing'.
CompleteRetry(p) ==
    LET w == wf[p]
    IN  /\ pc[p] = "complete_retry"
        /\ retry' = [retry EXCEPT ![w] = IF @ = "executing" THEN FinalRetry(p) ELSE @]
        /\ result' = [result EXCEPT ![w] =
                        IF retry[w] = "executing" THEN outcome[p] ELSE @]
        /\ Goto(p, "record_outcome")
        /\ UNCHANGED <<status, requestVars, expired, ckpt, leaseVars, toolVars,
                       localVars, crashes, historyVars>>

\* The transition is expected from the status read before the claim.
RecordOutcome(p) ==
    LET w == wf[p]
        target == IF outcome[p] = "ok" THEN "ACTION_EXECUTED"
                  ELSE "ACTION_FAILED"
    IN  /\ pc[p] = "record_outcome"
        /\ Transition(w, seen[p], target)
        /\ result' = [result EXCEPT ![w] =
                        IF status[w] = seen[p] THEN outcome[p] ELSE @]
        /\ ephemeral' = ephemeral \ {w}
        /\ Checkpoint(w, "end", choice[p])
        /\ Return(p)
        /\ UNCHANGED <<retry, sess, def, expired, leaseVars, toolVars, crashes,
                       historyVars>>
-----------------------------------------------------------------------------
(* cleanup_expired, run at the start of every GatewayService.handle: one    *)
(* record of list_expired at a time, with the status it was listed with.    *)

ListExpired(p, w) ==
    /\ pc[p] = "idle"
    /\ w \in expired
    /\ status[w] \in PendingStatuses
    /\ wf' = [wf EXCEPT ![p] = w]
    /\ seen' = [seen EXCEPT ![p] = status[w]]
    /\ Goto(p, IF status[w] = "WAITING_TOOL_APPROVAL"
               THEN "inspect_draft" ELSE "mark_expired")
    /\ UNCHANGED <<recordVars, requestVars, expired, ckpt, leaseVars, toolVars,
                   resume, choice, outcome, crashes, historyVars>>

\* Seeded fault: a tool that left quarantine is an error, not a skip.
InspectDraft_Raises(p) ==
    LET s == tstate[Tool(p)]
    IN  /\ pc[p] = "inspect_draft"
        /\ \/ s = "validated" /\ Goto(p, "reject_draft") /\ UNCHANGED localVars
           \/ s = "rejected" /\ Goto(p, "remove_draft") /\ UNCHANGED localVars
           \/ s \notin {"validated", "rejected"} /\ Return(p)
        /\ UNCHANGED <<recordVars, requestVars, expired, ckpt, leaseVars,
                       toolVars, crashes, historyVars>>

\* remove_quarantined reads the tool's state.
InspectDraft(p) ==
    LET s == tstate[Tool(p)]
    IN  /\ pc[p] = "inspect_draft"
        /\ \/ s = "validated" /\ Goto(p, "reject_draft")
           \/ s = "rejected" /\ Goto(p, "remove_draft")
           \/ s \notin {"validated", "rejected"} /\ Goto(p, "mark_expired")
        /\ UNCHANGED <<recordVars, requestVars, expired, ckpt, leaseVars,
                       toolVars, localVars, crashes, historyVars>>

RejectDraft(p) == ToolStep(p, "reject_draft", "rejected", "remove_draft")

RemoveDraft(p) ==
    /\ pc[p] = "remove_draft"
    /\ draft' = [draft EXCEPT ![Tool(p)] = None]
    /\ Goto(p, "mark_expired")
    /\ UNCHANGED <<recordVars, requestVars, expired, ckpt, leaseVars, tstate,
                   registered, installed, localVars, crashes, historyVars>>

\* shutil.rmtree raises, on a file in use for one: the directory stays in the
\* way, and the exception ends the cleanup and the message it came with.
RemovalFails(p) ==
    /\ pc[p] = "remove_draft"
    /\ Return(p)
    /\ UNCHANGED <<recordVars, requestVars, expired, ckpt, leaseVars, toolVars,
                   crashes, historyVars>>

MarkExpired(p) ==
    /\ pc[p] = "mark_expired"
    /\ Transition(wf[p], seen[p], "WORKFLOW_EXPIRED")
    /\ Return(p)
    /\ UNCHANGED <<retry, result, requestVars, expired, ckpt, leaseVars,
                   toolVars, crashes, historyVars>>
-----------------------------------------------------------------------------
(* Time and restarts.                                                      *)

\* now >= expires_at; a record keeps its expiry for life.
ExpireWorkflow(w) ==
    /\ status[w] # "absent"
    /\ w \notin expired
    /\ expired' = expired \cup {w}
    /\ UNCHANGED <<recordVars, requestVars, ckpt, leaseVars, toolVars, pc,
                   localVars, crashes, historyVars>>

\* Five minutes after acquire_tool_lease.
ExpireLease(t) ==
    /\ lease[t] # None
    /\ t \notin leaseDue
    /\ leaseDue' = leaseDue \cup {t}
    /\ UNCHANGED <<recordVars, requestVars, expired, ckpt, lease, toolVars,
                   pc, localVars, crashes, historyVars>>

\* The process dies and a new one starts: threads and memory are lost, the
\* databases and the tool directories stay.
Crash ==
    /\ crashes < MaxCrashes
    /\ crashes' = crashes + 1
    /\ pc' = [p \in Handlers |-> "idle"]
    /\ wf' = [p \in Handlers |-> None]
    /\ resume' = [p \in Handlers |-> "none"]
    /\ choice' = [p \in Handlers |-> "none"]
    /\ seen' = [p \in Handlers |-> "absent"]
    /\ outcome' = [p \in Handlers |-> "none"]
    /\ ephemeral' = {}
    /\ UNCHANGED <<recordVars, sess, def, expired, ckpt, leaseVars, toolVars,
                   historyVars>>
-----------------------------------------------------------------------------
\* The steps a request thread takes once it is inside a request.
HandlerStep(p) ==
    \/ GenerateDraft(p) \/ RegisterDraft(p) \/ ValidateDraft(p)
    \/ ReportDraft(p) \/ CreateRecord(p) \/ DraftCreated(p)
    \/ Invoke(p) \/ WaitToolApproval(p) \/ ToolRejected(p) \/ ToolCancelled(p)
    \/ AcquireLease(p) \/ ApproveTool(p) \/ InstallTool(p) \/ MarkInstalled(p)
    \/ SetEnabled(p) \/ ReleaseLease(p) \/ ToolEnabled(p)
    \/ ReloadRuntime(p) \/ RecordReload(p) \/ BuildDryRun(p)
    \/ RouteAfterReload(p) \/ OfferRetry(p) \/ WaitRetry(p)
    \/ RetryRejected(p) \/ RetryCancelled(p)
    \/ LoadForExecution(p) \/ ClaimRetry(p) \/ RunAction(p)
    \/ CompleteRetry(p) \/ RecordOutcome(p)
    \/ InspectDraft(p) \/ RejectDraft(p) \/ RemoveDraft(p) \/ RemovalFails(p)
    \/ MarkExpired(p)

Request(p) ==
    \/ \E w \in Workflows, s \in Sessions, d \in Defs : Start(p, w, s, d)
    \/ \E w \in Workflows :
          DecideTool(p, w) \/ DecideRetry(p, w) \/ ListExpired(p, w)

Next ==
    \/ \E p \in Handlers : Request(p) \/ HandlerStep(p)
    \/ \E w \in Workflows : ExpireWorkflow(w)
    \/ \E t \in Tools : ExpireLease(t)
    \/ Crash

Spec == Init /\ [][Next]_vars

Removes(w) == \E p \in Handlers : wf[p] = w /\ RemoveDraft(p)

\* A request thread keeps running, requests that start with a cleanup keep
\* arriving (handle calls cleanup_expired first), and a directory whose removal
\* is tried again and again is removed in the end.
Fairness ==
    /\ \A p \in Handlers : WF_vars(HandlerStep(p))
    /\ \A w \in Workflows :
          /\ SF_vars(\E p \in Handlers : ListExpired(p, w))
          /\ SF_vars(Removes(w))

FairSpec == Spec /\ Fairness
-----------------------------------------------------------------------------
(* What the workflow promises.                                             *)

\* The action of a workflow runs at most once, whatever is sent twice, runs
\* concurrently, crashes or is retried (claim_retry, complete_retry).
ActionAtMostOnce == \A w \in Workflows : executions[w] <= 1

\* An action has run only if the user confirmed it, or approved running it
\* at once and its definition is eligible for that (_route_after_reload).
ExecutionConfirmed ==
    \A w \in Workflows : executions[w] > 0 =>
        \/ "confirm" \in granted[w]
        \/ "approve_enable_and_run_once" \in granted[w] /\ def[w] \in Eligible

\* A tool gets past quarantine only if the user approved a workflow about it
\* (wait_tool_approval, approve_install_enable).
EnabledOnlyIfApproved ==
    \A t \in Tools : tstate[t] \in {"approved", "installed", "enabled"} =>
        \E w \in Workflows : /\ def[w] # None
                             /\ ToolOf[def[w]] = t
                             /\ granted[w] \cap Approvals # {}

\* A tool that is installed or enabled has its files (ToolInstaller.install).
EnabledHasFiles ==
    \A t \in Tools :
        tstate[t] \in {"installed", "enabled"} => installed[t] # None

\* The drafts of session s for definition d that wait for approval.
EquivalentDrafts(s, d) == {w \in PendingApprovals(s) : def[w] = d}

\* No session has more than MaxPending drafts to decide, although the limit is
\* first checked before the draft is made (ensure_pending_capacity, create).
PendingWithinLimit ==
    \A s \in Sessions : Cardinality(PendingApprovals(s)) <= MaxPending

\* What start_from_proposal checked when it let a request in still holds when
\* the request inserts its record, some calls later: no equivalent draft has
\* come to wait in the session, and there is room (GatewayService.handle keeps
\* the session's lock between the two).  A request that a decision has sent
\* back to create_draft already has its record.
StartChecksHold ==
    \A p \in Handlers : pc[p] = "create_record" =>
        \/ status[wf[p]] # "absent"
        \/ /\ EquivalentDrafts(sess[wf[p]], def[wf[p]]) = {}
           /\ HasCapacity(sess[wf[p]])

\* The stage a workflow ended in agrees with its retry lifecycle and with the
\* stored result (execute_action's two updates of one record).
OutcomeConsistent ==
    \A w \in Workflows :
        /\ status[w] = "ACTION_EXECUTED" =>
              retry[w] = "executed" /\ result[w] = "ok"
        /\ status[w] = "ACTION_FAILED" =>
              retry[w] = "failed" /\ result[w] = "error"

\* The retry life cycle is that of OneShotAction: only who moves pending to
\* executing runs the action, and executed means that it ran and succeeded.
OneShot == INSTANCE OneShotAction
               WITH Actions <- Workflows, phase <- retry, runs <- executions

ImplementsOneShot == OneShot!Spec

\* A workflow that has ended never waits for the user again
\* (every update of status is a compare-and-set).
NeverReopened ==
    [][\A w \in Workflows :
         status[w] \in TerminalStatuses => status'[w] \in TerminalStatuses]_vars

\* A workflow that has expired does not wait for the user for ever, whatever
\* the state of its tool and the decisions that race with the cleanup.
ExpiredEventuallyCleaned ==
    \A w \in Workflows :
        (w \in expired /\ status[w] \in PendingStatuses)
            ~> status[w] \notin PendingStatuses
=============================================================================
