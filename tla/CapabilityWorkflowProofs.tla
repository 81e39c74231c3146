---------------------- MODULE CapabilityWorkflowProofs ----------------------
(***************************************************************************)
(* Proofs about CapabilityWorkflow for every set of request threads,       *)
(* workflows, sessions, definitions and tools.                             *)
(***************************************************************************)
EXTENDS CapabilityWorkflow, FiniteSetTheorems, TLAPS

\* A thread inside a request works on a workflow.
Working == \A p \in Handlers : pc[p] # "idle" => wf[p] \in Workflows

HandlerInv == HandlerTypeOK /\ Working

TypeInv == TypeOK /\ Working

\* The tuples UNCHANGED is said of.
USE DEF recordVars, requestVars, leaseVars, toolVars, localVars, historyVars

-----------------------------------------------------------------------------
(* The steps the actions share.                                            *)

LEMMA ReturnType ==
    ASSUME HandlerInv, NEW p \in Handlers, Return(p)
    PROVE  HandlerInv'
BY DEF HandlerInv, HandlerTypeOK, Working, Return, Pcs, Decisions, Statuses

LEMMA GotoType ==
    ASSUME HandlerInv, NEW p \in Handlers, pc[p] # "idle",
           NEW l \in Pcs, Goto(p, l), UNCHANGED localVars
    PROVE  HandlerInv'
BY DEF HandlerInv, HandlerTypeOK, Working, Goto, localVars

LEMMA BusyWorkflow ==
    ASSUME TypeInv, NEW p \in Handlers, pc[p] # "idle"
    PROVE  wf[p] \in Workflows /\ def[wf[p]] \in Defs \cup {None}
BY DEF TypeInv, TypeOK, Working, RecordTypeOK

LEMMA SetToolType ==
    ASSUME ToolTypeOK, NEW t, NEW s \in ToolStates, SetTool(t, s),
           UNCHANGED <<registered, draft, installed>>
    PROVE  ToolTypeOK'
BY DEF ToolTypeOK, SetTool

LEMMA VerifiedType ==
    ASSUME ToolTypeOK
    PROVE  VerifiedTools \in [Tools -> ToolStates \cup {Unknown}]
BY DEF ToolTypeOK, VerifiedTools, ToolStates

LEMMA StatesTyped ==
    /\ \A s \in {"draft", "validating", "validated", "rejected", "approved",
                 "installed", "enabled"} : s \in ToolStates
    /\ Nodes \subseteq Pcs
    /\ Calls \subseteq Pcs
    /\ "invoke" \in Pcs
BY DEF ToolStates, Pcs

LEMMA ToolStepType ==
    ASSUME TypeInv, NEW p \in Handlers, NEW from \in Calls, NEW next \in Calls,
           NEW target \in ToolStates, ToolStep(p, from, target, next)
    PROVE  TypeInv'
<1>1. RecordTypeOK'
  BY DEF TypeInv, TypeOK, ToolStep, RecordTypeOK, recordVars, requestVars,
         leaseVars, historyVars
<1>2. ToolTypeOK'
  <2>1. CASE SetTool(Tool(p), target)
    BY <2>1, SetToolType DEF TypeInv, TypeOK, ToolStep
  <2>2. CASE UNCHANGED tstate
    BY <2>2 DEF TypeInv, TypeOK, ToolStep, ToolTypeOK
  <2>. QED BY <2>1, <2>2 DEF ToolStep
<1>3. HandlerInv'
  <2>0. HandlerInv /\ pc[p] # "idle" /\ next \in Pcs
    BY StatesTyped DEF TypeInv, TypeOK, HandlerInv, ToolStep, Calls
  <2>1. CASE Goto(p, next) /\ UNCHANGED localVars
    BY <2>0, <2>1, GotoType
  <2>2. CASE Return(p)
    BY <2>0, <2>2, ReturnType
  <2>. QED BY <2>1, <2>2 DEF ToolStep
<1>. QED BY <1>1, <1>2, <1>3 DEF TypeInv, TypeOK, HandlerInv
-----------------------------------------------------------------------------
(* start_from_proposal and create_draft.                                   *)

LEMMA StartType ==
    ASSUME TypeInv, NEW p \in Handlers, NEW w \in Workflows,
           NEW s \in Sessions, NEW d \in Defs, Start(p, w, s, d)
    PROVE  TypeInv'
<1>1. RecordTypeOK'
  BY DEF TypeInv, TypeOK, RecordTypeOK, Start, Checkpoint, Nodes
<1>2. ToolTypeOK'
  BY DEF TypeInv, TypeOK, ToolTypeOK, Start
<1>3. HandlerInv'
  BY StatesTyped
     DEF TypeInv, TypeOK, HandlerInv, HandlerTypeOK, Working, Start, Goto, Nodes
<1>. QED BY <1>1, <1>2, <1>3 DEF TypeInv, TypeOK, HandlerInv

LEMMA GenerateDraftType ==
    ASSUME TypeInv, NEW p \in Handlers, GenerateDraft(p)
    PROVE  TypeInv'
<1>1. RecordTypeOK'
  BY DEF TypeInv, TypeOK, RecordTypeOK, GenerateDraft
<1>2. ToolTypeOK'
  BY BusyWorkflow DEF TypeInv, TypeOK, ToolTypeOK, GenerateDraft
<1>3. HandlerInv'
  <2>1. HandlerInv /\ pc[p] # "idle"
    BY DEF TypeInv, TypeOK, HandlerInv, GenerateDraft
  <2>2. "create_record" \in Pcs /\ "register_draft" \in Pcs
    BY DEF Pcs, Calls
  <2>3. \/ Goto(p, "create_record") /\ UNCHANGED localVars
        \/ Goto(p, "register_draft") /\ UNCHANGED localVars
        \/ Return(p)
    BY DEF GenerateDraft
  <2>. QED BY <2>1, <2>2, <2>3, GotoType, ReturnType
<1>. QED BY <1>1, <1>2, <1>3 DEF TypeInv, TypeOK, HandlerInv

LEMMA RegisterDraftType ==
    ASSUME TypeInv, NEW p \in Handlers, RegisterDraft(p)
    PROVE  TypeInv'
<1>1. RecordTypeOK'
  BY DEF TypeInv, TypeOK, RecordTypeOK, RegisterDraft
<1>2. ToolTypeOK'
  BY BusyWorkflow, StatesTyped
     DEF TypeInv, TypeOK, ToolTypeOK, RegisterDraft, SetTool
<1>3. HandlerInv'
  BY GotoType DEF TypeInv, TypeOK, HandlerInv, RegisterDraft, Pcs, Calls
<1>. QED BY <1>1, <1>2, <1>3 DEF TypeInv, TypeOK, HandlerInv

LEMMA ToolStepsType ==
    ASSUME TypeInv, NEW p \in Handlers,
           ValidateDraft(p) \/ ReportDraft(p) \/ RejectDraft(p)
    PROVE  TypeInv'
<1>1. {"validate_draft", "report_draft", "create_record", "reject_draft",
       "remove_draft"} \subseteq Calls
  BY DEF Calls
<1>. QED
  BY <1>1, ToolStepType, StatesTyped
     DEF ValidateDraft, ReportDraft, RejectDraft

LEMMA CreateRecordType ==
    ASSUME TypeInv, NEW p \in Handlers, CreateRecord(p)
    PROVE  TypeInv'
<1>1. RecordTypeOK'
  BY DEF TypeInv, TypeOK, RecordTypeOK, CreateRecord, Statuses, PendingStatuses
<1>2. ToolTypeOK'
  BY DEF TypeInv, TypeOK, ToolTypeOK, CreateRecord
<1>3. HandlerInv'
  <2>1. HandlerInv /\ pc[p] # "idle" /\ "draft_created" \in Pcs
    BY DEF TypeInv, TypeOK, HandlerInv, CreateRecord, Pcs, Calls
  <2>. QED BY <2>1, GotoType, ReturnType DEF CreateRecord
<1>. QED BY <1>1, <1>2, <1>3 DEF TypeInv, TypeOK, HandlerInv

LEMMA DraftCreatedType ==
    ASSUME TypeInv, NEW p \in Handlers, DraftCreated(p)
    PROVE  TypeInv'
<1>1. RecordTypeOK'
  BY BusyWorkflow
     DEF TypeInv, TypeOK, RecordTypeOK, DraftCreated, Checkpoint, Nodes
<1>2. ToolTypeOK'
  BY DEF TypeInv, TypeOK, ToolTypeOK, DraftCreated
<1>3. HandlerInv'
  BY ReturnType DEF TypeInv, TypeOK, HandlerInv, DraftCreated
<1>. QED BY <1>1, <1>2, <1>3 DEF TypeInv, TypeOK, HandlerInv
-----------------------------------------------------------------------------
(* The decisions and the nodes that wait for them.                         *)

LEMMA DecideType ==
    ASSUME TypeInv, NEW p \in Handlers, NEW w \in Workflows,
           NEW waiting, NEW d \in Decisions, Decide(p, w, waiting, d)
    PROVE  TypeInv'
<1>1. RecordTypeOK'
  BY DEF TypeInv, TypeOK, RecordTypeOK, Decide
<1>2. ToolTypeOK'
  BY DEF TypeInv, TypeOK, ToolTypeOK, Decide
<1>3. HandlerInv'
  BY StatesTyped
     DEF TypeInv, TypeOK, HandlerInv, HandlerTypeOK, Working, Decide, Goto
<1>. QED BY <1>1, <1>2, <1>3 DEF TypeInv, TypeOK, HandlerInv

LEMMA InvokeType ==
    ASSUME TypeInv, NEW p \in Handlers, Invoke(p)
    PROVE  TypeInv'
<1>1. RecordTypeOK'
  BY DEF TypeInv, TypeOK, RecordTypeOK, Invoke
<1>2. ToolTypeOK'
  BY DEF TypeInv, TypeOK, ToolTypeOK, Invoke
<1>3. HandlerInv'
  <2>1. wf[p] \in Workflows /\ HandlerInv
    BY BusyWorkflow DEF TypeInv, TypeOK, HandlerInv, Invoke
  <2>2. CASE Return(p)
    BY <2>1, <2>2, ReturnType
  <2>3. CASE /\ ckpt[wf[p]].next \in Nodes
             /\ Goto(p, ckpt[wf[p]].next)
             /\ choice' = [choice EXCEPT ![p] = ckpt[wf[p]].choice]
             /\ UNCHANGED <<wf, resume, seen, outcome>>
    <3>1. ckpt[wf[p]].choice \in Approvals \cup {"none"}
      BY <2>1 DEF TypeInv, TypeOK, RecordTypeOK
    <3>. QED
      BY <2>1, <2>3, <3>1, StatesTyped
         DEF HandlerInv, HandlerTypeOK, Working, Goto, Invoke
  <2>. QED BY <2>2, <2>3 DEF Invoke
<1>. QED BY <1>1, <1>2, <1>3 DEF TypeInv, TypeOK, HandlerInv

LEMMA WaitToolApprovalType ==
    ASSUME TypeInv, NEW p \in Handlers, WaitToolApproval(p)
    PROVE  TypeInv'
<1>0. wf[p] \in Workflows /\ HandlerInv
  BY BusyWorkflow DEF TypeInv, TypeOK, HandlerInv, WaitToolApproval
<1>1. ASSUME resume[p] \in ToolDecisions
      PROVE  AfterToolDecision(resume[p]) \in Nodes
  BY <1>1 DEF AfterToolDecision, ToolDecisions, Approvals, Nodes
<1>2. RecordTypeOK'
  <2>1. CASE UNCHANGED ckpt
    BY <2>1 DEF TypeInv, TypeOK, RecordTypeOK, WaitToolApproval
  <2>2. CASE resume[p] \in ToolDecisions /\ ~UNCHANGED ckpt
    <3>. DEFINE next == AfterToolDecision(resume[p])
                kept == IF resume[p] \in Approvals THEN resume[p] ELSE "none"
    <3>1. /\ ckpt' = [ckpt EXCEPT ![wf[p]] = [next |-> next, choice |-> kept]]
          /\ UNCHANGED <<status, retry, result, sess, def, ephemeral, expired,
                         lease, leaseDue, crashes, executions, granted>>
      BY <2>2 DEF WaitToolApproval, Checkpoint
    <3>2. next \in Nodes /\ kept \in Approvals \cup {"none"}
      BY <1>1, <2>2
    <3>. HIDE DEF next, kept
    <3>. QED BY <1>0, <3>1, <3>2 DEF TypeInv, TypeOK, RecordTypeOK
  <2>. QED BY <2>1, <2>2 DEF WaitToolApproval
<1>3. ToolTypeOK'
  BY DEF TypeInv, TypeOK, ToolTypeOK, WaitToolApproval
<1>4. HandlerInv'
  <2>1. CASE Return(p)
    BY <1>0, <2>1, ReturnType
  <2>2. CASE resume[p] \in ToolDecisions /\ ~Return(p)
    <3>. DEFINE next == AfterToolDecision(resume[p])
                kept == IF resume[p] \in Approvals THEN resume[p] ELSE "none"
    <3>1. /\ pc' = [pc EXCEPT ![p] = next]
          /\ choice' = [choice EXCEPT ![p] = kept]
          /\ UNCHANGED <<wf, resume, seen, outcome>>
      BY <2>2 DEF WaitToolApproval, Goto
    <3>2. next \in Pcs /\ kept \in Approvals \cup {"none"}
      BY <1>1, <2>2, StatesTyped
    <3>. HIDE DEF next, kept
    <3>. QED BY <1>0, <3>1, <3>2 DEF HandlerInv, HandlerTypeOK, Working
  <2>. QED BY <2>1, <2>2 DEF WaitToolApproval
<1>. QED BY <1>2, <1>3, <1>4 DEF TypeInv, TypeOK, HandlerInv

LEMMA RefuseType ==
    ASSUME TypeInv, NEW p \in Handlers, NEW node \in Nodes, NEW expected,
           NEW target \in Statuses, Refuse(p, node, expected, target)
    PROVE  TypeInv'
<1>0. wf[p] \in Workflows /\ HandlerInv /\ choice[p] \in Approvals \cup {"none"}
  BY BusyWorkflow
     DEF TypeInv, TypeOK, HandlerInv, HandlerTypeOK, Refuse, Nodes
<1>1. RecordTypeOK'
  BY <1>0
     DEF TypeInv, TypeOK, RecordTypeOK, Refuse, Transition, Checkpoint
<1>2. ToolTypeOK'
  BY DEF TypeInv, TypeOK, ToolTypeOK, Refuse
<1>3. HandlerInv'
  BY <1>0, ReturnType DEF Refuse
<1>. QED BY <1>1, <1>2, <1>3 DEF TypeInv, TypeOK, HandlerInv

LEMMA RefusalsType ==
    ASSUME TypeInv, NEW p \in Handlers,
           \/ ToolRejected(p) \/ ToolCancelled(p)
           \/ RetryRejected(p) \/ RetryCancelled(p)
    PROVE  TypeInv'
<1>1. {"tool_rejected", "tool_cancelled", "retry_rejected",
       "retry_cancelled"} \subseteq Nodes
  BY DEF Nodes
<1>2. {"TOOL_REJECTED", "TOOL_APPROVAL_CANCELLED", "RETRY_REJECTED",
       "RETRY_CANCELLED"} \subseteq Statuses
  BY DEF Statuses, TerminalStatuses
<1>. QED
  BY <1>1, <1>2, RefuseType
     DEF ToolRejected, ToolCancelled, RetryRejected, RetryCancelled

LEMMA OfferRetryType ==
    ASSUME TypeInv, NEW p \in Handlers, OfferRetry(p)
    PROVE  TypeInv'
<1>1. RecordTypeOK'
  BY DEF TypeInv, TypeOK, RecordTypeOK, OfferRetry, OfferRetryRecord,
         Transition, Statuses, PendingStatuses
<1>2. ToolTypeOK'
  BY DEF TypeInv, TypeOK, ToolTypeOK, OfferRetry
<1>3. HandlerInv'
  BY ReturnType DEF TypeInv, TypeOK, HandlerInv, OfferRetry
<1>. QED BY <1>1, <1>2, <1>3 DEF TypeInv, TypeOK, HandlerInv

LEMMA WaitRetryType ==
    ASSUME TypeInv, NEW p \in Handlers, WaitRetry(p)
    PROVE  TypeInv'
<1>0. /\ wf[p] \in Workflows /\ HandlerInv /\ pc[p] # "idle"
      /\ choice[p] \in Approvals \cup {"none"}
  BY BusyWorkflow
     DEF TypeInv, TypeOK, HandlerInv, HandlerTypeOK, WaitRetry
<1>1. ASSUME resume[p] \in RetryDecisions
      PROVE  AfterRetryDecision(resume[p]) \in Nodes
  BY <1>1 DEF AfterRetryDecision, RetryDecisions, Nodes
<1>2. RecordTypeOK'
  BY <1>0, <1>1
     DEF TypeInv, TypeOK, RecordTypeOK, WaitRetry, OfferRetryRecord,
         Transition, Checkpoint, Statuses, PendingStatuses
<1>3. ToolTypeOK'
  BY DEF TypeInv, TypeOK, ToolTypeOK, WaitRetry
<1>4. HandlerInv'
  BY <1>0, <1>1, StatesTyped, GotoType, ReturnType DEF WaitRetry
<1>. QED BY <1>2, <1>3, <1>4 DEF TypeInv, TypeOK, HandlerInv
-----------------------------------------------------------------------------
(* enable_tool.                                                            *)

LEMMA AcquireLeaseType ==
    ASSUME TypeInv, NEW p \in Handlers, AcquireLease(p)
    PROVE  TypeInv'
<1>0. wf[p] \in Workflows /\ HandlerInv /\ pc[p] # "idle"
  BY BusyWorkflow DEF TypeInv, TypeOK, HandlerInv, AcquireLease
<1>1. RecordTypeOK'
  BY <1>0 DEF TypeInv, TypeOK, RecordTypeOK, AcquireLease
<1>2. ToolTypeOK'
  BY DEF TypeInv, TypeOK, ToolTypeOK, AcquireLease
<1>3. HandlerInv'
  BY <1>0, GotoType, ReturnType DEF AcquireLease, Pcs, Calls
<1>. QED BY <1>1, <1>2, <1>3 DEF TypeInv, TypeOK, HandlerInv

LEMMA ApproveToolType ==
    ASSUME TypeInv, NEW p \in Handlers, ApproveTool(p)
    PROVE  TypeInv'
<1>0. HandlerInv /\ pc[p] # "idle"
  BY DEF TypeInv, TypeOK, HandlerInv, ApproveTool
<1>1. RecordTypeOK'
  BY DEF TypeInv, TypeOK, RecordTypeOK, ApproveTool
<1>2. ToolTypeOK'
  BY SetToolType, StatesTyped DEF TypeInv, TypeOK, ToolTypeOK, ApproveTool
<1>3. HandlerInv'
  <2>1. {"release_lease", "install_tool", "abandon_lease"} \subseteq Pcs
    BY DEF Pcs, Calls
  <2>. QED BY <1>0, <2>1, GotoType DEF ApproveTool
<1>. QED BY <1>1, <1>2, <1>3 DEF TypeInv, TypeOK, HandlerInv

LEMMA InstallToolType ==
    ASSUME TypeInv, NEW p \in Handlers, InstallTool(p)
    PROVE  TypeInv'
<1>0. HandlerInv /\ pc[p] # "idle"
  BY DEF TypeInv, TypeOK, HandlerInv, InstallTool
<1>1. RecordTypeOK'
  BY DEF TypeInv, TypeOK, RecordTypeOK, InstallTool
<1>2. ToolTypeOK'
  BY DEF TypeInv, TypeOK, ToolTypeOK, InstallTool
<1>3. HandlerInv'
  <2>1. {"mark_installed", "abandon_lease"} \subseteq Pcs
    BY DEF Pcs, Calls
  <2>. QED BY <1>0, <2>1, GotoType DEF InstallTool
<1>. QED BY <1>1, <1>2, <1>3 DEF TypeInv, TypeOK, HandlerInv

LEMMA AdvanceToolType ==
    ASSUME TypeInv, NEW p \in Handlers, MarkInstalled(p) \/ SetEnabled(p)
    PROVE  TypeInv'
<1>1. ASSUME NEW from \in Calls, NEW target \in ToolStates, NEW next \in Calls,
             AdvanceTool(p, from, target, next)
      PROVE  TypeInv'
  <2>0. HandlerInv /\ pc[p] # "idle"
    BY <1>1 DEF TypeInv, TypeOK, HandlerInv, AdvanceTool, Calls
  <2>1. RecordTypeOK'
    BY <1>1 DEF TypeInv, TypeOK, RecordTypeOK, AdvanceTool
  <2>2. ToolTypeOK'
    BY <1>1, SetToolType DEF TypeInv, TypeOK, ToolTypeOK, AdvanceTool
  <2>3. next \in Pcs /\ "abandon_lease" \in Pcs
    BY DEF Pcs, Calls
  <2>4. HandlerInv'
    BY <1>1, <2>0, <2>3, GotoType DEF AdvanceTool
  <2>. QED BY <2>1, <2>2, <2>4 DEF TypeInv, TypeOK, HandlerInv
<1>2. {"mark_installed", "set_enabled", "release_lease"} \subseteq Calls
  BY DEF Calls
<1>. QED BY <1>1, <1>2, StatesTyped DEF MarkInstalled, SetEnabled

LEMMA ReleaseLeaseType ==
    ASSUME TypeInv, NEW p \in Handlers, ReleaseLease(p)
    PROVE  TypeInv'
<1>0. HandlerInv /\ pc[p] # "idle"
  BY DEF TypeInv, TypeOK, HandlerInv, ReleaseLease
<1>1. RecordTypeOK'
  BY DEF TypeInv, TypeOK, RecordTypeOK, ReleaseLease, DropLease
<1>2. ToolTypeOK'
  BY DEF TypeInv, TypeOK, ToolTypeOK, ReleaseLease
<1>3. HandlerInv'
  BY <1>0, GotoType, ReturnType DEF ReleaseLease, Pcs, Calls
<1>. QED BY <1>1, <1>2, <1>3 DEF TypeInv, TypeOK, HandlerInv

LEMMA ToolEnabledType ==
    ASSUME TypeInv, NEW p \in Handlers, ToolEnabled(p)
    PROVE  TypeInv'
<1>0. /\ HandlerInv /\ pc[p] # "idle"
      /\ choice[p] \in Approvals \cup {"none"}
  BY DEF TypeInv, TypeOK, HandlerInv, HandlerTypeOK, ToolEnabled
<1>1. RecordTypeOK'
  BY <1>0 DEF TypeInv, TypeOK, RecordTypeOK, ToolEnabled, Transition,
              Checkpoint, Statuses, Nodes
<1>2. ToolTypeOK'
  BY DEF TypeInv, TypeOK, ToolTypeOK, ToolEnabled
<1>3. HandlerInv'
  BY <1>0, GotoType DEF ToolEnabled, Pcs, Nodes
<1>. QED BY <1>1, <1>2, <1>3 DEF TypeInv, TypeOK, HandlerInv
-----------------------------------------------------------------------------
(* reload_runtime and execute_action.                                      *)

\* The calls of the node reload_runtime.
ReloadStep(p) ==
    \/ ReloadRuntime(p) \/ RecordReload(p) \/ BuildDryRun(p)
    \/ RouteAfterReload(p)

ReloadPcs == {"reload_runtime", "record_reload", "dry_run", "route_reload"}

\* The node leaves for next, and the thread for the call next stands for.
LeavesFor(p, next) ==
    LeaveReload(p, next) /\ UNCHANGED <<status, localVars>>

LEMMA ReloadCases ==
    ASSUME NEW p \in Handlers, ReloadStep(p)
    PROVE  /\ pc[p] \in ReloadPcs
           /\ UNCHANGED <<retry, result, requestVars, expired, leaseVars,
                          registered, draft, installed, crashes, historyVars>>
           /\ tstate' = VerifiedTools \/ UNCHANGED tstate
           /\ \/ Return(p) /\ UNCHANGED <<status, ckpt>>
              \/ /\ \E l \in ReloadPcs : Goto(p, l)
                 /\ UNCHANGED <<ckpt, localVars>>
                 /\ \/ UNCHANGED status
                    \/ Transition(wf[p], "TOOL_ENABLED", "RUNTIME_RELOADED")
              \/ LeavesFor(p, "wait_retry")
              \/ /\ LeavesFor(p, "execute_action")
                 /\ RoutedTo(wf[p], choice[p]) = "execute_action"
<1>. USE DEF ReloadPcs
<1>1. CASE ReloadRuntime(p)
  BY <1>1 DEF ReloadRuntime, recordVars, toolVars
<1>2. CASE RecordReload(p)
  BY <1>2 DEF RecordReload, recordVars, toolVars
<1>3. CASE BuildDryRun(p)
  BY <1>3 DEF BuildDryRun, recordVars, toolVars, LeavesFor
<1>4. CASE RouteAfterReload(p)
  <2>1. RoutedTo(wf[p], choice[p]) \in {"execute_action", "wait_retry"}
    BY DEF RoutedTo
  <2>. QED BY <1>4, <2>1 DEF RouteAfterReload, recordVars, toolVars, LeavesFor
<1>. QED BY <1>1, <1>2, <1>3, <1>4 DEF ReloadStep

LEMMA ReloadStepType ==
    ASSUME TypeInv, NEW p \in Handlers, ReloadStep(p)
    PROVE  TypeInv'
<1>0. /\ HandlerInv /\ pc[p] # "idle"
      /\ choice[p] \in Approvals \cup {"none"}
  BY ReloadCases DEF TypeInv, TypeOK, HandlerInv, HandlerTypeOK, ReloadPcs
<1>1. RecordTypeOK'
  <2>1. status' \in [Workflows -> Statuses]
    BY ReloadCases
       DEF TypeInv, TypeOK, RecordTypeOK, LeavesFor, Transition, Statuses
  <2>2. ckpt' \in [Workflows -> [next : Nodes \cup {"none", "end"},
                                choice : Approvals \cup {"none"}]]
    <3>1. ckpt \in [Workflows -> [next : Nodes \cup {"none", "end"},
                                 choice : Approvals \cup {"none"}]]
      BY DEF TypeInv, TypeOK, RecordTypeOK
    <3>2. \/ UNCHANGED ckpt
          \/ \E next \in {"wait_retry", "execute_action"} :
                Checkpoint(wf[p], next, choice[p])
      BY ReloadCases DEF LeavesFor, LeaveReload
    <3>. QED BY <1>0, <3>1, <3>2 DEF Checkpoint, Nodes
  <2>. QED BY <2>1, <2>2, ReloadCases DEF TypeInv, TypeOK, RecordTypeOK
<1>2. ToolTypeOK'
  BY VerifiedType, ReloadCases DEF TypeInv, TypeOK, ToolTypeOK
<1>3. HandlerInv'
  <2>1. ReloadPcs \cup {"offer_retry", "execute_action"} \subseteq Pcs
    BY DEF Pcs, Nodes, Calls, ReloadPcs
  <2>2. \/ Return(p)
        \/ \E l \in ReloadPcs \cup {"offer_retry", "execute_action"} :
              Goto(p, l) /\ UNCHANGED localVars
    BY ReloadCases DEF LeavesFor, LeaveReload
  <2>. QED BY <1>0, <2>1, <2>2, GotoType, ReturnType DEF ReloadPcs
<1>. QED BY <1>1, <1>2, <1>3 DEF TypeInv, TypeOK, HandlerInv

LEMMA LoadForExecutionType ==
    ASSUME TypeInv, NEW p \in Handlers, LoadForExecution(p)
    PROVE  TypeInv'
<1>0. wf[p] \in Workflows
  BY BusyWorkflow DEF LoadForExecution
<1>1. RecordTypeOK'
  BY DEF TypeInv, TypeOK, RecordTypeOK, LoadForExecution
<1>2. ToolTypeOK'
  BY DEF TypeInv, TypeOK, ToolTypeOK, LoadForExecution
<1>3. HandlerInv'
  BY <1>0 DEF TypeInv, TypeOK, HandlerInv, HandlerTypeOK, Working, RecordTypeOK,
              LoadForExecution, Goto, Pcs, Calls
<1>. QED BY <1>1, <1>2, <1>3 DEF TypeInv, TypeOK, HandlerInv

LEMMA ClaimRetryType ==
    ASSUME TypeInv, NEW p \in Handlers, ClaimRetry(p)
    PROVE  TypeInv'
<1>0. /\ HandlerInv /\ pc[p] # "idle"
      /\ choice[p] \in Approvals \cup {"none"}
  BY DEF TypeInv, TypeOK, HandlerInv, HandlerTypeOK, ClaimRetry
<1>1. RecordTypeOK'
  <2>1. CASE UNCHANGED ckpt
    BY <2>1 DEF TypeInv, TypeOK, RecordTypeOK, ClaimRetry
  <2>2. CASE UNCHANGED retry /\ Checkpoint(wf[p], "end", choice[p])
    BY <1>0, <2>2
       DEF TypeInv, TypeOK, RecordTypeOK, ClaimRetry, Checkpoint
  <2>. QED BY <2>1, <2>2 DEF ClaimRetry
<1>2. ToolTypeOK'
  BY DEF TypeInv, TypeOK, ToolTypeOK, ClaimRetry
<1>3. HandlerInv'
  BY <1>0, GotoType, ReturnType DEF ClaimRetry, Pcs, Calls
<1>. QED BY <1>1, <1>2, <1>3 DEF TypeInv, TypeOK, HandlerInv

LEMMA RunActionType ==
    ASSUME TypeInv, NEW p \in Handlers, RunAction(p)
    PROVE  TypeInv'
<1>0. wf[p] \in Workflows /\ HandlerInv /\ pc[p] # "idle"
  BY BusyWorkflow DEF TypeInv, TypeOK, HandlerInv, RunAction
<1>1. RecordTypeOK'
  <2>1. executions' \in [Workflows -> Nat]
    <3>1. executions \in [Workflows -> Nat]
      BY DEF TypeInv, TypeOK, RecordTypeOK
    <3>2. \/ executions' = [executions EXCEPT ![wf[p]] = @ + 1]
          \/ executions' = [executions EXCEPT ![wf[p]] = @]
      BY Zenon DEF RunAction
    <3>. QED BY <1>0, <3>1, <3>2
  <2>. QED BY <2>1 DEF TypeInv, TypeOK, RecordTypeOK, RunAction
<1>2. ToolTypeOK'
  BY VerifiedType DEF TypeInv, TypeOK, ToolTypeOK, RunAction
<1>3. HandlerInv'
  <2>1. CASE Return(p)
    BY <1>0, <2>1, ReturnType
  <2>2. CASE ~Return(p)
    <3>1. PICK o \in {"ok", "error"} : outcome' = [outcome EXCEPT ![p] = o]
      BY <2>2 DEF RunAction
    <3>2. Goto(p, "complete_retry") /\ UNCHANGED <<wf, resume, choice, seen>>
      BY <2>2 DEF RunAction
    <3>3. "complete_retry" \in Pcs
      BY DEF Pcs, Calls
    <3>. QED BY <1>0, <3>1, <3>2, <3>3
             DEF HandlerInv, HandlerTypeOK, Working, Goto
  <2>. QED BY <2>1, <2>2
<1>. QED BY <1>1, <1>2, <1>3 DEF TypeInv, TypeOK, HandlerInv

LEMMA CompleteRetryType ==
    ASSUME TypeInv, NEW p \in Handlers, CompleteRetry(p)
    PROVE  TypeInv'
<1>0. /\ HandlerInv /\ pc[p] # "idle"
      /\ outcome[p] \in {"none", "ok", "error"}
  BY DEF TypeInv, TypeOK, HandlerInv, HandlerTypeOK, CompleteRetry
<1>1. RecordTypeOK'
  BY <1>0 DEF TypeInv, TypeOK, RecordTypeOK, CompleteRetry, FinalRetry
<1>2. ToolTypeOK'
  BY DEF TypeInv, TypeOK, ToolTypeOK, CompleteRetry
<1>3. HandlerInv'
  BY <1>0, GotoType DEF CompleteRetry, Pcs, Calls
<1>. QED BY <1>1, <1>2, <1>3 DEF TypeInv, TypeOK, HandlerInv

LEMMA RecordOutcomeType ==
    ASSUME TypeInv, NEW p \in Handlers, RecordOutcome(p)
    PROVE  TypeInv'
<1>0. /\ HandlerInv
      /\ outcome[p] \in {"none", "ok", "error"}
      /\ choice[p] \in Approvals \cup {"none"}
  BY DEF TypeInv, TypeOK, HandlerInv, HandlerTypeOK
<1>1. RecordTypeOK'
  BY <1>0 DEF TypeInv, TypeOK, RecordTypeOK, RecordOutcome, Transition,
              Checkpoint, Statuses, TerminalStatuses
<1>2. ToolTypeOK'
  BY DEF TypeInv, TypeOK, ToolTypeOK, RecordOutcome
<1>3. HandlerInv'
  BY <1>0, ReturnType DEF RecordOutcome
<1>. QED BY <1>1, <1>2, <1>3 DEF TypeInv, TypeOK, HandlerInv
-----------------------------------------------------------------------------
(* cleanup_expired, time and restarts.                                     *)

LEMMA ListExpiredType ==
    ASSUME TypeInv, NEW p \in Handlers, NEW w \in Workflows, ListExpired(p, w)
    PROVE  TypeInv'
<1>1. RecordTypeOK'
  BY DEF TypeInv, TypeOK, RecordTypeOK, ListExpired
<1>2. ToolTypeOK'
  BY DEF TypeInv, TypeOK, ToolTypeOK, ListExpired
<1>3. HandlerInv'
  <2>1. "inspect_draft" \in Pcs /\ "mark_expired" \in Pcs
    BY DEF Pcs, Calls
  <2>2. status[w] \in Statuses
    BY DEF TypeInv, TypeOK, RecordTypeOK
  <2>. QED
    BY <2>1, <2>2 DEF TypeInv, TypeOK, HandlerInv, HandlerTypeOK, Working,
                      ListExpired, Goto
<1>. QED BY <1>1, <1>2, <1>3 DEF TypeInv, TypeOK, HandlerInv

LEMMA CleanupType ==
    ASSUME TypeInv, NEW p \in Handlers,
           \/ InspectDraft(p) \/ RemoveDraft(p) \/ RemovalFails(p)
           \/ MarkExpired(p)
    PROVE  TypeInv'
<1>0. HandlerInv /\ pc[p] # "idle"
  BY DEF TypeInv, TypeOK, HandlerInv, InspectDraft, RemoveDraft, RemovalFails,
         MarkExpired
<1>1. {"reject_draft", "remove_draft", "mark_expired"} \subseteq Pcs
  BY DEF Pcs, Calls
<1>2. RecordTypeOK'
  <2>1. CASE MarkExpired(p)
    BY <2>1 DEF TypeInv, TypeOK, RecordTypeOK, MarkExpired, Transition,
                Statuses, TerminalStatuses
  <2>2. CASE InspectDraft(p) \/ RemoveDraft(p) \/ RemovalFails(p)
    BY <2>2 DEF TypeInv, TypeOK, RecordTypeOK, InspectDraft, RemoveDraft,
                RemovalFails
  <2>. QED BY <2>1, <2>2
<1>3. ToolTypeOK'
  BY DEF TypeInv, TypeOK, ToolTypeOK, InspectDraft, RemoveDraft, RemovalFails,
         MarkExpired
<1>4. HandlerInv'
  BY <1>0, <1>1, GotoType, ReturnType
     DEF InspectDraft, RemoveDraft, RemovalFails, MarkExpired
<1>. QED BY <1>2, <1>3, <1>4 DEF TypeInv, TypeOK, HandlerInv

LEMMA EnvironmentType ==
    ASSUME TypeInv,
           \/ \E w \in Workflows : ExpireWorkflow(w)
           \/ \E t \in Tools : ExpireLease(t)
           \/ Crash
           \/ UNCHANGED vars
    PROVE  TypeInv'
<1>1. CASE \E w \in Workflows : ExpireWorkflow(w)
  BY <1>1 DEF TypeInv, TypeOK, RecordTypeOK, ToolTypeOK, HandlerTypeOK,
              Working, ExpireWorkflow
<1>2. CASE \E t \in Tools : ExpireLease(t)
  BY <1>2 DEF TypeInv, TypeOK, RecordTypeOK, ToolTypeOK, HandlerTypeOK,
              Working, ExpireLease
<1>3. CASE Crash
  <2>1. RecordTypeOK'
    BY <1>3, ConstantsAssumption DEF TypeInv, TypeOK, RecordTypeOK, Crash
  <2>2. ToolTypeOK'
    BY <1>3 DEF TypeInv, TypeOK, ToolTypeOK, Crash
  <2>3. HandlerTypeOK' /\ Working'
    BY <1>3 DEF TypeInv, HandlerTypeOK, Working, Crash, Pcs, Statuses
  <2>. QED BY <2>1, <2>2, <2>3 DEF TypeInv, TypeOK
<1>4. CASE UNCHANGED vars
  BY <1>4 DEF TypeInv, TypeOK, RecordTypeOK, ToolTypeOK, HandlerTypeOK,
              Working, vars
<1>. QED BY <1>1, <1>2, <1>3, <1>4
-----------------------------------------------------------------------------
(* Type correctness.                                                       *)

LEMMA InitType == Init => TypeInv
<1>. SUFFICES ASSUME Init PROVE TypeInv
  OBVIOUS
<1>1. RecordTypeOK
  BY ConstantsAssumption DEF Init, RecordTypeOK, Statuses
<1>2. ToolTypeOK
  BY DEF Init, ToolTypeOK
<1>3. HandlerTypeOK /\ Working
  BY DEF Init, HandlerTypeOK, Working, Pcs, Statuses
<1>. QED BY <1>1, <1>2, <1>3 DEF TypeInv, TypeOK

LEMMA HandlerStepType ==
    ASSUME TypeInv, NEW p \in Handlers, HandlerStep(p)
    PROVE  TypeInv'
BY GenerateDraftType, RegisterDraftType, ToolStepsType, CreateRecordType,
   DraftCreatedType, InvokeType, WaitToolApprovalType, RefusalsType,
   AcquireLeaseType, ApproveToolType, InstallToolType, AdvanceToolType,
   ReleaseLeaseType, ToolEnabledType, ReloadStepType, OfferRetryType,
   WaitRetryType, LoadForExecutionType, ClaimRetryType, RunActionType,
   CompleteRetryType, RecordOutcomeType, CleanupType
   DEF HandlerStep, ReloadStep

LEMMA NextType == TypeInv /\ [Next]_vars => TypeInv'
<1>. SUFFICES ASSUME TypeInv, [Next]_vars PROVE TypeInv'
  OBVIOUS
<1>1. ASSUME NEW p \in Handlers, Request(p) PROVE TypeInv'
  BY <1>1, StartType, DecideType, ListExpiredType
     DEF Request, DecideTool, DecideRetry, Decisions
<1>2. ASSUME NEW p \in Handlers, HandlerStep(p) PROVE TypeInv'
  BY <1>2, HandlerStepType
<1>. QED BY <1>1, <1>2, EnvironmentType DEF Next

LEMMA TypeInvariant == Spec => []TypeInv
BY InitType, NextType, PTL DEF Spec

\* Every record, tool, checkpoint and thread stays within the values the code
\* can store, for any number of threads, workflows, sessions and tools.
THEOREM TypeCorrect == Spec => []TypeOK
<1>1. TypeInv => TypeOK
  BY DEF TypeInv
<1>. QED BY <1>1, TypeInvariant, PTL
-----------------------------------------------------------------------------
(* Workflows that have ended.                                              *)

TerminalKept ==
    \A w \in Workflows :
        status[w] \in TerminalStatuses => status'[w] \in TerminalStatuses

LEMMA TransitionTerminal ==
    ASSUME TypeInv, NEW w, NEW expected, NEW target,
           expected \notin TerminalStatuses \/ target \in TerminalStatuses,
           Transition(w, expected, target)
    PROVE  TerminalKept
BY DEF TypeInv, TypeOK, RecordTypeOK, Transition, TerminalKept

LEMMA HandlerStepTerminal ==
    ASSUME TypeInv, NEW p \in Handlers, HandlerStep(p)
    PROVE  TerminalKept
<1>0. /\ {"absent", "WAITING_TOOL_APPROVAL", "WAITING_RETRY_CONFIRMATION",
           "TOOL_ENABLED", "RUNTIME_RELOADED"} \cap TerminalStatuses = {}
      /\ {"TOOL_REJECTED", "TOOL_APPROVAL_CANCELLED", "RETRY_REJECTED",
          "RETRY_CANCELLED", "ACTION_EXECUTED", "ACTION_FAILED",
          "WORKFLOW_EXPIRED"} \subseteq TerminalStatuses
  BY DEF TerminalStatuses
<1>1. CASE UNCHANGED status
  BY <1>1 DEF TerminalKept
<1>2. CASE CreateRecord(p)
  BY <1>0, <1>2 DEF TypeInv, TypeOK, RecordTypeOK, CreateRecord, TerminalKept
<1>3. CASE \/ ToolRejected(p) \/ ToolCancelled(p)
           \/ RetryRejected(p) \/ RetryCancelled(p)
  BY <1>0, <1>3, TransitionTerminal
     DEF ToolRejected, ToolCancelled, RetryRejected, RetryCancelled, Refuse
<1>4. CASE ToolEnabled(p) \/ RecordReload(p)
  BY <1>0, <1>4, TransitionTerminal DEF ToolEnabled, RecordReload
<1>5. CASE OfferRetry(p) \/ WaitRetry(p)
  BY <1>0, <1>5, TransitionTerminal DEF OfferRetry, WaitRetry, OfferRetryRecord
<1>6. CASE RecordOutcome(p) \/ MarkExpired(p)
  BY <1>0, <1>6, TransitionTerminal DEF RecordOutcome, MarkExpired
<1>7. \/ UNCHANGED status
      \/ CreateRecord(p) \/ ToolRejected(p) \/ ToolCancelled(p)
      \/ RetryRejected(p) \/ RetryCancelled(p) \/ ToolEnabled(p)
      \/ RecordReload(p) \/ OfferRetry(p) \/ WaitRetry(p)
      \/ RecordOutcome(p) \/ MarkExpired(p)
  BY DEF HandlerStep, GenerateDraft, RegisterDraft, ValidateDraft, ReportDraft,
         ToolStep, DraftCreated, Invoke, WaitToolApproval, AcquireLease,
         ApproveTool, InstallTool, MarkInstalled, SetEnabled, AdvanceTool,
         ReleaseLease, ReloadRuntime, BuildDryRun, RouteAfterReload,
         LoadForExecution, ClaimRetry, RunAction, CompleteRetry,
         InspectDraft, RejectDraft, RemoveDraft, RemovalFails
<1>. QED BY <1>1, <1>2, <1>3, <1>4, <1>5, <1>6, <1>7

\* A workflow that has ended never waits for the user again, whatever a thread
\* that read its record earlier still writes.
THEOREM EndedStaysEnded == Spec => NeverReopened
<1>1. ASSUME TypeInv, [Next]_vars PROVE TerminalKept
  <2>1. CASE UNCHANGED status
    BY <2>1 DEF TerminalKept
  <2>2. ASSUME NEW p \in Handlers, HandlerStep(p) PROVE TerminalKept
    BY <1>1, <2>2, HandlerStepTerminal
  <2>3. UNCHANGED status \/ \E p \in Handlers : HandlerStep(p)
    BY <1>1 DEF Next, Request, Start, DecideTool, DecideRetry, Decide,
                ListExpired, ExpireWorkflow, ExpireLease, Crash, vars
  <2>. QED BY <2>1, <2>2, <2>3
<1>2. TypeInv /\ [Next]_vars => [TerminalKept]_vars
  BY <1>1
<1>3. [][TerminalKept]_vars => NeverReopened
  BY PTL DEF NeverReopened, TerminalKept
<1>. QED BY <1>2, <1>3, TypeInvariant, PTL DEF Spec
-----------------------------------------------------------------------------
(* The action of a workflow runs at most once, and the workflow implements  *)
(* OneShotAction.                                                           *)
(*                                                                         *)
(* ActionAtMostOnce is not inductive: a thread about to run an action says  *)
(* nothing of whether another one has run it.  ClaimInv adds what the two   *)
(* compare-and-set updates of retry_status establish: who is past the claim *)
(* of a workflow is alone there, and an unclaimed action has not run.       *)

\* The thread is past a successful claim_retry.
ClaimPcs == {"run_action", "complete_retry", "record_outcome"}
Claiming(p) == pc[p] \in ClaimPcs

ActedStatuses == {"ACTION_EXECUTED", "ACTION_FAILED"}

ClaimHeld ==
    \A p \in Handlers :
        /\ pc[p] \in {"run_action", "complete_retry"} =>
              retry[wf[p]] = "executing"
        /\ pc[p] = "record_outcome" => retry[wf[p]] = FinalRetry(p)

OneClaimer ==
    \A p, q \in Handlers : Claiming(p) /\ Claiming(q) /\ wf[p] = wf[q] => p = q

RunsCounted ==
    \A p \in Handlers :
        /\ pc[p] = "run_action" => executions[wf[p]] = 0
        /\ pc[p] = "complete_retry" /\ outcome[p] = "ok" =>
              executions[wf[p]] = 1
        /\ pc[p] \in {"complete_retry", "record_outcome"} =>
              outcome[p] \in {"ok", "error"}

Unclaimed ==
    \A w \in Workflows : retry[w] = "pending" => executions[w] = 0

NotYetActed ==
    \A p \in Handlers : Claiming(p) => status[wf[p]] \notin ActedStatuses

ClaimInv ==
    /\ ClaimHeld /\ OneClaimer /\ RunsCounted /\ Unclaimed /\ NotYetActed
    /\ ActionAtMostOnce /\ OutcomeConsistent
-----------------------------------------------------------------------------
(* Steps that do not take part in the claim.                               *)

\* No thread enters or moves on past a claim.
QuietThreads ==
    \A p \in Handlers : pc'[p] \in ClaimPcs =>
        pc'[p] = pc[p] /\ wf'[p] = wf[p] /\ outcome'[p] = outcome[p]

\* No workflow ends by its action, and one that has keeps its result.
QuietRecords ==
    /\ UNCHANGED <<retry, executions>>
    /\ \A w \in Workflows : status'[w] \in ActedStatuses =>
          status'[w] = status[w] /\ result'[w] = result[w]

Quiet == QuietThreads /\ QuietRecords

LEMMA QuietClaimInv ==
    ASSUME TypeInv, ClaimInv, Quiet
    PROVE  ClaimInv'
<1>. USE DEF Quiet, QuietThreads, QuietRecords
<1>0. \A p \in Handlers : Claiming(p) => wf[p] \in Workflows
  BY DEF TypeInv, Working, Claiming, ClaimPcs
<1>1. ClaimHeld'
  BY DEF ClaimInv, ClaimHeld, ClaimPcs, FinalRetry
<1>2. OneClaimer'
  BY DEF ClaimInv, OneClaimer, Claiming
<1>3. RunsCounted'
  BY DEF ClaimInv, RunsCounted, ClaimPcs
<1>4. Unclaimed'
  BY DEF ClaimInv, Unclaimed
<1>5. NotYetActed'
  BY <1>0 DEF ClaimInv, NotYetActed, Claiming
<1>6. ActionAtMostOnce'
  BY DEF ClaimInv, ActionAtMostOnce
<1>7. OutcomeConsistent'
  BY DEF ClaimInv, OutcomeConsistent, ActedStatuses
<1>. QED BY <1>1, <1>2, <1>3, <1>4, <1>5, <1>6, <1>7 DEF ClaimInv

LEMMA ReturnQuiet ==
    ASSUME TypeInv, NEW p \in Handlers, Return(p)
    PROVE  QuietThreads
BY DEF TypeInv, TypeOK, HandlerTypeOK, Return, QuietThreads, ClaimPcs

LEMMA GotoQuiet ==
    ASSUME TypeInv, NEW p \in Handlers, NEW l, l \notin ClaimPcs, Goto(p, l),
           \A q \in Handlers \ {p} : wf'[q] = wf[q] /\ outcome'[q] = outcome[q]
    PROVE  QuietThreads
BY DEF TypeInv, TypeOK, HandlerTypeOK, Goto, QuietThreads

LEMMA TransitionQuiet ==
    ASSUME TypeInv, NEW w, NEW expected, NEW target,
           target \notin ActedStatuses, Transition(w, expected, target),
           UNCHANGED <<retry, result, executions>>
    PROVE  QuietRecords
BY DEF TypeInv, TypeOK, RecordTypeOK, Transition, QuietRecords

LEMMA UnchangedQuiet ==
    ASSUME UNCHANGED <<status, retry, result, executions>>
    PROVE  QuietRecords
BY DEF QuietRecords
LEMMA RequestQuiet ==
    ASSUME TypeInv, NEW p \in Handlers, Request(p)
    PROVE  Quiet
<1>1. ASSUME NEW w \in Workflows, NEW s \in Sessions, NEW d \in Defs,
             Start(p, w, s, d)
      PROVE  Quiet
  <2>1. QuietThreads
    BY <1>1, GotoQuiet DEF TypeInv, TypeOK, HandlerTypeOK, Start, ClaimPcs
  <2>. QED BY <1>1, <2>1, UnchangedQuiet DEF Start, Quiet
<1>2. ASSUME NEW w \in Workflows, NEW waiting, NEW d, Decide(p, w, waiting, d)
      PROVE  Quiet
  <2>1. QuietThreads
    BY <1>2, GotoQuiet DEF TypeInv, TypeOK, HandlerTypeOK, Decide, ClaimPcs
  <2>. QED BY <1>2, <2>1, UnchangedQuiet DEF Decide, Quiet
<1>3. ASSUME NEW w \in Workflows, ListExpired(p, w)
      PROVE  Quiet
  <2>1. QuietThreads
    BY <1>3, GotoQuiet
       DEF TypeInv, TypeOK, HandlerTypeOK, ListExpired, ClaimPcs
  <2>. QED BY <1>3, <2>1, UnchangedQuiet DEF ListExpired, Quiet
<1>. QED BY <1>1, <1>2, <1>3 DEF Request, DecideTool, DecideRetry

LEMMA DraftQuiet ==
    ASSUME TypeInv, NEW p \in Handlers,
           \/ GenerateDraft(p) \/ RegisterDraft(p) \/ ValidateDraft(p)
           \/ ReportDraft(p) \/ RejectDraft(p) \/ CreateRecord(p)
           \/ DraftCreated(p)
    PROVE  Quiet
<1>1. CASE GenerateDraft(p)
  BY <1>1, GotoQuiet, ReturnQuiet, UnchangedQuiet
     DEF GenerateDraft, ClaimPcs, Quiet
<1>2. CASE RegisterDraft(p)
  BY <1>2, GotoQuiet, UnchangedQuiet DEF RegisterDraft, ClaimPcs, Quiet
<1>3. CASE ValidateDraft(p)
  BY <1>3, GotoQuiet, ReturnQuiet, UnchangedQuiet
     DEF ValidateDraft, ToolStep, ClaimPcs, Quiet
<1>4. CASE ReportDraft(p)
  BY <1>4, GotoQuiet, ReturnQuiet, UnchangedQuiet
     DEF ReportDraft, ToolStep, ClaimPcs, Quiet
<1>5. CASE RejectDraft(p)
  BY <1>5, GotoQuiet, ReturnQuiet, UnchangedQuiet
     DEF RejectDraft, ToolStep, ClaimPcs, Quiet
<1>6. CASE CreateRecord(p)
  <2>1. QuietThreads
    BY <1>6, GotoQuiet, ReturnQuiet DEF CreateRecord, ClaimPcs
  <2>2. QuietRecords
    BY <1>6 DEF TypeInv, TypeOK, RecordTypeOK, CreateRecord, QuietRecords,
                ActedStatuses
  <2>. QED BY <2>1, <2>2 DEF Quiet
<1>7. CASE DraftCreated(p)
  BY <1>7, ReturnQuiet, UnchangedQuiet DEF DraftCreated, Quiet
<1>. QED BY <1>1, <1>2, <1>3, <1>4, <1>5, <1>6, <1>7

LEMMA DecisionQuiet ==
    ASSUME TypeInv, NEW p \in Handlers,
           \/ Invoke(p) \/ WaitToolApproval(p) \/ ToolRejected(p)
           \/ ToolCancelled(p) \/ RetryRejected(p) \/ RetryCancelled(p)
           \/ OfferRetry(p) \/ WaitRetry(p)
    PROVE  Quiet
<1>0. ASSUME NEW n \in Nodes PROVE n \notin ClaimPcs
  BY DEF Nodes, ClaimPcs
<1>1. CASE Invoke(p)
  BY <1>0, <1>1, GotoQuiet, ReturnQuiet, UnchangedQuiet DEF Invoke, Quiet
<1>2. CASE WaitToolApproval(p)
  <2>1. ASSUME resume[p] \in ToolDecisions
        PROVE  AfterToolDecision(resume[p]) \in Nodes
    BY <2>1 DEF AfterToolDecision, ToolDecisions, Approvals, Nodes
  <2>2. QuietThreads
    BY <1>0, <1>2, <2>1, GotoQuiet, ReturnQuiet DEF WaitToolApproval
  <2>. QED BY <1>2, <2>2, UnchangedQuiet DEF WaitToolApproval, Quiet
<1>3. ASSUME NEW node, NEW expected, NEW target, target \notin ActedStatuses,
             Refuse(p, node, expected, target)
      PROVE  Quiet
  BY <1>3, ReturnQuiet, TransitionQuiet DEF Refuse, Quiet
<1>4. CASE \/ ToolRejected(p) \/ ToolCancelled(p)
           \/ RetryRejected(p) \/ RetryCancelled(p)
  <2>1. {"TOOL_REJECTED", "TOOL_APPROVAL_CANCELLED", "RETRY_REJECTED",
         "RETRY_CANCELLED"} \cap ActedStatuses = {}
    BY DEF ActedStatuses
  <2>. QED BY <1>3, <1>4, <2>1
           DEF ToolRejected, ToolCancelled, RetryRejected, RetryCancelled
<1>5. ASSUME NEW w, OfferRetryRecord(w), UNCHANGED <<retry, executions>>
      PROVE  QuietRecords
  BY <1>5 DEF TypeInv, TypeOK, RecordTypeOK, OfferRetryRecord, Transition,
              QuietRecords, ActedStatuses
<1>6. CASE OfferRetry(p)
  BY <1>5, <1>6, ReturnQuiet DEF OfferRetry, Quiet
<1>7. CASE WaitRetry(p)
  <2>1. ASSUME resume[p] \in RetryDecisions
        PROVE  AfterRetryDecision(resume[p]) \in Nodes
    BY <2>1 DEF AfterRetryDecision, RetryDecisions, Nodes
  <2>2. QuietThreads
    BY <1>0, <1>7, <2>1, GotoQuiet, ReturnQuiet DEF WaitRetry
  <2>3. QuietRecords
    BY <1>5, <1>7 DEF WaitRetry
  <2>. QED BY <2>2, <2>3 DEF Quiet
<1>. QED BY <1>1, <1>2, <1>4, <1>6, <1>7

LEMMA EnableQuiet ==
    ASSUME TypeInv, NEW p \in Handlers,
           \/ AcquireLease(p) \/ ApproveTool(p) \/ InstallTool(p)
           \/ MarkInstalled(p) \/ SetEnabled(p) \/ ReleaseLease(p)
           \/ ToolEnabled(p) \/ ReloadStep(p) \/ LoadForExecution(p)
    PROVE  Quiet
<1>1. CASE AcquireLease(p)
  BY <1>1, GotoQuiet, ReturnQuiet, UnchangedQuiet
     DEF AcquireLease, ClaimPcs, Quiet
<1>2. CASE ApproveTool(p)
  BY <1>2, GotoQuiet, UnchangedQuiet DEF ApproveTool, ClaimPcs, Quiet
<1>3. CASE InstallTool(p)
  BY <1>3, GotoQuiet, UnchangedQuiet DEF InstallTool, ClaimPcs, Quiet
<1>4. CASE MarkInstalled(p)
  BY <1>4, GotoQuiet, UnchangedQuiet
     DEF MarkInstalled, AdvanceTool, ClaimPcs, Quiet
<1>5. CASE SetEnabled(p)
  BY <1>5, GotoQuiet, UnchangedQuiet
     DEF SetEnabled, AdvanceTool, ClaimPcs, Quiet
<1>6. CASE ReleaseLease(p)
  BY <1>6, GotoQuiet, ReturnQuiet, UnchangedQuiet
     DEF ReleaseLease, ClaimPcs, Quiet
<1>7. CASE ToolEnabled(p)
  <2>1. QuietThreads
    BY <1>7, GotoQuiet DEF ToolEnabled, ClaimPcs
  <2>2. QuietRecords
    BY <1>7, TransitionQuiet DEF ToolEnabled, ActedStatuses
  <2>. QED BY <2>1, <2>2 DEF Quiet
<1>8. CASE ReloadStep(p)
  <2>1. \/ Return(p)
        \/ \E l \in ReloadPcs \cup {"offer_retry", "execute_action"} :
              Goto(p, l) /\ UNCHANGED localVars
    BY <1>8, ReloadCases DEF LeavesFor, LeaveReload
  <2>2. QuietThreads
    BY <2>1, ReturnQuiet, GotoQuiet DEF ReloadPcs, ClaimPcs
  <2>3. QuietRecords
    BY <1>8, ReloadCases, TransitionQuiet, UnchangedQuiet
       DEF LeavesFor, ActedStatuses
  <2>. QED BY <2>2, <2>3 DEF Quiet
<1>9. CASE LoadForExecution(p)
  BY <1>9, GotoQuiet, UnchangedQuiet DEF LoadForExecution, ClaimPcs, Quiet
<1>. QED BY <1>1, <1>2, <1>3, <1>4, <1>5, <1>6, <1>7, <1>8, <1>9

LEMMA CleanupQuiet ==
    ASSUME TypeInv, NEW p \in Handlers,
           \/ InspectDraft(p) \/ RemoveDraft(p) \/ RemovalFails(p)
           \/ MarkExpired(p)
    PROVE  Quiet
<1>1. CASE InspectDraft(p)
  BY <1>1, GotoQuiet, UnchangedQuiet DEF InspectDraft, ClaimPcs, Quiet
<1>2. CASE RemoveDraft(p)
  BY <1>2, GotoQuiet, UnchangedQuiet DEF RemoveDraft, ClaimPcs, Quiet
<1>3. CASE RemovalFails(p)
  BY <1>3, ReturnQuiet, UnchangedQuiet DEF RemovalFails, Quiet
<1>4. CASE MarkExpired(p)
  BY <1>4, ReturnQuiet, TransitionQuiet DEF MarkExpired, ActedStatuses, Quiet
<1>. QED BY <1>1, <1>2, <1>3, <1>4

LEMMA EnvironmentQuiet ==
    ASSUME \/ \E w \in Workflows : ExpireWorkflow(w)
           \/ \E t \in Tools : ExpireLease(t)
           \/ Crash
           \/ UNCHANGED vars
    PROVE  Quiet
<1>1. QuietRecords
  BY UnchangedQuiet DEF ExpireWorkflow, ExpireLease, Crash, vars
<1>2. QuietThreads
  <2>1. CASE Crash
    BY <2>1 DEF Crash, QuietThreads, ClaimPcs
  <2>2. CASE ~Crash
    BY <2>2 DEF ExpireWorkflow, ExpireLease, vars, QuietThreads
  <2>. QED BY <2>1, <2>2
<1>. QED BY <1>1, <1>2 DEF Quiet

\* All a step can do to a claim.
LEMMA NextCases ==
    ASSUME TypeInv, [Next]_vars
    PROVE  \/ Quiet
           \/ \E p \in Handlers : \/ ClaimRetry(p) \/ RunAction(p)
                                  \/ CompleteRetry(p) \/ RecordOutcome(p)
BY RequestQuiet, DraftQuiet, DecisionQuiet, EnableQuiet, CleanupQuiet,
   EnvironmentQuiet DEF Next, HandlerStep, ReloadStep
-----------------------------------------------------------------------------
(* The four steps of execute_action that do.                               *)

\* Whoever is past the claim of another workflow is not disturbed.
LEMMA ClaimRetryInv ==
    ASSUME TypeInv, ClaimInv, NEW p \in Handlers, ClaimRetry(p)
    PROVE  ClaimInv'
<1>0. wf[p] \in Workflows /\ pc[p] = "claim_retry"
  BY BusyWorkflow DEF ClaimRetry
<1>1. CASE ~MayClaim(wf[p])
  <2>1. Quiet
    BY <1>1, ReturnQuiet, UnchangedQuiet DEF ClaimRetry, Quiet
  <2>. QED BY <2>1, QuietClaimInv
<1>2. CASE MayClaim(wf[p])
  <2>1. /\ retry[wf[p]] = "pending"
        /\ retry' = [retry EXCEPT ![wf[p]] = "executing"]
        /\ pc' = [pc EXCEPT ![p] = "run_action"]
        /\ UNCHANGED <<status, result, wf, outcome, executions>>
    BY <1>2 DEF ClaimRetry, MayClaim, Goto
  <2>2. \A q \in Handlers : Claiming(q) => wf[q] \in Workflows
    BY DEF TypeInv, Working, Claiming, ClaimPcs
  <2>3. \A q \in Handlers : Claiming(q) => wf[q] # wf[p]
    BY <2>1 DEF ClaimInv, ClaimHeld, Claiming, ClaimPcs, FinalRetry
  <2>4. /\ retry'[wf[p]] = "executing"
        /\ \A w \in Workflows \ {wf[p]} : retry'[w] = retry[w]
        /\ pc'[p] = "run_action"
        /\ \A q \in Handlers \ {p} : pc'[q] = pc[q]
    BY <1>0, <2>1 DEF TypeInv, TypeOK, RecordTypeOK, HandlerTypeOK
  <2>5. ClaimHeld'
    BY <2>1, <2>2, <2>3, <2>4
       DEF ClaimInv, ClaimHeld, Claiming, ClaimPcs, FinalRetry
  <2>6. OneClaimer'
    BY <2>1, <2>3, <2>4 DEF ClaimInv, OneClaimer, Claiming, ClaimPcs
  <2>7. RunsCounted'
    BY <1>0, <2>1, <2>4 DEF ClaimInv, RunsCounted, Unclaimed
  <2>8. Unclaimed' /\ ActionAtMostOnce'
    BY <2>1, <2>4 DEF ClaimInv, Unclaimed, ActionAtMostOnce
  <2>9. status[wf[p]] \notin ActedStatuses
    BY <1>0, <2>1 DEF ClaimInv, OutcomeConsistent, ActedStatuses
  <2>10. NotYetActed'
    BY <2>1, <2>4, <2>9 DEF ClaimInv, NotYetActed, Claiming, ClaimPcs
  <2>11. OutcomeConsistent'
    BY <2>1, <2>4, <2>9 DEF ClaimInv, OutcomeConsistent, ActedStatuses
  <2>. QED BY <2>5, <2>6, <2>7, <2>8, <2>10, <2>11 DEF ClaimInv
<1>. QED BY <1>1, <1>2

LEMMA RunActionInv ==
    ASSUME TypeInv, ClaimInv, NEW p \in Handlers, RunAction(p)
    PROVE  ClaimInv'
<1>0. /\ wf[p] \in Workflows /\ pc[p] = "run_action"
      /\ executions[wf[p]] = 0 /\ retry[wf[p]] = "executing"
  BY BusyWorkflow DEF RunAction, ClaimInv, RunsCounted, ClaimHeld
<1>1. \A q \in Handlers \ {p} : Claiming(q) => wf[q] # wf[p]
  BY <1>0 DEF ClaimInv, OneClaimer, Claiming, ClaimPcs
<1>2. UNCHANGED <<status, retry, result>>
  BY DEF RunAction
<1>3. /\ executions'[wf[p]] \in {0, 1}
      /\ \A w \in Workflows \ {wf[p]} : executions'[w] = executions[w]
  <2>1. executions \in [Workflows -> Nat]
    BY DEF TypeInv, TypeOK, RecordTypeOK
  <2>2. \/ executions' = [executions EXCEPT ![wf[p]] = @ + 1]
        \/ executions' = [executions EXCEPT ![wf[p]] = @]
    BY Zenon DEF RunAction
  <2>. QED BY <1>0, <2>1, <2>2
<1>4. \A q \in Handlers \ {p} :
         pc'[q] = pc[q] /\ wf'[q] = wf[q] /\ outcome'[q] = outcome[q]
  BY DEF TypeInv, TypeOK, HandlerTypeOK, RunAction, Return, Goto
<1>5. \/ pc'[p] = "idle"
      \/ /\ pc'[p] = "complete_retry" /\ wf'[p] = wf[p]
         /\ outcome'[p] \in {"ok", "error"}
         /\ outcome'[p] = "ok" => executions'[wf[p]] = 1
  <2>1. CASE Return(p)
    BY <2>1 DEF TypeInv, TypeOK, HandlerTypeOK, Return
  <2>2. CASE ~Return(p)
    <3>1. /\ pc' = [pc EXCEPT ![p] = "complete_retry"]
          /\ UNCHANGED wf
          /\ \E o \in {"ok", "error"} : outcome' = [outcome EXCEPT ![p] = o]
      BY <2>2 DEF RunAction, Goto
    <3>2. outcome' = [outcome EXCEPT ![p] = "ok"] =>
             Live(Tool(p)) /\ ~Redacted(wf[p])
      BY <2>2 DEF RunAction, TypeInv, TypeOK, HandlerTypeOK
    <3>3. Live(Tool(p)) /\ ~Redacted(wf[p]) =>
             executions' = [executions EXCEPT ![wf[p]] = @ + 1]
      BY DEF RunAction
    <3>4. pc \in [Handlers -> Pcs] /\ outcome \in [Handlers -> {"none", "ok", "error"}]
      BY DEF TypeInv, TypeOK, HandlerTypeOK
    <3>5. executions \in [Workflows -> Nat]
      BY DEF TypeInv, TypeOK, RecordTypeOK
    <3>6. outcome' = [outcome EXCEPT ![p] = "ok"] => executions'[wf[p]] = 1
      BY <1>0, <3>2, <3>3, <3>5
    <3>. QED BY <3>1, <3>4, <3>6
  <2>. QED BY <2>1, <2>2
<1>6. \A q \in Handlers : Claiming(q) => wf[q] \in Workflows
  BY DEF TypeInv, Working, Claiming, ClaimPcs
<1>7. ClaimHeld'
  BY <1>0, <1>2, <1>4, <1>5 DEF ClaimInv, ClaimHeld, FinalRetry
<1>8. OneClaimer'
  BY <1>0, <1>1, <1>4, <1>5 DEF ClaimInv, OneClaimer, Claiming, ClaimPcs
<1>9. RunsCounted'
  BY <1>1, <1>3, <1>4, <1>5, <1>6
     DEF ClaimInv, RunsCounted, Claiming, ClaimPcs
<1>10. Unclaimed' /\ ActionAtMostOnce'
  BY <1>0, <1>2, <1>3 DEF ClaimInv, Unclaimed, ActionAtMostOnce
<1>11. NotYetActed'
  BY <1>0, <1>2, <1>4, <1>5 DEF ClaimInv, NotYetActed, Claiming, ClaimPcs
<1>12. OutcomeConsistent'
  BY <1>2 DEF ClaimInv, OutcomeConsistent
<1>. QED BY <1>7, <1>8, <1>9, <1>10, <1>11, <1>12 DEF ClaimInv

LEMMA CompleteRetryInv ==
    ASSUME TypeInv, ClaimInv, NEW p \in Handlers, CompleteRetry(p)
    PROVE  ClaimInv'
<1>0. /\ wf[p] \in Workflows /\ pc[p] = "complete_retry"
      /\ retry[wf[p]] = "executing" /\ outcome[p] \in {"ok", "error"}
      /\ status[wf[p]] \notin ActedStatuses
  BY BusyWorkflow DEF CompleteRetry, ClaimInv, RunsCounted, ClaimHeld,
                      NotYetActed, Claiming, ClaimPcs
<1>1. \A q \in Handlers \ {p} : Claiming(q) => wf[q] # wf[p]
  BY <1>0 DEF ClaimInv, OneClaimer, Claiming, ClaimPcs
<1>2. /\ UNCHANGED <<status, executions, wf, outcome>>
      /\ retry'[wf[p]] = FinalRetry(p)
      /\ \A w \in Workflows \ {wf[p]} :
            retry'[w] = retry[w] /\ result'[w] = result[w]
      /\ pc'[p] = "record_outcome"
      /\ \A q \in Handlers \ {p} : pc'[q] = pc[q]
  BY <1>0 DEF TypeInv, TypeOK, RecordTypeOK, HandlerTypeOK, CompleteRetry, Goto
<1>3. \A q \in Handlers : Claiming(q) => wf[q] \in Workflows
  BY DEF TypeInv, Working, Claiming, ClaimPcs
<1>4. ClaimHeld'
  BY <1>1, <1>2, <1>3
     DEF ClaimInv, ClaimHeld, FinalRetry, Claiming, ClaimPcs
<1>5. OneClaimer'
  BY <1>0, <1>1, <1>2 DEF ClaimInv, OneClaimer, Claiming, ClaimPcs
<1>6. RunsCounted'
  BY <1>0, <1>2 DEF ClaimInv, RunsCounted
<1>7. Unclaimed' /\ ActionAtMostOnce'
  BY <1>2 DEF ClaimInv, Unclaimed, ActionAtMostOnce, FinalRetry
<1>8. NotYetActed'
  BY <1>0, <1>2 DEF ClaimInv, NotYetActed, Claiming, ClaimPcs
<1>9. OutcomeConsistent'
  BY <1>0, <1>2 DEF ClaimInv, OutcomeConsistent, ActedStatuses
<1>. QED BY <1>4, <1>5, <1>6, <1>7, <1>8, <1>9 DEF ClaimInv

LEMMA RecordOutcomeInv ==
    ASSUME TypeInv, ClaimInv, NEW p \in Handlers, RecordOutcome(p)
    PROVE  ClaimInv'
<1>0. /\ wf[p] \in Workflows /\ pc[p] = "record_outcome"
      /\ retry[wf[p]] = FinalRetry(p) /\ outcome[p] \in {"ok", "error"}
      /\ status[wf[p]] \notin ActedStatuses
  BY BusyWorkflow DEF RecordOutcome, ClaimInv, RunsCounted, ClaimHeld,
                      NotYetActed, Claiming, ClaimPcs
<1>1. \A q \in Handlers \ {p} : Claiming(q) => wf[q] # wf[p]
  BY <1>0 DEF ClaimInv, OneClaimer, Claiming, ClaimPcs
<1>2. /\ UNCHANGED <<retry, executions>>
      /\ \A w \in Workflows \ {wf[p]} :
            status'[w] = status[w] /\ result'[w] = result[w]
      /\ status'[wf[p]] \in ActedStatuses =>
            /\ status'[wf[p]] = IF outcome[p] = "ok" THEN "ACTION_EXECUTED"
                                ELSE "ACTION_FAILED"
            /\ result'[wf[p]] = outcome[p]
  BY <1>0 DEF TypeInv, TypeOK, RecordTypeOK, RecordOutcome, Transition
<1>3. /\ pc'[p] = "idle"
      /\ \A q \in Handlers \ {p} :
            pc'[q] = pc[q] /\ wf'[q] = wf[q] /\ outcome'[q] = outcome[q]
  BY DEF TypeInv, TypeOK, HandlerTypeOK, RecordOutcome, Return
<1>4. ClaimHeld'
  BY <1>2, <1>3 DEF ClaimInv, ClaimHeld, FinalRetry
<1>5. OneClaimer' /\ RunsCounted'
  BY <1>2, <1>3
     DEF ClaimInv, OneClaimer, RunsCounted, Claiming, ClaimPcs
<1>6. Unclaimed' /\ ActionAtMostOnce'
  BY <1>2 DEF ClaimInv, Unclaimed, ActionAtMostOnce
<1>7. NotYetActed'
  <2>1. \A q \in Handlers : Claiming(q) => wf[q] \in Workflows
    BY DEF TypeInv, Working, Claiming, ClaimPcs
  <2>. QED BY <1>1, <1>2, <1>3, <2>1
           DEF ClaimInv, NotYetActed, Claiming, ClaimPcs
<1>8. OutcomeConsistent'
  BY <1>0, <1>2 DEF ClaimInv, OutcomeConsistent, FinalRetry, ActedStatuses
<1>. QED BY <1>4, <1>5, <1>6, <1>7, <1>8 DEF ClaimInv
-----------------------------------------------------------------------------
(* The theorems.                                                           *)

LEMMA ClaimInvariant == Spec => [](TypeInv /\ ClaimInv)
<1>1. Init => ClaimInv
  BY DEF Init, ClaimInv, ClaimHeld, OneClaimer, RunsCounted, Unclaimed,
         NotYetActed, ActionAtMostOnce, OutcomeConsistent, Claiming, ClaimPcs
<1>2. TypeInv /\ ClaimInv /\ [Next]_vars => ClaimInv'
  BY NextCases, QuietClaimInv, ClaimRetryInv, RunActionInv, CompleteRetryInv,
     RecordOutcomeInv
<1>. QED BY <1>1, <1>2, TypeInvariant, PTL DEF Spec

\* Whatever requests race, repeat or are cut off by a restart, the action of a
\* workflow runs at most once (claim_retry, complete_retry).
THEOREM AtMostOnce == Spec => []ActionAtMostOnce
<1>1. ClaimInv => ActionAtMostOnce
  BY DEF ClaimInv
<1>. QED BY <1>1, ClaimInvariant, PTL

\* The stage a workflow ends in agrees with its retry life cycle and with the
\* result it stores, although these are written by different updates.
THEOREM OutcomeAgrees == Spec => []OutcomeConsistent
<1>1. ClaimInv => OutcomeConsistent
  BY DEF ClaimInv
<1>. QED BY <1>1, ClaimInvariant, PTL

\* The workflow implements the one-shot action: every step claims, runs or
\* finishes one action as OneShotAction allows, or leaves all of them alone.
THEOREM RefinesOneShot == Spec => ImplementsOneShot
<1>1. Init => OneShot!Init
  BY DEF Init, OneShot!Init
<1>2. ASSUME TypeInv, ClaimInv, [Next]_vars
      PROVE  [OneShot!Next]_<<retry, executions>>
  <2>1. CASE Quiet
    BY <2>1 DEF Quiet, QuietRecords
  <2>2. ASSUME NEW p \in Handlers, ClaimRetry(p)
        PROVE  OneShot!Next \/ UNCHANGED <<retry, executions>>
    BY <1>2, <2>2, BusyWorkflow
       DEF ClaimRetry, MayClaim, OneShot!Next, OneShot!Claim
  <2>3. ASSUME NEW p \in Handlers, RunAction(p)
        PROVE  OneShot!Next \/ UNCHANGED <<retry, executions>>
    <3>1. /\ wf[p] \in Workflows /\ retry[wf[p]] = "executing"
          /\ executions[wf[p]] = 0 /\ UNCHANGED retry
      BY <1>2, <2>3, BusyWorkflow DEF RunAction, ClaimInv, ClaimHeld, RunsCounted
    <3>2. \/ executions' = [executions EXCEPT ![wf[p]] = @ + 1]
          \/ executions' = [executions EXCEPT ![wf[p]] = @]
      BY <2>3, Zenon DEF RunAction
    <3>3. CASE executions' = [executions EXCEPT ![wf[p]] = @ + 1]
      <4>1. executions[wf[p]] + 1 = 1
        BY <3>1
      <4>2. executions' = [executions EXCEPT ![wf[p]] = 1]
        BY <3>3, <4>1
      <4>. QED BY <3>1, <4>2 DEF OneShot!Next, OneShot!Run
    <3>4. CASE executions' = [executions EXCEPT ![wf[p]] = @]
      BY <1>2, <3>1, <3>4 DEF TypeInv, TypeOK, RecordTypeOK
    <3>. QED BY <3>2, <3>3, <3>4
  <2>4. ASSUME NEW p \in Handlers, CompleteRetry(p)
        PROVE  OneShot!Next
    <3>1. /\ wf[p] \in Workflows /\ retry[wf[p]] = "executing"
          /\ FinalRetry(p) = "executed" => executions[wf[p]] = 1
      BY <1>2, <2>4, BusyWorkflow
         DEF CompleteRetry, ClaimInv, ClaimHeld, RunsCounted, FinalRetry
    <3>2. /\ retry' = [retry EXCEPT ![wf[p]] = FinalRetry(p)]
          /\ UNCHANGED executions
      BY <1>2, <2>4, <3>1 DEF CompleteRetry, TypeInv, TypeOK, RecordTypeOK
    <3>3. FinalRetry(p) \in {"executed", "failed"}
      BY DEF FinalRetry
    <3>. QED BY <3>1, <3>2, <3>3 DEF OneShot!Next, OneShot!Finish
  <2>5. ASSUME NEW p \in Handlers, RecordOutcome(p)
        PROVE  UNCHANGED <<retry, executions>>
    BY <2>5 DEF RecordOutcome
  <2>. QED BY <1>2, <2>1, <2>2, <2>3, <2>4, <2>5, NextCases
<1>. QED
  BY <1>1, <1>2, ClaimInvariant, PTL DEF Spec, ImplementsOneShot, OneShot!Spec
-----------------------------------------------------------------------------
(* Consent: an action runs, and a tool leaves quarantine, only for a user who *)
(* agreed.                                                                  *)
(*                                                                         *)
(* Neither property is inductive: the thread that runs an action or approves *)
(* a tool looks at nothing the user sent, and trusts the node it is in.      *)
(* ConsentInv says what being there means: a thread, and a checkpoint a      *)
(* thread may resume, is past wait_tool_approval only if the workflow was    *)
(* approved, and in execute_action only if the user let the action run.      *)

Approved(w) == granted[w] \cap Approvals # {}

\* The user has let the workflow's action run.
MayRun(w) ==
    \/ "confirm" \in granted[w]
    \/ "approve_enable_and_run_once" \in granted[w] /\ def[w] \in Eligible

\* Inside enable_tool or reload_runtime, and inside execute_action.
EnablePcs ==
    {"enable_tool", "approve_tool", "install_tool", "mark_installed",
     "set_enabled", "release_lease", "tool_enabled"} \cup ReloadPcs
RunPcs ==
    {"execute_action", "claim_retry", "run_action", "complete_retry",
     "record_outcome"}

\* A graph run of workflow w may be at l.
AllowedAt(l, w) ==
    /\ l \in EnablePcs => Approved(w)
    /\ l \in RunPcs => MayRun(w)

\* An approval c that the graph carries for w came from the user.
SentTo(c, w) == c \in Approvals => c \in granted[w]

PastQuarantine == {"approved", "installed", "enabled"}

\* The graph of workflow w was invoked.
Started(w) == ckpt[w].next # "none"

StartedInv ==
    /\ \A w \in Workflows :
          /\ Started(w) => def[w] \in Defs /\ sess[w] \in Sessions
          /\ status[w] # "absent" => Started(w)
          /\ ~Started(w) => granted[w] = {} /\ executions[w] = 0
    /\ \A p \in Handlers : pc[p] # "idle" => Started(wf[p])

ThreadConsent(p) ==
    /\ pc[p] = "idle" => resume[p] = "none" /\ choice[p] = "none"
    /\ resume[p] \in Consents => resume[p] \in granted[wf[p]]
    /\ SentTo(choice[p], wf[p])
    /\ AllowedAt(pc[p], wf[p])

RecordConsent(w) ==
    /\ SentTo(ckpt[w].choice, w)
    /\ AllowedAt(ckpt[w].next, w)
    /\ executions[w] > 0 => MayRun(w)

ConsentInv ==
    /\ StartedInv
    /\ \A p \in Handlers : ThreadConsent(p)
    /\ \A w \in Workflows : RecordConsent(w)
    /\ EnabledOnlyIfApproved
-----------------------------------------------------------------------------
(* What a step of thread p inside a request may do, and why that is enough.  *)

OthersStay(p) ==
    \A q \in Handlers \ {p} :
        /\ pc'[q] = pc[q] /\ wf'[q] = wf[q]
        /\ resume'[q] = resume[q] /\ choice'[q] = choice[q]

\* The request of p ends, or goes on to a call it is allowed to make.
ThreadStep(p) ==
    /\ OthersStay(p)
    /\ \/ pc'[p] = "idle" /\ resume'[p] = "none" /\ choice'[p] = "none"
       \/ /\ pc'[p] # "idle" /\ wf'[p] = wf[p] /\ resume'[p] = resume[p]
          /\ SentTo(choice'[p], wf[p])
          /\ AllowedAt(pc'[p], wf[p])

\* Only the records of the workflow of p change.
RecordStep(p) ==
    /\ UNCHANGED <<sess, def, granted>>
    /\ \A w \in Workflows \ {wf[p]} :
          /\ status'[w] = status[w] /\ ckpt'[w] = ckpt[w]
          /\ executions'[w] = executions[w]
    /\ ckpt'[wf[p]].next # "none"
    /\ SentTo(ckpt'[wf[p]].choice, wf[p])
    /\ AllowedAt(ckpt'[wf[p]].next, wf[p])
    /\ executions'[wf[p]] = executions[wf[p]] \/ MayRun(wf[p])

\* Only the tool of p leaves quarantine, and for an approved workflow.
ToolsStep(p) ==
    \A t \in Tools : tstate'[t] \in PastQuarantine =>
        tstate[t] \in PastQuarantine \/ (t = Tool(p) /\ Approved(wf[p]))

LEMMA StepConsent ==
    ASSUME TypeInv, ConsentInv, NEW p \in Handlers, pc[p] # "idle",
           ThreadStep(p), RecordStep(p), ToolsStep(p)
    PROVE  ConsentInv'
<1>0. /\ wf[p] \in Workflows /\ Started(wf[p]) /\ def[wf[p]] \in Defs
      /\ \A q \in Handlers : pc[q] # "idle" => wf[q] \in Workflows
  BY BusyWorkflow DEF TypeInv, Working, ConsentInv, StartedInv
<1>1. StartedInv'
  BY <1>0 DEF ConsentInv, StartedInv, Started, ThreadStep, OthersStay, RecordStep
<1>2. ASSUME NEW q \in Handlers PROVE ThreadConsent(q)'
  <2>1. CASE q = p
    BY <2>1 DEF ConsentInv, ThreadConsent, ThreadStep, RecordStep, SentTo,
                AllowedAt, Approved, MayRun, EnablePcs, ReloadPcs, RunPcs, Consents,
                Approvals
  <2>2. CASE q # p
    BY <2>2 DEF ConsentInv, ThreadConsent, ThreadStep, OthersStay, RecordStep,
                SentTo, AllowedAt, Approved, MayRun
  <2>. QED BY <2>1, <2>2
<1>3. ASSUME NEW w \in Workflows PROVE RecordConsent(w)'
  BY DEF ConsentInv, RecordConsent, RecordStep, SentTo, AllowedAt, Approved,
         MayRun
<1>4. EnabledOnlyIfApproved'
  <2>1. ASSUME NEW t \in Tools, tstate'[t] \in PastQuarantine
        PROVE  \E w \in Workflows : /\ def[w] # None /\ ToolOf[def[w]] = t
                                    /\ Approved(w)
    <3>1. CASE tstate[t] \in PastQuarantine
      BY <3>1 DEF ConsentInv, EnabledOnlyIfApproved, PastQuarantine, Approved
    <3>2. CASE t = Tool(p) /\ Approved(wf[p])
      BY <1>0, <3>2, ConstantsAssumption DEF Tool
    <3>. QED BY <2>1, <3>1, <3>2 DEF ToolsStep
  <2>. QED
    BY <2>1 DEF EnabledOnlyIfApproved, PastQuarantine, Approved, RecordStep
<1>. QED BY <1>1, <1>2, <1>3, <1>4 DEF ConsentInv
LEMMA ReturnThread ==
    ASSUME TypeInv, NEW p \in Handlers, Return(p)
    PROVE  ThreadStep(p)
BY DEF TypeInv, TypeOK, HandlerTypeOK, Return, ThreadStep, OthersStay

LEMMA GotoThread ==
    ASSUME TypeInv, ConsentInv, NEW p \in Handlers, NEW l, l # "idle",
           Goto(p, l), UNCHANGED <<wf, resume, choice>>, AllowedAt(l, wf[p])
    PROVE  ThreadStep(p)
BY DEF TypeInv, TypeOK, HandlerTypeOK, ConsentInv, ThreadConsent, Goto,
       ThreadStep, OthersStay

\* The other workflows keep their stage.
OtherRecordsStay(p) ==
    \A w \in Workflows \ {wf[p]} : status'[w] = status[w]

LEMMA TransitionOthers ==
    ASSUME TypeInv, NEW p \in Handlers, NEW expected, NEW target,
           Transition(wf[p], expected, target)
    PROVE  OtherRecordsStay(p)
BY DEF TypeInv, TypeOK, RecordTypeOK, Transition, OtherRecordsStay

LEMMA QuietRecord ==
    ASSUME TypeInv, ConsentInv, NEW p \in Handlers, pc[p] # "idle",
           UNCHANGED <<sess, def, granted, ckpt, executions>>,
           OtherRecordsStay(p)
    PROVE  RecordStep(p)
<1>1. wf[p] \in Workflows /\ Started(wf[p])
  BY BusyWorkflow DEF ConsentInv, StartedInv
<1>. QED
  BY <1>1 DEF ConsentInv, RecordConsent, OtherRecordsStay, RecordStep, Started

LEMMA CheckpointRecord ==
    ASSUME TypeInv, ConsentInv, NEW p \in Handlers, pc[p] # "idle",
           NEW next, next # "none", AllowedAt(next, wf[p]),
           NEW c, SentTo(c, wf[p]), Checkpoint(wf[p], next, c),
           UNCHANGED <<sess, def, granted, executions>>, OtherRecordsStay(p)
    PROVE  RecordStep(p)
<1>1. wf[p] \in Workflows
  BY BusyWorkflow
<1>2. /\ ckpt'[wf[p]] = [next |-> next, choice |-> c]
      /\ \A w \in Workflows \ {wf[p]} : ckpt'[w] = ckpt[w]
  BY <1>1 DEF TypeInv, TypeOK, RecordTypeOK, Checkpoint
<1>. QED
  BY <1>2 DEF OtherRecordsStay, RecordStep

LEMMA QuietTools ==
    ASSUME NEW p \in Handlers, UNCHANGED tstate
    PROVE  ToolsStep(p)
BY DEF ToolsStep

LEMMA SetToolTools ==
    ASSUME TypeInv, NEW p \in Handlers, NEW s, SetTool(Tool(p), s),
           s \in PastQuarantine => Approved(wf[p])
    PROVE  ToolsStep(p)
BY DEF TypeInv, TypeOK, ToolTypeOK, SetTool, ToolsStep

LEMMA VerifiedSteps ==
    ASSUME NEW p \in Handlers, tstate' = VerifiedTools
    PROVE  ToolsStep(p)
BY DEF VerifiedTools, ToolsStep, PastQuarantine

\* What a thread may do where it is, and what its graph carries.
LEMMA AllowedHere ==
    ASSUME ConsentInv, NEW p \in Handlers
    PROVE  /\ pc[p] \in EnablePcs => Approved(wf[p])
           /\ pc[p] \in RunPcs => MayRun(wf[p])
           /\ SentTo(choice[p], wf[p])
           /\ resume[p] \in Consents => resume[p] \in granted[wf[p]]
BY DEF ConsentInv, ThreadConsent, AllowedAt

\* Anything else asks for no consent.
LEMMA FreeCalls ==
    ASSUME NEW w,
           NEW l \in {"end", "create_draft", "wait_tool_approval",
                      "tool_rejected", "tool_cancelled", "wait_retry",
                      "retry_rejected", "retry_cancelled", "register_draft",
                      "validate_draft", "report_draft", "create_record",
                      "draft_created", "abandon_lease", "offer_retry",
                      "reject_draft", "remove_draft", "inspect_draft",
                      "mark_expired", "invoke"}
    PROVE  AllowedAt(l, w) /\ l # "idle" /\ l # "none"
BY DEF AllowedAt, EnablePcs, ReloadPcs, RunPcs

-----------------------------------------------------------------------------
(* The steps of a request that keep ConsentInv.                            *)

LEMMA DraftConsent ==
    ASSUME TypeInv, ConsentInv, NEW p \in Handlers,
           \/ GenerateDraft(p) \/ RegisterDraft(p) \/ ValidateDraft(p)
           \/ ReportDraft(p) \/ RejectDraft(p)
    PROVE  ConsentInv'
<1>1. /\ pc[p] # "idle"
      /\ UNCHANGED <<status, sess, def, granted, ckpt, executions>>
  BY DEF GenerateDraft, RegisterDraft, ValidateDraft, ReportDraft, RejectDraft,
         ToolStep
<1>2. RecordStep(p)
  BY <1>1, QuietRecord DEF OtherRecordsStay
<1>3. ASSUME NEW from, NEW target, target \notin PastQuarantine,
             NEW next \in {"report_draft", "create_record", "remove_draft"},
             ToolStep(p, from, target, next)
      PROVE  ThreadStep(p) /\ ToolsStep(p)
  <2>1. ThreadStep(p)
    BY <1>3, ReturnThread, GotoThread, FreeCalls DEF ToolStep
  <2>2. ToolsStep(p)
    BY <1>3, SetToolTools, QuietTools DEF ToolStep
  <2>. QED BY <2>1, <2>2
<1>4. {"validating", "validated", "rejected"} \cap PastQuarantine = {}
  BY DEF PastQuarantine
<1>5. ThreadStep(p) /\ ToolsStep(p)
  <2>1. CASE GenerateDraft(p)
    BY <2>1, ReturnThread, GotoThread, FreeCalls, QuietTools DEF GenerateDraft
  <2>2. CASE RegisterDraft(p)
    BY <2>2, GotoThread, FreeCalls, SetToolTools
       DEF RegisterDraft, PastQuarantine
  <2>3. CASE ValidateDraft(p) \/ ReportDraft(p) \/ RejectDraft(p)
    BY <1>3, <1>4, <2>3 DEF ValidateDraft, ReportDraft, RejectDraft
  <2>. QED BY <2>1, <2>2, <2>3
<1>. QED BY <1>1, <1>2, <1>5, StepConsent

LEMMA CreateConsent ==
    ASSUME TypeInv, ConsentInv, NEW p \in Handlers,
           CreateRecord(p) \/ DraftCreated(p)
    PROVE  ConsentInv'
<1>1. pc[p] # "idle" /\ ToolsStep(p)
  BY QuietTools DEF CreateRecord, DraftCreated
<1>2. CASE CreateRecord(p)
  <2>1. ThreadStep(p)
    BY <1>2, ReturnThread, GotoThread, FreeCalls DEF CreateRecord
  <2>2. OtherRecordsStay(p)
    BY <1>2 DEF TypeInv, TypeOK, RecordTypeOK, CreateRecord, OtherRecordsStay
  <2>3. RecordStep(p)
    BY <1>1, <1>2, <2>2, QuietRecord DEF CreateRecord
  <2>. QED BY <1>1, <2>1, <2>3, StepConsent
<1>3. CASE DraftCreated(p)
  <2>1. ThreadStep(p)
    BY <1>3, ReturnThread DEF DraftCreated
  <2>2. SentTo("none", wf[p]) /\ OtherRecordsStay(p)
    BY <1>3 DEF SentTo, Approvals, DraftCreated, OtherRecordsStay
  <2>3. RecordStep(p)
    BY <1>1, <1>3, <2>2, FreeCalls, CheckpointRecord DEF DraftCreated
  <2>. QED BY <1>1, <2>1, <2>3, StepConsent
<1>. QED BY <1>2, <1>3

LEMMA InvokeConsent ==
    ASSUME TypeInv, ConsentInv, NEW p \in Handlers, Invoke(p)
    PROVE  ConsentInv'
<1>0. pc[p] = "invoke" /\ wf[p] \in Workflows
  BY BusyWorkflow DEF Invoke
<1>1. RecordStep(p) /\ ToolsStep(p)
  BY <1>0, QuietRecord, QuietTools DEF Invoke, OtherRecordsStay
<1>2. ThreadStep(p)
  <2>1. CASE Return(p)
    BY <2>1, ReturnThread
  <2>2. CASE /\ ckpt[wf[p]].next \in Nodes
             /\ Goto(p, ckpt[wf[p]].next)
             /\ choice' = [choice EXCEPT ![p] = ckpt[wf[p]].choice]
             /\ UNCHANGED <<wf, resume, seen, outcome>>
    <3>1. RecordConsent(wf[p])
      BY <1>0 DEF ConsentInv
    <3>2. ckpt[wf[p]].next # "idle"
      BY <2>2 DEF Nodes
    <3>. QED
      BY <2>2, <3>1, <3>2
         DEF TypeInv, TypeOK, HandlerTypeOK, RecordConsent, Goto, ThreadStep,
             OthersStay
  <2>. QED BY <2>1, <2>2 DEF Invoke
<1>. QED BY <1>0, <1>1, <1>2, StepConsent

\* Only an approval leads to enable_tool, and it is one the user sent.
LEMMA WaitToolApprovalConsent ==
    ASSUME TypeInv, ConsentInv, NEW p \in Handlers, WaitToolApproval(p)
    PROVE  ConsentInv'
<1>0. pc[p] = "wait_tool_approval" /\ ToolsStep(p)
  BY QuietTools DEF WaitToolApproval
<1>1. CASE Return(p) /\ UNCHANGED ckpt
  <2>1. RecordStep(p)
    BY <1>0, <1>1, QuietRecord DEF WaitToolApproval, OtherRecordsStay
  <2>. QED BY <1>0, <1>1, <2>1, ReturnThread, StepConsent
<1>2. CASE resume[p] \in ToolDecisions /\ ~(Return(p) /\ UNCHANGED ckpt)
  <2>. DEFINE next == AfterToolDecision(resume[p])
              kept == IF resume[p] \in Approvals THEN resume[p] ELSE "none"
  <2>1. /\ Checkpoint(wf[p], next, kept) /\ Goto(p, next)
        /\ choice' = [choice EXCEPT ![p] = kept]
        /\ UNCHANGED <<wf, resume, sess, def, granted, executions, status>>
    BY <1>2 DEF WaitToolApproval
  <2>2. SentTo(kept, wf[p])
    BY AllowedHere DEF SentTo, Approvals, Consents
  <2>3. \/ next \in {"tool_rejected", "tool_cancelled"}
        \/ next = "enable_tool" /\ Approved(wf[p])
    BY <1>2, AllowedHere
       DEF AfterToolDecision, ToolDecisions, Approvals, Consents, Approved
  <2>4. AllowedAt(next, wf[p]) /\ next # "idle" /\ next # "none"
    BY <2>3 DEF AllowedAt, EnablePcs, ReloadPcs, RunPcs
  <2>. HIDE DEF next, kept
  <2>5. ThreadStep(p)
    BY <2>1, <2>2, <2>4 DEF TypeInv, TypeOK, HandlerTypeOK, Goto, ThreadStep,
                            OthersStay
  <2>6. RecordStep(p)
    BY <1>0, <2>1, <2>2, <2>4, CheckpointRecord DEF OtherRecordsStay
  <2>. QED BY <1>0, <2>5, <2>6, StepConsent
<1>. QED BY <1>1, <1>2 DEF WaitToolApproval

LEMMA RefusalsConsent ==
    ASSUME TypeInv, ConsentInv, NEW p \in Handlers,
           \/ ToolRejected(p) \/ ToolCancelled(p)
           \/ RetryRejected(p) \/ RetryCancelled(p)
    PROVE  ConsentInv'
<1>1. ASSUME NEW node, node # "idle", NEW expected, NEW target,
             Refuse(p, node, expected, target)
      PROVE  ConsentInv'
  <2>1. pc[p] # "idle" /\ ToolsStep(p) /\ ThreadStep(p) /\ OtherRecordsStay(p)
    BY <1>1, QuietTools, ReturnThread, TransitionOthers DEF Refuse
  <2>2. RecordStep(p)
    BY <1>1, <2>1, AllowedHere, FreeCalls, CheckpointRecord DEF Refuse
  <2>. QED BY <2>1, <2>2, StepConsent
<1>. QED
  BY <1>1 DEF ToolRejected, ToolCancelled, RetryRejected, RetryCancelled

\* Only a confirmation leads from wait_retry to execute_action.
LEMMA RetryConsent ==
    ASSUME TypeInv, ConsentInv, NEW p \in Handlers,
           OfferRetry(p) \/ WaitRetry(p)
    PROVE  ConsentInv'
<1>1. pc[p] # "idle" /\ ToolsStep(p) /\ OtherRecordsStay(p)
  BY QuietTools, TransitionOthers DEF OfferRetry, WaitRetry, OfferRetryRecord
<1>2. CASE Return(p) /\ UNCHANGED ckpt
  <2>1. RecordStep(p)
    BY <1>1, <1>2, QuietRecord DEF OfferRetry, WaitRetry
  <2>. QED BY <1>1, <1>2, <2>1, ReturnThread, StepConsent
<1>3. CASE WaitRetry(p) /\ ~(Return(p) /\ UNCHANGED ckpt)
  <2>. DEFINE next == AfterRetryDecision(resume[p])
  <2>1. /\ resume[p] \in RetryDecisions
        /\ Checkpoint(wf[p], next, choice[p]) /\ Goto(p, next)
        /\ UNCHANGED <<wf, resume, choice, sess, def, granted, executions>>
    BY <1>3 DEF WaitRetry
  <2>2. \/ next \in {"retry_rejected", "retry_cancelled"}
        \/ next = "execute_action" /\ MayRun(wf[p])
    BY <2>1, AllowedHere
       DEF AfterRetryDecision, RetryDecisions, Consents, MayRun
  <2>3. AllowedAt(next, wf[p]) /\ next # "idle" /\ next # "none"
    BY <2>2 DEF AllowedAt, EnablePcs, ReloadPcs, RunPcs
  <2>. HIDE DEF next
  <2>4. ThreadStep(p)
    BY <2>1, <2>3, GotoThread
  <2>5. RecordStep(p)
    BY <1>1, <2>1, <2>3, AllowedHere, CheckpointRecord
  <2>. QED BY <1>1, <2>4, <2>5, StepConsent
<1>. QED BY <1>2, <1>3 DEF OfferRetry, WaitRetry

LEMMA EnableConsent ==
    ASSUME TypeInv, ConsentInv, NEW p \in Handlers,
           \/ AcquireLease(p) \/ ApproveTool(p) \/ InstallTool(p)
           \/ MarkInstalled(p) \/ SetEnabled(p) \/ ReleaseLease(p)
    PROVE  ConsentInv'
<1>1. /\ pc[p] # "idle"
      /\ UNCHANGED <<status, sess, def, granted, ckpt, executions>>
  BY DEF AcquireLease, ApproveTool, InstallTool, MarkInstalled, SetEnabled,
         AdvanceTool, ReleaseLease
<1>2. RecordStep(p)
  BY <1>1, QuietRecord DEF OtherRecordsStay
<1>3. ASSUME pc[p] \in EnablePcs,
             NEW l \in EnablePcs \cup {"abandon_lease"}
      PROVE  AllowedAt(l, wf[p]) /\ l # "idle"
  BY <1>3, AllowedHere DEF AllowedAt, EnablePcs, ReloadPcs, RunPcs
<1>4. ThreadStep(p)
  <2>1. CASE AcquireLease(p)
    BY <1>3, <2>1, ReturnThread, GotoThread DEF AcquireLease, EnablePcs
  <2>2. CASE ApproveTool(p)
    BY <1>3, <2>2, GotoThread DEF ApproveTool, EnablePcs
  <2>3. CASE InstallTool(p)
    BY <1>3, <2>3, GotoThread DEF InstallTool, EnablePcs
  <2>4. CASE MarkInstalled(p)
    BY <1>3, <2>4, GotoThread DEF MarkInstalled, AdvanceTool, EnablePcs
  <2>5. CASE SetEnabled(p)
    BY <1>3, <2>5, GotoThread DEF SetEnabled, AdvanceTool, EnablePcs
  <2>6. CASE ReleaseLease(p)
    BY <1>3, <2>6, ReturnThread, GotoThread DEF ReleaseLease, EnablePcs
  <2>. QED BY <2>1, <2>2, <2>3, <2>4, <2>5, <2>6
<1>5. ToolsStep(p)
  <2>1. CASE UNCHANGED tstate
    BY <2>1, QuietTools
  <2>2. CASE ~UNCHANGED tstate
    <3>1. Approved(wf[p])
      BY <2>2, AllowedHere
         DEF AcquireLease, ApproveTool, InstallTool, MarkInstalled, SetEnabled,
             AdvanceTool, ReleaseLease, EnablePcs
    <3>2. \E s : SetTool(Tool(p), s)
      BY <2>2 DEF AcquireLease, ApproveTool, InstallTool, MarkInstalled,
                  SetEnabled, AdvanceTool, ReleaseLease
    <3>. QED BY <3>1, <3>2, SetToolTools
  <2>. QED BY <2>1, <2>2
<1>. QED BY <1>1, <1>2, <1>4, <1>5, StepConsent

LEMMA ToolEnabledConsent ==
    ASSUME TypeInv, ConsentInv, NEW p \in Handlers, ToolEnabled(p)
    PROVE  ConsentInv'
<1>1. /\ pc[p] = "tool_enabled" /\ ToolsStep(p) /\ OtherRecordsStay(p)
      /\ SentTo(choice[p], wf[p])
  BY QuietTools, TransitionOthers, AllowedHere DEF ToolEnabled
<1>2. /\ AllowedAt("reload_runtime", wf[p])
      /\ "reload_runtime" # "idle" /\ "reload_runtime" # "none"
  BY <1>1, AllowedHere DEF AllowedAt, EnablePcs, ReloadPcs, RunPcs
<1>3. ThreadStep(p)
  BY <1>2, GotoThread DEF ToolEnabled
<1>4. RecordStep(p)
  BY <1>1, <1>2, CheckpointRecord DEF ToolEnabled
<1>. QED BY <1>1, <1>3, <1>4, StepConsent

\* The route to execute_action is taken only for what was approved for it.
LEMMA ReloadConsent ==
    ASSUME TypeInv, ConsentInv, NEW p \in Handlers, ReloadStep(p)
    PROVE  ConsentInv'
<1>1. /\ pc[p] \in EnablePcs /\ pc[p] # "idle"
      /\ ToolsStep(p) /\ OtherRecordsStay(p)
      /\ UNCHANGED <<sess, def, granted, executions>>
  <2>1. OtherRecordsStay(p)
    BY ReloadCases, TransitionOthers DEF LeavesFor, OtherRecordsStay
  <2>. QED
    BY <2>1, ReloadCases, VerifiedSteps, QuietTools DEF EnablePcs, ReloadPcs
<1>2. SentTo(choice[p], wf[p]) /\ Approved(wf[p])
  BY <1>1, AllowedHere
<1>3. RoutedTo(wf[p], choice[p]) = "execute_action" => MayRun(wf[p])
  BY <1>2 DEF RoutedTo, SentTo, Approvals, MayRun
<1>4. ASSUME NEW next \in {"wait_retry", "execute_action"},
             next = "execute_action" => MayRun(wf[p]), LeavesFor(p, next)
      PROVE  ThreadStep(p) /\ RecordStep(p)
  <2>. DEFINE l == IF next = "wait_retry" THEN "offer_retry" ELSE next
  <2>1. /\ AllowedAt(next, wf[p]) /\ next # "none"
        /\ AllowedAt(l, wf[p]) /\ l # "idle"
    BY <1>4 DEF AllowedAt, EnablePcs, ReloadPcs, RunPcs
  <2>2. /\ Checkpoint(wf[p], next, choice[p]) /\ Goto(p, l)
        /\ UNCHANGED <<wf, resume, choice>>
    BY <1>4 DEF LeavesFor, LeaveReload
  <2>. HIDE DEF l
  <2>. QED BY <1>1, <1>2, <2>1, <2>2, GotoThread, CheckpointRecord
<1>5. ASSUME UNCHANGED ckpt,
             Return(p) \/ \E l \in ReloadPcs : Goto(p, l) /\ UNCHANGED localVars
      PROVE  ThreadStep(p) /\ RecordStep(p)
  <2>1. \A l \in ReloadPcs : AllowedAt(l, wf[p]) /\ l # "idle"
    BY <1>2 DEF AllowedAt, EnablePcs, ReloadPcs, RunPcs
  <2>2. ThreadStep(p)
    BY <1>5, <2>1, ReturnThread, GotoThread
  <2>. QED BY <1>1, <1>5, <2>2, QuietRecord
<1>6. ThreadStep(p) /\ RecordStep(p)
  BY <1>3, <1>4, <1>5, ReloadCases
<1>. QED BY <1>1, <1>6, StepConsent

LEMMA ExecuteConsent ==
    ASSUME TypeInv, ConsentInv, NEW p \in Handlers,
           \/ LoadForExecution(p) \/ ClaimRetry(p) \/ RunAction(p)
           \/ CompleteRetry(p) \/ RecordOutcome(p)
    PROVE  ConsentInv'
<1>1. /\ pc[p] \in RunPcs /\ pc[p] # "idle" /\ wf[p] \in Workflows
      /\ UNCHANGED <<sess, def, granted>>
  BY BusyWorkflow DEF LoadForExecution, ClaimRetry, RunAction, CompleteRetry,
         RecordOutcome, RunPcs
<1>2. ToolsStep(p)
  BY QuietTools, VerifiedSteps
     DEF LoadForExecution, ClaimRetry, RunAction, CompleteRetry, RecordOutcome
<1>3. /\ MayRun(wf[p]) /\ SentTo(choice[p], wf[p])
      /\ Started(wf[p]) /\ RecordConsent(wf[p])
  BY <1>1, AllowedHere DEF ConsentInv, StartedInv
<1>4. ASSUME NEW l \in RunPcs PROVE AllowedAt(l, wf[p]) /\ l # "idle"
  BY <1>3 DEF AllowedAt, EnablePcs, ReloadPcs, RunPcs
<1>5. ThreadStep(p)
  <2>1. CASE LoadForExecution(p)
    BY <1>4, <2>1, GotoThread DEF LoadForExecution, RunPcs
  <2>2. CASE ClaimRetry(p)
    BY <1>4, <2>2, GotoThread, ReturnThread DEF ClaimRetry, RunPcs
  <2>3. CASE RunAction(p)
    BY <1>4, <2>3, GotoThread, ReturnThread DEF RunAction, RunPcs
  <2>4. CASE CompleteRetry(p)
    BY <1>4, <2>4, GotoThread DEF CompleteRetry, RunPcs
  <2>5. CASE RecordOutcome(p)
    BY <2>5, ReturnThread DEF RecordOutcome
  <2>. QED BY <2>1, <2>2, <2>3, <2>4, <2>5
<1>6. OtherRecordsStay(p)
  BY TransitionOthers
     DEF LoadForExecution, ClaimRetry, RunAction, CompleteRetry, RecordOutcome,
         OtherRecordsStay
<1>7. RecordStep(p)
  <2>1. CASE UNCHANGED <<ckpt, executions>>
    BY <1>1, <1>6, <2>1, QuietRecord
  <2>2. CASE Checkpoint(wf[p], "end", choice[p]) /\ UNCHANGED executions
    BY <1>1, <1>3, <1>6, <2>2, FreeCalls, CheckpointRecord
  <2>3. CASE RunAction(p)
    <3>1. \A w \in Workflows \ {wf[p]} : executions'[w] = executions[w]
      BY <2>3 DEF TypeInv, TypeOK, RecordTypeOK, RunAction
    <3>2. UNCHANGED ckpt
      BY <2>3 DEF RunAction
    <3>. QED
      BY <1>1, <1>3, <1>6, <3>1, <3>2
         DEF RecordConsent, RecordStep, OtherRecordsStay, Started
  <2>. QED BY <2>1, <2>2, <2>3
           DEF LoadForExecution, ClaimRetry, CompleteRetry, RecordOutcome
<1>. QED BY <1>1, <1>2, <1>5, <1>7, StepConsent

LEMMA CleanupConsent ==
    ASSUME TypeInv, ConsentInv, NEW p \in Handlers,
           \/ InspectDraft(p) \/ RemoveDraft(p) \/ RemovalFails(p)
           \/ MarkExpired(p)
    PROVE  ConsentInv'
<1>1. /\ pc[p] # "idle" /\ ToolsStep(p)
      /\ UNCHANGED <<sess, def, granted, ckpt, executions>>
  BY QuietTools DEF InspectDraft, RemoveDraft, RemovalFails, MarkExpired
<1>2. OtherRecordsStay(p)
  BY TransitionOthers
     DEF InspectDraft, RemoveDraft, RemovalFails, MarkExpired,
         OtherRecordsStay
<1>3. RecordStep(p)
  BY <1>1, <1>2, QuietRecord
<1>4. ThreadStep(p)
  BY GotoThread, ReturnThread, FreeCalls
     DEF InspectDraft, RemoveDraft, RemovalFails, MarkExpired
<1>. QED BY <1>1, <1>3, <1>4, StepConsent
-----------------------------------------------------------------------------
(* Requests, time and restarts.                                            *)

LEMMA StartConsent ==
    ASSUME TypeInv, ConsentInv, NEW p \in Handlers, NEW w \in Workflows,
           NEW s \in Sessions, NEW d \in Defs, Start(p, w, s, d)
    PROVE  ConsentInv'
<1>1. /\ ~Started(w) /\ pc[p] = "idle"
      /\ resume[p] = "none" /\ choice[p] = "none"
      /\ \A q \in Handlers : pc[q] # "idle" => wf[q] \in Workflows \ {w}
  BY DEF Start, Started, ConsentInv, StartedInv, ThreadConsent, TypeInv, Working
<1>2. /\ ckpt'[w] = [next |-> "create_draft", choice |-> "none"]
      /\ def'[w] = d /\ sess'[w] = s
      /\ \A v \in Workflows \ {w} :
            ckpt'[v] = ckpt[v] /\ def'[v] = def[v] /\ sess'[v] = sess[v]
      /\ pc'[p] = "create_draft" /\ wf'[p] = w
      /\ OthersStay(p)
      /\ UNCHANGED <<status, executions, granted, resume, choice, tstate>>
  BY DEF TypeInv, TypeOK, RecordTypeOK, HandlerTypeOK, Start, Checkpoint, Goto,
         OthersStay
<1>3. granted[w] = {} /\ executions[w] = 0
  BY <1>1 DEF ConsentInv, StartedInv
<1>4. StartedInv'
  BY <1>1, <1>2 DEF ConsentInv, StartedInv, Started, OthersStay
<1>5. ASSUME NEW q \in Handlers PROVE ThreadConsent(q)'
  <2>1. CASE q = p
    BY <1>1, <1>2, <2>1 DEF ThreadConsent, SentTo, AllowedAt, EnablePcs, ReloadPcs, RunPcs,
                            Approvals, Consents
  <2>2. CASE q # p /\ pc[q] = "idle"
    BY <1>2, <2>2 DEF ConsentInv, ThreadConsent, OthersStay, SentTo, AllowedAt,
                      Approvals, Consents, EnablePcs, ReloadPcs, RunPcs
  <2>3. CASE q # p /\ pc[q] # "idle"
    BY <1>1, <1>2, <2>3 DEF ConsentInv, ThreadConsent, OthersStay, SentTo,
                            AllowedAt, Approved, MayRun
  <2>. QED BY <2>1, <2>2, <2>3
<1>6. ASSUME NEW v \in Workflows PROVE RecordConsent(v)'
  <2>1. CASE v = w
    BY <1>2, <1>3, <2>1
       DEF RecordConsent, SentTo, AllowedAt, EnablePcs, ReloadPcs, RunPcs, Approvals
  <2>2. CASE v # w
    BY <1>2, <2>2
       DEF ConsentInv, RecordConsent, SentTo, AllowedAt, Approved, MayRun
  <2>. QED BY <2>1, <2>2
<1>7. EnabledOnlyIfApproved'
  BY <1>2, <1>3 DEF ConsentInv, EnabledOnlyIfApproved
<1>. QED BY <1>4, <1>5, <1>6, <1>7 DEF ConsentInv

\* What the user sends is what the thread resumes the graph with.
LEMMA DecideConsent ==
    ASSUME TypeInv, ConsentInv, NEW p \in Handlers, NEW w \in Workflows,
           NEW waiting, waiting # "absent", NEW d, Decide(p, w, waiting, d)
    PROVE  ConsentInv'
<1>1. /\ Started(w) /\ pc[p] = "idle" /\ choice[p] = "none"
      /\ \A q \in Handlers : pc[q] # "idle" => wf[q] \in Workflows
  BY DEF Decide, ConsentInv, StartedInv, ThreadConsent, TypeInv, Working
<1>2. /\ granted'[w] = granted[w] \cup ({d} \cap Consents)
      /\ \A v \in Workflows \ {w} : granted'[v] = granted[v]
      /\ pc'[p] = "invoke" /\ wf'[p] = w /\ resume'[p] = d
      /\ OthersStay(p)
      /\ UNCHANGED <<status, sess, def, ckpt, executions, choice, tstate>>
  BY DEF TypeInv, TypeOK, RecordTypeOK, HandlerTypeOK, Decide, Goto, OthersStay
<1>. HIDE DEF Decide
<1>3. StartedInv'
  BY <1>1, <1>2 DEF ConsentInv, StartedInv, Started, OthersStay
<1>4. ASSUME NEW q \in Handlers PROVE ThreadConsent(q)'
  <2>1. CASE q = p
    BY <1>1, <1>2, <2>1 DEF ThreadConsent, SentTo, AllowedAt, EnablePcs, ReloadPcs, RunPcs,
                            Approvals
  <2>2. CASE q # p /\ pc[q] = "idle"
    BY <1>2, <2>2 DEF ConsentInv, ThreadConsent, OthersStay, SentTo, AllowedAt,
                      Approvals, Consents, EnablePcs, ReloadPcs, RunPcs
  <2>3. CASE q # p /\ pc[q] # "idle"
    BY <1>1, <1>2, <2>3 DEF ConsentInv, ThreadConsent, OthersStay, SentTo,
                            AllowedAt, Approved, MayRun
  <2>. QED BY <2>1, <2>2, <2>3
<1>5. ASSUME NEW v \in Workflows PROVE RecordConsent(v)'
  BY <1>2 DEF ConsentInv, RecordConsent, SentTo, AllowedAt, Approved, MayRun
<1>6. EnabledOnlyIfApproved'
  BY <1>2 DEF ConsentInv, EnabledOnlyIfApproved
<1>. QED BY <1>3, <1>4, <1>5, <1>6 DEF ConsentInv

LEMMA ListExpiredConsent ==
    ASSUME TypeInv, ConsentInv, NEW p \in Handlers, NEW w \in Workflows,
           ListExpired(p, w)
    PROVE  ConsentInv'
<1>1. /\ Started(w) /\ pc[p] = "idle"
      /\ resume[p] = "none" /\ choice[p] = "none"
      /\ \A q \in Handlers : pc[q] # "idle" => wf[q] \in Workflows
  BY DEF ListExpired, ConsentInv, StartedInv, ThreadConsent, TypeInv, Working,
         PendingStatuses
<1>2. /\ pc'[p] \in {"inspect_draft", "mark_expired"} /\ wf'[p] = w
      /\ OthersStay(p)
      /\ UNCHANGED <<status, sess, def, ckpt, executions, granted, resume,
                     choice, tstate>>
  BY DEF TypeInv, TypeOK, RecordTypeOK, HandlerTypeOK, ListExpired, Goto,
         OthersStay
<1>3. StartedInv'
  BY <1>1, <1>2 DEF ConsentInv, StartedInv, Started, OthersStay
<1>4. ASSUME NEW q \in Handlers PROVE ThreadConsent(q)'
  <2>1. CASE q = p
    BY <1>1, <1>2, <2>1 DEF ThreadConsent, SentTo, AllowedAt, EnablePcs, ReloadPcs, RunPcs,
                            Approvals, Consents
  <2>2. CASE q # p
    BY <1>2, <2>2 DEF ConsentInv, ThreadConsent, OthersStay, SentTo, AllowedAt,
                      Approved, MayRun
  <2>. QED BY <2>1, <2>2
<1>5. ASSUME NEW v \in Workflows PROVE RecordConsent(v)'
  BY <1>2 DEF ConsentInv, RecordConsent, SentTo, AllowedAt, Approved, MayRun
<1>6. EnabledOnlyIfApproved'
  BY <1>2 DEF ConsentInv, EnabledOnlyIfApproved
<1>. QED BY <1>3, <1>4, <1>5, <1>6 DEF ConsentInv

LEMMA EnvironmentConsent ==
    ASSUME TypeInv, ConsentInv,
           \/ \E w \in Workflows : ExpireWorkflow(w)
           \/ \E t \in Tools : ExpireLease(t)
           \/ Crash
           \/ UNCHANGED vars
    PROVE  ConsentInv'
<1>1. UNCHANGED <<status, sess, def, ckpt, executions, granted, tstate>>
  BY DEF ExpireWorkflow, ExpireLease, Crash, vars
<1>2. \A q \in Handlers :
         \/ pc'[q] = "idle" /\ resume'[q] = "none" /\ choice'[q] = "none"
         \/ UNCHANGED <<pc, wf, resume, choice>>
  BY DEF ExpireWorkflow, ExpireLease, Crash, vars
<1>3. StartedInv'
  BY <1>1, <1>2 DEF ConsentInv, StartedInv, Started
<1>4. ASSUME NEW q \in Handlers PROVE ThreadConsent(q)'
  BY <1>1, <1>2 DEF ConsentInv, ThreadConsent, SentTo, AllowedAt, Approved,
                    MayRun, Approvals, Consents, EnablePcs, ReloadPcs, RunPcs
<1>5. ASSUME NEW v \in Workflows PROVE RecordConsent(v)'
  BY <1>1 DEF ConsentInv, RecordConsent, SentTo, AllowedAt, Approved, MayRun
<1>6. EnabledOnlyIfApproved'
  BY <1>1 DEF ConsentInv, EnabledOnlyIfApproved
<1>. QED BY <1>3, <1>4, <1>5, <1>6 DEF ConsentInv

LEMMA NextConsent ==
    ASSUME TypeInv, ConsentInv, [Next]_vars
    PROVE  ConsentInv'
<1>1. ASSUME NEW p \in Handlers, Request(p) PROVE ConsentInv'
  BY <1>1, StartConsent, DecideConsent, ListExpiredConsent
     DEF Request, DecideTool, DecideRetry
<1>2. ASSUME NEW p \in Handlers, HandlerStep(p) PROVE ConsentInv'
  BY <1>2, DraftConsent, CreateConsent, InvokeConsent, WaitToolApprovalConsent,
     RefusalsConsent, RetryConsent, EnableConsent, ToolEnabledConsent,
     ReloadConsent, ExecuteConsent, CleanupConsent
     DEF HandlerStep, ReloadStep
<1>. QED BY <1>1, <1>2, EnvironmentConsent DEF Next

LEMMA ConsentInvariant == Spec => [](TypeInv /\ ConsentInv)
<1>1. Init => ConsentInv
  BY DEF Init, ConsentInv, StartedInv, Started, ThreadConsent, RecordConsent,
         SentTo, AllowedAt, EnablePcs, ReloadPcs, RunPcs, Approvals, Consents,
         EnabledOnlyIfApproved, Unknown
<1>. QED BY <1>1, NextConsent, TypeInvariant, PTL DEF Spec

\* However decisions, cleanups and restarts interleave, an action has run only
\* if the user confirmed it, or approved running it at once and its definition
\* is eligible (_wait_tool_approval, _route_after_reload, _wait_retry).
THEOREM RunsAreConfirmed == Spec => []ExecutionConfirmed
<1>1. ConsentInv => ExecutionConfirmed
  BY DEF ConsentInv, RecordConsent, MayRun, ExecutionConfirmed
<1>. QED BY <1>1, ConsentInvariant, PTL

\* No tool is approved, installed or enabled unless the user approved a
\* workflow about it, whichever thread finds the graph at enable_tool.
THEOREM ToolsAreApproved == Spec => []EnabledOnlyIfApproved
<1>1. ConsentInv => EnabledOnlyIfApproved
  BY DEF ConsentInv
<1>. QED BY <1>1, ConsentInvariant, PTL
-----------------------------------------------------------------------------
(* The files of an installed tool.                                         *)
(*                                                                         *)
(* The copy and the two transitions after it are three calls of one thread,  *)
(* and other threads move the tool's state between them: a thread past the   *)
(* copy knows that the files are there, and nothing takes them away.         *)

CopiedPcs == {"mark_installed", "set_enabled"}

FilesInv ==
    /\ \A p \in Handlers : pc[p] \in CopiedPcs => installed[Tool(p)] # None
    /\ EnabledHasFiles

\* Whoever installs or enables a tool is past the copy of its files, and who
\* gets past the copy has made them.
FilesKept ==
    /\ \A t \in Tools : installed[t] # None => installed'[t] # None
    /\ \A p \in Handlers : pc'[p] \in CopiedPcs =>
          /\ wf'[p] = wf[p] /\ def'[wf[p]] = def[wf[p]]
          /\ pc[p] \in CopiedPcs \/ installed'[Tool(p)] # None
    /\ \A t \in Tools : tstate'[t] \in {"installed", "enabled"} =>
          \/ tstate[t] \in {"installed", "enabled"}
          \/ \E p \in Handlers : pc[p] \in CopiedPcs /\ t = Tool(p)

LEMMA FilesStep ==
    ASSUME TypeInv, ConsentInv, FilesInv, FilesKept
    PROVE  FilesInv'
<1>0. \A p \in Handlers : pc[p] # "idle" => Tool(p) \in Tools
  BY ConstantsAssumption DEF ConsentInv, StartedInv, Tool, TypeInv, Working
<1>1. ASSUME NEW p \in Handlers, pc'[p] \in CopiedPcs
      PROVE  installed'[ToolOf[def'[wf'[p]]]] # None
  BY <1>0, <1>1 DEF FilesKept, FilesInv, Tool, CopiedPcs
<1>2. EnabledHasFiles'
  BY <1>0 DEF FilesKept, FilesInv, EnabledHasFiles, CopiedPcs
<1>. QED BY <1>1, <1>2 DEF FilesInv, Tool

\* The steps that neither install nor reach a copy.
LEMMA FilesQuiet ==
    ASSUME TypeInv, NEW p \in Handlers,
           UNCHANGED <<def, installed>>,
           \/ Return(p)
           \/ \E l : l \notin CopiedPcs /\ Goto(p, l) /\ UNCHANGED wf,
           \A t \in Tools : tstate'[t] \in {"installed", "enabled"} =>
               tstate'[t] = tstate[t]
    PROVE  FilesKept
BY DEF TypeInv, TypeOK, HandlerTypeOK, Return, Goto, CopiedPcs, FilesKept

LEMMA RequestFiles ==
    ASSUME TypeInv, ConsentInv, NEW p \in Handlers, Request(p)
    PROVE  FilesKept
<1>1. \A q \in Handlers : pc'[q] \in CopiedPcs =>
         pc'[q] = pc[q] /\ wf'[q] = wf[q]
  BY DEF TypeInv, TypeOK, HandlerTypeOK, Request, Start, DecideTool,
         DecideRetry, Decide, ListExpired, Goto, CopiedPcs
<1>2. UNCHANGED <<installed, tstate>>
  BY DEF Request, Start, DecideTool, DecideRetry, Decide, ListExpired
<1>3. \A w \in Workflows : Started(w) => def'[w] = def[w]
  BY DEF TypeInv, TypeOK, RecordTypeOK, Request, Start, DecideTool,
         DecideRetry, Decide, ListExpired, Started
<1>4. \A q \in Handlers : pc[q] \in CopiedPcs =>
         wf[q] \in Workflows /\ Started(wf[q])
  BY DEF TypeInv, Working, ConsentInv, StartedInv, CopiedPcs
<1>. QED BY <1>1, <1>2, <1>3, <1>4 DEF FilesKept

LEMMA HandlerStepFiles ==
    ASSUME TypeInv, ConsentInv, NEW p \in Handlers, HandlerStep(p)
    PROVE  FilesKept
<1>0. /\ UNCHANGED def
      /\ pc[p] # "idle" => Tool(p) \in Tools
  BY ConstantsAssumption
     DEF HandlerStep, GenerateDraft, RegisterDraft, ValidateDraft, ReportDraft,
         ToolStep, CreateRecord, DraftCreated, Invoke, WaitToolApproval,
         ToolRejected, ToolCancelled, RetryRejected, RetryCancelled, Refuse,
         AcquireLease, ApproveTool, InstallTool, MarkInstalled, SetEnabled,
         AdvanceTool, ReleaseLease, ToolEnabled, ReloadRuntime, RecordReload,
         BuildDryRun, RouteAfterReload, OfferRetry, WaitRetry,
         LoadForExecution, ClaimRetry, RunAction, CompleteRetry,
         RecordOutcome, InspectDraft, RejectDraft, RemoveDraft, RemovalFails,
         MarkExpired,
         ConsentInv, StartedInv, Tool, TypeInv, Working
<1>1. ASSUME NEW s, s \notin {"installed", "enabled"}, SetTool(Tool(p), s)
      PROVE  \A t \in Tools : tstate'[t] \in {"installed", "enabled"} =>
                tstate'[t] = tstate[t]
  BY <1>1 DEF TypeInv, TypeOK, ToolTypeOK, SetTool
<1>2. ASSUME tstate' = VerifiedTools
      PROVE  \A t \in Tools : tstate'[t] \in {"installed", "enabled"} =>
                tstate'[t] = tstate[t]
  BY <1>2 DEF VerifiedTools
<1>3. CASE GenerateDraft(p) \/ RegisterDraft(p)
  BY <1>0, <1>1, <1>3, FilesQuiet DEF GenerateDraft, RegisterDraft, CopiedPcs
<1>4. CASE ValidateDraft(p) \/ ReportDraft(p) \/ RejectDraft(p)
  BY <1>0, <1>1, <1>4, FilesQuiet
     DEF ValidateDraft, ReportDraft, RejectDraft, ToolStep, CopiedPcs
<1>5. CASE CreateRecord(p) \/ DraftCreated(p)
  BY <1>0, <1>5, FilesQuiet DEF CreateRecord, DraftCreated, CopiedPcs
<1>6. CASE Invoke(p) \/ WaitToolApproval(p) \/ WaitRetry(p)
  <2>1. UNCHANGED <<def, installed, tstate>>
    BY <1>6 DEF Invoke, WaitToolApproval, WaitRetry
  <2>2. Return(p) \/ \E l \in Nodes : Goto(p, l) /\ UNCHANGED wf
    BY <1>6 DEF Invoke, WaitToolApproval, WaitRetry, AfterToolDecision,
                AfterRetryDecision, ToolDecisions, RetryDecisions, Nodes
  <2>3. Nodes \cap CopiedPcs = {}
    BY DEF Nodes, CopiedPcs
  <2>. QED BY <2>1, <2>2, <2>3, FilesQuiet
<1>7. CASE \/ ToolRejected(p) \/ ToolCancelled(p)
           \/ RetryRejected(p) \/ RetryCancelled(p) \/ OfferRetry(p)
  BY <1>7, FilesQuiet
     DEF ToolRejected, ToolCancelled, RetryRejected, RetryCancelled, Refuse,
         OfferRetry
<1>8. CASE AcquireLease(p) \/ ReleaseLease(p) \/ ToolEnabled(p)
  BY <1>8, FilesQuiet DEF AcquireLease, ReleaseLease, ToolEnabled, CopiedPcs
<1>9. CASE ApproveTool(p)
  BY <1>0, <1>1, <1>9, FilesQuiet DEF ApproveTool, CopiedPcs
<1>10. CASE InstallTool(p)
  <2>1. /\ UNCHANGED <<tstate, wf>>
        /\ pc' = [pc EXCEPT ![p] = "abandon_lease"]
           \/ pc' = [pc EXCEPT ![p] = "mark_installed"]
    BY <1>10 DEF InstallTool, Goto
  <2>2. \A t \in Tools : installed[t] # None => installed'[t] # None
    BY <1>10 DEF TypeInv, TypeOK, ToolTypeOK, InstallTool
  <2>3. pc' = [pc EXCEPT ![p] = "mark_installed"] => installed'[Tool(p)] # None
    <3>1. pc[p] = "install_tool"
      BY <1>10 DEF InstallTool
    <3>2. CASE pc' = [pc EXCEPT ![p] = "abandon_lease"]
      BY <3>1, <3>2 DEF TypeInv, TypeOK, HandlerTypeOK
    <3>3. CASE installed' = [installed EXCEPT ![Tool(p)] = draft[Tool(p)]]
               /\ draft[Tool(p)] # None
      BY <1>0, <3>1, <3>3 DEF TypeInv, TypeOK, ToolTypeOK
    <3>. QED BY <1>10, <3>2, <3>3 DEF InstallTool, Goto
  <2>. QED BY <1>0, <2>1, <2>2, <2>3
           DEF TypeInv, TypeOK, HandlerTypeOK, CopiedPcs, FilesKept
<1>11. CASE MarkInstalled(p) \/ SetEnabled(p)
  <2>1. /\ pc[p] \in CopiedPcs /\ UNCHANGED <<wf, installed>>
        /\ \E l : pc' = [pc EXCEPT ![p] = l]
        /\ UNCHANGED tstate \/ \E s : tstate' = [tstate EXCEPT ![Tool(p)] = s]
    BY <1>11 DEF MarkInstalled, SetEnabled, AdvanceTool, CopiedPcs, Goto, SetTool
  <2>. QED BY <1>0, <2>1
           DEF TypeInv, TypeOK, HandlerTypeOK, ToolTypeOK, CopiedPcs, FilesKept
<1>12. CASE ReloadStep(p)
  <2>1. \/ Return(p)
        \/ \E l \in ReloadPcs \cup {"offer_retry", "execute_action"} :
              Goto(p, l) /\ UNCHANGED wf
    BY <1>12, ReloadCases DEF LeavesFor, LeaveReload
  <2>2. UNCHANGED <<def, installed>>
    BY <1>12, ReloadCases
  <2>3. \A t \in Tools : tstate'[t] \in {"installed", "enabled"} =>
           tstate'[t] = tstate[t]
    BY <1>2, <1>12, ReloadCases
  <2>. QED BY <2>1, <2>2, <2>3, FilesQuiet DEF ReloadPcs, CopiedPcs
<1>13. CASE RunAction(p)
  <2>1. \A t \in Tools : tstate'[t] \in {"installed", "enabled"} =>
           tstate'[t] = tstate[t]
    BY <1>2, <1>13 DEF RunAction
  <2>. QED BY <1>13, <2>1, FilesQuiet DEF RunAction, CopiedPcs
<1>14. CASE \/ LoadForExecution(p) \/ ClaimRetry(p)
            \/ CompleteRetry(p) \/ RecordOutcome(p)
  BY <1>14, FilesQuiet
     DEF LoadForExecution, ClaimRetry, CompleteRetry, RecordOutcome, CopiedPcs
<1>15. CASE \/ InspectDraft(p) \/ RemoveDraft(p) \/ RemovalFails(p)
            \/ MarkExpired(p)
  BY <1>15, FilesQuiet
     DEF InspectDraft, RemoveDraft, RemovalFails, MarkExpired, CopiedPcs
<1>. QED BY <1>3, <1>4, <1>5, <1>6, <1>7, <1>8, <1>9, <1>10, <1>11, <1>12,
            <1>13, <1>14, <1>15 DEF HandlerStep, ReloadStep

LEMMA FilesInvariant == Spec => [](TypeInv /\ ConsentInv /\ FilesInv)
<1>1. Init => FilesInv
  BY DEF Init, FilesInv, CopiedPcs, EnabledHasFiles, Unknown
<1>2. TypeInv /\ ConsentInv /\ FilesInv /\ [Next]_vars => FilesInv'
  <2>. SUFFICES ASSUME TypeInv, ConsentInv, FilesInv, [Next]_vars
                PROVE  FilesKept
    BY FilesStep
  <2>1. CASE \/ \E w \in Workflows : ExpireWorkflow(w)
             \/ \E t \in Tools : ExpireLease(t)
             \/ Crash
             \/ UNCHANGED vars
    BY <2>1 DEF ExpireWorkflow, ExpireLease, Crash, vars, FilesKept, CopiedPcs
  <2>. QED BY <2>1, RequestFiles, HandlerStepFiles DEF Next
<1>. QED BY <1>1, <1>2, ConsentInvariant, PTL DEF Spec

\* A tool is installed or enabled only with its files in place, although the
\* copy and the transitions are separate calls (ToolInstaller.install).
THEOREM ToolsHaveFiles == Spec => []EnabledHasFiles
<1>1. FilesInv => EnabledHasFiles
  BY DEF FilesInv
<1>. QED BY <1>1, FilesInvariant, PTL
-----------------------------------------------------------------------------
(* The limit of a session and its lock.                                    *)
(*                                                                         *)
(* start_from_proposal checks for an equivalent draft and for room several   *)
(* calls before create inserts the record.  LockInv says what the session's  *)
(* lock makes of that: one thread at a time is between the two, its workflow *)
(* has no record yet, and what it checked still holds.                       *)

StartPcs ==
    {"create_draft", "register_draft", "validate_draft", "report_draft",
     "create_record"}

\* A request that is about to insert its record; a thread a decision has sent
\* back to create_draft is not.
Starting(p) == pc[p] \in StartPcs /\ resume[p] = "none"

\* The thread holds the lock of its workflow's session.
Locks(p) == pc[p] \in StartPcs \cup {"draft_created"} /\ resume[p] = "none"

OneStarter ==
    \A p, q \in Handlers : Locks(p) /\ Locks(q) /\ sess[wf[p]] = sess[wf[q]] =>
        p = q

\* Every other thread works on a workflow that has its record, and resumes a
\* graph only with a decision.
ThreadLock(p) ==
    /\ pc[p] # "idle" /\ ~Starting(p) => status[wf[p]] # "absent"
    /\ pc[p] = "invoke" => resume[p] # "none"
    /\ Starting(p) => /\ status[wf[p]] = "absent"
                      /\ EquivalentDrafts(sess[wf[p]], def[wf[p]]) = {}
                      /\ HasCapacity(sess[wf[p]])

\* Two drafts that wait in one session are of different definitions.
DraftsDiffer ==
    \A w, v \in Workflows :
        /\ status[w] = "WAITING_TOOL_APPROVAL"
        /\ status[v] = "WAITING_TOOL_APPROVAL"
        /\ sess[w] = sess[v] /\ def[w] = def[v]
        => w = v

WithinLimit ==
    \A s \in Sessions : IsFiniteSet(PendingApprovals(s))
                        /\ Cardinality(PendingApprovals(s)) <= MaxPending

LockInv ==
    /\ OneStarter
    /\ \A p \in Handlers : ThreadLock(p)
    /\ DraftsDiffer
    /\ WithinLimit

\* A session never has two equivalent drafts waiting for the user.
NoDuplicateDraft ==
    \A s \in Sessions, d \in Defs : Cardinality(EquivalentDrafts(s, d)) <= 1

LEMMA FewerPending ==
    ASSUME NEW S, IsFiniteSet(S), NEW T \in SUBSET S
    PROVE  /\ IsFiniteSet(T) /\ Cardinality(T) \in Nat
           /\ Cardinality(S) \in Nat /\ Cardinality(T) <= Cardinality(S)
BY FS_Subset, FS_CardinalityType
-----------------------------------------------------------------------------
(* Steps that insert no record.                                            *)

\* No draft comes to wait, no record disappears, and a workflow that has a
\* record or a thread is still of the same session and definition.
PendingShrinks ==
    \A w \in Workflows :
        /\ status'[w] = "WAITING_TOOL_APPROVAL" =>
              status[w] = "WAITING_TOOL_APPROVAL"
        /\ status'[w] = "absent" <=> status[w] = "absent"
        /\ Started(w) => sess'[w] = sess[w] /\ def'[w] = def[w]

\* A request goes on inside create_draft or outside it, or ends.
KeepsLock(p) ==
    pc'[p] # "idle" =>
        /\ pc[p] # "idle" /\ wf'[p] = wf[p] /\ resume'[p] = resume[p]
        /\ resume[p] = "none" =>
              /\ pc'[p] \in StartPcs <=> pc[p] \in StartPcs
              /\ pc'[p] = "draft_created" => pc[p] = "draft_created"
        /\ pc'[p] = "invoke" => pc[p] = "invoke"

LockedStay == \A p \in Handlers : KeepsLock(p)

LEMMA ShrinkingSets ==
    ASSUME ConsentInv, LockInv, PendingShrinks
    PROVE  /\ DraftsDiffer' /\ WithinLimit'
           /\ \A s \in Sessions :
                 /\ HasCapacity(s) => HasCapacity(s)'
                 /\ \A d : EquivalentDrafts(s, d) = {} =>
                          EquivalentDrafts(s, d)' = {}
<1>0. \A w \in Workflows : status[w] # "absent" => Started(w)
  BY DEF ConsentInv, StartedInv
<1>1. ASSUME NEW s \in Sessions
      PROVE  /\ PendingApprovals(s)' \subseteq PendingApprovals(s)
             /\ \A d : EquivalentDrafts(s, d)' \subseteq EquivalentDrafts(s, d)
  BY <1>0 DEF PendingShrinks, PendingApprovals, EquivalentDrafts
<1>2. ASSUME NEW s \in Sessions
      PROVE  /\ IsFiniteSet(PendingApprovals(s)')
             /\ Cardinality(PendingApprovals(s)') <= MaxPending
             /\ HasCapacity(s) => Cardinality(PendingApprovals(s)') < MaxPending
  BY <1>1, FewerPending, ConstantsAssumption
     DEF LockInv, WithinLimit, HasCapacity
<1>3. DraftsDiffer'
  BY <1>0 DEF LockInv, DraftsDiffer, PendingShrinks
<1>4. WithinLimit'
  BY <1>2 DEF WithinLimit
<1>. QED BY <1>1, <1>2, <1>3, <1>4 DEF HasCapacity

LEMMA KeptLock ==
    ASSUME TypeInv, ConsentInv, LockInv, PendingShrinks,
           NEW p \in Handlers, KeepsLock(p)
    PROVE  /\ ThreadLock(p)'
           /\ Locks(p)' => /\ Locks(p) /\ wf'[p] = wf[p]
                           /\ sess'[wf[p]] = sess[wf[p]]
<1>. SUFFICES ASSUME pc'[p] # "idle"
              PROVE  /\ ThreadLock(p)'
                     /\ Locks(p)' => /\ Locks(p) /\ wf'[p] = wf[p]
                                     /\ sess'[wf[p]] = sess[wf[p]]
  BY DEF ThreadLock, Locks, Starting, StartPcs
<1>1. /\ pc[p] # "idle" /\ wf'[p] = wf[p] /\ resume'[p] = resume[p]
      /\ wf[p] \in Workflows /\ Started(wf[p]) /\ sess[wf[p]] \in Sessions
  BY DEF KeepsLock, TypeInv, Working, ConsentInv, StartedInv
<1>2. sess'[wf[p]] = sess[wf[p]] /\ def'[wf[p]] = def[wf[p]]
  BY <1>1 DEF PendingShrinks
<1>3. (Starting(p)' <=> Starting(p)) /\ (Locks(p)' => Locks(p))
  BY <1>1 DEF KeepsLock, Starting, Locks, StartPcs
<1>4. ThreadLock(p)
  BY DEF LockInv
<1>5. status'[wf[p]] = "absent" <=> status[wf[p]] = "absent"
  BY <1>1 DEF PendingShrinks
<1>6. ASSUME Starting(p)
      PROVE  /\ EquivalentDrafts(sess[wf[p]], def[wf[p]])' = {}
             /\ HasCapacity(sess[wf[p]])'
  <2>1. PICK s \in Sessions : s = sess[wf[p]] /\ s = sess'[wf'[p]]
    BY <1>1, <1>2
  <2>2. PICK d : d = def[wf[p]] /\ d = def'[wf'[p]]
    BY <1>1, <1>2
  <2>3. EquivalentDrafts(s, d) = {} /\ HasCapacity(s)
    BY <1>4, <1>6, <2>1, <2>2 DEF ThreadLock
  <2>4. EquivalentDrafts(s, d)' = {} /\ HasCapacity(s)'
    BY <2>3, ShrinkingSets
  <2>5. EquivalentDrafts(sess[wf[p]], def[wf[p]])' = {}
    BY <2>1, <2>2, <2>4 DEF EquivalentDrafts, PendingApprovals
  <2>6. HasCapacity(sess[wf[p]])'
    BY <2>1, <2>4 DEF HasCapacity, PendingApprovals
  <2>. QED BY <2>5, <2>6
<1>7. pc'[p] = "invoke" => resume'[p] # "none"
  BY <1>1, <1>4 DEF KeepsLock, ThreadLock
<1>8. ThreadLock(p)'
  <2>. HIDE DEF Starting
  <2>. QED BY <1>1, <1>3, <1>4, <1>5, <1>6, <1>7 DEF ThreadLock
<1>. QED BY <1>1, <1>2, <1>3, <1>8

LEMMA QuietLock ==
    ASSUME TypeInv, ConsentInv, LockInv, PendingShrinks, LockedStay
    PROVE  LockInv'
<1>1. DraftsDiffer' /\ WithinLimit'
  BY ShrinkingSets
<1>2. ASSUME NEW p \in Handlers PROVE ThreadLock(p)'
  BY <1>2, KeptLock DEF LockedStay
<1>3. ASSUME NEW p \in Handlers, NEW q \in Handlers, Locks(p)', Locks(q)',
             sess'[wf'[p]] = sess'[wf'[q]]
      PROVE  p = q
  <2>1. Locks(p) /\ sess[wf[p]] = sess'[wf'[p]]
    BY <1>3, KeptLock DEF LockedStay
  <2>2. Locks(q) /\ sess[wf[q]] = sess'[wf'[q]]
    BY <1>3, KeptLock DEF LockedStay
  <2>. QED BY <1>3, <2>1, <2>2 DEF LockInv, OneStarter
<1>4. OneStarter'
  BY <1>3 DEF OneStarter
<1>. QED BY <1>1, <1>2, <1>4 DEF LockInv

LEMMA ReturnLocked ==
    ASSUME TypeInv, NEW p \in Handlers, Return(p)
    PROVE  LockedStay
BY DEF TypeInv, TypeOK, HandlerTypeOK, Return, LockedStay, KeepsLock

LEMMA GotoLocked ==
    ASSUME TypeInv, NEW p \in Handlers, pc[p] # "idle",
           NEW l, l \notin {"draft_created", "invoke"}, Goto(p, l),
           UNCHANGED <<wf, resume>>,
           resume[p] # "none" \/ (l \in StartPcs <=> pc[p] \in StartPcs)
    PROVE  LockedStay
BY DEF TypeInv, TypeOK, HandlerTypeOK, Goto, LockedStay, KeepsLock

LEMMA SameStatus ==
    ASSUME UNCHANGED <<status, sess, def>>
    PROVE  PendingShrinks
BY DEF PendingShrinks

LEMMA TransitionShrinks ==
    ASSUME TypeInv, LockInv, NEW p \in Handlers,
           pc[p] # "idle", pc[p] \notin StartPcs, NEW expected,
           NEW target, target \notin {"absent", "WAITING_TOOL_APPROVAL"},
           Transition(wf[p], expected, target), UNCHANGED <<sess, def>>
    PROVE  PendingShrinks
<1>1. status[wf[p]] # "absent" /\ wf[p] \in Workflows
  BY BusyWorkflow DEF LockInv, ThreadLock, Starting
<1>. QED
  BY <1>1 DEF TypeInv, TypeOK, RecordTypeOK, Transition, PendingShrinks

LEMMA DraftLock ==
    ASSUME TypeInv, LockInv, NEW p \in Handlers,
           \/ GenerateDraft(p) \/ RegisterDraft(p) \/ ValidateDraft(p)
           \/ ReportDraft(p) \/ DraftCreated(p)
    PROVE  PendingShrinks /\ LockedStay
<1>1. PendingShrinks
  BY SameStatus
     DEF GenerateDraft, RegisterDraft, ValidateDraft, ReportDraft, ToolStep,
         DraftCreated
<1>2. LockedStay
  <2>1. CASE GenerateDraft(p)
    BY <2>1, ReturnLocked, GotoLocked DEF GenerateDraft, StartPcs
  <2>2. CASE RegisterDraft(p)
    BY <2>2, GotoLocked DEF RegisterDraft, StartPcs
  <2>3. CASE ValidateDraft(p)
    BY <2>3, ReturnLocked, GotoLocked DEF ValidateDraft, ToolStep, StartPcs
  <2>4. CASE ReportDraft(p)
    BY <2>4, ReturnLocked, GotoLocked DEF ReportDraft, ToolStep, StartPcs
  <2>5. CASE DraftCreated(p)
    BY <2>5, ReturnLocked DEF DraftCreated
  <2>. QED BY <2>1, <2>2, <2>3, <2>4, <2>5
<1>. QED BY <1>1, <1>2

LEMMA DecisionLock ==
    ASSUME TypeInv, LockInv, NEW p \in Handlers,
           \/ Invoke(p) \/ WaitToolApproval(p) \/ ToolRejected(p)
           \/ ToolCancelled(p) \/ RetryRejected(p) \/ RetryCancelled(p)
           \/ OfferRetry(p) \/ WaitRetry(p)
    PROVE  PendingShrinks /\ LockedStay
<1>1. \A n \in Nodes : n \notin {"draft_created", "invoke"}
  BY DEF Nodes
<1>2. CASE Invoke(p)
  <2>1. resume[p] # "none"
    BY <1>2 DEF Invoke, LockInv, ThreadLock
  <2>. QED BY <1>1, <1>2, <2>1, ReturnLocked, GotoLocked, SameStatus DEF Invoke
<1>3. CASE WaitToolApproval(p)
  <2>1. Return(p) \/ (resume[p] \in ToolDecisions
                      /\ Goto(p, AfterToolDecision(resume[p]))
                      /\ UNCHANGED <<wf, resume>>)
    BY <1>3 DEF WaitToolApproval
  <2>2. ASSUME resume[p] \in ToolDecisions
        PROVE  AfterToolDecision(resume[p]) \in Nodes
    BY <2>2 DEF AfterToolDecision, ToolDecisions, Approvals, Nodes
  <2>3. resume[p] \in ToolDecisions => resume[p] # "none"
    BY DEF ToolDecisions, Approvals
  <2>4. pc[p] # "idle" /\ UNCHANGED <<status, sess, def>>
    BY <1>3 DEF WaitToolApproval
  <2>. QED
    BY <1>1, <2>1, <2>2, <2>3, <2>4, ReturnLocked, GotoLocked, SameStatus
<1>4. ASSUME NEW node, node \notin StartPcs \cup {"idle"}, NEW expected,
             NEW target, target \notin {"absent", "WAITING_TOOL_APPROVAL"},
             Refuse(p, node, expected, target)
      PROVE  PendingShrinks /\ LockedStay
  BY <1>4, ReturnLocked, TransitionShrinks DEF Refuse
<1>5. CASE \/ ToolRejected(p) \/ ToolCancelled(p)
           \/ RetryRejected(p) \/ RetryCancelled(p)
  BY <1>4, <1>5
     DEF ToolRejected, ToolCancelled, RetryRejected, RetryCancelled, StartPcs
<1>6. CASE OfferRetry(p)
  <2>1. pc[p] # "idle" /\ pc[p] \notin StartPcs
    BY <1>6 DEF OfferRetry, StartPcs
  <2>. QED BY <1>6, <2>1, ReturnLocked, TransitionShrinks
           DEF OfferRetry, OfferRetryRecord
<1>7. CASE WaitRetry(p)
  <2>0. pc[p] # "idle" /\ pc[p] \notin StartPcs
    BY <1>7 DEF WaitRetry, StartPcs
  <2>1. PendingShrinks
    BY <1>7, <2>0, TransitionShrinks DEF WaitRetry, OfferRetryRecord
  <2>2. Return(p) \/ (resume[p] \in RetryDecisions
                      /\ Goto(p, AfterRetryDecision(resume[p]))
                      /\ UNCHANGED <<wf, resume>>)
    BY <1>7 DEF WaitRetry
  <2>3. ASSUME resume[p] \in RetryDecisions
        PROVE  AfterRetryDecision(resume[p]) \in Nodes
    BY <2>3 DEF AfterRetryDecision, RetryDecisions, Nodes
  <2>4. resume[p] \in RetryDecisions => resume[p] # "none"
    BY DEF RetryDecisions
  <2>. QED BY <1>1, <2>0, <2>1, <2>2, <2>3, <2>4, ReturnLocked, GotoLocked
<1>. QED BY <1>2, <1>3, <1>5, <1>6, <1>7

LEMMA EnableLock ==
    ASSUME TypeInv, LockInv, NEW p \in Handlers,
           \/ AcquireLease(p) \/ ApproveTool(p) \/ InstallTool(p)
           \/ MarkInstalled(p) \/ SetEnabled(p) \/ ReleaseLease(p)
           \/ ToolEnabled(p) \/ ReloadStep(p)
    PROVE  PendingShrinks /\ LockedStay
<1>0. pc[p] # "idle" /\ pc[p] \notin StartPcs
  BY ReloadCases
     DEF AcquireLease, ApproveTool, InstallTool, MarkInstalled, SetEnabled,
         AdvanceTool, ReleaseLease, ToolEnabled, ReloadPcs, StartPcs
<1>1. PendingShrinks
  <2>1. CASE UNCHANGED <<status, sess, def>>
    BY <2>1, SameStatus
  <2>2. CASE ToolEnabled(p)
    BY <1>0, <2>2, TransitionShrinks DEF ToolEnabled
  <2>3. CASE ReloadStep(p)
    BY <1>0, <2>3, ReloadCases, SameStatus, TransitionShrinks DEF LeavesFor
  <2>. QED BY <2>1, <2>2, <2>3 DEF AcquireLease, ApproveTool, InstallTool,
                             MarkInstalled, SetEnabled, AdvanceTool, ReleaseLease
<1>2. ASSUME NEW l \in EnablePcs \cup {"abandon_lease", "offer_retry",
                                       "execute_action"},
             Goto(p, l), UNCHANGED <<wf, resume>>
      PROVE  LockedStay
  BY <1>0, <1>2, GotoLocked DEF EnablePcs, ReloadPcs, StartPcs
<1>3. LockedStay
  <2>1. CASE AcquireLease(p) \/ ReleaseLease(p)
    BY <1>2, <2>1, ReturnLocked DEF AcquireLease, ReleaseLease, EnablePcs
  <2>2. CASE ApproveTool(p) \/ InstallTool(p)
    BY <1>2, <2>2 DEF ApproveTool, InstallTool, EnablePcs
  <2>3. CASE MarkInstalled(p) \/ SetEnabled(p)
    BY <1>2, <2>3 DEF MarkInstalled, SetEnabled, AdvanceTool, EnablePcs
  <2>4. CASE ToolEnabled(p)
    BY <1>2, <2>4 DEF ToolEnabled, EnablePcs, ReloadPcs
  <2>5. CASE ReloadStep(p)
    BY <1>2, <2>5, ReloadCases, ReturnLocked
       DEF LeavesFor, LeaveReload, EnablePcs
  <2>. QED BY <2>1, <2>2, <2>3, <2>4, <2>5
<1>. QED BY <1>1, <1>3

LEMMA ExecuteLock ==
    ASSUME TypeInv, LockInv, NEW p \in Handlers,
           \/ LoadForExecution(p) \/ ClaimRetry(p) \/ RunAction(p)
           \/ CompleteRetry(p) \/ RecordOutcome(p) \/ InspectDraft(p)
           \/ RejectDraft(p) \/ RemoveDraft(p) \/ RemovalFails(p)
           \/ MarkExpired(p)
    PROVE  PendingShrinks /\ LockedStay
<1>0. pc[p] # "idle" /\ pc[p] \notin StartPcs
  BY DEF LoadForExecution, ClaimRetry, RunAction, CompleteRetry, RecordOutcome,
         InspectDraft, RejectDraft, ToolStep, RemoveDraft, RemovalFails,
         MarkExpired, StartPcs
<1>1. PendingShrinks
  <2>1. CASE UNCHANGED <<status, sess, def>>
    BY <2>1, SameStatus
  <2>2. CASE RecordOutcome(p)
    <3>1. PICK target \in {"ACTION_EXECUTED", "ACTION_FAILED"} :
             Transition(wf[p], seen[p], target)
      BY <2>2 DEF RecordOutcome
    <3>. QED BY <1>0, <2>2, <3>1, TransitionShrinks DEF RecordOutcome
  <2>3. CASE MarkExpired(p)
    BY <1>0, <2>3, TransitionShrinks DEF MarkExpired
  <2>. QED BY <2>1, <2>2, <2>3 DEF LoadForExecution, ClaimRetry, RunAction,
                             CompleteRetry, InspectDraft, RejectDraft, ToolStep,
                             RemoveDraft, RemovalFails
<1>2. ASSUME NEW l \in {"claim_retry", "run_action", "complete_retry",
                        "record_outcome", "reject_draft", "remove_draft",
                        "mark_expired"},
             Goto(p, l), UNCHANGED <<wf, resume>>
      PROVE  LockedStay
  BY <1>0, <1>2, GotoLocked DEF StartPcs
<1>3. LockedStay
  <2>1. CASE LoadForExecution(p) \/ ClaimRetry(p) \/ CompleteRetry(p)
    BY <1>2, <2>1, ReturnLocked DEF LoadForExecution, ClaimRetry, CompleteRetry
  <2>2. CASE RunAction(p)
    BY <1>2, <2>2, ReturnLocked DEF RunAction
  <2>3. CASE RecordOutcome(p) \/ MarkExpired(p)
    BY <2>3, ReturnLocked DEF RecordOutcome, MarkExpired
  <2>4. CASE \/ InspectDraft(p) \/ RejectDraft(p) \/ RemoveDraft(p)
             \/ RemovalFails(p)
    BY <1>2, <2>4, ReturnLocked
       DEF InspectDraft, RejectDraft, ToolStep, RemoveDraft, RemovalFails
  <2>. QED BY <2>1, <2>2, <2>3, <2>4
<1>. QED BY <1>1, <1>3

LEMMA EnvironmentLock ==
    ASSUME \/ \E w \in Workflows : ExpireWorkflow(w)
           \/ \E t \in Tools : ExpireLease(t)
           \/ Crash
           \/ UNCHANGED vars
    PROVE  PendingShrinks /\ LockedStay
<1>1. PendingShrinks
  BY SameStatus DEF ExpireWorkflow, ExpireLease, Crash, vars
<1>2. LockedStay
  BY DEF ExpireWorkflow, ExpireLease, Crash, vars, LockedStay, KeepsLock
<1>. QED BY <1>1, <1>2
-----------------------------------------------------------------------------
(* Requests, and the call that inserts a record.                           *)

\* The threads a step of p leaves alone.
LEMMA OtherLocks ==
    ASSUME NEW p \in Handlers,
           \A q \in Handlers \ {p} :
               pc'[q] = pc[q] /\ wf'[q] = wf[q] /\ resume'[q] = resume[q]
    PROVE  \A q \in Handlers \ {p} : KeepsLock(q)
BY DEF KeepsLock

LEMMA StartLock ==
    ASSUME TypeInv, ConsentInv, LockInv, NEW p \in Handlers,
           NEW w \in Workflows, NEW s \in Sessions, NEW d \in Defs,
           Start(p, w, s, d)
    PROVE  LockInv'
<1>1. /\ status[w] = "absent" /\ UNCHANGED status
      /\ sess'[w] = s /\ def'[w] = d
      /\ \A v \in Workflows \ {w} : sess'[v] = sess[v] /\ def'[v] = def[v]
      /\ pc'[p] = "create_draft" /\ wf'[p] = w
      /\ resume'[p] = "none" /\ ~Started(w)
      /\ \A q \in Handlers \ {p} :
            pc'[q] = pc[q] /\ wf'[q] = wf[q] /\ resume'[q] = resume[q]
  BY DEF Start, Goto, ConsentInv, StartedInv, Started, ThreadConsent, TypeInv,
         TypeOK, RecordTypeOK, HandlerTypeOK
<1>2. PendingShrinks
  BY <1>1 DEF PendingShrinks
<1>3. /\ EquivalentDrafts(s, d) = {} /\ HasCapacity(s)
      /\ \A q \in Handlers : Locks(q) => sess[wf[q]] # s
  BY DEF Start, EquivalentPending, EquivalentDrafts, PendingApprovals,
         PendingStatuses, SessionLocked, HoldsSessionLock, Locks, StartPcs
<1>4. DraftsDiffer' /\ WithinLimit'
  BY <1>2, ShrinkingSets
<1>5. ThreadLock(p)'
  <2>1. EquivalentDrafts(s, d)' = {} /\ HasCapacity(s)'
    BY <1>2, <1>3, ShrinkingSets
  <2>2. EquivalentDrafts(sess[wf[p]], def[wf[p]])' = {}
    BY <1>1, <2>1 DEF EquivalentDrafts, PendingApprovals
  <2>3. HasCapacity(sess[wf[p]])'
    BY <1>1, <2>1 DEF HasCapacity, PendingApprovals
  <2>4. status'[wf'[p]] = "absent" /\ Starting(p)'
    BY <1>1 DEF Starting, StartPcs
  <2>. QED BY <1>1, <2>2, <2>3, <2>4 DEF ThreadLock
<1>6. \A q \in Handlers \ {p} :
         /\ ThreadLock(q)'
         /\ Locks(q)' => Locks(q) /\ wf'[q] = wf[q] /\ sess'[wf[q]] = sess[wf[q]]
  BY <1>1, <1>2, OtherLocks, KeptLock
<1>7. OneStarter'
  BY <1>1, <1>3, <1>6 DEF LockInv, OneStarter
<1>. QED BY <1>4, <1>5, <1>6, <1>7 DEF LockInv

LEMMA DecideLock ==
    ASSUME TypeInv, ConsentInv, LockInv, NEW p \in Handlers,
           NEW w \in Workflows,
           \/ DecideTool(p, w) \/ DecideRetry(p, w) \/ ListExpired(p, w)
    PROVE  LockInv'
<1>1. /\ status[w] # "absent" /\ UNCHANGED <<status, sess, def>>
      /\ pc'[p] \in {"invoke", "inspect_draft", "mark_expired"} /\ wf'[p] = w
      /\ pc'[p] = "invoke" => resume'[p] # "none"
      /\ \A q \in Handlers \ {p} :
            pc'[q] = pc[q] /\ wf'[q] = wf[q] /\ resume'[q] = resume[q]
  BY DEF DecideTool, DecideRetry, Decide, ListExpired, Goto, PendingStatuses,
         ToolDecisions, Approvals, RetryDecisions, TypeInv, TypeOK, HandlerTypeOK
<1>2. PendingShrinks
  BY <1>1, SameStatus
<1>3. DraftsDiffer' /\ WithinLimit'
  BY <1>2, ShrinkingSets
<1>4. ThreadLock(p)' /\ ~Locks(p)'
  BY <1>1 DEF ThreadLock, Starting, Locks, StartPcs
<1>5. \A q \in Handlers \ {p} :
         /\ ThreadLock(q)'
         /\ Locks(q)' => Locks(q) /\ wf'[q] = wf[q] /\ sess'[wf[q]] = sess[wf[q]]
  BY <1>1, <1>2, OtherLocks, KeptLock
<1>6. OneStarter'
  BY <1>4, <1>5 DEF LockInv, OneStarter
<1>. QED BY <1>3, <1>4, <1>5, <1>6 DEF LockInv

LEMMA CreateLock ==
    ASSUME TypeInv, ConsentInv, LockInv, NEW p \in Handlers, CreateRecord(p)
    PROVE  LockInv'
<1>0. /\ pc[p] = "create_record" /\ wf[p] \in Workflows
      /\ sess[wf[p]] \in Sessions
      /\ UNCHANGED <<sess, def>>
      /\ ThreadLock(p)
  BY BusyWorkflow DEF CreateRecord, ConsentInv, StartedInv, LockInv
<1>1. CASE Return(p) /\ UNCHANGED status
  BY <1>0, <1>1, ReturnLocked, SameStatus, QuietLock
<1>2. CASE /\ status[wf[p]] = "absent"
           /\ status' = [status EXCEPT ![wf[p]] = "WAITING_TOOL_APPROVAL"]
           /\ Goto(p, "draft_created") /\ UNCHANGED localVars
  <2>1. /\ status'[wf[p]] = "WAITING_TOOL_APPROVAL"
        /\ \A w \in Workflows \ {wf[p]} : status'[w] = status[w]
        /\ pc'[p] = "draft_created"
        /\ \A q \in Handlers \ {p} : pc'[q] = pc[q]
        /\ UNCHANGED <<wf, resume>>
    BY <1>0, <1>2
       DEF TypeInv, TypeOK, RecordTypeOK, HandlerTypeOK, Goto
  <2>2. /\ Starting(p) /\ Locks(p)
        /\ EquivalentDrafts(sess[wf[p]], def[wf[p]]) = {}
        /\ HasCapacity(sess[wf[p]])
    BY <1>0, <1>2 DEF ThreadLock, Starting, Locks, StartPcs
  <2>3. \A q \in Handlers : /\ Starting(q)' => Starting(q) /\ q # p
                            /\ Starting(q) => Locks(q)
                            /\ Locks(q)' => Locks(q)
    BY <2>1, <2>2 DEF Starting, Locks, StartPcs
  <2>4. ASSUME NEW q \in Handlers \ {p}, Starting(q)
        PROVE  sess[wf[q]] # sess[wf[p]]
    <3>1. Locks(q) /\ Locks(p) /\ q # p
      BY <2>2, <2>4 DEF Starting, Locks
    <3>. QED BY <3>1 DEF LockInv, OneStarter
  <2>5. OneStarter'
    <3>1. ASSUME NEW q \in Handlers, NEW r \in Handlers, Locks(q)', Locks(r)',
                 sess'[wf'[q]] = sess'[wf'[r]]
          PROVE  q = r
      <4>1. Locks(q) /\ Locks(r)
        BY <2>1, <2>2, <3>1 DEF Locks, StartPcs
      <4>2. sess[wf[q]] = sess[wf[r]]
        BY <1>0, <2>1, <3>1
      <4>. QED BY <4>1, <4>2 DEF LockInv, OneStarter
    <3>. QED BY <3>1 DEF OneStarter
  <2>6. ASSUME NEW q \in Handlers PROVE ThreadLock(q)'
    <3>1. pc[q] # "idle" => wf[q] \in Workflows
      BY DEF TypeInv, Working
    <3>2. CASE q = p
      <4>1. /\ status'[wf'[q]] = "WAITING_TOOL_APPROVAL"
            /\ pc'[q] = "draft_created"
        BY <2>1, <3>2
      <4>2. ~Starting(q)'
        BY <4>1 DEF Starting, StartPcs
      <4>. QED BY <4>1, <4>2 DEF ThreadLock
    <3>3. CASE q # p /\ ~Starting(q)
      <4>1. Starting(q)' <=> Starting(q)
        BY <2>1, <3>3 DEF Starting
      <4>. QED BY <2>1, <3>1, <3>3, <4>1 DEF LockInv, ThreadLock
    <3>4. CASE q # p /\ Starting(q)
      <4>1. /\ wf[q] \in Workflows /\ wf[q] # wf[p]
            /\ sess[wf[q]] # sess[wf[p]]
        BY <2>4, <3>1, <3>4 DEF Starting, StartPcs
      <4>2. PendingApprovals(sess[wf[q]])' = PendingApprovals(sess[wf[q]])
        BY <1>0, <2>1, <4>1 DEF PendingApprovals
      <4>3. EquivalentDrafts(sess[wf[q]], def[wf[q]])' =
               EquivalentDrafts(sess[wf[q]], def[wf[q]])
        BY <1>0, <2>1, <4>2 DEF EquivalentDrafts
      <4>4. ThreadLock(q)
        BY DEF LockInv
      <4>5. pc'[q] # "invoke" /\ Starting(q)'
        BY <2>1, <3>4 DEF Starting, StartPcs
      <4>. QED BY <2>1, <3>4, <4>1, <4>2, <4>3, <4>4, <4>5
               DEF ThreadLock, HasCapacity
    <3>. QED BY <3>2, <3>3, <3>4
  <2>7. DraftsDiffer'
    BY <1>0, <2>1, <2>2
       DEF LockInv, DraftsDiffer, EquivalentDrafts, PendingApprovals
  <2>8. ASSUME NEW s \in Sessions
        PROVE  /\ IsFiniteSet(PendingApprovals(s)')
               /\ Cardinality(PendingApprovals(s)') <= MaxPending
    <3>1. IsFiniteSet(PendingApprovals(s))
          /\ Cardinality(PendingApprovals(s)) <= MaxPending
          /\ Cardinality(PendingApprovals(s)) \in Nat
      BY FewerPending DEF LockInv, WithinLimit
    <3>2. CASE s # sess[wf[p]]
      <4>1. PendingApprovals(s)' = PendingApprovals(s)
        BY <1>0, <2>1, <3>2 DEF PendingApprovals
      <4>. QED BY <3>1, <4>1
    <3>3. CASE s = sess[wf[p]]
      <4>1. PendingApprovals(s)' = PendingApprovals(s) \cup {wf[p]}
        BY <1>0, <2>1, <3>3 DEF PendingApprovals
      <4>2. Cardinality(PendingApprovals(s)) < MaxPending
        BY <2>2, <3>3 DEF HasCapacity
      <4>3. /\ IsFiniteSet(PendingApprovals(s) \cup {wf[p]})
            /\ Cardinality(PendingApprovals(s) \cup {wf[p]})
                  \in {Cardinality(PendingApprovals(s)),
                       Cardinality(PendingApprovals(s)) + 1}
        BY <3>1, FS_AddElement
      <4>. QED BY <3>1, <4>1, <4>2, <4>3, ConstantsAssumption
    <3>. QED BY <3>2, <3>3
  <2>. QED BY <2>5, <2>6, <2>7, <2>8 DEF LockInv, WithinLimit
<1>. QED BY <1>1, <1>2 DEF CreateRecord
-----------------------------------------------------------------------------
LEMMA NextLock ==
    ASSUME TypeInv, ConsentInv, LockInv, [Next]_vars
    PROVE  LockInv'
<1>1. ASSUME NEW p \in Handlers, Request(p) PROVE LockInv'
  BY <1>1, StartLock, DecideLock DEF Request
<1>2. ASSUME NEW p \in Handlers, HandlerStep(p) PROVE LockInv'
  BY <1>2, DraftLock, DecisionLock, EnableLock, ExecuteLock, CreateLock,
     QuietLock DEF HandlerStep, ReloadStep
<1>. QED BY <1>1, <1>2, EnvironmentLock, QuietLock DEF Next

LEMMA LockInvariant == Spec => [](TypeInv /\ ConsentInv /\ LockInv)
<1>1. ASSUME Init PROVE LockInv
  <2>1. \A s : PendingApprovals(s) = {}
    BY <1>1 DEF Init, PendingApprovals
  <2>2. WithinLimit
    BY <2>1, FS_EmptySet, ConstantsAssumption DEF WithinLimit
  <2>. QED
    BY <1>1, <2>2 DEF Init, LockInv, OneStarter, Locks, Starting, StartPcs,
                      ThreadLock, DraftsDiffer
<1>. QED BY <1>1, NextLock, ConsentInvariant, PTL DEF Spec

\* What start_from_proposal checked holds until its record is inserted, for
\* any number of requests, sessions and cleanups at once.
THEOREM StartsAreSound == Spec => []StartChecksHold
<1>1. LockInv => StartChecksHold
  BY DEF LockInv, ThreadLock, Starting, StartPcs, StartChecksHold
<1>. QED BY <1>1, LockInvariant, PTL

\* No session ever has more drafts to decide than its limit, whatever the
\* limit and however many workflows there are.
THEOREM LimitIsKept == Spec => []PendingWithinLimit
<1>1. LockInv => PendingWithinLimit
  BY DEF LockInv, WithinLimit, PendingWithinLimit
<1>. QED BY <1>1, LockInvariant, PTL

\* A session is never asked twice to approve the same draft
\* (find_equivalent_pending, under the session's lock).
THEOREM DraftsAreDistinct == Spec => []NoDuplicateDraft
<1>1. ASSUME LockInv, NEW s \in Sessions, NEW d \in Defs
      PROVE  Cardinality(EquivalentDrafts(s, d)) <= 1
  <2>1. \A w, v \in EquivalentDrafts(s, d) : w = v
    BY <1>1 DEF LockInv, DraftsDiffer, EquivalentDrafts, PendingApprovals
  <2>2. CASE EquivalentDrafts(s, d) = {}
    BY <2>2, FS_EmptySet
  <2>3. CASE EquivalentDrafts(s, d) # {}
    <3>1. PICK w : EquivalentDrafts(s, d) = {w}
      BY <2>1, <2>3
    <3>2. Cardinality({w}) = 1
      BY FS_Singleton
    <3>. QED BY <3>1, <3>2
  <2>. QED BY <2>2, <2>3
<1>2. LockInv => NoDuplicateDraft
  BY <1>1 DEF NoDuplicateDraft
<1>. QED BY <1>2, LockInvariant, PTL
=============================================================================
