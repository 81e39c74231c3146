-------------------------- MODULE CapabilityClaims --------------------------
(***************************************************************************)
(* Statements the design documents and the tests make about the capability *)
(* workflow and the code does not keep.  Each is refuted by one TLC run; the *)
(* line it restates is named with it.  D is docs/superpowers/specs/2026-06- *)
(* 13-adaptive-capability-langgraph-design.md.                              *)
(***************************************************************************)
EXTENDS CapabilityWorkflow

\* tests/capabilities/test_adaptive_capability_graph.py:116,
\* test_reject_is_terminal_and_does_not_enable; D:335-347.
RejectIsTerminal ==
    [][\A w \in Workflows :
         status[w] = "TOOL_REJECTED" => status'[w] = "TOOL_REJECTED"]_vars

\* The same test: the request that carries a rejection enables no tool.
RejectDoesNotEnable ==
    [][\A p \in Handlers :
         resume[p] = "reject" /\ pc[p] = "set_enabled" => UNCHANGED tstate]_vars

\* D:507, "Install/enable acquires a lease keyed by tool_name@version ...
\* plus a process-local keyed RLock": one installer of a tool at a time.
Installing(p) ==
    pc[p] \in {"approve_tool", "install_tool", "mark_installed", "set_enabled"}

InstallExclusive ==
    \A p, q \in Handlers :
        Installing(p) /\ Installing(q) /\ Tool(p) = Tool(q) => p = q

\* D:514, "installed transitions only to enabled": approving a tool that was
\* left installed, with nobody else at work on it, enables it.
InstalledIsEnabled ==
    [][\A p \in Handlers :
         /\ pc[p] = "approve_tool"
         /\ tstate[Tool(p)] = "installed"
         /\ \A q \in Handlers \ {p} : ~Installing(q)
         => pc'[p] # "abandon_lease"]_vars

\* D:563, "Quarantined drafts are deleted only when: no active workflow
\* references them".
DraftKeptWhileReferenced ==
    [][\A w \in Workflows :
         /\ status[w] = "WAITING_TOOL_APPROVAL"
         /\ w \notin expired
         /\ draft[ToolOf[def[w]]] # None
         => draft'[ToolOf[def[w]]] # None]_vars

\* D:458, "Duplicate decisions return the stored result".
StoredResultKept ==
    [][\A w \in Workflows :
         retry[w] \in {"executed", "failed"} => result'[w] = result[w]]_vars

\* docs/superpowers/specs/2026-06-06-argos-tool-sdk-design.md:339: a change of
\* manifest or code invalidates the approval, so what is installed is a
\* definition the user approved.
InstalledIsApproved ==
    \A t \in Tools : installed[t] # None =>
        \E w \in Workflows : def[w] = installed[t]
                             /\ granted[w] \cap Approvals # {}

\* D:561, "Cleanup runs at gateway startup and lazily before workflow
\* start/list/resume": a decision is not taken up on an expired workflow.
ExpiredIsNotResumed ==
    [][\A p \in Handlers, w \in expired :
         ~(pc[p] = "idle" /\ pc'[p] = "invoke" /\ wf'[p] = w)]_vars

\* D:299, "If the process stops after the claim, startup/resume logic can
\* recover": a workflow whose tool has been enabled goes on to its action.
EnabledGoesOn ==
    \A w \in Workflows :
        status[w] \in {"TOOL_ENABLED", "RUNTIME_RELOADED"} ~>
            status[w] \notin {"TOOL_ENABLED", "RUNTIME_RELOADED"}
=============================================================================
