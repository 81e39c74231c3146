--------------------------- MODULE WorkflowClaims ---------------------------
(* What the documents and tests say of ADW workflows, stated as they say   *)
(* it, and what the code does not keep when two commands interleave.        *)
EXTENDS WorkflowRuns

\* docs/WORKFLOWS.md: a rejected workflow cannot be enabled.  An enable that
\* validated the approved row before the rejection overwrites it.
RejectedNotEnabled ==
    [][\A w \in Workflows : status[w] = "REJECTED" => status'[w] # "ENABLED"]_vars

\* test_engine_runs_only_enabled_workflows: a run is only made of a workflow
\* that is enabled.  run looks at the status before it creates the row.
RunsOnlyEnabled ==
    [][\A r \in Runs : runOf[r] = None /\ runOf'[r] # None
         => status[runOf'[r]] = "ENABLED"]_vars
=============================================================================
