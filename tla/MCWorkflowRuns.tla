--------------------------- MODULE MCWorkflowRuns ---------------------------
(* Values for the constants of WorkflowRuns and of WorkflowClaims.         *)
EXTENDS WorkflowClaims, TLC

CONSTANTS w1, r1, r2, c1, c2

Plain(uses) ==
    [uses |-> uses, declared |-> "ALLOW", asks |-> FALSE, continues |-> FALSE,
     destructive |-> FALSE]

Confirmed(uses) == [Plain(uses) EXCEPT !.declared = "CONFIRM", !.asks = TRUE]

\* The template of templates.py for downloaded PDFs.
Pdf == [steps |-> <<Plain("files.inspect"), Plain("files.suggest_destination"),
                    Confirmed("workflow.ask_confirmation"),
                    Confirmed("files.move")>>,
        maxSteps |-> 4]

\* The templates all pass the validator; the other two are definitions of
\* another planner.  Here a declaration that is laxer than the minimum, a
\* handler that is not registered in a step that may fail, and an action the
\* workflow itself blocks.
Notes == [steps |-> <<Plain("workflow.ask_confirmation"),
                      [Plain("shell.run") EXCEPT !.continues = TRUE],
                      [Plain("noop") EXCEPT !.declared = "BLOCKED"]>>,
          maxSteps |-> 3]

\* What the validator rejects: more steps than its budget, and a destructive
\* command.
Purge == [steps |-> <<Plain("noop"),
                      [Plain("shell.run") EXCEPT !.destructive = TRUE]>>,
          maxSteps |-> 1]

Defined == {Pdf, Notes, Purge}

Symmetry == Permutations(Runs) \cup Permutations(Clients)
=============================================================================
