------------------------- MODULE WorkflowRunsProofs -------------------------
(***************************************************************************)
(* What holds of ADW workflows and their runs for every set of definitions,*)
(* processes and runs: no handler is called without the authorization its   *)
(* step needs, no workflow is enabled that was not approved, whatever       *)
(* commands interleave between the two halves of update_workflow_status,    *)
(* and the status of a run agrees with its steps.                          *)
(*                                                                         *)
(* None is inductive.  RunKnows says what a process that runs a workflow    *)
(* has established at each place, TraceKnows which steps it has passed;     *)
(* CommandKnows says what a command carries from its SELECT to its UPDATE;  *)
(* one run belongs to one process.                                         *)
(***************************************************************************)
EXTENDS WorkflowRuns, TLAPS

ProcessRecords ==
    [at : Places, workflow : Workflows \cup {None}, run : Runs \cup {None},
     target : WorkflowStatus \cup RunStatus \cup {"none"}, stamps : Stamps,
     terminal : BOOLEAN]

\* The part of the type invariant that says nothing of the length of a run.
WorkflowTypes ==
    /\ status \in [Workflows -> WorkflowStatus \cup {"absent"}]
    /\ definition \in [Workflows -> Definitions \cup {None}]
    /\ stamped \in [Workflows -> Stamps]

RunTypes ==
    /\ runOf \in [Runs -> Workflows \cup {None}]
    /\ runStatus \in [Runs -> RunStatus \cup {"absent"}]
    /\ rows \in [Runs -> Seq(RunStatus)]
    /\ confirmed \in [Runs -> SUBSET Nat]
    /\ handled \in [Runs -> Seq(Nat)]

ProcessTypes == process \in [Clients -> ProcessRecords]

\* A row has a definition.
HasDefinition == \A w \in Workflows : status[w] # "absent" => definition[w] \in Definitions

\* What has got past validate is valid.
Vetted ==
    \A w \in Workflows :
        status[w] \in {"VALIDATED", "APPROVED", "ENABLED", "DISABLED"} =>
            Valid(definition[w])

CommandKnows(c) ==
    LET p == process[c]
        w == p.workflow
    IN  /\ p.at \in {"select", "update"} =>
              /\ w \in Workflows /\ status[w] # "absent"
              /\ p.target \in WorkflowStatus \ {"DRAFT"}
              /\ p.target = "VALIDATED" => Valid(definition[w])
        /\ p.at = "update" =>
              /\ p.target \in {"APPROVED", "ENABLED", "DISABLED"} =>
                    Valid(definition[w])
              /\ p.target \in {"ENABLED", "DISABLED"} => p.stamps.approved
              /\ p.target = "DISABLED" => p.stamps.enabled

LifeInv ==
    /\ WorkflowTypes /\ HasDefinition /\ Vetted /\ EnabledWasApproved
    /\ \A c \in Clients : CommandKnows(c)

\* Where a process has the row of a run, and where the row of a step.
RunPlaces  == Places \ {"none", "select", "update", "create"}
StepPlaces == RunPlaces \ {"start", "next", "finish"}

RunKnows(c) ==
    LET p == process[c]
        r == p.run
        w == p.workflow
    IN  /\ p.at \notin RunPlaces => r = None
        /\ p.at \in RunPlaces \cup {"create"} =>
              w \in Workflows /\ status[w] # "absent" /\ Valid(definition[w])
        /\ p.at \in RunPlaces => r \in Runs /\ runOf[r] = w
        /\ p.at \in StepPlaces => Len(rows[r]) \in 1..Len(Steps(w))
        /\ p.at \in {"report", "stop", "finish"} => p.target \in RunStatus
        /\ p.at = "ask" =>
              LET step == Steps(w)[Len(rows[r])]
              IN  "BLOCKED" \notin {MinimumPolicy(step.uses), step.declared}
        /\ p.at \in {"begin", "handle"} => Authorized(r, Len(rows[r]))

OneProcess ==
    \A c, d \in Clients :
        process[c].run # None /\ process[c].run = process[d].run => c = d

RunRows ==
    \A r \in Runs :
        /\ runOf[r] = None => rows[r] = <<>> /\ handled[r] = <<>>
        /\ runOf[r] # None =>
              /\ status[runOf[r]] # "absent"
              /\ Len(rows[r]) <= Len(Steps(runOf[r]))

RunInv ==
    /\ RunTypes /\ OneProcess /\ RunRows /\ OnlyValidatedRun /\ HandlerAuthorized
    /\ \A c \in Clients : RunKnows(c)

IInv == ProcessTypes /\ LifeInv /\ RunInv

USE DEF workflowVars, runVars, historyVars
-----------------------------------------------------------------------------
LEMMA InitHolds == Init => IInv
<1>. SUFFICES ASSUME Init PROVE IInv
  OBVIOUS
<1>1. ProcessTypes
  BY DEF Init, ProcessTypes, ProcessRecords, Idle, Places, Stamps
<1>2. LifeInv
  BY DEF Init, LifeInv, WorkflowTypes, HasDefinition, Vetted, EnabledWasApproved,
         CommandKnows, Idle, Stamps
<1>3. RunInv
  <2>1. RunTypes /\ RunRows /\ OnlyValidatedRun /\ HandlerAuthorized
    BY DEF Init, RunTypes, RunRows, OnlyValidatedRun, HandlerAuthorized
  <2>2. OneProcess /\ \A c \in Clients : RunKnows(c)
    BY DEF Init, OneProcess, RunKnows, RunPlaces, StepPlaces, Idle
  <2>. QED BY <2>1, <2>2 DEF RunInv
<1>. QED BY <1>1, <1>2, <1>3 DEF IInv

\* What one process does to the records of the others.
LEMMA BecomeHolds ==
    ASSUME ProcessTypes, NEW c \in Clients, NEW p \in ProcessRecords,
           Become(c, p)
    PROVE  /\ ProcessTypes'
           /\ process'[c] = p
           /\ \A d \in Clients \ {c} : process'[d] = process[d]
BY DEF ProcessTypes, Become

LEMMA StricterSound ==
    ASSUME NEW d \in Decisions, NEW e \in Decisions
    PROVE  /\ Stricter(d, e) \in Decisions
           /\ Stricter(d, e) # "BLOCKED" => d # "BLOCKED" /\ e # "BLOCKED"
           /\ Stricter(d, e) = "ALLOW" => d # "CONFIRM" /\ e # "CONFIRM"
BY DEF Stricter, Rank, Decisions

\* The verdict the runner acts on is never weaker than what it combines.
LEMMA EvaluateSound ==
    ASSUME NEW step \in Step
    PROVE  LET limits == {MinimumPolicy(step.uses), step.declared}
           IN  /\ Evaluate(step) # "BLOCKED" => "BLOCKED" \notin limits
               /\ Evaluate(step) = "ALLOW" => "CONFIRM" \notin limits /\ ~step.asks
               /\ Evaluate(step) \in Decisions
<1>. DEFINE minimum == MinimumPolicy(step.uses)
            declared == IF step.declared = "none" THEN minimum ELSE step.declared
<1>1. minimum \in Decisions /\ step.declared \in Decisions \cup {"none"}
  BY DEF Step, Decisions, MinimumPolicy
<1>2. declared \in Decisions
  BY <1>1
<1>3. Evaluate(step) =
        CASE step.uses = "shell.run" /\ step.destructive -> "BLOCKED"
          [] step.asks /\ Stricter(minimum, declared) = "ALLOW" -> "CONFIRM"
          [] OTHER -> Stricter(minimum, declared)
  BY DEF Evaluate
<1>. HIDE DEF minimum, declared
<1>4. /\ Stricter(minimum, declared) \in Decisions
      /\ Stricter(minimum, declared) # "BLOCKED" =>
            minimum # "BLOCKED" /\ declared # "BLOCKED"
      /\ Stricter(minimum, declared) = "ALLOW" =>
            minimum # "CONFIRM" /\ declared # "CONFIRM"
  BY <1>1, <1>2, StricterSound
<1>5. /\ Evaluate(step) # "BLOCKED" =>
            minimum # "BLOCKED" /\ step.declared # "BLOCKED"
      /\ Evaluate(step) = "ALLOW" =>
            minimum # "CONFIRM" /\ step.declared # "CONFIRM" /\ ~step.asks
      /\ Evaluate(step) \in Decisions
  BY <1>1, <1>3, <1>4 DEF Decisions, declared
<1>. QED BY <1>5 DEF minimum
-----------------------------------------------------------------------------
(* Steps of the other kind: a run leaves the workflows alone, and a command *)
(* leaves the runs alone.                                                   *)

LEMMA LifeQuiet ==
    ASSUME ProcessTypes, LifeInv, UNCHANGED workflowVars,
           NEW c \in Clients, NEW p \in ProcessRecords, Become(c, p),
           p.at \notin {"select", "update"}
    PROVE  LifeInv'
<1>1. /\ process'[c] = p
      /\ \A d \in Clients \ {c} : process'[d] = process[d]
  BY BecomeHolds
<1>2. WorkflowTypes' /\ HasDefinition' /\ Vetted' /\ EnabledWasApproved'
  BY DEF LifeInv, WorkflowTypes, HasDefinition, Vetted, EnabledWasApproved
<1>3. ASSUME NEW d \in Clients PROVE CommandKnows(d)'
  BY <1>1 DEF LifeInv, CommandKnows
<1>. QED BY <1>2, <1>3 DEF LifeInv

\* The workflows a run can be of stay as they are.
KeepsWorkflows ==
    \A w \in Workflows : status[w] # "absent" =>
        status'[w] # "absent" /\ definition'[w] = definition[w]

\* A process that did not move knows what it knew, if nobody has written to
\* its run.
LEMMA KnowsElsewhere ==
    ASSUME KeepsWorkflows, NEW c \in Clients, RunKnows(c),
           process'[c] = process[c],
           \A r \in Runs : r = process[c].run =>
              /\ runOf'[r] = runOf[r] /\ rows'[r] = rows[r]
              /\ confirmed'[r] = confirmed[r]
    PROVE  RunKnows(c)'
<1>. DEFINE q == process[c]
<1>1. CASE q.at \notin RunPlaces \cup {"create"}
  BY <1>1 DEF RunKnows, StepPlaces, RunPlaces, Places
<1>2. CASE q.at = "create"
  BY <1>2 DEF RunKnows, StepPlaces, RunPlaces, Places, KeepsWorkflows
<1>3. CASE q.at \in RunPlaces
  <2>1. /\ q.workflow \in Workflows /\ q.run \in Runs
        /\ status'[q.workflow] # "absent"
        /\ definition'[q.workflow] = definition[q.workflow]
        /\ runOf[q.run] = q.workflow
        /\ runOf'[q.run] = q.workflow
        /\ rows'[q.run] = rows[q.run] /\ confirmed'[q.run] = confirmed[q.run]
    BY <1>3 DEF RunKnows, KeepsWorkflows
  <2>2. \A i : Authorized(q.run, i) <=> Authorized(q.run, i)'
    BY <2>1 DEF Authorized, Steps
  <2>. QED BY <1>3, <2>1, <2>2 DEF RunKnows, RunPlaces, StepPlaces, Steps
<1>. QED BY <1>1, <1>2, <1>3

LEMMA RunQuiet ==
    ASSUME RunInv, WorkflowTypes, KeepsWorkflows,
           UNCHANGED <<runVars, historyVars>>
    PROVE  /\ RunTypes' /\ RunRows' /\ OnlyValidatedRun' /\ HandlerAuthorized'
           /\ \A c \in Clients : process'[c] = process[c] => RunKnows(c)'
<1>1. RunTypes'
  BY DEF RunInv, RunTypes
<1>2. \A r \in Runs : runOf[r] # None =>
         /\ status'[runOf[r]] # "absent"
         /\ definition'[runOf[r]] = definition[runOf[r]]
  BY DEF RunInv, RunTypes, RunRows, KeepsWorkflows
<1>3. RunRows' /\ OnlyValidatedRun'
  BY <1>2 DEF RunInv, RunRows, OnlyValidatedRun, Steps
<1>4. HandlerAuthorized'
  <2>. SUFFICES ASSUME NEW r \in Runs, NEW k \in DOMAIN handled[r]
                PROVE  Authorized(r, handled[r][k])'
    BY DEF HandlerAuthorized
  <2>1. runOf[r] # None
    BY DEF RunInv, RunRows
  <2>2. Authorized(r, handled[r][k])
    BY DEF RunInv, HandlerAuthorized
  <2>. QED BY <1>2, <2>1, <2>2 DEF Authorized, Steps
<1>5. ASSUME NEW c \in Clients, process'[c] = process[c] PROVE RunKnows(c)'
  BY <1>5, KnowsElsewhere DEF RunInv
<1>. QED BY <1>1, <1>3, <1>4, <1>5

\* A process that leaves the runs alone and has none.
LEMMA RunIdle ==
    ASSUME ProcessTypes, WorkflowTypes, RunInv, KeepsWorkflows,
           UNCHANGED <<runVars, historyVars>>,
           NEW c \in Clients, NEW p \in ProcessRecords, Become(c, p),
           p.at \notin RunPlaces \cup {"create"}, p.run = None
    PROVE  RunInv'
<1>1. /\ process'[c] = p
      /\ \A d \in Clients \ {c} : process'[d] = process[d]
  BY BecomeHolds
<1>2. /\ RunTypes' /\ RunRows' /\ OnlyValidatedRun' /\ HandlerAuthorized'
      /\ \A d \in Clients \ {c} : RunKnows(d)'
  BY <1>1, RunQuiet
<1>3. RunKnows(c)'
  BY <1>1 DEF RunKnows, RunPlaces, StepPlaces, Places
<1>4. OneProcess'
  BY <1>1 DEF RunInv, OneProcess
<1>. QED BY <1>2, <1>3, <1>4 DEF RunInv

LEMMA IdleRecord ==
    Idle \in ProcessRecords /\ Idle.at = "none" /\ Idle.run = None
BY DEF Idle, ProcessRecords, Places, Stamps
-----------------------------------------------------------------------------
(* Commands.                                                               *)

LEMMA GenerateHolds ==
    ASSUME IInv, NEW w \in Workflows, Generate(w)
    PROVE  IInv'
<1>1. PICK def \in Definitions : definition' = [definition EXCEPT ![w] = def]
  BY DEF Generate
<1>2. /\ status[w] = "absent" /\ status' = [status EXCEPT ![w] = "DRAFT"]
      /\ UNCHANGED <<stamped, process, runVars, historyVars>>
  BY DEF Generate
<1>3. WorkflowTypes' /\ KeepsWorkflows
  BY <1>1, <1>2 DEF IInv, LifeInv, WorkflowTypes, KeepsWorkflows, WorkflowStatus
<1>4. HasDefinition' /\ Vetted' /\ EnabledWasApproved'
  BY <1>1, <1>2 DEF IInv, LifeInv, WorkflowTypes, HasDefinition, Vetted,
                    EnabledWasApproved
<1>5. ASSUME NEW c \in Clients PROVE CommandKnows(c)'
  BY <1>1, <1>2, <1>3 DEF IInv, LifeInv, CommandKnows, KeepsWorkflows
<1>6. RunInv'
  <2>1. OneProcess'
    BY <1>2 DEF IInv, RunInv, OneProcess
  <2>. QED BY <1>2, <1>3, <2>1, RunQuiet DEF IInv, LifeInv, RunInv
<1>7. ProcessTypes'
  BY <1>2 DEF IInv, ProcessTypes
<1>. QED BY <1>3, <1>4, <1>5, <1>6, <1>7 DEF IInv, LifeInv

LEMMA BeginHolds ==
    ASSUME IInv, NEW c \in Clients, NEW w \in Workflows,
           NEW new \in WorkflowStatus \ {"DRAFT"}, Begin(c, w, new)
    PROVE  IInv'
<1>. DEFINE p == [Idle EXCEPT !.at = "select", !.workflow = w, !.target = new]
<1>1. /\ p \in ProcessRecords /\ p.at = "select" /\ p.workflow = w
      /\ p.target = new /\ p.run = None
  BY DEF Idle, ProcessRecords, Places, Stamps
<1>2. /\ Become(c, p) /\ UNCHANGED <<workflowVars, runVars, historyVars>>
      /\ status[w] # "absent" /\ (new = "VALIDATED" => Valid(definition[w]))
  BY DEF Begin
<1>. HIDE DEF p
<1>3. /\ ProcessTypes' /\ process'[c] = p
      /\ \A d \in Clients \ {c} : process'[d] = process[d]
  BY <1>1, <1>2, BecomeHolds DEF IInv
<1>4. WorkflowTypes' /\ HasDefinition' /\ Vetted' /\ EnabledWasApproved'
  BY <1>2 DEF IInv, LifeInv, WorkflowTypes, HasDefinition, Vetted,
              EnabledWasApproved
<1>5. CommandKnows(c)'
  BY <1>1, <1>2, <1>3 DEF CommandKnows
<1>6. \A d \in Clients \ {c} : CommandKnows(d)'
  BY <1>2, <1>3 DEF IInv, LifeInv, CommandKnows
<1>7. KeepsWorkflows
  BY <1>2 DEF KeepsWorkflows
<1>8. RunInv'
  BY <1>1, <1>2, <1>7, RunIdle DEF IInv, LifeInv, RunPlaces
<1>. QED BY <1>3, <1>4, <1>5, <1>6, <1>8 DEF IInv, LifeInv

LEMMA SelectHolds ==
    ASSUME IInv, NEW c \in Clients, SelectStatus(c)
    PROVE  IInv'
<1>. DEFINE w == process[c].workflow
            p == [process[c] EXCEPT !.at = "update", !.stamps = stamped[w]]
<1>1. /\ process[c] \in ProcessRecords /\ w \in Workflows
      /\ status[w] # "absent" /\ process[c].run = None
      /\ process[c].target \in WorkflowStatus \ {"DRAFT"}
      /\ process[c].target = "VALIDATED" => Valid(definition[w])
      /\ UNCHANGED <<workflowVars, runVars, historyVars>>
  BY DEF SelectStatus, IInv, ProcessTypes, LifeInv, CommandKnows, RunInv,
         RunKnows, RunPlaces
<1>2. KeepsWorkflows
  BY <1>1 DEF KeepsWorkflows
<1>3. CASE Become(c, Idle)
  BY <1>1, <1>2, <1>3, IdleRecord, BecomeHolds, LifeQuiet, RunIdle
     DEF IInv, LifeInv, RunPlaces
<1>4. CASE /\ process[c].target \in WorkflowTransitions(status[w])
           /\ Become(c, p)
  <2>1. /\ p \in ProcessRecords /\ p.at = "update" /\ p.workflow = w
        /\ p.target = process[c].target /\ p.run = None
        /\ p.stamps = stamped[w]
    BY <1>1 DEF ProcessRecords, Places, IInv, LifeInv, WorkflowTypes
  <2>. HIDE DEF p
  <2>2. /\ ProcessTypes' /\ process'[c] = p
        /\ \A d \in Clients \ {c} : process'[d] = process[d]
    BY <1>4, <2>1, BecomeHolds DEF IInv
  <2>3. WorkflowTypes' /\ HasDefinition' /\ Vetted' /\ EnabledWasApproved'
    BY <1>1 DEF IInv, LifeInv, WorkflowTypes, HasDefinition, Vetted,
                EnabledWasApproved
  <2>4. /\ p.target \in {"APPROVED", "ENABLED", "DISABLED"} =>
              Valid(definition[w])
        /\ p.target \in {"ENABLED", "DISABLED"} => p.stamps.approved
        /\ p.target = "DISABLED" => p.stamps.enabled
    BY <1>1, <1>4, <2>1
       DEF IInv, LifeInv, WorkflowTypes, Vetted, EnabledWasApproved,
           WorkflowTransitions, WorkflowStatus
  <2>5. CommandKnows(c)'
    BY <1>1, <2>1, <2>2, <2>4 DEF CommandKnows
  <2>6. \A d \in Clients \ {c} : CommandKnows(d)'
    BY <1>1, <2>2 DEF IInv, LifeInv, CommandKnows
  <2>7. RunInv'
    BY <1>1, <1>2, <1>4, <2>1, RunIdle DEF IInv, LifeInv, RunPlaces
  <2>. QED BY <2>2, <2>3, <2>5, <2>6, <2>7 DEF IInv, LifeInv
<1>. QED BY <1>3, <1>4 DEF SelectStatus

LEMMA UpdateHolds ==
    ASSUME IInv, NEW c \in Clients, UpdateStatus(c)
    PROVE  IInv'
<1>. DEFINE w == process[c].workflow
            new == process[c].target
            read == process[c].stamps
<1>1. /\ w \in Workflows /\ status[w] # "absent"
      /\ new \in WorkflowStatus \ {"DRAFT"}
      /\ new \in {"VALIDATED", "APPROVED", "ENABLED", "DISABLED"} =>
            Valid(definition[w])
      /\ new \in {"ENABLED", "DISABLED"} => read.approved
      /\ new = "DISABLED" => read.enabled
      /\ read \in Stamps
  BY DEF UpdateStatus, IInv, LifeInv, CommandKnows, ProcessTypes,
         ProcessRecords
<1>2. /\ status' = [status EXCEPT ![w] = new]
      /\ stamped' = [stamped EXCEPT ![w] =
                       [approved |-> new = "APPROVED" \/ read.approved,
                        enabled |-> new = "ENABLED" \/ read.enabled]]
      /\ Become(c, Idle) /\ UNCHANGED <<definition, runVars, historyVars>>
  BY DEF UpdateStatus
<1>. HIDE DEF w, new, read
<1>3. /\ ProcessTypes' /\ process'[c] = Idle
      /\ \A d \in Clients \ {c} : process'[d] = process[d]
  BY <1>2, IdleRecord, BecomeHolds DEF IInv
<1>4. WorkflowTypes' /\ KeepsWorkflows
  BY <1>1, <1>2 DEF IInv, LifeInv, WorkflowTypes, KeepsWorkflows, Stamps,
                    WorkflowStatus
<1>5. HasDefinition' /\ Vetted' /\ EnabledWasApproved'
  BY <1>1, <1>2 DEF IInv, LifeInv, WorkflowTypes, HasDefinition, Vetted,
                    EnabledWasApproved
<1>6. CommandKnows(c)'
  BY <1>3, IdleRecord DEF CommandKnows
<1>7. \A d \in Clients \ {c} : CommandKnows(d)'
  BY <1>3, <1>4 DEF IInv, LifeInv, CommandKnows, KeepsWorkflows
<1>8. RunInv'
  BY <1>2, <1>4, IdleRecord, RunIdle DEF IInv, LifeInv, RunPlaces
<1>. QED BY <1>3, <1>4, <1>5, <1>6, <1>7, <1>8 DEF IInv, LifeInv
-----------------------------------------------------------------------------
(* Runs.                                                                   *)

\* What every step of a run leaves as it was, when it writes at most to the
\* rows and the history of its own run.
LEMMA RunFrame ==
    ASSUME IInv, NEW c \in Clients, process[c].at \in RunPlaces,
           NEW p \in ProcessRecords, Become(c, p),
           p.at \notin {"select", "update"},
           p.run \in {process[c].run, None},
           UNCHANGED <<workflowVars, runOf>>,
           \A r \in Runs \ {process[c].run} :
              /\ rows'[r] = rows[r] /\ confirmed'[r] = confirmed[r]
              /\ handled'[r] = handled[r]
    PROVE  /\ ProcessTypes' /\ LifeInv' /\ OneProcess' /\ OnlyValidatedRun'
           /\ process'[c] = p
           /\ \A d \in Clients \ {c} : RunKnows(d)'
<1>1. /\ ProcessTypes' /\ process'[c] = p
      /\ \A d \in Clients \ {c} : process'[d] = process[d]
  BY BecomeHolds DEF IInv
<1>2. LifeInv'
  BY LifeQuiet DEF IInv
<1>3. process[c].run \in Runs
  BY DEF IInv, RunInv, RunKnows
<1>4. OneProcess'
  BY <1>1 DEF IInv, RunInv, OneProcess
<1>5. OnlyValidatedRun'
  BY DEF IInv, RunInv, OnlyValidatedRun
<1>6. ASSUME NEW d \in Clients \ {c} PROVE RunKnows(d)'
  <2>1. \A r \in Runs : r = process[d].run => r # process[c].run
    BY <1>3, WorkflowAssumption DEF IInv, RunInv, OneProcess
  <2>2. KeepsWorkflows /\ RunKnows(d) /\ process'[d] = process[d]
    BY <1>1 DEF KeepsWorkflows, IInv, RunInv
  <2>. QED BY <2>1, <2>2, KnowsElsewhere
<1>. QED BY <1>1, <1>2, <1>4, <1>5, <1>6

\* The facts a step of a run starts from.
LEMMA RunFacts ==
    ASSUME IInv, NEW c \in Clients, process[c].at \in RunPlaces
    PROVE  /\ process[c] \in ProcessRecords
           /\ process[c].run \in Runs /\ process[c].run # None
           /\ process[c].workflow \in Workflows
           /\ runOf[process[c].run] = process[c].workflow
           /\ status[process[c].workflow] # "absent"
           /\ Valid(definition[process[c].workflow])
           /\ Steps(process[c].workflow) \in Seq(Step)
           /\ rows[process[c].run] \in Seq(RunStatus)
           /\ Len(rows[process[c].run]) <= Len(Steps(process[c].workflow))
BY WorkflowAssumption
   DEF IInv, ProcessTypes, LifeInv, HasDefinition, RunInv, RunKnows, RunTypes,
       RunRows, Steps

\* Steps that write to the tables of workflows and steps nothing at all.
LEMMA MoveHolds ==
    ASSUME IInv, NEW c \in Clients, process[c].at \in RunPlaces,
           NEW p \in ProcessRecords, Become(c, p),
           p.at \notin {"select", "update"},
           p.run \in {process[c].run, None},
           UNCHANGED <<workflowVars, runOf, rows, historyVars>>,
           runStatus' \in [Runs -> RunStatus \cup {"absent"}]
    PROVE  RunKnows(c)' => IInv'
<1>1. /\ ProcessTypes' /\ LifeInv' /\ OneProcess' /\ OnlyValidatedRun'
      /\ \A d \in Clients \ {c} : RunKnows(d)'
  BY RunFrame
<1>2. RunTypes' /\ RunRows'
  BY DEF IInv, RunInv, RunTypes, RunRows, Steps
<1>3. HandlerAuthorized'
  BY DEF IInv, RunInv, HandlerAuthorized, Authorized, Steps
<1>. QED BY <1>1, <1>2, <1>3 DEF IInv, RunInv

LEMMA BeginRunHolds ==
    ASSUME IInv, NEW c \in Clients, NEW w \in Workflows, BeginRun(c, w)
    PROVE  IInv'
<1>1. PICK terminal \in BOOLEAN :
        Become(c, [Idle EXCEPT !.at = "create", !.workflow = w,
                               !.terminal = terminal])
  BY DEF BeginRun
<1>. DEFINE p == [Idle EXCEPT !.at = "create", !.workflow = w,
                              !.terminal = terminal]
<1>2. p \in ProcessRecords /\ p.at = "create" /\ p.workflow = w /\ p.run = None
  BY DEF Idle, ProcessRecords, Places, Stamps
<1>3. /\ Become(c, p) /\ UNCHANGED <<workflowVars, runVars, historyVars>>
      /\ status[w] = "ENABLED"
  BY <1>1 DEF BeginRun
<1>. HIDE DEF p
<1>4. /\ ProcessTypes' /\ process'[c] = p
      /\ \A d \in Clients \ {c} : process'[d] = process[d]
  BY <1>2, <1>3, BecomeHolds DEF IInv
<1>5. LifeInv'
  BY <1>2, <1>3, LifeQuiet DEF IInv
<1>6. /\ RunTypes' /\ RunRows' /\ OnlyValidatedRun' /\ HandlerAuthorized'
      /\ \A d \in Clients \ {c} : RunKnows(d)'
  <2>1. KeepsWorkflows
    BY <1>3 DEF KeepsWorkflows
  <2>. QED BY <1>3, <1>4, <2>1, RunQuiet DEF IInv, LifeInv
<1>7. RunKnows(c)'
  <2>1. Valid(definition[w])
    BY <1>3 DEF IInv, LifeInv, Vetted
  <2>. QED BY <1>2, <1>3, <1>4, <2>1 DEF RunKnows, RunPlaces, StepPlaces, Places
<1>8. OneProcess'
  BY <1>2, <1>4 DEF IInv, RunInv, OneProcess
<1>. QED BY <1>4, <1>5, <1>6, <1>7, <1>8 DEF IInv, RunInv

LEMMA CreateRunHolds ==
    ASSUME IInv, NEW c \in Clients, CreateRun(c)
    PROVE  IInv'
<1>. DEFINE w == process[c].workflow
<1>1. PICK r \in Runs :
        /\ runOf[r] = None
        /\ runOf' = [runOf EXCEPT ![r] = w]
        /\ runStatus' = [runStatus EXCEPT ![r] = "PENDING"]
        /\ Become(c, [process[c] EXCEPT !.at = "start", !.run = r])
  BY DEF CreateRun
<1>. DEFINE p == [process[c] EXCEPT !.at = "start", !.run = r]
<1>2. /\ process[c] \in ProcessRecords /\ process[c].at = "create"
      /\ w \in Workflows /\ status[w] # "absent" /\ Valid(definition[w])
      /\ UNCHANGED <<workflowVars, rows, historyVars>>
  BY DEF CreateRun, IInv, ProcessTypes, RunInv, RunKnows
<1>3. p \in ProcessRecords /\ p.at = "start" /\ p.workflow = w /\ p.run = r
  BY <1>2 DEF ProcessRecords, Places
<1>. HIDE DEF p
<1>4. /\ ProcessTypes' /\ process'[c] = p
      /\ \A d \in Clients \ {c} : process'[d] = process[d]
  BY <1>1, <1>3, BecomeHolds DEF IInv, p
<1>5. LifeInv'
  BY <1>1, <1>2, <1>3, LifeQuiet DEF IInv, p
<1>6. rows[r] = <<>> /\ handled[r] = <<>>
  BY <1>1 DEF IInv, RunInv, RunRows
<1>7. RunTypes'
  BY <1>1, <1>2 DEF IInv, RunInv, RunTypes, RunStatus
<1>8. RunRows'
  <2>1. definition[w] \in Definitions
    BY <1>2 DEF IInv, LifeInv, HasDefinition
  <2>2. Len(Steps(w)) \in Nat
    BY <2>1, WorkflowAssumption DEF Steps
  <2>. QED BY <1>1, <1>2, <1>6, <2>2, WorkflowAssumption
           DEF IInv, RunInv, RunTypes, RunRows, Steps
<1>9. OnlyValidatedRun'
  BY <1>1, <1>2 DEF IInv, RunInv, RunTypes, OnlyValidatedRun
<1>10. HandlerAuthorized'
  <2>. SUFFICES ASSUME NEW s \in Runs, NEW k \in DOMAIN handled[s]
                PROVE  Authorized(s, handled[s][k])'
    BY <1>2 DEF HandlerAuthorized
  <2>1. s # r
    BY <1>6
  <2>2. Authorized(s, handled[s][k]) /\ runOf'[s] = runOf[s]
    BY <1>1, <2>1 DEF IInv, RunInv, RunTypes, HandlerAuthorized
  <2>. QED BY <1>2, <2>2 DEF Authorized, Steps
<1>11. ASSUME NEW d \in Clients \ {c} PROVE process[d].run # r /\ RunKnows(d)'
  <2>1. RunKnows(d) /\ process'[d] = process[d] /\ KeepsWorkflows
    BY <1>2, <1>4 DEF IInv, RunInv, KeepsWorkflows
  <2>2. process[d].run # r
    BY <1>1, <2>1, WorkflowAssumption DEF RunKnows
  <2>3. \A s \in Runs : s = process[d].run =>
          runOf'[s] = runOf[s] /\ rows'[s] = rows[s] /\ confirmed'[s] = confirmed[s]
    BY <1>1, <1>2, <2>2 DEF IInv, RunInv, RunTypes
  <2>. QED BY <2>1, <2>2, <2>3, KnowsElsewhere
<1>12. OneProcess'
  BY <1>3, <1>4, <1>11 DEF IInv, RunInv, OneProcess
<1>13. RunKnows(c)'
  BY <1>1, <1>2, <1>3, <1>4, WorkflowAssumption
     DEF RunKnows, RunPlaces, StepPlaces, Places, IInv, RunInv, RunTypes
<1>. QED BY <1>4, <1>5, <1>7, <1>8, <1>9, <1>10, <1>11, <1>12, <1>13
         DEF IInv, RunInv

LEMMA StartRunHolds ==
    ASSUME IInv, NEW c \in Clients, StartRun(c)
    PROVE  IInv'
<1>. DEFINE r == process[c].run
            blocked == [process[c] EXCEPT !.at = "finish", !.target = "BLOCKED"]
            going   == [process[c] EXCEPT !.at = "next"]
<1>1. process[c].at \in RunPlaces /\ process[c] \in ProcessRecords
  BY RunFacts DEF StartRun, RunPlaces, Places, IInv, ProcessTypes
<1>2. PICK p \in {blocked, going} : Become(c, p)
  BY DEF StartRun
<1>3. /\ p \in ProcessRecords /\ p.at \in {"finish", "next"}
      /\ p.workflow = process[c].workflow /\ p.run = r
      /\ p.at = "finish" => p.target = "BLOCKED"
  BY <1>1, <1>2 DEF ProcessRecords, Places, RunStatus
<1>4. /\ UNCHANGED <<workflowVars, runOf, rows, historyVars>>
      /\ runStatus' \in [Runs -> RunStatus \cup {"absent"}]
  BY DEF StartRun, IInv, RunInv, RunTypes, RunStatus
<1>5. process'[c] = p
  BY <1>2, <1>3, BecomeHolds DEF IInv
<1>6. RunKnows(c)'
  BY <1>1, <1>3, <1>4, <1>5, RunFacts
     DEF RunKnows, RunPlaces, StepPlaces, Places, RunStatus
<1>. QED BY <1>1, <1>2, <1>3, <1>4, <1>6, MoveHolds

LEMMA NextStepHolds ==
    ASSUME IInv, NEW c \in Clients, NextStep(c)
    PROVE  IInv'
<1>. DEFINE r == process[c].run
            w == process[c].workflow
            going == [process[c] EXCEPT !.at = "policy"]
            done  == [process[c] EXCEPT !.at = "finish", !.target = "SUCCEEDED"]
<1>1. process[c].at \in RunPlaces /\ process[c] \in ProcessRecords
  BY DEF NextStep, RunPlaces, Places, IInv, ProcessTypes
<1>2. /\ UNCHANGED <<workflowVars, runOf, runStatus, historyVars>>
      /\ r \in Runs /\ w \in Workflows /\ runOf[r] = w
      /\ rows[r] \in Seq(RunStatus) /\ Steps(w) \in Seq(Step)
  BY <1>1, RunFacts DEF NextStep
<1>3. CASE /\ StepsLeft(c) /\ Become(c, going)
          /\ rows' = [rows EXCEPT ![r] = Append(@, "PENDING")]
  <2>1. /\ going \in ProcessRecords /\ going.at = "policy"
        /\ going.workflow = w /\ going.run = r
    BY <1>1 DEF ProcessRecords, Places
  <2>. HIDE DEF going
  <2>2. /\ rows' \in [Runs -> Seq(RunStatus)]
        /\ \A s \in Runs \ {r} : rows'[s] = rows[s]
        /\ Len(rows'[r]) = Len(rows[r]) + 1
    BY <1>2, <1>3 DEF IInv, RunInv, RunTypes, RunStatus
  <2>3. Len(rows[r]) < Len(Steps(w))
    BY <1>3 DEF StepsLeft, Current
  <2>4. /\ ProcessTypes' /\ LifeInv' /\ OneProcess' /\ OnlyValidatedRun'
        /\ process'[c] = going
        /\ \A d \in Clients \ {c} : RunKnows(d)'
    BY <1>1, <1>2, <1>3, <2>1, <2>2, RunFrame
  <2>5. RunTypes'
    BY <1>2, <2>2 DEF IInv, RunInv, RunTypes
  <2>6. RunRows'
    <3>1. Len(rows'[r]) <= Len(Steps(w)) /\ runOf[r] # None
      BY <1>2, <2>2, <2>3, WorkflowAssumption
    <3>2. ASSUME NEW s \in Runs, s # r
          PROVE  /\ runOf[s] = None => rows[s] = <<>> /\ handled[s] = <<>>
                 /\ runOf[s] # None =>
                       /\ status[runOf[s]] # "absent"
                       /\ Len(rows[s]) <= Len(Steps(runOf[s]))
      BY DEF IInv, RunInv, RunRows
    <3>3. status[w] # "absent"
      BY <1>1, RunFacts
    <3>. QED BY <1>2, <2>2, <3>1, <3>2, <3>3 DEF RunRows, Steps
  <2>7. HandlerAuthorized'
    BY <1>2 DEF IInv, RunInv, HandlerAuthorized, Authorized, Steps
  <2>8. Len(rows'[r]) \in 1..Len(Steps(w))
    BY <1>2, <2>2, <2>3
  <2>9. RunKnows(c)'
    BY <1>1, <1>2, <2>1, <2>4, <2>8, RunFacts
       DEF RunKnows, RunPlaces, StepPlaces, Places, Steps
  <2>. QED BY <2>4, <2>5, <2>6, <2>7, <2>9 DEF IInv, RunInv
<1>4. CASE Become(c, done) /\ UNCHANGED rows
  <2>1. /\ done \in ProcessRecords /\ done.at = "finish"
        /\ done.workflow = w /\ done.run = r /\ done.target = "SUCCEEDED"
    BY <1>1 DEF ProcessRecords, Places, RunStatus
  <2>. HIDE DEF done
  <2>2. process'[c] = done
    BY <1>4, <2>1, BecomeHolds DEF IInv
  <2>3. RunKnows(c)'
    BY <1>1, <1>2, <1>4, <2>1, <2>2, RunFacts
       DEF RunKnows, RunPlaces, StepPlaces, Places, RunStatus
  <2>4. runStatus' \in [Runs -> RunStatus \cup {"absent"}]
    BY <1>2 DEF IInv, RunInv, RunTypes
  <2>. QED BY <1>1, <1>2, <1>4, <2>1, <2>3, <2>4, MoveHolds
<1>. QED BY <1>3, <1>4 DEF NextStep

\* The policy is asked about the step whose row was created last.
LEMMA DecideStepHolds ==
    ASSUME IInv, NEW c \in Clients, DecideStep(c)
    PROVE  IInv'
<1>. DEFINE r == process[c].run
            w == process[c].workflow
            step == Steps(w)[Len(rows[r])]
<1>1. /\ process[c].at \in RunPlaces /\ process[c] \in ProcessRecords
      /\ process[c].at \in StepPlaces
  BY DEF DecideStep, RunPlaces, StepPlaces, Places, IInv, ProcessTypes
<1>2. /\ UNCHANGED <<workflowVars, runVars, historyVars>>
      /\ r \in Runs /\ w \in Workflows /\ runOf[r] = w
      /\ Steps(w) \in Seq(Step) /\ Len(rows[r]) \in 1..Len(Steps(w))
  BY <1>1, RunFacts DEF DecideStep, IInv, RunInv, RunKnows
<1>3. step \in Step /\ CurrentStep(c) = step
  BY <1>2 DEF CurrentStep, Current
<1>. DEFINE limits == {MinimumPolicy(step.uses), step.declared}
            p(at, new) == [process[c] EXCEPT !.at = at, !.target = new]
<1>4. PICK at \in {"stop", "ask", "begin"}, new \in {"BLOCKED", process[c].target} :
        /\ Become(c, p(at, new))
        /\ at = "stop" => new = "BLOCKED"
        /\ at = "ask" => "BLOCKED" \notin limits
        /\ at = "begin" => /\ "BLOCKED" \notin limits
                           /\ "CONFIRM" \notin limits /\ ~step.asks
  <2>1. CASE Evaluate(step) = "BLOCKED" /\ Become(c, p("stop", "BLOCKED"))
    BY <2>1
  <2>2. CASE /\ Evaluate(step) = "CONFIRM"
             /\ Become(c, [process[c] EXCEPT !.at = "ask"])
    <3>1. [process[c] EXCEPT !.at = "ask"] = p("ask", process[c].target)
      BY <1>1 DEF ProcessRecords
    <3>. QED BY <1>3, <2>2, <3>1, EvaluateSound
  <2>3. CASE /\ Evaluate(step) = "ALLOW"
             /\ Become(c, [process[c] EXCEPT !.at = "begin"])
    <3>1. [process[c] EXCEPT !.at = "begin"] = p("begin", process[c].target)
      BY <1>1 DEF ProcessRecords
    <3>. QED BY <1>3, <2>3, <3>1, EvaluateSound
  <2>. QED BY <1>3, <2>1, <2>2, <2>3 DEF DecideStep, Stops
<1>5. /\ p(at, new) \in ProcessRecords /\ p(at, new).at = at
      /\ p(at, new).target = new
      /\ p(at, new).workflow = w /\ p(at, new).run = r
  BY <1>1 DEF ProcessRecords, Places, RunStatus
<1>6. process'[c] = p(at, new)
  BY <1>4, <1>5, BecomeHolds DEF IInv
<1>7. at = "begin" => Authorized(r, Len(rows[r]))
  BY <1>2, <1>4 DEF Authorized
<1>. HIDE DEF p
<1>8. RunKnows(c)'
  <2>1. \A s, i : Authorized(s, i) <=> Authorized(s, i)'
    BY <1>2 DEF Authorized, Steps
  <2>. QED BY <1>1, <1>2, <1>4, <1>5, <1>6, <1>7, <2>1, RunFacts
           DEF RunKnows, RunPlaces, StepPlaces, Places, RunStatus, Steps
<1>9. runStatus' \in [Runs -> RunStatus \cup {"absent"}]
  BY <1>2 DEF IInv, RunInv, RunTypes
<1>. QED BY <1>1, <1>2, <1>4, <1>5, <1>8, <1>9, MoveHolds

LEMMA AskUserHolds ==
    ASSUME IInv, NEW c \in Clients, AskUser(c)
    PROVE  IInv'
<1>. DEFINE r == process[c].run
            w == process[c].workflow
            i == Len(rows[r])
            step == Steps(w)[i]
<1>1. /\ process[c].at \in RunPlaces /\ process[c] \in ProcessRecords
      /\ process[c].at \in StepPlaces
  BY DEF AskUser, RunPlaces, StepPlaces, Places, IInv, ProcessTypes
<1>2. /\ UNCHANGED <<workflowVars, runVars, handled>>
      /\ r \in Runs /\ w \in Workflows /\ runOf[r] = w
      /\ i \in 1..Len(Steps(w)) /\ i \in Nat
      /\ "BLOCKED" \notin {MinimumPolicy(step.uses), step.declared}
  BY <1>1, RunFacts DEF AskUser, IInv, RunInv, RunKnows
<1>. DEFINE q(at, new) == [process[c] EXCEPT !.at = at, !.target = new]
<1>3. PICK at \in {"begin", "stop"},
           new \in {process[c].target, "WAITING_APPROVAL", "CANCELLED"} :
        /\ Become(c, q(at, new))
        /\ at = "begin" => confirmed' = [confirmed EXCEPT ![r] = @ \cup {i}]
        /\ at = "stop" => new \in RunStatus /\ UNCHANGED confirmed
  <2>1. [process[c] EXCEPT !.at = "begin"] = q("begin", process[c].target)
    BY <1>1 DEF ProcessRecords
  <2>2. \/ /\ Become(c, q("begin", process[c].target))
           /\ confirmed' = [confirmed EXCEPT ![r] = @ \cup {i}]
        \/ Become(c, q("stop", "WAITING_APPROVAL")) /\ UNCHANGED confirmed
        \/ Become(c, q("stop", "CANCELLED")) /\ UNCHANGED confirmed
    BY <2>1 DEF AskUser, Stops, Current
  <2>. HIDE DEF q
  <2>. QED BY <2>2 DEF RunStatus
<1>. DEFINE p == q(at, new)
<1>4. /\ p \in ProcessRecords /\ p.at \in {"begin", "stop"}
      /\ p.at = at /\ p.workflow = w /\ p.run = r /\ (p.at = "stop" => p.target \in RunStatus)
  BY <1>1, <1>3 DEF ProcessRecords, Places, RunStatus
<1>. HIDE DEF p, q
<1>5. /\ confirmed' \in [Runs -> SUBSET Nat]
      /\ \A s \in Runs \ {r} : confirmed'[s] = confirmed[s]
      /\ \A s \in Runs : confirmed[s] \subseteq confirmed'[s]
      /\ p.at = "begin" => i \in confirmed'[r]
  <2>1. confirmed \in [Runs -> SUBSET Nat]
    BY DEF IInv, RunInv, RunTypes
  <2>2. CASE at = "begin"
    BY <1>2, <1>3, <1>4, <2>1, <2>2
  <2>3. CASE at = "stop"
    BY <1>3, <1>4, <2>1, <2>3
  <2>. QED BY <2>2, <2>3
<1>6. /\ ProcessTypes' /\ LifeInv' /\ OneProcess' /\ OnlyValidatedRun'
      /\ process'[c] = p
      /\ \A d \in Clients \ {c} : RunKnows(d)'
  BY <1>1, <1>2, <1>3, <1>4, <1>5, RunFrame DEF p
<1>7. RunTypes' /\ RunRows'
  BY <1>2, <1>5 DEF IInv, RunInv, RunTypes, RunRows, Steps
<1>8. ASSUME NEW s \in Runs, NEW k, Authorized(s, k) PROVE Authorized(s, k)'
  BY <1>2, <1>5, <1>8 DEF Authorized, Steps
<1>9. HandlerAuthorized'
  BY <1>2, <1>8 DEF IInv, RunInv, HandlerAuthorized
<1>10. RunKnows(c)'
  <2>1. /\ rows' = rows /\ runOf' = runOf /\ definition' = definition
        /\ status' = status
    BY <1>2
  <2>2. p.at = "begin" =>
          LET st == definition'[runOf'[r]].steps[i]
          IN  /\ "BLOCKED" \notin {MinimumPolicy(st.uses), st.declared}
              /\ i \in confirmed'[r]
    BY <1>2, <1>5, <2>1 DEF Steps
  <2>3. p.at = "begin" => Authorized(process[c].run, Len(rows[process[c].run]))'
    BY <1>4, <1>6, <2>1, <2>2 DEF Authorized, Steps
  <2>. QED BY <1>1, <1>2, <1>4, <1>6, <2>1, <2>3, RunFacts
           DEF RunKnows, RunPlaces, StepPlaces, Places, Steps
<1>. QED BY <1>6, <1>7, <1>9, <1>10 DEF IInv, RunInv

\* Writing the status of the current step.
LEMMA SetStepHolds ==
    ASSUME IInv, NEW c \in Clients, process[c].at \in StepPlaces,
           NEW p \in ProcessRecords, Become(c, p),
           p.at \in RunPlaces, p.run = process[c].run,
           p.workflow = process[c].workflow,
           NEW new \in RunStatus, SetStep(c, new),
           UNCHANGED <<workflowVars, runOf, runStatus, historyVars>>,
           p.at # "ask", p.at \in {"report", "stop", "finish"} => p.target \in RunStatus,
           p.at \in {"begin", "handle"} =>
              Authorized(process[c].run, Len(rows[process[c].run]))
    PROVE  IInv'
<1>. DEFINE r == process[c].run
            w == process[c].workflow
<1>1. process[c].at \in RunPlaces
  BY DEF StepPlaces
<1>2. /\ r \in Runs /\ w \in Workflows /\ runOf[r] = w
      /\ rows[r] \in Seq(RunStatus) /\ Len(rows[r]) \in 1..Len(Steps(w))
  BY <1>1, RunFacts DEF IInv, RunInv, RunKnows
<1>3. /\ rows' \in [Runs -> Seq(RunStatus)]
      /\ \A s \in Runs \ {r} : rows'[s] = rows[s]
      /\ Len(rows'[r]) = Len(rows[r])
  <2>1. rows' = [rows EXCEPT ![r][Len(rows[r])] = new]
    BY DEF SetStep, Current
  <2>2. [rows[r] EXCEPT ![Len(rows[r])] = new] \in Seq(RunStatus)
    BY <1>2
  <2>3. Len([rows[r] EXCEPT ![Len(rows[r])] = new]) = Len(rows[r])
    BY <1>2
  <2>. QED BY <1>2, <2>1, <2>2, <2>3 DEF IInv, RunInv, RunTypes
<1>4. /\ ProcessTypes' /\ LifeInv' /\ OneProcess' /\ OnlyValidatedRun'
      /\ process'[c] = p
      /\ \A d \in Clients \ {c} : RunKnows(d)'
  BY <1>1, <1>3, RunFrame DEF RunPlaces
<1>5. RunTypes'
  BY <1>3 DEF IInv, RunInv, RunTypes
<1>6. RunRows'
  <2>1. ASSUME NEW s \in Runs
        PROVE  /\ runOf[s] = None => rows[s] = <<>> /\ handled[s] = <<>>
               /\ runOf[s] # None =>
                     /\ status[runOf[s]] # "absent"
                     /\ Len(rows[s]) <= Len(Steps(runOf[s]))
               /\ Len(rows'[s]) = Len(rows[s])
               /\ runOf[s] = None => rows'[s] = rows[s]
    BY <1>2, <1>3, WorkflowAssumption DEF IInv, RunInv, RunRows
  <2>. QED BY <2>1 DEF RunRows, Steps
<1>7. \A s, i : Authorized(s, i) <=> Authorized(s, i)'
  BY DEF Authorized, Steps
<1>8. HandlerAuthorized'
  BY <1>7 DEF IInv, RunInv, HandlerAuthorized
<1>9. RunKnows(c)'
  BY <1>1, <1>2, <1>3, <1>4, <1>7, RunFacts
     DEF RunKnows, StepPlaces, RunPlaces, Steps
<1>. QED BY <1>4, <1>5, <1>6, <1>8, <1>9 DEF IInv, RunInv

LEMMA StopStepHolds ==
    ASSUME IInv, NEW c \in Clients, StopStep(c)
    PROVE  IInv'
<1>. DEFINE p == [process[c] EXCEPT !.at = "finish"]
<1>1. /\ process[c] \in ProcessRecords /\ process[c].at = "stop"
      /\ process[c].target \in RunStatus
  BY DEF StopStep, IInv, ProcessTypes, RunInv, RunKnows
<1>2. /\ p \in ProcessRecords /\ p.at = "finish" /\ p.target = process[c].target
      /\ p.run = process[c].run /\ p.workflow = process[c].workflow
  BY <1>1 DEF ProcessRecords, Places
<1>3. /\ Become(c, p) /\ SetStep(c, process[c].target)
      /\ UNCHANGED <<workflowVars, runOf, runStatus, historyVars>>
  BY DEF StopStep
<1>. HIDE DEF p
<1>. QED BY <1>1, <1>2, <1>3, SetStepHolds DEF StepPlaces, RunPlaces, Places

LEMMA BeginStepHolds ==
    ASSUME IInv, NEW c \in Clients, BeginStep(c)
    PROVE  IInv'
<1>. DEFINE p == [process[c] EXCEPT !.at = "handle"]
<1>1. /\ process[c] \in ProcessRecords /\ process[c].at = "begin"
      /\ Authorized(process[c].run, Len(rows[process[c].run]))
  BY DEF BeginStep, IInv, ProcessTypes, RunInv, RunKnows
<1>2. /\ p \in ProcessRecords /\ p.at = "handle"
      /\ p.run = process[c].run /\ p.workflow = process[c].workflow
  BY <1>1 DEF ProcessRecords, Places
<1>3. /\ Become(c, p) /\ SetStep(c, "RUNNING")
      /\ UNCHANGED <<workflowVars, runOf, runStatus, historyVars>>
  BY DEF BeginStep
<1>. HIDE DEF p
<1>. QED BY <1>1, <1>2, <1>3, SetStepHolds
         DEF StepPlaces, RunPlaces, Places, RunStatus

LEMMA ReportStepHolds ==
    ASSUME IInv, NEW c \in Clients, ReportStep(c)
    PROVE  IInv'
<1>. DEFINE ends == [process[c] EXCEPT !.at = "finish"]
            goes == [process[c] EXCEPT !.at = "next", !.target = "none"]
<1>1. /\ process[c] \in ProcessRecords /\ process[c].at = "report"
      /\ process[c].target \in RunStatus
  BY DEF ReportStep, IInv, ProcessTypes, RunInv, RunKnows
<1>2. PICK p \in {ends, goes} : Become(c, p)
  BY DEF ReportStep
<1>3. /\ p \in ProcessRecords /\ p.at \in {"finish", "next"}
      /\ p.at = "finish" => p.target = process[c].target
      /\ p.run = process[c].run /\ p.workflow = process[c].workflow
  BY <1>1, <1>2 DEF ProcessRecords, Places
<1>4. /\ SetStep(c, process[c].target)
      /\ UNCHANGED <<workflowVars, runOf, runStatus, historyVars>>
  BY DEF ReportStep
<1>. QED BY <1>1, <1>2, <1>3, <1>4, SetStepHolds
         DEF StepPlaces, RunPlaces, Places

\* The handler is called for the step the process is authorized for.
LEMMA HandleHolds ==
    ASSUME IInv, NEW c \in Clients, Handle(c)
    PROVE  IInv'
<1>. DEFINE r == process[c].run
            w == process[c].workflow
            i == Len(rows[r])
<1>1. /\ process[c].at \in RunPlaces /\ process[c] \in ProcessRecords
      /\ process[c].at \in StepPlaces /\ Authorized(r, i)
  BY DEF Handle, RunPlaces, StepPlaces, Places, IInv, ProcessTypes, RunInv,
         RunKnows
<1>2. /\ UNCHANGED <<workflowVars, runVars, confirmed>>
      /\ r \in Runs /\ r # None /\ w \in Workflows /\ runOf[r] = w
      /\ i \in 1..Len(Steps(w)) /\ i \in Nat /\ handled[r] \in Seq(Nat)
  BY <1>1, RunFacts DEF Handle, IInv, RunInv, RunKnows, RunTypes
<1>3. PICK new \in {"FAILED", "SUCCEEDED"} :
        Become(c, [process[c] EXCEPT !.at = "report", !.target = new])
  BY DEF Handle
<1>. DEFINE p == [process[c] EXCEPT !.at = "report", !.target = new]
<1>4. /\ p \in ProcessRecords /\ p.at = "report" /\ p.target = new
      /\ p.workflow = w /\ p.run = r
  BY <1>1 DEF ProcessRecords, Places, RunStatus
<1>. HIDE DEF p
<1>5. /\ handled' \in [Runs -> Seq(Nat)]
      /\ \A s \in Runs \ {r} : handled'[s] = handled[s]
      /\ handled'[r] \in {handled[r], Append(handled[r], i)}
  BY <1>2 DEF Handle, Current, IInv, RunInv, RunTypes
<1>6. /\ ProcessTypes' /\ LifeInv' /\ OneProcess' /\ OnlyValidatedRun'
      /\ process'[c] = p
      /\ \A d \in Clients \ {c} : RunKnows(d)'
  BY <1>1, <1>2, <1>3, <1>4, <1>5, RunFrame DEF p
<1>7. RunTypes'
  BY <1>2, <1>5 DEF IInv, RunInv, RunTypes
<1>8. RunRows'
  <2>1. runOf[r] # None
    BY <1>2, WorkflowAssumption
  <2>. QED BY <1>2, <1>5, <2>1 DEF IInv, RunInv, RunRows, Steps
<1>9. \A s, k : Authorized(s, k) <=> Authorized(s, k)'
  BY <1>2 DEF Authorized, Steps
<1>10. HandlerAuthorized'
  <2>. SUFFICES ASSUME NEW s \in Runs, NEW k \in DOMAIN handled'[s]
                PROVE  Authorized(s, handled'[s][k])
    BY <1>9 DEF HandlerAuthorized
  <2>1. CASE handled'[s] = handled[s]
    BY <2>1 DEF IInv, RunInv, HandlerAuthorized
  <2>2. CASE s = r /\ handled'[r] = Append(handled[r], i)
    <3>1. \A j \in DOMAIN handled[r] : Authorized(r, handled[r][j])
      BY <1>2 DEF IInv, RunInv, HandlerAuthorized
    <3>2. handled'[r][k] = i \/ (k \in DOMAIN handled[r] /\ handled'[r][k] = handled[r][k])
      BY <1>2, <2>2
    <3>. QED BY <1>1, <2>2, <3>1, <3>2
  <2>. QED BY <1>5, <2>1, <2>2
<1>11. RunKnows(c)'
  BY <1>1, <1>2, <1>4, <1>6, RunFacts
     DEF RunKnows, RunPlaces, StepPlaces, Places, RunStatus, Steps
<1>. QED BY <1>6, <1>7, <1>8, <1>10, <1>11 DEF IInv, RunInv

LEMMA FinishRunHolds ==
    ASSUME IInv, NEW c \in Clients, FinishRun(c)
    PROVE  IInv'
<1>1. /\ process[c].at = "finish" /\ process[c].target \in RunStatus
      /\ process[c].at \in RunPlaces
  BY DEF FinishRun, IInv, RunInv, RunKnows, RunPlaces, Places
<1>2. /\ Become(c, Idle)
      /\ UNCHANGED <<workflowVars, runOf, rows, historyVars>>
      /\ runStatus' \in [Runs -> RunStatus \cup {"absent"}]
  BY <1>1 DEF FinishRun, IInv, RunInv, RunTypes
<1>3. process'[c] = Idle
  BY <1>2, IdleRecord, BecomeHolds DEF IInv
<1>4. RunKnows(c)'
  BY <1>3, IdleRecord DEF RunKnows, RunPlaces, StepPlaces, Places
<1>. QED BY <1>1, <1>2, <1>4, IdleRecord, MoveHolds

LEMMA DieHolds ==
    ASSUME IInv, NEW c \in Clients, Die(c)
    PROVE  IInv'
<1>1. /\ Become(c, Idle) /\ UNCHANGED <<workflowVars, runVars, historyVars>>
      /\ KeepsWorkflows
  BY DEF Die, KeepsWorkflows
<1>2. ProcessTypes' /\ LifeInv'
  BY <1>1, IdleRecord, BecomeHolds, LifeQuiet DEF IInv
<1>3. RunInv'
  BY <1>1, IdleRecord, RunIdle DEF IInv, LifeInv, RunPlaces
<1>. QED BY <1>2, <1>3 DEF IInv
-----------------------------------------------------------------------------
LEMMA NextHolds == IInv /\ [Next]_vars => IInv'
<1>. SUFFICES ASSUME IInv, [Next]_vars PROVE IInv'
  OBVIOUS
<1>1. CASE UNCHANGED vars
  BY <1>1 DEF vars, IInv, ProcessTypes, LifeInv, WorkflowTypes, HasDefinition,
              Vetted, EnabledWasApproved, CommandKnows, RunInv, RunTypes,
              OneProcess, RunRows, OnlyValidatedRun, HandlerAuthorized,
              RunKnows, Authorized, Steps
<1>2. ASSUME NEW w \in Workflows, Generate(w) PROVE IInv'
  BY <1>2, GenerateHolds
<1>3. ASSUME NEW c \in Clients, NEW w \in Workflows,
             NEW new \in WorkflowStatus \ {"DRAFT"}, Begin(c, w, new)
      PROVE  IInv'
  BY <1>3, BeginHolds
<1>4. ASSUME NEW c \in Clients, NEW w \in Workflows, BeginRun(c, w) PROVE IInv'
  BY <1>4, BeginRunHolds
<1>5. ASSUME NEW c \in Clients, SelectStatus(c) \/ UpdateStatus(c) \/ Die(c)
      PROVE  IInv'
  BY <1>5, SelectHolds, UpdateHolds, DieHolds
<1>6. ASSUME NEW c \in Clients, RunStep(c) PROVE IInv'
  BY <1>6, CreateRunHolds, StartRunHolds, NextStepHolds, DecideStepHolds,
     AskUserHolds, StopStepHolds, BeginStepHolds, HandleHolds, ReportStepHolds,
     FinishRunHolds
     DEF RunStep
<1>. QED BY <1>1, <1>2, <1>3, <1>4, <1>5, <1>6 DEF Next

LEMMA Invariant == Spec => []IInv
BY InitHolds, NextHolds, PTL DEF Spec

\* The state has its type; no run has more rows than its workflow has steps.
THEOREM TypeCorrect == Spec => []TypeOK
<1>1. IInv => TypeOK
  <2>. SUFFICES ASSUME IInv PROVE TypeOK
    OBVIOUS
  <2>1. \A r \in Runs :
          Len(rows[r]) <= IF runOf[r] = None THEN 0 ELSE Len(Steps(runOf[r]))
    BY DEF IInv, RunInv, RunRows
  <2>. QED BY <2>1 DEF IInv, ProcessTypes, ProcessRecords, LifeInv, WorkflowTypes,
                       RunInv, RunTypes, TypeOK
<1>. QED BY <1>1, Invariant, PTL

\* No handler is ever called for a step that the minimum policy or the
\* workflow blocks, nor before the user has said yes to one that needs it.
THEOREM HandlersAuthorized == Spec => []HandlerAuthorized
<1>1. IInv => HandlerAuthorized
  BY DEF IInv, RunInv
<1>. QED BY <1>1, Invariant, PTL

\* Whatever two commands overwrite of each other, an enabled workflow has been
\* approved, and a run is of a workflow the validator found nothing in.
THEOREM OnlyApprovedEnabled == Spec => [](EnabledWasApproved /\ OnlyValidatedRun)
<1>1. IInv => EnabledWasApproved /\ OnlyValidatedRun
  BY DEF IInv, LifeInv, RunInv
<1>. QED BY <1>1, Invariant, PTL
-----------------------------------------------------------------------------
(* What a run says of itself is what its steps say.                        *)
(*                                                                         *)
(* The statuses of the steps and the status of the run are two tables, and  *)
(* the process may die between any two of its updates.  TraceKnows says what *)
(* the rows of a run look like at each place of the process that writes     *)
(* them: the run is not ended before its last step is.                      *)

Broken == {"BLOCKED", "WAITING_APPROVAL", "CANCELLED", "FAILED"}

PassedAll(r, n) == \A i \in 1..n : Passed(r, i)

\* The body of RunMatchesSteps, for one run.
Matches(r) ==
    runOf[r] # None =>
        LET last == Len(rows[r])
        IN  /\ PassedAll(r, last - 1)
            /\ runStatus[r] = "SUCCEEDED" =>
                  last = Len(Steps(runOf[r])) /\ PassedAll(r, last)
            /\ runStatus[r] \in Broken => last > 0 /\ rows[r][last] = runStatus[r]

\* What a process that runs a workflow knows of the steps it has left behind,
\* and of what it is about to write.
TraceKnows(c) ==
    LET p == process[c]
        r == p.run
        last == Len(rows[r])
    IN  p.at \in RunPlaces =>
            /\ runStatus[r] \in {"PENDING", "RUNNING"}
            /\ p.at = "start" => rows[r] = <<>>
            /\ p.at = "next" => PassedAll(r, last)
            /\ p.at = "stop" => p.target \in Broken
            /\ p.at = "report" => p.target \in {"SUCCEEDED", "FAILED"}
            /\ p.at = "finish" =>
                  \/ /\ p.target = "SUCCEEDED"
                     /\ last = Len(Steps(p.workflow)) /\ PassedAll(r, last)
                  \/ /\ p.target \in Broken
                     /\ last > 0 /\ rows[r][last] = p.target

TraceInv ==
    /\ \A r \in Runs : Matches(r)
    /\ \A c \in Clients : TraceKnows(c)

\* A step leaves the rows of every run but R alone, and no other process
\* writes to R.
LEMMA TraceStep ==
    ASSUME IInv, TraceInv, KeepsWorkflows, NEW c \in Clients,
           \A d \in Clients \ {c} : process'[d] = process[d],
           NEW R,
           \A r \in Runs \ {R} : /\ rows'[r] = rows[r] /\ runOf'[r] = runOf[r]
                                /\ runStatus'[r] = runStatus[r],
           \A d \in Clients \ {c} :
              process[d].at \in RunPlaces => process[d].run # R,
           R \in Runs => Matches(R)',
           TraceKnows(c)'
    PROVE  TraceInv'
<1>1. ASSUME NEW r \in Runs \ {R} PROVE Matches(r)'
  <2>. SUFFICES ASSUME runOf[r] # None PROVE Matches(r)'
    BY DEF Matches
  <2>1. definition'[runOf[r]] = definition[runOf[r]]
    BY DEF IInv, RunInv, RunTypes, RunRows, KeepsWorkflows
  <2>2. rows'[r] = rows[r] /\ runOf'[r] = runOf[r]
        /\ runStatus'[r] = runStatus[r]
    OBVIOUS
  <2>3. Matches(r)
    BY DEF TraceInv
  <2>. QED BY <2>1, <2>2, <2>3 DEF Matches, PassedAll, Passed, Steps
<1>2. ASSUME NEW d \in Clients \ {c} PROVE TraceKnows(d)'
  <2>. SUFFICES ASSUME process[d].at \in RunPlaces PROVE TraceKnows(d)'
    BY DEF TraceKnows
  <2>1. PICK r \in Runs : /\ r = process[d].run /\ r # R
                          /\ runOf[r] = process[d].workflow
                          /\ process[d].workflow \in Workflows
                          /\ status[process[d].workflow] # "absent"
    BY RunFacts
  <2>2. definition'[runOf[r]] = definition[runOf[r]]
    BY <2>1 DEF KeepsWorkflows
  <2>3. /\ rows'[r] = rows[r] /\ runOf'[r] = runOf[r]
        /\ runStatus'[r] = runStatus[r] /\ process'[d] = process[d]
    BY <2>1
  <2>4. TraceKnows(d)
    BY DEF TraceInv
  <2>5. \A i : Passed(r, i) => (rows'[r][i] = "SUCCEEDED"
              \/ (rows'[r][i] = "FAILED"
                    /\ definition'[runOf'[r]].steps[i].continues))
    BY <2>2, <2>3 DEF Passed, Steps
  <2>6. definition'[process[d].workflow].steps = Steps(process[d].workflow)
    BY <2>1, <2>2 DEF Steps
  <2>7. process'[d].run = r /\ process'[d].workflow = process[d].workflow
        /\ process'[d].at = process[d].at /\ process'[d].target = process[d].target
    BY <2>1, <2>3
  <2>8. /\ runStatus[r] \in {"PENDING", "RUNNING"}
        /\ process[d].at = "start" => rows[r] = <<>>
        /\ process[d].at = "next" => \A i \in 1..Len(rows[r]) : Passed(r, i)
        /\ process[d].at = "stop" => process[d].target \in Broken
        /\ process[d].at = "report" => process[d].target \in {"SUCCEEDED", "FAILED"}
        /\ process[d].at = "finish" =>
              \/ /\ process[d].target = "SUCCEEDED"
                 /\ Len(rows[r]) = Len(Steps(process[d].workflow))
                 /\ \A i \in 1..Len(rows[r]) : Passed(r, i)
              \/ /\ process[d].target \in Broken
                 /\ Len(rows[r]) > 0 /\ rows[r][Len(rows[r])] = process[d].target
    BY <2>1, <2>4 DEF TraceKnows, PassedAll
  <2>9. CASE process[d].at = "finish"
    <3>1. CASE process[d].target \in Broken
      BY <2>1, <2>3, <2>7, <2>8, <2>9, <3>1 DEF TraceKnows, Broken
    <3>2. CASE process[d].target = "SUCCEEDED"
      <4>1. /\ Len(rows'[r]) = Len(definition'[process[d].workflow].steps)
            /\ \A i \in 1..Len(rows'[r]) :
                  \/ rows'[r][i] = "SUCCEEDED"
                  \/ /\ rows'[r][i] = "FAILED"
                     /\ definition'[runOf'[r]].steps[i].continues
        BY <2>3, <2>5, <2>6, <2>8, <2>9, <3>2 DEF Broken
      <4>2. PassedAll(process[d].run, Len(rows[process[d].run]))'
        BY <2>1, <2>7, <4>1 DEF PassedAll, Passed, Steps
      <4>3. (Len(rows[process[d].run]) = Len(Steps(process[d].workflow)))'
        BY <2>7, <4>1 DEF Steps
      <4>4. /\ process'[d].at = "finish" /\ process'[d].target = "SUCCEEDED"
            /\ runStatus'[process'[d].run] \in {"PENDING", "RUNNING"}
        BY <2>3, <2>7, <2>8, <2>9, <3>2
      <4>. QED BY <4>2, <4>3, <4>4 DEF TraceKnows
    <3>. QED BY <2>8, <2>9, <3>1, <3>2
  <2>10. CASE process[d].at = "next"
    BY <2>1, <2>3, <2>5, <2>7, <2>8, <2>10
       DEF TraceKnows, PassedAll, Passed, Steps, Broken
  <2>11. CASE process[d].at \notin {"finish", "next"}
    BY <2>1, <2>3, <2>7, <2>8, <2>11
       DEF TraceKnows, PassedAll, Passed, Steps, Broken
  <2>. QED BY <2>9, <2>10, <2>11
<1>. QED BY <1>1, <1>2 DEF TraceInv

\* A step that touches no run, of a process that is then in none.
LEMMA TraceQuiet ==
    ASSUME IInv, TraceInv, KeepsWorkflows, UNCHANGED runVars,
           NEW c \in Clients,
           \A d \in Clients \ {c} : process'[d] = process[d],
           process'[c].at \notin RunPlaces
    PROVE  TraceInv'
<1>1. PICK R : R \notin Runs
  BY WorkflowAssumption
<1>2. TraceKnows(c)'
  BY DEF TraceKnows
<1>3. \A d \in Clients \ {c} :
         process[d].at \in RunPlaces => process[d].run # R
  BY <1>1, RunFacts
<1>. QED BY <1>1, <1>2, <1>3, TraceStep

\* A step of a process in its own run.
LEMMA OwnRun ==
    ASSUME IInv, TraceInv, NEW c \in Clients, process[c].at \in RunPlaces,
           UNCHANGED <<workflowVars, runOf>>,
           NEW p \in ProcessRecords, Become(c, p),
           NEW r, r = process[c].run,
           \A s \in Runs \ {r} :
              rows'[s] = rows[s] /\ runStatus'[s] = runStatus[s],
           Matches(r)', p.at \in RunPlaces => TraceKnows(c)'
    PROVE  TraceInv'
<1>1. /\ process'[c] = p
      /\ \A d \in Clients \ {c} : process'[d] = process[d]
  BY BecomeHolds DEF IInv
<1>2. KeepsWorkflows
  BY DEF KeepsWorkflows
<1>3. \A d \in Clients \ {c} :
         process[d].at \in RunPlaces => process[d].run # r
  BY RunFacts DEF IInv, RunInv, OneProcess
<1>4. TraceKnows(c)'
  BY <1>1 DEF TraceKnows
<1>. QED BY <1>1, <1>2, <1>3, <1>4, TraceStep

\* A run that is not ended has passed every step but the last.
LEMMA RunningMatches ==
    ASSUME NEW r \in Runs, runStatus'[r] \in {"PENDING", "RUNNING"},
           PassedAll(r, Len(rows[r]) - 1)'
    PROVE  Matches(r)'
BY DEF Matches, Broken

LEMMA CreateTrace ==
    ASSUME IInv, TraceInv, NEW c \in Clients, CreateRun(c)
    PROVE  TraceInv'
<1>1. PICK r \in Runs :
        /\ runOf[r] = None
        /\ runOf' = [runOf EXCEPT ![r] = process[c].workflow]
        /\ runStatus' = [runStatus EXCEPT ![r] = "PENDING"]
        /\ Become(c, [process[c] EXCEPT !.at = "start", !.run = r])
        /\ UNCHANGED <<workflowVars, rows>>
  BY DEF CreateRun
<1>. DEFINE p == [process[c] EXCEPT !.at = "start", !.run = r]
<1>2. p \in ProcessRecords /\ p.at = "start" /\ p.run = r
  BY DEF IInv, ProcessTypes, ProcessRecords, Places
<1>3. /\ process'[c] = p
      /\ \A d \in Clients \ {c} : process'[d] = process[d]
  BY <1>1, <1>2, BecomeHolds DEF IInv
<1>. HIDE DEF p
<1>4. /\ rows'[r] = <<>> /\ runStatus'[r] = "PENDING"
      /\ \A s \in Runs \ {r} : /\ rows'[s] = rows[s] /\ runOf'[s] = runOf[s]
                              /\ runStatus'[s] = runStatus[s]
  BY <1>1 DEF IInv, RunInv, RunTypes, RunRows
<1>5. \A d \in Clients \ {c} :
         process[d].at \in RunPlaces => process[d].run # r
  BY <1>1, RunFacts, WorkflowAssumption
<1>6. Matches(r)'
  BY <1>4, RunningMatches DEF PassedAll
<1>7. TraceKnows(c)'
  BY <1>2, <1>3, <1>4 DEF TraceKnows
<1>8. KeepsWorkflows
  BY <1>1 DEF KeepsWorkflows
<1>. QED BY <1>3, <1>4, <1>5, <1>6, <1>7, <1>8, TraceStep

LEMMA StartTrace ==
    ASSUME IInv, TraceInv, NEW c \in Clients, StartRun(c)
    PROVE  TraceInv'
<1>. DEFINE blocked == [process[c] EXCEPT !.at = "finish", !.target = "BLOCKED"]
            going   == [process[c] EXCEPT !.at = "next"]
<1>1. /\ process[c].at = "start" /\ process[c].at \in RunPlaces
      /\ process[c] \in ProcessRecords
  BY DEF StartRun, RunPlaces, Places, IInv, ProcessTypes
<1>2. PICK r \in Runs : /\ r = process[c].run
                        /\ Valid(definition[process[c].workflow])
  BY <1>1, RunFacts
<1>3. /\ runStatus' = [runStatus EXCEPT ![r] = "RUNNING"]
      /\ UNCHANGED <<workflowVars, runOf, rows>>
      /\ Become(c, going)
  <2>1. /\ process[c].workflow \in Workflows
        /\ definition[process[c].workflow] \in Definitions
    BY <1>1, RunFacts DEF IInv, LifeInv, HasDefinition
  <2>2. ~(Len(Steps(process[c].workflow))
            > definition[process[c].workflow].maxSteps)
    BY <1>2, <2>1, WorkflowAssumption DEF Valid, Steps
  <2>. QED BY <1>2, <2>2 DEF StartRun
<1>4. going \in ProcessRecords /\ going.at = "next" /\ going.run = r
  BY <1>1, <1>2 DEF ProcessRecords, Places
<1>. HIDE DEF going
<1>5. rows'[r] = <<>> /\ runStatus'[r] = "RUNNING"
      /\ \A s \in Runs \ {r} : runStatus'[s] = runStatus[s]
  BY <1>1, <1>2, <1>3 DEF TraceInv, TraceKnows, IInv, RunInv, RunTypes
<1>6. process'[c] = going
  BY <1>3, <1>4, BecomeHolds DEF IInv
<1>7. Matches(r)'
  BY <1>5, RunningMatches DEF PassedAll
<1>8. TraceKnows(c)'
  BY <1>4, <1>5, <1>6 DEF TraceKnows, PassedAll
<1>. QED BY <1>1, <1>2, <1>3, <1>4, <1>5, <1>7, <1>8, OwnRun

LEMMA NextTrace ==
    ASSUME IInv, TraceInv, NEW c \in Clients, NextStep(c)
    PROVE  TraceInv'
<1>. DEFINE going == [process[c] EXCEPT !.at = "policy"]
            done  == [process[c] EXCEPT !.at = "finish", !.target = "SUCCEEDED"]
<1>1. /\ process[c].at = "next" /\ process[c].at \in RunPlaces
      /\ process[c] \in ProcessRecords
      /\ UNCHANGED <<workflowVars, runOf, runStatus>>
  BY DEF NextStep, RunPlaces, Places, IInv, ProcessTypes
<1>2. PICK r \in Runs : /\ r = process[c].run
                        /\ rows[r] \in Seq(RunStatus)
                        /\ Steps(process[c].workflow) \in Seq(Step)
                        /\ Len(rows[r]) <= Len(Steps(process[c].workflow))
  BY <1>1, RunFacts
<1>3. /\ runStatus[r] \in {"PENDING", "RUNNING"}
      /\ PassedAll(r, Len(rows[r]))
  BY <1>1, <1>2 DEF TraceInv, TraceKnows
<1>4. CASE /\ rows' = [rows EXCEPT ![r] = Append(@, "PENDING")]
           /\ Become(c, going)
  <2>1. going \in ProcessRecords /\ going.at = "policy" /\ going.run = r
    BY <1>1, <1>2 DEF ProcessRecords, Places
  <2>. HIDE DEF going
  <2>2. process'[c] = going
    BY <1>4, <2>1, BecomeHolds DEF IInv
  <2>3. /\ Len(rows'[r]) = Len(rows[r]) + 1
        /\ \A i \in 1..Len(rows[r]) : rows'[r][i] = rows[r][i]
        /\ \A s \in Runs \ {r} : rows'[s] = rows[s]
    BY <1>2, <1>4 DEF IInv, RunInv, RunTypes
  <2>4. PassedAll(r, Len(rows[r]) - 1)'
    <3>1. Len(rows'[r]) - 1 = Len(rows[r])
      BY <1>2, <2>3
    <3>. QED BY <1>1, <1>3, <2>3, <3>1 DEF PassedAll, Passed, Steps
  <2>5. Matches(r)'
    BY <1>1, <1>3, <2>4, RunningMatches
  <2>6. TraceKnows(c)'
    BY <1>1, <1>3, <2>1, <2>2 DEF TraceKnows
  <2>. QED BY <1>1, <1>2, <1>4, <2>1, <2>3, <2>5, <2>6, OwnRun
<1>5. CASE ~StepsLeft(c) /\ Become(c, done) /\ UNCHANGED rows
  <2>1. /\ done \in ProcessRecords /\ done.at = "finish" /\ done.run = r
        /\ done.workflow = process[c].workflow /\ done.target = "SUCCEEDED"
    BY <1>1, <1>2 DEF ProcessRecords, Places, RunStatus
  <2>. HIDE DEF done
  <2>2. process'[c] = done
    BY <1>5, <2>1, BecomeHolds DEF IInv
  <2>3. Len(rows[r]) = Len(Steps(process[c].workflow))
    BY <1>2, <1>5 DEF StepsLeft, Current
  <2>4. PassedAll(r, Len(rows[r]))' /\ PassedAll(r, Len(rows[r]) - 1)'
    BY <1>1, <1>2, <1>3, <1>5 DEF PassedAll, Passed, Steps
  <2>5. Matches(r)'
    BY <1>1, <1>3, <2>4, RunningMatches
  <2>6. TraceKnows(c)'
    <3>1. PassedAll(process[c].run, Len(rows[process[c].run]))'
      BY <2>1, <2>2, <2>4 DEF PassedAll, Passed, Steps
    <3>2. (Len(rows[process[c].run]) = Len(Steps(process[c].workflow)))'
      BY <1>1, <1>5, <2>1, <2>2, <2>3 DEF Steps
    <3>. QED BY <1>1, <1>3, <2>1, <2>2, <3>1, <3>2 DEF TraceKnows
  <2>. QED BY <1>1, <1>2, <1>5, <2>1, <2>5, <2>6, OwnRun
<1>. QED BY <1>2, <1>4, <1>5 DEF NextStep

\* The step before the policy is asked, and the user, and the handler.
LEMMA StepTrace ==
    ASSUME IInv, TraceInv, NEW c \in Clients, process[c].at \in RunPlaces,
           UNCHANGED <<workflowVars, runVars>>,
           NEW p \in ProcessRecords, Become(c, p), p.run = process[c].run,
           p.at \in {"ask", "begin", "report", "stop"},
           p.at = "stop" => p.target \in Broken,
           p.at = "report" => p.target \in {"SUCCEEDED", "FAILED"}
    PROVE  TraceInv'
<1>1. PICK r \in Runs : r = process[c].run
  BY RunFacts
<1>2. runStatus[r] \in {"PENDING", "RUNNING"} /\ Matches(r)
  BY <1>1 DEF TraceInv, TraceKnows
<1>3. process'[c] = p
  BY BecomeHolds DEF IInv
<1>4. Matches(r)'
  BY <1>2 DEF Matches, PassedAll, Passed, Steps
<1>5. TraceKnows(c)'
  BY <1>1, <1>2, <1>3 DEF TraceKnows, Broken
<1>. QED BY <1>1, <1>4, <1>5, OwnRun

LEMMA AnswerTrace ==
    ASSUME IInv, TraceInv, NEW c \in Clients,
           DecideStep(c) \/ AskUser(c) \/ Handle(c)
    PROVE  TraceInv'
<1>1. /\ process[c].at \in RunPlaces /\ process[c] \in ProcessRecords
      /\ UNCHANGED <<workflowVars, runVars>>
  BY DEF DecideStep, AskUser, Handle, RunPlaces, Places, IInv, ProcessTypes
<1>. DEFINE q(at, new) == [process[c] EXCEPT !.at = at, !.target = new]
<1>2. PICK at \in {"ask", "begin", "report", "stop"},
           new \in {process[c].target} \cup Broken \cup {"SUCCEEDED"} :
        /\ Become(c, q(at, new))
        /\ at = "stop" => new \in Broken
        /\ at = "report" => new \in {"SUCCEEDED", "FAILED"}
  <2>1. \A at : [process[c] EXCEPT !.at = at] = q(at, process[c].target)
    BY <1>1 DEF ProcessRecords
  <2>2. CASE \E new \in {"BLOCKED", "WAITING_APPROVAL", "CANCELLED"} : Stops(c, new)
    BY <2>2 DEF Stops, Broken
  <2>3. CASE \E at \in {"ask", "begin"} :
                Become(c, [process[c] EXCEPT !.at = at])
    BY <2>1, <2>3
  <2>4. CASE \E new \in {"SUCCEEDED", "FAILED"} :
                Become(c, [process[c] EXCEPT !.at = "report", !.target = new])
    BY <2>4 DEF Broken
  <2>. QED BY <2>2, <2>3, <2>4 DEF DecideStep, AskUser, Handle
<1>3. /\ q(at, new) \in ProcessRecords /\ q(at, new).run = process[c].run
      /\ q(at, new).at = at /\ q(at, new).target = new
  BY <1>1 DEF ProcessRecords, Places, RunStatus, Broken
<1>. HIDE DEF q
<1>. QED BY <1>1, <1>2, <1>3, StepTrace

\* The row of the current step is written: to RUNNING, or to what it ends as.
LEMMA RowTrace ==
    ASSUME IInv, TraceInv, NEW c \in Clients, process[c].at \in StepPlaces,
           NEW new \in RunStatus, SetStep(c, new),
           UNCHANGED <<workflowVars, runOf, runStatus>>,
           NEW p \in ProcessRecords, Become(c, p), p.run = process[c].run,
           \/ p.at = "handle"
           \/ p.at = "finish" /\ p.target = new /\ new \in Broken
           \/ /\ p.at = "next"
              /\ \/ new = "SUCCEEDED"
                 \/ new = "FAILED" /\ CurrentStep(c).continues
    PROVE  TraceInv'
<1>1. process[c].at \in RunPlaces
  BY DEF StepPlaces
<1>2. PICK r \in Runs : /\ r = process[c].run
                        /\ runOf[r] = process[c].workflow
                        /\ runOf[r] # None
                        /\ rows[r] \in Seq(RunStatus)
                        /\ Len(rows[r]) \in 1..Len(Steps(process[c].workflow))
                        /\ Steps(process[c].workflow) \in Seq(Step)
  BY <1>1, RunFacts, WorkflowAssumption DEF IInv, RunInv, RunKnows
<1>3. PICK n \in Nat : n = Len(rows[r]) /\ n > 0
  BY <1>2
<1>4. /\ rows' = [rows EXCEPT ![r] = [rows[r] EXCEPT ![n] = new]]
      /\ \A s \in Runs \ {r} : rows'[s] = rows[s]
  BY <1>2, <1>3 DEF SetStep, Current, IInv, RunInv, RunTypes
<1>5. /\ Len(rows'[r]) = n /\ rows'[r][n] = new
      /\ \A i \in 1..(n - 1) : rows'[r][i] = rows[r][i]
  BY <1>2, <1>3, <1>4 DEF IInv, RunInv, RunTypes
<1>6. /\ runStatus[r] \in {"PENDING", "RUNNING"}
      /\ PassedAll(r, n - 1)
  BY <1>1, <1>2, <1>3 DEF TraceInv, TraceKnows, Matches
<1>7. PassedAll(r, n - 1)'
  BY <1>5, <1>6 DEF PassedAll, Passed, Steps
<1>8. Matches(r)'
  <2>1. PassedAll(r, Len(rows[r]) - 1)'
    BY <1>5, <1>7 DEF PassedAll, Passed, Steps
  <2>. QED BY <1>6, <2>1, RunningMatches
<1>9. process'[c] = p
  BY BecomeHolds DEF IInv
<1>10. TraceKnows(c)'
  <2>1. CASE p.at = "handle"
    BY <1>2, <1>6, <1>9, <2>1 DEF TraceKnows
  <2>2. CASE p.at = "finish" /\ p.target = new /\ new \in Broken
    BY <1>2, <1>3, <1>5, <1>6, <1>9, <2>2 DEF TraceKnows, Broken
  <2>3. CASE /\ p.at = "next"
             /\ \/ new = "SUCCEEDED"
                \/ new = "FAILED" /\ CurrentStep(c).continues
    <3>1. Passed(r, n)'
      BY <1>2, <1>3, <1>5, <2>3 DEF Passed, CurrentStep, Current, Steps
    <3>2. PassedAll(r, Len(rows[r]))'
      BY <1>3, <1>5, <1>7, <3>1 DEF PassedAll, Passed, Steps
    <3>3. PassedAll(process[c].run, Len(rows[process[c].run]))'
      BY <1>2, <1>9, <3>2 DEF PassedAll, Passed, Steps
    <3>. QED BY <1>2, <1>6, <1>9, <2>3, <3>3 DEF TraceKnows
  <2>. QED BY <2>1, <2>2, <2>3
<1>. QED BY <1>1, <1>2, <1>4, <1>8, <1>10, OwnRun

LEMMA WriteTrace ==
    ASSUME IInv, TraceInv, NEW c \in Clients,
           StopStep(c) \/ BeginStep(c) \/ ReportStep(c)
    PROVE  TraceInv'
<1>1. /\ process[c].at \in StepPlaces /\ process[c] \in ProcessRecords
      /\ UNCHANGED <<workflowVars, runOf, runStatus>>
      /\ process[c].at \in RunPlaces
  BY DEF StopStep, BeginStep, ReportStep, StepPlaces, RunPlaces, Places, IInv,
         ProcessTypes
<1>. DEFINE q(at, new) == [process[c] EXCEPT !.at = at, !.target = new]
<1>2. ASSUME NEW at \in {"handle", "finish", "next"},
             NEW new \in RunStatus \cup {process[c].target, "none"}
      PROVE  /\ q(at, new) \in ProcessRecords
             /\ q(at, new).run = process[c].run
             /\ q(at, new).at = at /\ q(at, new).target = new
  BY <1>1, <1>2 DEF ProcessRecords, Places
<1>3. \A at : [process[c] EXCEPT !.at = at] = q(at, process[c].target)
  BY <1>1 DEF ProcessRecords
<1>4. CASE StopStep(c)
  <2>1. process[c].target \in Broken \cap RunStatus
    BY <1>1, <1>4 DEF StopStep, TraceInv, TraceKnows, Broken, RunStatus
  <2>2. Become(c, q("finish", process[c].target)) /\ SetStep(c, process[c].target)
    BY <1>3, <1>4 DEF StopStep
  <2>. HIDE DEF q
  <2>. QED BY <1>1, <1>2, <2>1, <2>2, RowTrace
<1>5. CASE BeginStep(c)
  <2>1. Become(c, q("handle", process[c].target)) /\ SetStep(c, "RUNNING")
    BY <1>3, <1>5 DEF BeginStep
  <2>. HIDE DEF q
  <2>. QED BY <1>1, <1>2, <2>1, RowTrace DEF RunStatus
<1>6. CASE ReportStep(c)
  <2>1. process[c].target \in {"SUCCEEDED", "FAILED"}
    BY <1>1, <1>6 DEF ReportStep, TraceInv, TraceKnows
  <2>2. SetStep(c, process[c].target)
    BY <1>6 DEF ReportStep
  <2>3. CASE EndsRun(c) /\ Become(c, q("finish", process[c].target))
    <3>1. process[c].target = "FAILED"
      BY <2>3 DEF EndsRun
    <3>. HIDE DEF q
    <3>. QED BY <1>1, <1>2, <2>2, <2>3, <3>1, RowTrace DEF RunStatus, Broken
  <2>4. CASE ~EndsRun(c) /\ Become(c, q("next", "none"))
    <3>1. \/ process[c].target = "SUCCEEDED"
          \/ process[c].target = "FAILED" /\ CurrentStep(c).continues
      BY <2>1, <2>4 DEF EndsRun
    <3>. HIDE DEF q
    <3>. QED BY <1>1, <1>2, <2>1, <2>2, <2>4, <3>1, RowTrace DEF RunStatus
  <2>. QED BY <1>3, <1>6, <2>3, <2>4 DEF ReportStep
<1>. QED BY <1>4, <1>5, <1>6

LEMMA FinishTrace ==
    ASSUME IInv, TraceInv, NEW c \in Clients, FinishRun(c)
    PROVE  TraceInv'
<1>1. /\ process[c].at = "finish" /\ process[c].at \in RunPlaces
      /\ Become(c, Idle) /\ UNCHANGED <<workflowVars, runOf, rows>>
  BY DEF FinishRun, RunPlaces, Places
<1>2. PICK r \in Runs : /\ r = process[c].run
                        /\ runOf[r] = process[c].workflow
                        /\ rows[r] \in Seq(RunStatus)
  BY <1>1, RunFacts
<1>3. PICK new : new = process[c].target
  OBVIOUS
<1>4. /\ runStatus'[r] = new
      /\ \A s \in Runs \ {r} : runStatus'[s] = runStatus[s]
  BY <1>2, <1>3 DEF FinishRun, IInv, RunInv, RunTypes
<1>5. \/ /\ new = "SUCCEEDED"
         /\ Len(rows[r]) = Len(Steps(runOf[r])) /\ PassedAll(r, Len(rows[r]))
      \/ new \in Broken /\ Len(rows[r]) > 0 /\ rows[r][Len(rows[r])] = new
  BY <1>1, <1>2, <1>3 DEF TraceInv, TraceKnows
<1>6. PassedAll(r, Len(rows[r]) - 1)
  <2>1. runStatus[r] \in {"PENDING", "RUNNING"} /\ Matches(r)
    BY <1>1, <1>2 DEF TraceInv, TraceKnows
  <2>2. CASE runOf[r] # None
    BY <2>1, <2>2 DEF Matches
  <2>3. CASE runOf[r] = None
    BY <1>1, <1>2, <2>3, RunFacts, WorkflowAssumption
  <2>. QED BY <2>2, <2>3
<1>7. Matches(r)'
  BY <1>1, <1>4, <1>5, <1>6 DEF Matches, PassedAll, Passed, Steps, Broken
<1>. QED BY <1>1, <1>2, <1>4, <1>7, IdleRecord, OwnRun DEF RunPlaces

LEMMA CommandTrace ==
    ASSUME IInv, TraceInv,
           \/ \E w \in Workflows : Generate(w)
           \/ \E c \in Clients :
                 \/ \E w \in Workflows, new \in WorkflowStatus \ {"DRAFT"} :
                       Begin(c, w, new)
                 \/ \E w \in Workflows : BeginRun(c, w)
                 \/ SelectStatus(c) \/ UpdateStatus(c) \/ Die(c)
           \/ UNCHANGED vars
    PROVE  TraceInv'
<1>1. UNCHANGED runVars
  BY DEF Generate, Begin, BeginRun, SelectStatus, UpdateStatus, Die, vars
<1>2. KeepsWorkflows
  <2>1. CASE UNCHANGED <<status, definition>>
    BY <2>1 DEF KeepsWorkflows
  <2>2. ASSUME NEW w \in Workflows, Generate(w) PROVE KeepsWorkflows
    BY <2>2 DEF Generate, KeepsWorkflows, IInv, LifeInv, WorkflowTypes
  <2>3. ASSUME NEW c \in Clients, UpdateStatus(c) PROVE KeepsWorkflows
    BY <2>3 DEF UpdateStatus, KeepsWorkflows, IInv, LifeInv, WorkflowTypes,
                CommandKnows, WorkflowStatus
  <2>. QED BY <2>1, <2>2, <2>3 DEF Begin, BeginRun, SelectStatus, Die, vars
<1>3. ASSUME NEW c \in Clients, NEW p, Become(c, p), p.at \notin RunPlaces
      PROVE  TraceInv'
  <2>1. /\ process'[c] = p
        /\ \A d \in Clients \ {c} : process'[d] = process[d]
    BY <1>3 DEF Become, IInv, ProcessTypes
  <2>. QED BY <1>1, <1>2, <1>3, <2>1, TraceQuiet
<1>4. ASSUME UNCHANGED process PROVE TraceInv'
  <2>1. ASSUME NEW r \in Runs PROVE Matches(r)'
    <3>. SUFFICES ASSUME runOf[r] # None PROVE Matches(r)'
      BY <1>1 DEF Matches
    <3>1. definition'[runOf[r]] = definition[runOf[r]]
      BY <1>2 DEF IInv, RunInv, RunTypes, RunRows, KeepsWorkflows
    <3>2. Matches(r)
      BY DEF TraceInv
    <3>. QED BY <1>1, <3>1, <3>2 DEF Matches, PassedAll, Passed, Steps
  <2>2. ASSUME NEW c \in Clients PROVE TraceInv'
    <3>1. CASE process[c].at \notin RunPlaces
      BY <1>1, <1>2, <1>4, <2>2, <3>1, TraceQuiet
    <3>2. CASE process[c].at \in RunPlaces
      <4>1. definition'[runOf[process[c].run]] = definition[runOf[process[c].run]]
            /\ runOf[process[c].run] = process[c].workflow
        BY <1>2, <2>2, <3>2, RunFacts DEF KeepsWorkflows
      <4>2. TraceKnows(c)
        BY <2>2 DEF TraceInv
      <4>3. TraceKnows(c)'
        BY <1>1, <1>4, <4>1, <4>2 DEF TraceKnows, PassedAll, Passed, Steps
      <4>4. PICK r \in Runs : r = process[c].run
        BY <2>2, <3>2, RunFacts
      <4>5. \A d \in Clients \ {c} :
               process[d].at \in RunPlaces => process[d].run # r
        BY <2>2, <4>4, RunFacts, <3>2 DEF IInv, RunInv, OneProcess
      <4>. QED BY <1>1, <1>2, <1>4, <2>1, <2>2, <4>3, <4>5, TraceStep
    <3>. QED BY <3>1, <3>2
  <2>3. CASE Clients = {}
    BY <2>1, <2>3 DEF TraceInv
  <2>. QED BY <2>2, <2>3
<1>. QED
  <2>1. ASSUME NEW c \in Clients, NEW w \in Workflows,
               NEW new \in WorkflowStatus, Begin(c, w, new)
        PROVE  TraceInv'
    <3>1. PICK p : p = [Idle EXCEPT !.at = "select", !.workflow = w, !.target = new]
      OBVIOUS
    <3>. QED BY <1>3, <2>1, <3>1 DEF Begin, Idle, RunPlaces
  <2>2. ASSUME NEW c \in Clients, NEW w \in Workflows, BeginRun(c, w)
        PROVE  TraceInv'
    <3>1. PICK terminal \in BOOLEAN :
            Become(c, [Idle EXCEPT !.at = "create", !.workflow = w,
                                   !.terminal = terminal])
      BY <2>2 DEF BeginRun
    <3>2. PICK p : p = [Idle EXCEPT !.at = "create", !.workflow = w,
                                    !.terminal = terminal]
      OBVIOUS
    <3>. QED BY <1>3, <3>1, <3>2 DEF Idle, RunPlaces
  <2>3. ASSUME NEW c \in Clients, SelectStatus(c) PROVE TraceInv'
    <3>1. PICK p : p = [process[c] EXCEPT !.at = "update",
                            !.stamps = stamped[process[c].workflow]]
      OBVIOUS
    <3>2. p.at = "update"
      BY <2>3, <3>1 DEF IInv, ProcessTypes, ProcessRecords
    <3>. QED BY <1>3, <2>3, <3>1, <3>2, IdleRecord DEF SelectStatus, RunPlaces
  <2>4. ASSUME NEW c \in Clients, UpdateStatus(c) \/ Die(c) PROVE TraceInv'
    BY <1>3, <2>4, IdleRecord DEF UpdateStatus, Die, RunPlaces
  <2>5. ASSUME NEW w \in Workflows, Generate(w) PROVE TraceInv'
    BY <1>4, <2>5 DEF Generate
  <2>. QED BY <1>4, <2>1, <2>2, <2>3, <2>4, <2>5 DEF vars
-----------------------------------------------------------------------------
LEMMA TraceInvariant == Spec => [](IInv /\ TraceInv)
<1>1. Init => TraceInv
  BY DEF Init, TraceInv, Matches, TraceKnows, RunPlaces, Idle
<1>2. IInv /\ TraceInv /\ [Next]_vars => TraceInv'
  <2>. SUFFICES ASSUME IInv, TraceInv, [Next]_vars PROVE TraceInv'
    OBVIOUS
  <2>1. ASSUME NEW c \in Clients, RunStep(c) PROVE TraceInv'
    BY <2>1, CreateTrace, StartTrace, NextTrace, AnswerTrace, WriteTrace,
       FinishTrace DEF RunStep
  <2>. QED BY <2>1, CommandTrace DEF Next
<1>. QED BY <1>1, <1>2, Invariant, PTL DEF Spec

\* What a run says of itself is what its steps say, wherever its process died
\* and however many run at once.
THEOREM RunsMatchSteps == Spec => []RunMatchesSteps
<1>1. TraceInv => RunMatchesSteps
  BY DEF TraceInv, Matches, PassedAll, Broken, RunMatchesSteps
<1>. QED BY <1>1, TraceInvariant, PTL
=============================================================================
