------------------------------- MODULE AgentTurn -------------------------------
(* What the agent does with a plan (src/assistant/agent.py) and what the     *)
(* registry, the policy, the file resolver, the executor and the recovery    *)
(* have to do with it.                                                       *)
(*                                                                           *)
(* A message becomes a plan of actions, an answer to a question the agent    *)
(* has asked, or nothing that is executed.  Each action is prepared: its     *)
(* path is resolved and a policy decided.  With a terminal the user is asked *)
(* on the spot and the plan goes on; through the gateway the action becomes  *)
(* a proposal, the turn ends, and a decision comes in another request, which *)
(* prepares the action again before it is executed.  A failed call may be    *)
(* repeated once.                                                            *)
(*                                                                           *)
(* One session is modelled: its requests hold the session's lock, hence      *)
(* one turn at a time (module GatewaySession).  While a turn is under way,   *)
(* or between proposal and decision, files come and go and the command line  *)
(* enables other versions of a tool, but the registry is the one the agent   *)
(* was built with.  Texts, arguments other than the path, and contents of    *)
(* files are left out.                                                       *)
EXTENDS Naturals, Sequences

CONSTANTS
    Files,          \* paths of files
    Alike,          \* pairs: the search for the first may come up with the second
    Tools,          \* names of tools
    Marked,         \* tools whose name alone asks for a confirmation
    Plans,          \* what the planner may return
    Questions,      \* actions it may ask a path for
    MaxProposals,   \* bound: confirmations asked for
    None

\* The other actions of the registry are like one of these: a read, a program
\* that is started, or a change that is confirmed.
Launchers == {"file.open", "open_url"}
BuiltIn == {"file.read", "file.write", "file.create", "file.delete_one",
            "file.move_many"} \cup Launchers
Unasked == {"file.read"} \cup Launchers
Action == [cap : BuiltIn \cup Tools, path : Files \cup {None}]

ASSUME AgentAssumption ==
    /\ Alike \subseteq Files \X Files
    /\ Marked \subseteq Tools /\ Tools \cap BuiltIn = {}
    /\ Plans \subseteq Seq(Action) \ {<<>>} /\ Questions \subseteq Action
    /\ MaxProposals \in Nat
    /\ None \notin Files

VARIABLES
    direct,         \* TRUE with a terminal, FALSE through the gateway
    files,          \* the files that exist
    permissions,    \* per tool: what the version now enabled may do
    registry,       \* per tool: the policy the agent has been built with
    turn,           \* the plan being executed, or None
    pending,        \* the action the agent has asked a path for, or None
    proposals,      \* the confirmations asked for
    \* History: what the properties refer to and the code does not keep.
    calls,          \* per proposal: the calls made on the strength of it
    missing,        \* approved file.writes whose path was no file by then
    last            \* the latest call that did something, or None

vars == <<direct, files, permissions, registry, turn, pending, proposals,
          calls, missing, last>>
world == <<files, permissions>>
history == <<calls, missing, last>>

Permissions == {"none", "reads", "writes"}
Effects == {"reads", "launches", "writes"}
Turn == [steps : Seq(Action), at : {"prepare", "ask", "call"},
         yes : 0..MaxProposals, attempt : 0..1]
Proposal == [action : Action, status : {"pending", "approved", "rejected"}]
Call == [effect : Effects, stale : BOOLEAN]

TypeOK ==
    /\ direct \in BOOLEAN
    /\ files \subseteq Files
    /\ permissions \in [Tools -> Permissions]
    /\ registry \in [Tools -> {"unknown", "allow", "confirm"}]
    /\ turn = None \/ turn \in Turn
    /\ pending \in Action \cup {None}
    /\ proposals \in Seq(Proposal) /\ Len(proposals) <= MaxProposals
    /\ calls \in Seq(Seq(Call)) /\ Len(calls) = Len(proposals)
    /\ missing \subseteq 1..Len(proposals)
    /\ \/ last = None
       \/ last \in [action : Action, yes : 0..Len(proposals),
                    effect : Effects, stale : BOOLEAN]

-----------------------------------------------------------------------------
(* Policies.                                                                 *)

\* Seeded fault: only the name counts.
DynamicPolicy_NameOnly(t) ==
    IF permissions[t] = "none" THEN "unknown"
    ELSE IF t \in Marked THEN "confirm" ELSE "allow"

\* What the registry makes of a tool when it is built.
DynamicPolicy(t) ==
    IF permissions[t] = "none" THEN "unknown"
    ELSE IF t \in Marked \/ permissions[t] = "writes" THEN "confirm" ELSE "allow"

\* decide_policy; what it blocks is part of Refuse.
Policy(a) ==
    IF a.cap \in Tools THEN registry[a.cap]
    ELSE IF a.cap \in Unasked THEN "allow" ELSE "confirm"

Effect(a) ==
    IF a.cap \in Tools THEN permissions[a.cap]
    ELSE IF a.cap \in Launchers THEN "launches"
    ELSE IF a.cap = "file.read" THEN "reads" ELSE "writes"

Stale(a) == a.cap \in Tools /\ registry[a.cap] # DynamicPolicy(a.cap)

Init ==
    /\ direct \in BOOLEAN
    /\ files \in SUBSET Files
    /\ permissions \in [Tools -> Permissions]
    /\ registry = [t \in Tools |-> DynamicPolicy(t)]
    /\ turn = None /\ pending = None
    /\ proposals = <<>> /\ calls = <<>> /\ missing = {} /\ last = None

-----------------------------------------------------------------------------
(* Around the agent.                                                         *)

FilesChange ==
    /\ files' \in {files \cup {f} : f \in Files} \cup {files \ {f} : f \in Files}
    /\ UNCHANGED <<direct, permissions, registry, turn, pending, proposals, history>>

\* argos tools enable and disable, in another process.
EnableVersion(t, p) ==
    /\ permissions' = [permissions EXCEPT ![t] = p]
    /\ UNCHANGED <<direct, files, registry, turn, pending, proposals, history>>

\* The session's agent is built anew, after a reload or a restart.
BuildAgent ==
    /\ turn = None
    /\ registry' = [t \in Tools |-> DynamicPolicy(t)]
    /\ UNCHANGED <<direct, world, turn, pending, proposals, history>>

-----------------------------------------------------------------------------
(* Messages and decisions.                                                   *)

Starts(steps, yes) ==
    turn' = [steps |-> steps, at |-> "prepare", yes |-> yes, attempt |-> 0]

EndTurn == turn' = None

\* A plan, or a single action, drops the question that was open.
Message(plan) ==
    /\ turn = None /\ Len(proposals) < MaxProposals
    /\ Starts(plan, 0)
    /\ pending' = None
    /\ UNCHANGED <<direct, world, registry, proposals, history>>

\* The planner asks; nothing is executed.
Clarify(a) ==
    /\ turn = None
    /\ pending' = a
    /\ UNCHANGED <<direct, world, registry, turn, proposals, history>>

\* The user answers: the action of the question with the path of the answer.
Answer(f) ==
    /\ turn = None /\ pending # None /\ Len(proposals) < MaxProposals
    /\ Starts(<<[pending EXCEPT !.path = f]>>, 0)
    /\ pending' = None
    /\ UNCHANGED <<direct, world, registry, proposals, history>>

\* Help, cancel, another subject, or an answer in words.
Abandon ==
    /\ turn = None /\ pending # None
    /\ pending' = None
    /\ UNCHANGED <<direct, world, registry, turn, proposals, history>>

Decide(i, status) ==
    /\ turn = None /\ i \in DOMAIN proposals
    /\ proposals[i].status = "pending"
    /\ proposals' = [proposals EXCEPT ![i].status = status]
    /\ IF status = "approved" THEN Starts(<<proposals[i].action>>, i)
                              ELSE UNCHANGED turn
    /\ UNCHANGED <<direct, world, registry, pending, history>>

-----------------------------------------------------------------------------
(* A turn.                                                                   *)

Step == Head(turn.steps)
At(s) == turn # None /\ turn.at = s

\* The message the user gets instead: arguments that do not fit, a path that
\* is a directory, an action that is blocked, a tool that is not known.
Refuse ==
    /\ At("prepare")
    /\ EndTurn
    /\ UNCHANGED <<direct, world, registry, pending, proposals, history>>

\* Seeded fault: names are compared before the path is tried.
Resolve_ByName(a) ==
    IF a.cap = "file.write"
    THEN {a.path} \cup {f \in files : <<a.path, f>> \in Alike}
    ELSE {a.path}

\* The path of a file.write that is no file is searched for by name in the
\* directories of the context.  The search may miss a file, and then the path
\* stays what it was.
Resolve(a) ==
    IF a.cap = "file.write" /\ a.path \notin files
    THEN {a.path} \cup {f \in files : <<a.path, f>> \in Alike}
    ELSE {a.path}

NoteMissing(a) ==
    missing' = IF turn.yes # 0 /\ a.cap = "file.write" /\ a.path \notin files
               THEN missing \cup {turn.yes} ELSE missing

\* The registry knows the capability, and its schema wants a path for an action
\* on a file.
Valid(a) ==
    IF a.cap \in Tools THEN registry[a.cap] # "unknown"
                       ELSE a.cap = "open_url" \/ a.path # None

\* What has been confirmed is not asked again.
Prepare ==
    /\ At("prepare") /\ Valid(Step)
    /\ \E f \in Resolve(Step) :
          turn' = [turn EXCEPT
                      !.steps = <<[Step EXCEPT !.path = f]>> \o Tail(@),
                      !.at = IF Policy(Step) = "allow" \/ turn.yes # 0
                             THEN "call" ELSE "ask"]
    /\ NoteMissing(Step)
    /\ UNCHANGED <<direct, world, registry, pending, proposals, calls, last>>

\* More than one file, or one that is not alike enough: a question, even
\* when the action has just been approved.
Ambiguous ==
    /\ At("prepare") /\ Resolve(Step) # {Step.path}
    /\ pending' = Step
    /\ EndTurn
    /\ UNCHANGED <<direct, world, registry, proposals, history>>

\* Through the gateway: the rest of the plan is not kept.
Propose ==
    /\ At("ask") /\ ~direct
    /\ proposals' = Append(proposals, [action |-> Step, status |-> "pending"])
    /\ calls' = Append(calls, <<>>)
    /\ EndTurn
    /\ UNCHANGED <<direct, world, registry, pending, missing, last>>

\* At the terminal.
ConfirmerYes ==
    /\ At("ask") /\ direct /\ Len(proposals) < MaxProposals
    /\ proposals' = Append(proposals, [action |-> Step, status |-> "approved"])
    /\ calls' = Append(calls, <<>>)
    /\ turn' = [turn EXCEPT !.at = "call", !.yes = Len(proposals) + 1]
    /\ UNCHANGED <<direct, world, registry, pending, missing, last>>

ConfirmerNo ==
    /\ At("ask") /\ direct
    /\ EndTurn
    /\ UNCHANGED <<direct, world, registry, pending, proposals, history>>

\* Seeded fault: the loop starts over.
NextStep_SameStep ==
    IF Len(turn.steps) = 1 THEN Starts(turn.steps, 0) ELSE Starts(Tail(turn.steps), 0)

NextStep ==
    IF Len(turn.steps) = 1 THEN EndTurn ELSE Starts(Tail(turn.steps), 0)

\* The call does something, and it is noted on whose word.
Does(a) ==
    /\ last' = [action |-> a, yes |-> turn.yes,
                effect |-> Effect(a), stale |-> Stale(a)]
    /\ calls' = IF turn.yes = 0 THEN calls
                ELSE [calls EXCEPT ![turn.yes] =
                         Append(@, [effect |-> Effect(a), stale |-> Stale(a)])]

\* The executor looks for the file, or for the version now enabled.
Executable(a) ==
    IF a.cap \in Tools THEN permissions[a.cap] # "none"
    ELSE a.cap \in {"file.create", "open_url"} \/ a.path \in files

FilesAfter(a) ==
    CASE a.cap = "file.create"                           -> files \cup {a.path}
      [] a.cap \in {"file.delete_one", "file.move_many"} -> files \ {a.path}
      [] OTHER                                           -> files

CallSucceeds ==
    /\ At("call") /\ Executable(Step)
    /\ Does(Step)
    /\ files' = FilesAfter(Step)
    /\ NextStep
    /\ UNCHANGED <<direct, permissions, registry, pending, proposals, missing>>

\* Nothing has been done by then, or something has: a tool may have gone a long
\* way, a file been written in part, and one of several files moved.
CallFails ==
    /\ At("call")
    /\ \/ UNCHANGED <<files, calls, last>>
       \/ Executable(Step) /\ Does(Step) /\ files' \in {files, FilesAfter(Step)}
    /\ EndTurn
    /\ UNCHANGED <<direct, permissions, registry, pending, proposals, missing>>

\* Seeded fault: the policy is not asked.
Retries_Any(a, safe) == turn.attempt < 1

\* Seeded fault: the attempts are not counted.
Retries_Always(a, safe) == safe \/ Policy(a) = "allow"

\* One retry, of a tool that said that it is safe, or of what is allowed.
Retries(a, safe) == turn.attempt < 1 /\ (safe \/ Policy(a) = "allow")

\* The runner gives up on a tool, which is safe to repeat when the manifest
\* lets it change nothing; or the tool itself reports a timeout.
ToolTimesOut ==
    /\ At("call") /\ Step.cap \in Tools /\ Executable(Step)
    /\ Does(Step)
    /\ \E safe \in {FALSE, permissions[Step.cap] = "reads"} :
          IF Retries(Step, safe) THEN turn' = [turn EXCEPT !.attempt = @ + 1]
                                 ELSE EndTurn
    /\ UNCHANGED <<direct, world, registry, pending, proposals, missing>>

-----------------------------------------------------------------------------
Calls == CallSucceeds \/ CallFails \/ ToolTimesOut

\* What the thread of a request does of its own accord.
Proceed == Refuse \/ Prepare \/ Ambiguous \/ Propose \/ Calls

Next ==
    \/ FilesChange \/ BuildAgent
    \/ \E t \in Tools, p \in Permissions : EnableVersion(t, p)
    \/ \E plan \in Plans : Message(plan)
    \/ \E a \in Questions : Clarify(a)
    \/ \E f \in Files : Answer(f)
    \/ Abandon
    \/ \E i \in 1..MaxProposals : Decide(i, "approved") \/ Decide(i, "rejected")
    \/ Proceed \/ ConfirmerYes \/ ConfirmerNo

Spec == Init /\ [][Next]_vars

\* A request goes on as long as it does not wait for the user.
FairSpec == Spec /\ WF_vars(Proceed)

=============================================================================
