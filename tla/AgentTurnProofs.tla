--------------------------- MODULE AgentTurnProofs ---------------------------
(***************************************************************************)
(* For any plans, files, tools and any number of confirmations: what is     *)
(* executed without a yes reads or opens as far as the registry knows, a yes *)
(* is good for one call, and for the action that was shown.                  *)
(***************************************************************************)
EXTENDS AgentClaims, SequenceTheorems, TLAPS

USE AgentAssumption DEF world, history

\* What a turn is with: steps are left, a step that waits for the user has
\* no yes, a call without a yes is one the policy allows; and through the
\* gateway, where the rest of a plan is not kept, a decision is about one
\* action.
TurnOK ==
    turn # None =>
        /\ turn.steps # <<>>
        /\ turn.yes <= Len(proposals)
        /\ turn.at = "ask" => turn.yes = 0
        /\ turn.at # "call" => turn.attempt = 0
        /\ turn.at # "prepare" =>
               Step.cap \in Tools \cup {"open_url"} \/ Step.path # None
        /\ turn.at = "call" /\ turn.yes = 0 => Policy(Step) = "allow"
        /\ ~direct /\ turn.yes = 0 => Len(proposals) < MaxProposals
        /\ ~direct /\ turn.yes # 0 => Len(turn.steps) = 1

\* Action a is what was shown for the i-th confirmation, or goes to a file
\* that is taken for the one that has gone.
Matches(a, i) ==
    LET shown == proposals[i].action IN
    \/ a = shown
    \/ /\ shown.cap = "file.write" /\ a.cap = shown.cap
       /\ i \in missing /\ <<shown.path, a.path>> \in Alike

\* What a turn on the strength of a yes has done, and is about to do.
Serves ==
    turn # None /\ turn.yes # 0 =>
        /\ proposals[turn.yes].status = "approved"
        /\ turn.attempt = 0 => calls[turn.yes] = <<>>
        /\ turn.attempt = 1 =>
               /\ Len(calls[turn.yes]) = 1
               /\ calls[turn.yes][1].effect = "reads" \/ calls[turn.yes][1].stale
        /\ turn.at = "prepare" => Step = proposals[turn.yes].action
        /\ Matches(Step, turn.yes)

IInv ==
    /\ TypeOK /\ TurnOK /\ Serves
    /\ UnaskedReadsOrOpens /\ OneCallPerYes /\ EffectMatchesApproval
-----------------------------------------------------------------------------
\* No turn, no question and no confirmation at first.
LEMMA InitInv == Init => IInv
<1>. SUFFICES ASSUME Init PROVE IInv
  OBVIOUS
<1>1. TypeOK
  BY DEF Init, TypeOK, DynamicPolicy
<1>. QED
  BY <1>1 DEF Init, IInv, TurnOK, Serves, UnaskedReadsOrOpens, OneCallPerYes,
              EffectMatchesApproval

\* The step a turn is at, and those that follow it.
LEMMA StepTyped ==
    ASSUME TypeOK, TurnOK, turn # None
    PROVE  /\ turn \in Turn /\ turn.steps \in Seq(Action) /\ Len(turn.steps) >= 1
           /\ Step \in Action /\ Step = turn.steps[1]
           /\ Tail(turn.steps) \in Seq(Action)
           /\ Len(Tail(turn.steps)) = Len(turn.steps) - 1
           /\ turn.yes \in 0..Len(proposals)
           /\ turn.yes # 0 => proposals[turn.yes] \in Proposal
<1>1. turn \in Turn /\ turn.steps \in Seq(Action) /\ turn.steps # <<>>
  BY DEF TypeOK, TurnOK, Turn
<1>2. turn.yes \in 0..Len(proposals)
  BY <1>1 DEF TurnOK, TypeOK, Turn
<1>. QED BY <1>1, <1>2 DEF Step, TypeOK

\* A turn of typed steps is typed, and begins with the first of them.
LEMMA Started ==
    ASSUME NEW steps \in Seq(Action), steps # <<>>, NEW yes \in 0..MaxProposals,
           Starts(steps, yes)
    PROVE  turn' \in Turn /\ Step' = steps[1]
<1>. QED BY DEF Starts, Turn, Step

\* What a call adds to the calls of its confirmation.
LEMMA Done ==
    ASSUME TypeOK, TurnOK, turn # None, Executable(Step), Does(Step)
    PROVE  /\ last' = [action |-> Step, yes |-> turn.yes,
                       effect |-> Effect(Step), stale |-> Stale(Step)]
           /\ Effect(Step) \in Effects /\ Stale(Step) \in BOOLEAN
           /\ calls' \in Seq(Seq(Call)) /\ Len(calls') = Len(calls)
           /\ \A i \in 1..Len(calls) : i # turn.yes => calls'[i] = calls[i]
           /\ turn.yes # 0 =>
                 /\ Len(calls'[turn.yes]) = Len(calls[turn.yes]) + 1
                 /\ calls[turn.yes] = <<>> => calls'[turn.yes][1] =
                        [effect |-> Effect(Step), stale |-> Stale(Step)]
                 /\ calls[turn.yes] # <<>> =>
                        calls'[turn.yes][1] = calls[turn.yes][1]
<1>1. Step \in Action /\ turn.yes \in 0..Len(calls)
  BY StepTyped DEF TypeOK
<1>2. Effect(Step) \in Effects /\ Stale(Step) \in BOOLEAN
  BY <1>1 DEF Effect, Effects, Stale, Executable, TypeOK, Permissions
<1> DEFINE c == [effect |-> Effect(Step), stale |-> Stale(Step)]
<1>3. c \in Call
  BY <1>2 DEF Call
<1>4. CASE turn.yes = 0
  BY <1>1, <1>2, <1>4 DEF Does, TypeOK
<1>5. CASE turn.yes # 0
  <2>1. calls \in Seq(Seq(Call)) /\ turn.yes \in 1..Len(calls)
        /\ calls[turn.yes] \in Seq(Call)
    BY <1>1, <1>5 DEF TypeOK
  <2>2. calls' = [calls EXCEPT ![turn.yes] = Append(calls[turn.yes], c)]
    BY <1>5 DEF Does
  <2> HIDE DEF c
  <2> DEFINE more == Append(calls[turn.yes], c)
  <2>3. /\ more \in Seq(Call) /\ Len(more) = Len(calls[turn.yes]) + 1
        /\ calls[turn.yes] = <<>> => more[1] = c
        /\ calls[turn.yes] # <<>> => more[1] = calls[turn.yes][1]
    BY <1>3, <2>1
  <2> HIDE DEF more
  <2>4. /\ calls' \in Seq(Seq(Call)) /\ Len(calls') = Len(calls)
        /\ calls'[turn.yes] = more
        /\ \A i \in 1..Len(calls) : i # turn.yes => calls'[i] = calls[i]
    BY <2>1, <2>2, <2>3 DEF more
  <2>5. last' = [action |-> Step, yes |-> turn.yes,
                 effect |-> Effect(Step), stale |-> Stale(Step)]
    BY DEF Does
  <2>. QED BY <1>2, <1>5, <2>3, <2>4, <2>5 DEF c
<1>. QED BY <1>4, <1>5

\* A confirmation asked for is added after those there were.
LEMMA Asked ==
    ASSUME TypeOK, NEW p \in Proposal,
           proposals' = Append(proposals, p), calls' = Append(calls, <<>>)
    PROVE  /\ proposals' \in Seq(Proposal) /\ Len(proposals') = Len(proposals) + 1
           /\ calls' \in Seq(Seq(Call)) /\ Len(calls') = Len(proposals')
           /\ \A i \in 1..Len(proposals) :
                  proposals'[i] = proposals[i] /\ calls'[i] = calls[i]
           /\ proposals'[Len(proposals')] = p /\ calls'[Len(proposals')] = <<>>
<1>1. proposals \in Seq(Proposal) /\ calls \in Seq(Seq(Call))
      /\ Len(calls) = Len(proposals)
  BY DEF TypeOK
<1>2. <<>> \in Seq(Call)
  OBVIOUS
<1>. QED BY <1>1, <1>2

\* What was executed stays what was shown: a confirmation keeps its action and,
\* once approved, its status.
LEMMA ClaimsKept ==
    ASSUME IInv, UNCHANGED <<last, calls>>, missing \subseteq missing',
           DOMAIN proposals' = DOMAIN proposals,
           \A i \in DOMAIN proposals :
               /\ proposals'[i].action = proposals[i].action
               /\ proposals[i].status = "approved" => proposals'[i].status = "approved"
    PROVE  UnaskedReadsOrOpens' /\ OneCallPerYes' /\ EffectMatchesApproval'
<1>1. UnaskedReadsOrOpens'
  BY DEF IInv, UnaskedReadsOrOpens
<1>2. OneCallPerYes'
  BY DEF IInv, OneCallPerYes
<1>3. EffectMatchesApproval'
  <2>. SUFFICES ASSUME last # None, last.yes # 0 PROVE EffectMatchesApproval'
    BY DEF EffectMatchesApproval
  <2>1. last.yes \in DOMAIN proposals
    BY DEF IInv, TypeOK
  <2>. QED BY <2>1 DEF IInv, EffectMatchesApproval
<1>. QED BY <1>1, <1>2, <1>3

\* Files, versions of tools and the registry change between the turns or
\* around them.
LEMMA WorldStep ==
    ASSUME IInv, \/ FilesChange \/ BuildAgent
                 \/ \E t \in Tools, p \in Permissions : EnableVersion(t, p)
    PROVE  IInv'
<1>1. UNCHANGED <<direct, turn, pending, proposals, calls, missing, last>>
      /\ (turn # None => UNCHANGED registry)
  BY DEF FilesChange, BuildAgent, EnableVersion
<1>2. TypeOK'
  <2>1. /\ files' \subseteq Files /\ permissions' \in [Tools -> Permissions]
        /\ registry' \in [Tools -> {"unknown", "allow", "confirm"}]
    <3>1. CASE FilesChange
      BY <3>1 DEF FilesChange, IInv, TypeOK
    <3>2. CASE BuildAgent
      BY <3>2 DEF BuildAgent, IInv, TypeOK, DynamicPolicy
    <3>3. ASSUME NEW t \in Tools, NEW p \in Permissions, EnableVersion(t, p)
          PROVE  /\ files' \subseteq Files /\ permissions' \in [Tools -> Permissions]
                 /\ registry' \in [Tools -> {"unknown", "allow", "confirm"}]
      BY <3>3 DEF EnableVersion, IInv, TypeOK
    <3>. QED BY <3>1, <3>2, <3>3
  <2>. QED BY <1>1, <2>1 DEF IInv, TypeOK
<1>3. TurnOK'
  BY <1>1 DEF IInv, TurnOK, Policy, Step
<1>4. Serves'
  BY <1>1 DEF IInv, Serves, Matches, Step
<1>. QED BY <1>1, <1>2, <1>3, <1>4, ClaimsKept DEF IInv

\* A message begins a turn of its own, asks a question or drops one.
LEMMA MessageStep ==
    ASSUME IInv,
           \/ \E plan \in Plans : Message(plan)
           \/ \E a \in Questions : Clarify(a)
           \/ \E f \in Files : Answer(f)
           \/ Abandon
    PROVE  IInv'
<1>1. UNCHANGED <<direct, files, permissions, registry, proposals, calls, missing, last>>
  BY DEF Message, Clarify, Answer, Abandon
<1>2. pending' \in Action \cup {None}
  BY DEF Message, Clarify, Answer, Abandon
<1>3. CASE UNCHANGED turn /\ turn = None
  <2>1. TypeOK' /\ TurnOK' /\ Serves'
    BY <1>1, <1>2, <1>3 DEF IInv, TypeOK, TurnOK, Serves
  <2>. QED BY <1>1, <2>1, ClaimsKept DEF IInv
<1>4. ASSUME NEW steps \in Seq(Action), steps # <<>>, Starts(steps, 0),
             Len(proposals) < MaxProposals
      PROVE  IInv'
  <2>1. turn' \in Turn
    BY <1>4, Started
  <2>2. TypeOK'
    BY <1>1, <1>2, <2>1 DEF IInv, TypeOK
  <2>3. turn'.steps # <<>> /\ turn'.yes = 0 /\ turn'.at = "prepare" /\ turn'.attempt = 0
    BY <1>4 DEF Starts
  <2>4. TurnOK' /\ Serves'
    BY <1>1, <1>4, <2>3 DEF TurnOK, Serves, IInv, TypeOK
  <2>. QED BY <1>1, <2>2, <2>4, ClaimsKept DEF IInv
<1>5. ASSUME NEW plan \in Plans, Message(plan) PROVE IInv'
  BY <1>4, <1>5 DEF Message
<1>6. ASSUME NEW f \in Files, Answer(f) PROVE IInv'
  <2>1. [pending EXCEPT !.path = f] \in Action
    BY <1>6 DEF Answer, IInv, TypeOK, Action
  <2> DEFINE steps == <<[pending EXCEPT !.path = f]>>
  <2>2. steps \in Seq(Action) /\ steps # <<>>
    BY <2>1
  <2>3. Starts(steps, 0) /\ Len(proposals) < MaxProposals
    BY <1>6 DEF Answer
  <2> HIDE DEF steps
  <2>. QED BY <1>4, <2>2, <2>3
<1>. QED BY <1>3, <1>5, <1>6 DEF Clarify, Abandon

\* A decision is about a confirmation that has none, hence no call.
LEMMA DecideStep ==
    ASSUME IInv, NEW i \in 1..MaxProposals, NEW status \in {"approved", "rejected"},
           Decide(i, status)
    PROVE  IInv'
<1>1. UNCHANGED <<direct, files, permissions, registry, pending, calls, missing, last>>
      /\ turn = None /\ i \in 1..Len(proposals)
  BY DEF Decide, IInv, TypeOK
<1>2. /\ proposals' \in Seq(Proposal) /\ Len(proposals') = Len(proposals)
      /\ \A j \in 1..Len(proposals) : proposals'[j].action = proposals[j].action
      /\ \A j \in 1..Len(proposals) : j # i => proposals'[j] = proposals[j]
      /\ proposals'[i].status = status /\ proposals[i].status = "pending"
      /\ proposals[i].action \in Action
  <2> DEFINE r == [proposals[i] EXCEPT !.status = status]
  <2>1. proposals \in Seq(Proposal) /\ proposals[i] \in Proposal
    BY <1>1 DEF IInv, TypeOK
  <2>2. /\ r \in Proposal /\ r.action = proposals[i].action /\ r.status = status
        /\ proposals[i].action \in Action
    BY <2>1 DEF Proposal
  <2>3. proposals' = [proposals EXCEPT ![i] = r] /\ proposals[i].status = "pending"
    BY DEF Decide
  <2> HIDE DEF r
  <2>. QED BY <1>1, <2>1, <2>2, <2>3
<1>3. calls[i] = <<>>
  BY <1>1, <1>2 DEF IInv, OneCallPerYes
<1>4. CASE status = "approved"
  <2> DEFINE steps == <<proposals[i].action>>
  <2>1. steps \in Seq(Action) /\ steps # <<>> /\ Len(steps) = 1
        /\ steps[1] = proposals[i].action
    BY <1>2
  <2>2. Starts(steps, i)
    BY <1>4 DEF Decide
  <2> HIDE DEF steps
  <2>3. turn' \in Turn /\ Step' = proposals'[i].action
    BY <1>1, <1>2, <2>1, <2>2, Started
  <2>4. turn'.steps = steps /\ turn'.yes = i /\ turn'.at = "prepare" /\ turn'.attempt = 0
    BY <2>2 DEF Starts
  <2>5. TypeOK'
    BY <1>1, <1>2, <2>3 DEF IInv, TypeOK
  <2>6. TurnOK'
    BY <1>1, <1>2, <2>1, <2>4 DEF TurnOK
  <2>7. Serves'
    BY <1>1, <1>2, <1>3, <1>4, <2>3, <2>4 DEF Serves, Matches
  <2>. QED BY <1>1, <1>2, <2>5, <2>6, <2>7, ClaimsKept DEF IInv
<1>5. CASE status # "approved"
  <2>1. UNCHANGED turn
    BY <1>5 DEF Decide
  <2>2. TypeOK' /\ TurnOK' /\ Serves'
    BY <1>1, <1>2, <2>1 DEF IInv, TypeOK, TurnOK, Serves
  <2>. QED BY <1>1, <1>2, <2>2, ClaimsKept DEF IInv
<1>. QED BY <1>4, <1>5

\* A turn that ends leaves nothing behind, an open question at most.
LEMMA EndStep == ASSUME IInv, Refuse \/ Ambiguous \/ ConfirmerNo PROVE IInv'
<1>1. UNCHANGED <<direct, files, permissions, registry, proposals, calls, missing, last>>
      /\ turn' = None /\ turn # None
  BY DEF Refuse, Ambiguous, ConfirmerNo, EndTurn, At
<1>2. pending' \in Action \cup {None}
  BY <1>1, StepTyped DEF Refuse, Ambiguous, ConfirmerNo, IInv, TypeOK
<1>3. TypeOK' /\ TurnOK' /\ Serves'
  BY <1>1, <1>2 DEF IInv, TypeOK, TurnOK, Serves
<1>. QED BY <1>1, <1>3, ClaimsKept DEF IInv

\* Preparing resolves the path; only a file.write whose file has gone gets
\* another one.
LEMMA PrepareStep == ASSUME IInv, Prepare PROVE IInv'
<1>1. /\ turn # None /\ turn.at = "prepare" /\ Valid(Step)
      /\ UNCHANGED <<direct, files, permissions, registry, pending, proposals, calls, last>>
  BY DEF Prepare, At
<1>2. /\ turn \in Turn /\ turn.steps \in Seq(Action) /\ Len(turn.steps) >= 1
      /\ Step \in Action /\ Tail(turn.steps) \in Seq(Action)
      /\ Len(Tail(turn.steps)) = Len(turn.steps) - 1
      /\ turn.yes \in 0..Len(proposals)
  BY <1>1, StepTyped DEF IInv
<1>3. PICK f \in Resolve(Step) :
        turn' = [turn EXCEPT
                    !.steps = <<[Step EXCEPT !.path = f]>> \o Tail(@),
                    !.at = IF Policy(Step) = "allow" \/ turn.yes # 0
                           THEN "call" ELSE "ask"]
  BY DEF Prepare
<1>4. f \in Files \cup {None}
      /\ (f # Step.path => /\ Step.cap = "file.write" /\ Step.path \notin files
                           /\ <<Step.path, f>> \in Alike)
  BY <1>2 DEF Resolve, Action, IInv, TypeOK
<1> DEFINE a == [Step EXCEPT !.path = f]
           steps == <<a>> \o Tail(turn.steps)
           at == IF Policy(Step) = "allow" \/ turn.yes # 0 THEN "call" ELSE "ask"
<1>5. a \in Action /\ a.cap = Step.cap /\ a.path = f /\ (f = Step.path => a = Step)
  BY <1>2, <1>4 DEF Action
<1>6. turn' = [turn EXCEPT !.steps = steps, !.at = at]
  BY <1>3
<1> HIDE DEF a
<1>7. steps \in Seq(Action) /\ steps # <<>> /\ Len(steps) = Len(turn.steps) /\ steps[1] = a
  BY <1>2, <1>5
<1>8. at \in {"call", "ask"} /\ (at = "ask" => turn.yes = 0)
      /\ (at = "call" /\ turn.yes = 0 => Policy(Step) = "allow")
  OBVIOUS
<1> HIDE DEF steps, at
<1>9. /\ turn' \in Turn /\ turn'.steps = steps /\ turn'.at = at
      /\ turn'.yes = turn.yes /\ turn'.attempt = turn.attempt /\ Step' = a
  <2>1. turn' = [steps |-> steps, at |-> at, yes |-> turn.yes, attempt |-> turn.attempt]
    BY <1>2, <1>6 DEF Turn
  <2>2. turn.yes \in 0..MaxProposals /\ turn.attempt \in 0..1
    BY <1>2 DEF Turn
  <2>3. turn' \in Turn
    BY <1>7, <1>8, <2>1, <2>2 DEF Turn
  <2>4. Step' = a
    BY <1>7, <2>1 DEF Step
  <2>. QED BY <2>1, <2>3, <2>4
<1>11. missing \subseteq missing' /\ missing' \subseteq 1..Len(proposals)
  BY <1>2 DEF Prepare, NoteMissing, IInv, TypeOK
<1>12. TypeOK'
  BY <1>1, <1>9, <1>11 DEF IInv, TypeOK
<1>13. TurnOK'
  <2>1. turn'.attempt = 0
    BY <1>1, <1>9 DEF IInv, TurnOK
  <2>2. Policy(Step)' = Policy(Step)
    BY <1>1, <1>5, <1>9 DEF Policy
  <2>3. a.cap \in Tools \cup {"open_url"} \/ a.path # None
    BY <1>1, <1>4, <1>5 DEF Valid
  <2>. QED BY <1>1, <1>2, <1>7, <1>8, <1>9, <2>1, <2>2, <2>3 DEF IInv, TurnOK
<1>14. Serves'
  <2>. SUFFICES ASSUME turn.yes # 0 PROVE Serves'
    BY <1>9 DEF Serves
  <2>1. /\ proposals[turn.yes].status = "approved" /\ turn.attempt = 0
        /\ calls[turn.yes] = <<>> /\ Step = proposals[turn.yes].action
    BY <1>1 DEF IInv, Serves, TurnOK
  <2>2. f # Step.path => turn.yes \in missing'
    BY <1>4 DEF Prepare, NoteMissing
  <2>3. Matches(Step, turn.yes)'
    BY <1>1, <1>4, <1>5, <1>9, <2>1, <2>2 DEF Matches
  <2>4. turn'.at = "call"
    BY <1>8, <1>9
  <2>. QED BY <1>1, <1>9, <2>1, <2>3, <2>4 DEF Serves
<1>. QED BY <1>1, <1>11, <1>12, <1>13, <1>14, ClaimsKept DEF IInv

\* A confirmation that is asked for keeps what was said of the others.
LEMMA AskedClaims ==
    ASSUME IInv, UNCHANGED <<last, missing>>,
           proposals' \in Seq(Proposal), Len(proposals') = Len(proposals) + 1,
           \A i \in 1..Len(proposals) :
               proposals'[i] = proposals[i] /\ calls'[i] = calls[i],
           calls'[Len(proposals')] = <<>>
    PROVE  UnaskedReadsOrOpens' /\ OneCallPerYes' /\ EffectMatchesApproval'
<1>1. UnaskedReadsOrOpens'
  BY DEF IInv, UnaskedReadsOrOpens
<1>2. OneCallPerYes'
  <2>. SUFFICES ASSUME NEW i \in 1..Len(proposals')
                PROVE  /\ calls'[i] # <<>> => proposals'[i].status = "approved"
                       /\ Len(calls'[i]) <= 2
                       /\ Len(calls'[i]) = 2 =>
                              calls'[i][1].effect = "reads" \/ calls'[i][1].stale
    BY DEF OneCallPerYes
  <2>1. CASE i = Len(proposals')
    BY <2>1
  <2>2. CASE i # Len(proposals')
    <3>1. i \in 1..Len(proposals)
      BY <2>2 DEF IInv, TypeOK
    <3>. QED BY <3>1 DEF IInv, OneCallPerYes, TypeOK
  <2>. QED BY <2>1, <2>2
<1>3. EffectMatchesApproval'
  <2>. SUFFICES ASSUME last # None, last.yes # 0 PROVE EffectMatchesApproval'
    BY DEF EffectMatchesApproval
  <2>1. last.yes \in 1..Len(proposals)
    BY DEF IInv, TypeOK
  <2>. QED BY <2>1 DEF IInv, EffectMatchesApproval
<1>. QED BY <1>1, <1>2, <1>3

\* Through the gateway a confirmation is asked for and the turn ends.
LEMMA ProposeStep == ASSUME IInv, Propose PROVE IInv'
<1>1. /\ turn # None /\ turn.at = "ask" /\ ~direct /\ turn' = None
      /\ UNCHANGED <<direct, files, permissions, registry, pending, missing, last>>
  BY DEF Propose, At, EndTurn
<1> DEFINE p == [action |-> Step, status |-> "pending"]
<1>2. p \in Proposal /\ p.status = "pending"
  BY <1>1, StepTyped DEF IInv, Proposal
<1>3. proposals' = Append(proposals, p) /\ calls' = Append(calls, <<>>)
  BY DEF Propose
<1> HIDE DEF p
<1>4. /\ proposals' \in Seq(Proposal) /\ Len(proposals') = Len(proposals) + 1
      /\ calls' \in Seq(Seq(Call)) /\ Len(calls') = Len(proposals')
      /\ \A i \in 1..Len(proposals) :
             proposals'[i] = proposals[i] /\ calls'[i] = calls[i]
      /\ calls'[Len(proposals')] = <<>>
  BY <1>2, <1>3, Asked DEF IInv
<1>5. Len(proposals) < MaxProposals
  BY <1>1 DEF IInv, TurnOK
<1>6. TypeOK' /\ TurnOK' /\ Serves'
  BY <1>1, <1>4, <1>5 DEF IInv, TypeOK, TurnOK, Serves
<1>7. UnaskedReadsOrOpens' /\ OneCallPerYes' /\ EffectMatchesApproval'
  BY <1>1, <1>4, AskedClaims DEF IInv
<1>. QED BY <1>6, <1>7 DEF IInv

\* At the terminal the user says yes and the turn goes on.
LEMMA ConfirmerYesStep == ASSUME IInv, ConfirmerYes PROVE IInv'
<1>1. /\ turn # None /\ turn.at = "ask" /\ direct /\ Len(proposals) < MaxProposals
      /\ UNCHANGED <<direct, files, permissions, registry, pending, missing, last>>
  BY DEF ConfirmerYes, At
<1> DEFINE p == [action |-> Step, status |-> "approved"]
<1>2. p \in Proposal /\ p.status = "approved" /\ p.action = Step
  BY <1>1, StepTyped DEF IInv, Proposal
<1>3. proposals' = Append(proposals, p) /\ calls' = Append(calls, <<>>)
  BY DEF ConfirmerYes
<1> HIDE DEF p
<1>4. /\ proposals' \in Seq(Proposal) /\ Len(proposals') = Len(proposals) + 1
      /\ calls' \in Seq(Seq(Call)) /\ Len(calls') = Len(proposals')
      /\ \A i \in 1..Len(proposals) :
             proposals'[i] = proposals[i] /\ calls'[i] = calls[i]
      /\ proposals'[Len(proposals')] = p /\ calls'[Len(proposals')] = <<>>
  BY <1>2, <1>3, Asked DEF IInv
<1>5. turn \in Turn /\ turn.steps # <<>> /\ turn.attempt = 0
  BY <1>1, StepTyped DEF IInv, TurnOK
<1>6. turn' = [turn EXCEPT !.at = "call", !.yes = Len(proposals')]
  BY <1>4 DEF ConfirmerYes
<1>7. /\ turn' \in Turn /\ turn'.steps = turn.steps /\ turn'.at = "call"
      /\ turn'.yes = Len(proposals') /\ turn'.attempt = 0
  <2>1. turn' = [steps |-> turn.steps, at |-> "call", yes |-> Len(proposals'),
                attempt |-> turn.attempt]
    BY <1>5, <1>6 DEF Turn
  <2>2. Len(proposals') \in 0..MaxProposals
    BY <1>1, <1>4 DEF IInv, TypeOK
  <2>. QED BY <1>5, <2>1, <2>2 DEF Turn
<1>8. Step' = Step
  BY <1>7 DEF Step
<1>9. TypeOK'
  BY <1>1, <1>4, <1>7 DEF IInv, TypeOK
<1>10. TurnOK'
  BY <1>1, <1>4, <1>5, <1>7, <1>8 DEF TurnOK, IInv, TypeOK
<1>11. Serves'
  BY <1>2, <1>4, <1>7, <1>8 DEF Serves, Matches
<1>12. UnaskedReadsOrOpens' /\ OneCallPerYes' /\ EffectMatchesApproval'
  BY <1>1, <1>4, AskedClaims DEF IInv
<1>. QED BY <1>9, <1>10, <1>11, <1>12 DEF IInv

\* What the policy allows changes nothing, unless the registry is out of date;
\* and only the agent's own actions start a program.
LEMMA AllowedReads ==
    ASSUME TypeOK, NEW a \in Action, Policy(a) = "allow", Executable(a)
    PROVE  \/ Effect(a) = "reads" \/ Stale(a)
           \/ Effect(a) = "launches" /\ a.cap \in Launchers /\ a.cap \notin Tools
<1>1. CASE a.cap \in Tools
  BY <1>1 DEF Policy, Effect, Stale, Executable, DynamicPolicy, TypeOK, Permissions
<1>2. CASE a.cap \notin Tools
  BY <1>2 DEF Policy, Effect, Unasked
<1>. QED BY <1>1, <1>2

\* A call keeps the claims: it is allowed or serves its confirmation, once, or
\* again after a call that changed nothing.
LEMMA DoesClaims ==
    ASSUME IInv, turn # None, turn.at = "call", Executable(Step), Does(Step),
           UNCHANGED <<proposals, missing>>
    PROVE  UnaskedReadsOrOpens' /\ OneCallPerYes' /\ EffectMatchesApproval'
<1>1. Step \in Action /\ turn.yes \in 0..Len(proposals) /\ turn.attempt \in 0..1
  BY StepTyped DEF IInv, Turn
<1>2. UnaskedReadsOrOpens'
  <2>. SUFFICES ASSUME turn.yes = 0
                PROVE  \/ Effect(Step) = "reads" \/ Stale(Step)
                       \/ Effect(Step) = "launches" /\ Step.cap \in Launchers
    BY Done DEF IInv, UnaskedReadsOrOpens
  <2>. QED BY <1>1, AllowedReads DEF IInv, TurnOK
<1>3. OneCallPerYes'
  <2>. SUFFICES ASSUME NEW i \in DOMAIN proposals
                PROVE  /\ calls'[i] # <<>> => proposals[i].status = "approved"
                       /\ Len(calls'[i]) <= 2
                       /\ Len(calls'[i]) = 2 =>
                              calls'[i][1].effect = "reads" \/ calls'[i][1].stale
    BY DEF OneCallPerYes
  <2>1. i \in 1..Len(calls)
    BY DEF IInv, TypeOK
  <2>2. CASE i # turn.yes
    BY <2>1, <2>2, Done DEF IInv, OneCallPerYes
  <2>3. CASE i = turn.yes /\ turn.attempt = 0
    <3>1. turn.yes # 0 /\ calls[i] = <<>> /\ proposals[i].status = "approved"
      BY <2>1, <2>3 DEF IInv, Serves
    <3>2. Len(calls'[i]) = 1
      BY <2>3, <3>1, Done DEF IInv
    <3>. QED BY <3>1, <3>2
  <2>4. CASE i = turn.yes /\ turn.attempt = 1
    <3>1. /\ turn.yes # 0 /\ Len(calls[i]) = 1 /\ proposals[i].status = "approved"
          /\ calls[i][1].effect = "reads" \/ calls[i][1].stale
      BY <2>1, <2>4 DEF IInv, Serves
    <3>2. calls[i] # <<>>
      BY <3>1
    <3>3. Len(calls'[i]) = 2 /\ calls'[i][1] = calls[i][1]
      BY <2>4, <3>1, <3>2, Done DEF IInv
    <3>. QED BY <3>1, <3>3
  <2>. QED BY <1>1, <2>2, <2>3, <2>4
<1>4. EffectMatchesApproval'
  <2>. SUFFICES ASSUME turn.yes # 0 PROVE EffectMatchesApproval'
    BY Done DEF IInv, EffectMatchesApproval
  <2>1. last'.action = Step /\ last'.yes = turn.yes /\ Matches(Step, turn.yes)
    BY Done DEF IInv, Serves
  <2>. QED BY <2>1 DEF Matches, EffectMatchesApproval
<1>. QED BY <1>2, <1>3, <1>4

\* A call, with the end of the turn, the next step or a retry after it.
LEMMA CallStep == ASSUME IInv, Calls PROVE IInv'
<1>1. /\ turn # None /\ turn.at = "call"
      /\ UNCHANGED <<direct, permissions, registry, pending, proposals, missing>>
  BY DEF Calls, CallSucceeds, CallFails, ToolTimesOut, At
<1>2. /\ turn \in Turn /\ turn.steps \in Seq(Action) /\ Len(turn.steps) >= 1
      /\ Step \in Action /\ Tail(turn.steps) \in Seq(Action)
      /\ Len(Tail(turn.steps)) = Len(turn.steps) - 1
      /\ turn.yes \in 0..Len(proposals) /\ turn.attempt \in 0..1
  BY <1>1, StepTyped DEF IInv, Turn
<1>3. files' \subseteq Files
  <2>1. Step.cap = "file.create" => Step.path \in Files
    BY <1>1, <1>2 DEF IInv, TurnOK, Action, BuiltIn
  <2>2. FilesAfter(Step) \subseteq Files
    BY <2>1 DEF FilesAfter, IInv, TypeOK
  <2>. QED BY <2>2 DEF Calls, CallSucceeds, CallFails, ToolTimesOut, IInv, TypeOK
<1>4. CASE CallFails /\ UNCHANGED <<calls, last>>
  <2>1. turn' = None
    BY <1>4 DEF CallFails, EndTurn
  <2>2. TypeOK' /\ TurnOK' /\ Serves'
    BY <1>1, <1>3, <1>4, <2>1 DEF IInv, TypeOK, TurnOK, Serves
  <2>. QED BY <1>1, <1>4, <2>2, ClaimsKept DEF IInv
<1>5. CASE Executable(Step) /\ Does(Step)
  <2>1. UnaskedReadsOrOpens' /\ OneCallPerYes' /\ EffectMatchesApproval'
    BY <1>1, <1>5, DoesClaims
  <2>2. /\ calls' \in Seq(Seq(Call)) /\ Len(calls') = Len(proposals')
        /\ last' \in [action : Action, yes : 0..Len(proposals'),
                      effect : Effects, stale : BOOLEAN]
    BY <1>1, <1>2, <1>5, Done DEF IInv, TypeOK
  <2>3. ASSUME turn' = None \/ turn' \in Turn PROVE TypeOK'
    BY <1>1, <1>3, <2>2, <2>3 DEF IInv, TypeOK
  <2>4. CASE turn' = None
    BY <2>1, <2>3, <2>4 DEF IInv, TurnOK, Serves
  <2>5. CASE Len(turn.steps) # 1 /\ Starts(Tail(turn.steps), 0)
    <3> DEFINE rest == Tail(turn.steps)
    <3>1. rest \in Seq(Action) /\ Len(rest) = Len(turn.steps) - 1 /\ Starts(rest, 0)
      BY <1>2, <2>5
    <3>6. Len(turn.steps) \in Nat /\ 0 \in 0..MaxProposals
      BY <1>2
    <3> HIDE DEF rest
    <3>7. Len(turn.steps) - 1 # 0
      <4> DEFINE n == Len(turn.steps)
      <4>1. n \in Nat
        BY <3>6
      <4>2. n # 1
        BY <2>5
      <4> HIDE DEF n
      <4>3. n - 1 # 0
        BY <4>1, <4>2
      <4>. QED BY <4>3 DEF n
    <3>5. rest # <<>>
      BY <3>1, <3>7, EmptySeq
    <3>2. /\ turn' \in Turn /\ turn'.steps # <<>> /\ turn'.yes = 0
          /\ turn'.at = "prepare" /\ turn'.attempt = 0
      BY <3>1, <3>5, <3>6, Started DEF Starts
    <3>3. ~direct => Len(proposals) < MaxProposals
      BY <1>1, <1>2, <2>5 DEF IInv, TurnOK
    <3>4. TurnOK' /\ Serves'
      BY <1>1, <1>2, <3>2, <3>3 DEF TurnOK, Serves
    <3>. QED BY <2>1, <2>3, <3>2, <3>4 DEF IInv
  <2>6. ASSUME NEW safe \in {FALSE, permissions[Step.cap] = "reads"}, ToolTimesOut,
               Retries(Step, safe), turn' = [turn EXCEPT !.attempt = @ + 1]
        PROVE  IInv'
    <3>1. /\ turn.attempt = 0 /\ turn' \in Turn /\ turn'.steps = turn.steps
          /\ turn'.at = "call" /\ turn'.yes = turn.yes /\ turn'.attempt = 1
      BY <1>1, <1>2, <2>6 DEF Retries, Turn
    <3>2. Step' = Step /\ Policy(Step)' = Policy(Step)
      BY <1>1, <3>1 DEF Step, Policy
    <3>3. TurnOK'
      BY <1>1, <3>1, <3>2 DEF IInv, TurnOK
    <3>4. Effect(Step) = "reads" \/ Stale(Step)
      <4>1. Step.cap \in Tools
        BY <2>6 DEF ToolTimesOut
      <4>2. CASE permissions[Step.cap] = "reads"
        BY <4>1, <4>2 DEF Effect
      <4>3. CASE Policy(Step) = "allow"
        BY <1>2, <1>5, <4>1, <4>3, AllowedReads DEF IInv
      <4>. QED BY <2>6, <4>2, <4>3 DEF Retries
    <3>5. Serves'
      <4>. SUFFICES ASSUME turn.yes # 0 PROVE Serves'
        BY <3>1 DEF Serves
      <4>1. /\ proposals[turn.yes].status = "approved" /\ calls[turn.yes] = <<>>
            /\ Matches(Step, turn.yes)
        BY <1>1, <3>1 DEF IInv, Serves
      <4>2. /\ Len(calls'[turn.yes]) = 1
            /\ calls'[turn.yes][1] = [effect |-> Effect(Step), stale |-> Stale(Step)]
        BY <1>1, <1>5, <4>1, Done DEF IInv
      <4>3. Matches(Step, turn.yes)'
        BY <1>1, <3>1, <3>2, <4>1 DEF Matches
      <4>. QED BY <1>1, <3>1, <3>4, <4>1, <4>2, <4>3 DEF Serves
    <3>. QED BY <2>1, <2>3, <3>1, <3>3, <3>5 DEF IInv
  <2>. QED
    BY <1>5, <2>4, <2>5, <2>6 DEF Calls, CallSucceeds, CallFails, ToolTimesOut, NextStep,
                             EndTurn
<1>. QED
  BY <1>4, <1>5 DEF Calls, CallSucceeds, CallFails, ToolTimesOut
-----------------------------------------------------------------------------
\* Every step keeps the invariant.
LEMMA Inductive == IInv /\ [Next]_vars => IInv'
<1>. SUFFICES ASSUME IInv, [Next]_vars PROVE IInv'
  OBVIOUS
<1>1. CASE UNCHANGED vars
  <2>1. TypeOK' /\ TurnOK' /\ Serves'
    BY <1>1 DEF vars, IInv, TypeOK, TurnOK, Serves, Matches, Policy, Step
  <2>. QED BY <1>1, <2>1, ClaimsKept DEF vars, IInv
<1>. QED
  BY <1>1, WorldStep, MessageStep, DecideStep, EndStep, PrepareStep, ProposeStep,
     ConfirmerYesStep, CallStep
     DEF Next, Proceed

\* The invariant holds in every state that is reached.
LEMMA Invariant == Spec => []IInv
  BY InitInv, Inductive, PTL DEF Spec

\* Turns, confirmations and calls keep their types for any plans, files and
\* tools.
THEOREM TypeCorrect == Spec => []TypeOK
  BY Invariant, PTL DEF IInv

\* Whichever way an action came, planned, repeated, answered to a question or
\* left over in a plan: without a yes, an agent whose registry is up to date
\* only reads, or opens a file, an application or a page by the actions of its
\* own that the registry allows.
THEOREM UnaskedReadsOpens == Spec => []UnaskedReadsOrOpens
  BY Invariant, PTL DEF IInv

\* A yes leads to one call, or to a second after one that could change nothing
\* as far as the registry knew.
THEOREM YesIsForOneCall == Spec => []OneCallPerYes
  BY Invariant, PTL DEF IInv

\* What is executed on a yes is what was shown, except that a file.write whose
\* file has gone may go to one with a similar name.
THEOREM CallMatchesYes == Spec => []EffectMatchesApproval
  BY Invariant, PTL DEF IInv
=============================================================================
