------------------------------ MODULE Dialogue ------------------------------
(***************************************************************************)
(* From what the user says to the action that is prepared: the questions    *)
(* Argos asks in between, and what counts as an answer to them.             *)
(*                                                                          *)
(*   agent.py                      one turn, from the guard to the plan     *)
(*   intent/no_execution_guard.py, intent/pending_resolver.py               *)
(*                                 what a message is to an open question    *)
(*   planner.py, intent/router.py  plans, and answers to open questions     *)
(*   gateway/service.py            the session is saved after the turn      *)
(*                                                                          *)
(* A question may have others behind it about the same action: a chain.  A  *)
(* chain is answered over several messages, between which the gateway may   *)
(* restart.  Preparing an action (module AgentTurn) may ask for a path.     *)
(*                                                                          *)
(* A message is a record of what the code looks for in its text.  The lock  *)
(* of the session (module GatewaySession) admits one turn at a time; the    *)
(* calls of the capability workflow take no lock and run beside it.  Here   *)
(* they come one at a time, looking for the agent and loading its row are   *)
(* one step, and so are a snapshot of the memory and what precedes it.      *)
(***************************************************************************)
EXTENDS Naturals, Sequences, SequencesExt

CONSTANTS
    Texts,      \* the messages
    Ids,        \* ids of options
    Chains,     \* the chains of questions the model may plan
    Matches,    \* the lists of files a path may stand for
    MaxChains,  \* bound: chains begun
    MaxBreaks,  \* bound: restarts, and calls of the capability workflow
    MaxBeside,  \* bound: turns beside one such call
    Nil         \* no question, no message, no action, no option

Fields == {"path", "write_mode", "scheduled_for", "other", "missing", "nothing"}

\* "missing": the model's question names no field; "nothing": it is no object.
\* acts: its action has a capability and arguments, which only the first
\* question of a chain may lack.
Question == [field : Fields, options : Seq(Ids), free : BOOLEAN, acts : BOOLEAN]

\* marks   what the text as a whole is, or contains
\* number  the number it consists of, or 0
\* only    the option it names and nothing else, or Nil
\* ordinal the position a word in it points at ("segundo"), or 0
\* names   the options whose label, synonym or file name is in it
\* routed  what the router and the heuristics make of it
Marks == {"no_execution", "help", "cancel", "forget", "reset", "new_action",
          "starts_new", "path", "looks_new", "time", "asks"}
Routes == {"none", "action", "answer", "edit", "reminder"}
Text == [marks : SUBSET Marks, number : Nat, ordinal : Nat,
         only : Ids \cup {Nil}, names : SUBSET Ids, routed : Routes]

\* What _validate_plan_shape demands of the question that is asked first.
WellFormed(q) ==
    q.field \notin {"missing", "nothing"} /\ (q.options # <<>> \/ q.free)

\* A message that is the label of the option to cancel names no other option.
ASSUME DialogueAssumption ==
    /\ {"replace", "append", "cancel"} \subseteq Ids
    /\ "words" \notin Ids /\ Nil \notin Ids
    /\ Texts \subseteq Text
    /\ \A text \in Texts : text.only = "cancel" =>
          "cancel" \in text.marks \/ (text.ordinal = 0 /\ text.names = {"cancel"})
    /\ Chains \subseteq Seq(Question)
    /\ \A chain \in Chains :
          /\ chain # <<>> /\ WellFormed(Head(chain))
          /\ \A n \in 2..Len(chain) : chain[n].acts
    /\ Matches \subseteq Seq(Ids)
    /\ MaxChains \in Nat /\ MaxBreaks \in Nat /\ MaxBeside \in Nat \ {0}

VARIABLES
    pending,      \* the question open in the agent of the turn, or of the next one
    savedPending, \* the one of the session's row
    turn,         \* the message being handled, or Nil
    cached,       \* _agents: whether it holds the agent of the turn, no agent, or
                  \*   another one, and what question is open in that
    call,         \* the call of the capability workflow under way, or Nil
    breaks,       \* restarts and such calls so far
    \* History: what the properties refer to and the code does not keep.
    begun,        \* the chains of questions begun
    carried,      \* per chain: how often its action went to execution
    restored,     \* per chain: how often another agent took over the session and
                  \*   had a question of the chain open that was not open before
    dropped,      \* the chains the user turned away from, and how
    last          \* the action this turn has sent to execution, or Nil

history == <<begun, carried, restored, dropped, last>>
beside == <<savedPending, cached, call, breaks>>
dialogueVars == <<pending, turn, beside, history>>

Chain == 0..MaxChains

\* The words of the user are one value, "words".
Answer == [question : Question, value : Ids \cup {"words"}]
\* The answers stand for the arguments of the action: one for each field.
Action == [chain : Chain, answers : SUBSET Answer]
Pending == [chain : Chain, asked : Question, rest : Seq(Question),
            answers : SUBSET Answer]

\* Being resolved, planned, prepared, or done with and not yet saved.  Until it
\* is planned, known is the question that was open when the message came.
Stages == {"resolve", "plan", "prepare", "save"}
Away == [chain : Chain, field : Fields, how : {"cancel", "change"}]
Turn == [at : Stages, text : Texts \cup {Nil}, known : Pending \cup {Nil},
         action : Action \cup {Nil}, call : 1..3, away : SUBSET Away]

\* asks: the question open in the agent that is built, or in the snapshot taken.
Call == [at : {"build", "act", "save"}, kind : {"reload", "action"},
         asks : Pending \cup {Nil}, turns : 0..MaxBeside]
Cached == [agent : {"this", "nobody", "another"}, asks : Pending \cup {Nil}]

ASSUME NilAssumption == Nil \notin Texts \cup Pending \cup Action \cup Turn \cup Call

DialogueTypeOK ==
    /\ pending \in Pending \cup {Nil}
    /\ savedPending \in Pending \cup {Nil}
    /\ turn \in Turn \cup {Nil}
    /\ cached \in Cached /\ (turn = Nil => cached.agent # "another")
    /\ call \in Call \cup {Nil}
    /\ breaks \in 0..MaxBreaks
    /\ begun \in Seq(Seq(Question)) /\ Len(begun) <= MaxChains
    /\ carried \in Seq(Nat) /\ Len(carried) = Len(begun)
    /\ restored \in Seq(Nat) /\ Len(restored) = Len(begun)
    /\ dropped \subseteq Away
    /\ last \in Action \cup {Nil}

This == [agent |-> "this", asks |-> Nil]
Nobody == [agent |-> "nobody", asks |-> Nil]

DialogueInit ==
    /\ pending = Nil /\ savedPending = Nil /\ turn = Nil
    /\ cached = Nobody /\ call = Nil /\ breaks = 0
    /\ begun = <<>> /\ carried = <<>> /\ restored = <<>> /\ dropped = {}
    /\ last = Nil

-----------------------------------------------------------------------------
(* What a text is to an open question.                                      *)

\* The option at that position; Nil when there is none.
At(n, q) == IF n \in DOMAIN q.options THEN q.options[n] ELSE Nil

\* The first option, in the order they were listed, that is in the set.
FirstOf(q, ids) ==
    LET places == {n \in DOMAIN q.options : q.options[n] \in ids}
    IN  IF places = {} THEN Nil ELSE q.options[Min(places)]

\* PendingClarificationResolver._match_option: the id or the label itself.
Exact(text, q) ==
    IF text.number # 0 THEN At(text.number, q) ELSE FirstOf(q, {text.only})

\* AssistantPlanner._match_clarification_option: anywhere in the text.
Loose(text, q) ==
    IF At(text.number, q) # Nil THEN At(text.number, q)
    ELSE IF At(text.ordinal, q) # Nil THEN At(text.ordinal, q)
    ELSE FirstOf(q, text.names)

\* The answer to a question about a path, or Nil.
PathAnswer(text, q) ==
    IF Exact(text, q) # Nil THEN Exact(text, q)
    ELSE IF text.number = 0 /\ "path" \in text.marks
            /\ "starts_new" \notin text.marks
         THEN "words"
    ELSE Nil

NewIntent(text) ==
    text.number = 0 /\ text.marks \cap {"starts_new", "looks_new"} # {}

\* PendingClarificationResolver.resolve, for a question about a path.
PathResolution(text, q) ==
    CASE PathAnswer(text, q) = "cancel" -> "cancel"
      [] PathAnswer(text, q) \notin {Nil, "cancel"} -> "resolved"
      [] PathAnswer(text, q) = Nil /\ NewIntent(text) -> "new_intent"
      [] OTHER -> "unresolved"

\* NoExecutionGuard.blocks, then PendingClarificationResolver.resolve.
Resolution(text, p) ==
    IF "no_execution" \in text.marks THEN "blocked"
    ELSE IF "help" \in text.marks THEN "help"
    ELSE IF "cancel" \in text.marks THEN "cancel"
    ELSE IF p = Nil THEN "not_applicable"
    ELSE IF "forget" \in text.marks THEN "new_intent"
    ELSE IF p.asked.field # "path" THEN "not_applicable"
    ELSE PathResolution(text, p.asked)

\* Seeded fault: only the reset of the subject is looked for.
TurnsAway_ResetOnly(text, p) == "reset" \in text.marks

\* _is_subject_reset_request, _is_explicit_new_action_request.
TurnsAway(text, p) ==
    \/ "reset" \in text.marks
    \/ p # Nil /\ "new_action" \in text.marks

-----------------------------------------------------------------------------
(* A message arrives.                                                       *)

\* What the user means for the open question, whatever the code makes of it.
AwayFrom(text, p) ==
    IF p = Nil \/ "no_execution" \in text.marks THEN {}
    ELSE {[chain |-> p.chain, field |-> p.asked.field, how |-> how] :
            how \in (IF \/ text.marks \cap {"cancel", "forget"} # {}
                        \/ Exact(text, p.asked) = "cancel"
                     THEN {"cancel"} ELSE {})
               \cup (IF text.marks \cap {"reset", "new_action"} # {}
                     THEN {"change"} ELSE {})}

\* Whoever comes between two turns finds the agent, or builds it from the row.
TurnStarts ==
    /\ turn = Nil
    /\ cached' = This
    /\ IF call = Nil THEN UNCHANGED call
       ELSE /\ call.turns < MaxBeside  \* bound
            /\ call' = [call EXCEPT !.turns = @ + 1]
    /\ UNCHANGED <<savedPending, breaks>>

\* The agent works on a copy of what its memory holds.
Hear(text) ==
    /\ TurnStarts
    /\ turn' = [at |-> "resolve", text |-> text, known |-> pending, action |-> Nil,
                call |-> 1, away |-> AwayFrom(text, pending)]
    /\ UNCHANGED <<pending, history>>

Resolves(resolutions) ==
    /\ turn # Nil /\ turn.at = "resolve"
    /\ Resolution(turn.text, turn.known) \in resolutions
    /\ UNCHANGED <<beside, history>>

GoTo(at, action) ==
    turn' = [turn EXCEPT !.at = at, !.action = action,
                         !.text = Nil, !.known = Nil, !.call = 1]

Finish == GoTo("save", Nil)

Block ==
    /\ Resolves({"blocked"})
    /\ Finish
    /\ UNCHANGED pending

LetGo ==
    /\ Resolves({"help", "cancel"})
    /\ Finish
    /\ pending' = Nil

\* The question of the copy is written back.
AskAgain ==
    /\ Resolves({"unresolved"})
    /\ Finish
    /\ pending' = turn.known

\* One argument per field: the latest answer replaces an earlier one.
Answered(p, value) ==
    {a \in p.answers : a.question.field # p.asked.field}
        \cup {[question |-> p.asked, value |-> value]}

\* build_action: the questions that remain are not asked.  Without a capability
\* and arguments it raises, outside of the try: TurnFails is all that is left.
TakePath ==
    /\ Resolves({"resolved"})
    /\ turn.known.asked.acts
    /\ LET p == turn.known
       IN  GoTo("prepare",
                [chain |-> p.chain,
                 answers |-> Answered(p, PathAnswer(turn.text, p.asked))])
    /\ pending' = Nil

LetsGo ==
    \/ Resolution(turn.text, turn.known) = "new_intent"
    \/ TurnsAway(turn.text, turn.known)

PassOn ==
    /\ Resolves({"not_applicable", "new_intent"})
    /\ turn.text.routed \in {"edit", "reminder"} => Len(begun) < MaxChains  \* bound
    /\ turn' = [turn EXCEPT !.at = "plan", !.known = IF LetsGo THEN Nil ELSE @]
    /\ pending' = IF LetsGo THEN Nil ELSE pending

-----------------------------------------------------------------------------
(* The planner, about an open question.                                     *)

\* Seeded fault: an action leaves the question in the session.
Settle_AnswersOnly(mode) ==
    IF mode = "answer" THEN pending' = Nil ELSE UNCHANGED pending

\* AssistantAgent._handle, once there is a plan that is no question,
\* whatever its mode.
Settle(mode) == pending' = Nil

Answering == turn # Nil /\ turn.at = "plan" /\ turn.known # Nil

\* The option in the text, or the text itself where any text will do.
Selection ==
    LET q == turn.known.asked
    IN  IF Loose(turn.text, q) # Nil THEN Loose(turn.text, q)
        ELSE IF q.free THEN "words" ELSE Nil

\* Seeded fault: any option id will do.
Offered_Any(q) == Ids

Offered(q) == Range(q.options)

\* What the text, or else the model, selects.
Selects(value) ==
    /\ Answering
    /\ IF Selection # Nil THEN value = Selection
       ELSE value \in Offered(turn.known.asked)

NoTime(value) ==
    /\ turn.known.asked.field = "scheduled_for"
    /\ value = "words" => "time" \notin turn.text.marks

CancelSelected ==
    /\ Selects("cancel")
    /\ Settle("answer") /\ Finish
    /\ UNCHANGED <<beside, history>>

\* "Invalid pending clarification"
Invalid(q) == q.field = "missing" \/ ~q.acts

\* An unsure model, a time that is none: the question of the copy again.
Repeat ==
    /\ \/ Answering /\ Selection = Nil
       \/ \E value \in Ids \cup {"words"} :
            /\ value # "cancel" /\ Selects(value) /\ NoTime(value)
            /\ ~Invalid(turn.known.asked)
    /\ Finish
    /\ pending' = turn.known
    /\ UNCHANGED <<beside, history>>

\* The question that follows is an object.
Follows(p) == p.rest # <<>> => Head(p.rest).field # "nothing"

\* An error of the planner: RecoveryEngine answers, the question stays open.
PlannerFails ==
    /\ \/ Answering /\ Selection = Nil
       \/ \E value \in Ids \cup {"words"} :
            /\ value # "cancel" /\ Selects(value)
            /\ Invalid(turn.known.asked) \/ ~Follows(turn.known)
       \/ turn # Nil /\ turn.at = "plan" /\ turn.known = Nil
            /\ turn.text.routed = "none"
    /\ Finish
    /\ UNCHANGED <<pending, beside, history>>

\* Seeded fault: the last of the questions is not asked.
Remaining_ButLast(p) == IF Len(p.rest) > 1 THEN p.rest ELSE <<>>

Remaining(p) == p.rest

Taken(value) ==
    /\ value # "cancel" /\ Selects(value)
    /\ ~Invalid(turn.known.asked)
    /\ NoTime(value) => value # "words"

AskNext(value) ==
    /\ Taken(value)
    /\ LET p == turn.known IN
        /\ Remaining(p) # <<>> /\ Follows(p)
        /\ pending' = [chain |-> p.chain, asked |-> Head(Remaining(p)),
                       rest |-> Tail(Remaining(p)),
                       answers |-> Answered(p, value)]
    /\ Finish
    /\ UNCHANGED <<beside, history>>

Complete(value) ==
    /\ Taken(value)
    /\ LET p == turn.known IN
        /\ Remaining(p) = <<>>
        /\ GoTo("prepare", [chain |-> p.chain, answers |-> Answered(p, value)])
    /\ Settle("action")
    /\ UNCHANGED <<beside, history>>

-----------------------------------------------------------------------------
(* The planner, about something new.                                        *)

Planning == turn # Nil /\ turn.at = "plan" /\ turn.known = Nil

Options(ids, field, free) ==
    [field |-> field, options |-> ids, free |-> free, acts |-> TRUE]

EditQuestion == Options(<<"replace", "append", "cancel">>, "write_mode", FALSE)
ReminderQuestion == Options(<<>>, "scheduled_for", TRUE)

\* A chain begins, and its first question.
Opens(chain) ==
    /\ Len(begun) < MaxChains
    /\ begun' = Append(begun, chain)
    /\ carried' = Append(carried, 0)
    /\ restored' = Append(restored, 0)
    /\ UNCHANGED <<dropped, last>>

Opened(chain, answers) ==
    [chain |-> Len(begun) + 1, asked |-> Head(chain), rest |-> Tail(chain),
     answers |-> answers]

Begin(chain, answers) ==
    /\ Opens(chain)
    /\ pending' = Opened(chain, answers)
    /\ UNCHANGED beside

RouterAsks ==
    /\ Planning
    /\ \/ turn.text.routed = "edit" /\ Begin(<<EditQuestion>>, {})
       \/ turn.text.routed = "reminder" /\ "time" \notin turn.text.marks
            /\ Begin(<<ReminderQuestion>>, {})
    /\ Finish

\* The model is asked to think again about a question, at most twice.
Review ==
    /\ Planning /\ turn.text.routed = "none" /\ turn.call < 3
    /\ turn' = [turn EXCEPT !.call = @ + 1]
    /\ UNCHANGED <<pending, beside, history>>

\* _should_review_clarification; the second one is always reviewed.
ModelAsks(chain) ==
    /\ Planning /\ turn.text.routed = "none"
    /\ turn.call # 2
    /\ turn.call = 1 => "asks" \notin turn.text.marks
    /\ Begin(chain, {})
    /\ Finish

PlansAnswer ==
    /\ Planning /\ turn.text.routed \in {"none", "answer"}
    /\ Finish
    /\ UNCHANGED <<pending, beside, history>>

PlansAction ==
    /\ Planning
    /\ \/ turn.text.routed \in {"none", "action"}
       \/ turn.text.routed = "reminder" /\ "time" \in turn.text.marks
    /\ GoTo("prepare", [chain |-> 0, answers |-> {}])
    /\ UNCHANGED <<pending, beside, history>>

-----------------------------------------------------------------------------
(* The action is prepared; see module AgentTurn.                            *)

Preparing == turn # Nil /\ turn.at = "prepare"

PathQuestion(files) == Options(Append(files, "cancel"), "path", FALSE)

\* Executed, or shown to the user for confirmation.
Carry ==
    /\ Preparing
    /\ last' = turn.action
    /\ carried' = [n \in DOMAIN carried |->
                    IF n = turn.action.chain THEN carried[n] + 1 ELSE carried[n]]
    /\ Finish
    /\ UNCHANGED <<pending, beside, begun, restored, dropped>>

Refuse ==
    /\ Preparing
    /\ Finish
    /\ UNCHANGED <<pending, beside, history>>

Ambiguous(files) ==
    /\ Preparing
    /\ LET a == turn.action
           q == PathQuestion(files)
       IN  IF a.chain = 0 THEN Begin(<<q>>, a.answers)
           ELSE /\ pending' = [chain |-> a.chain, asked |-> q, rest |-> <<>>,
                               answers |-> a.answers]
                /\ UNCHANGED <<beside, history>>
    /\ Finish

\* A confirmation is decided: what may be open has nothing to do with it, and
\* the snapshot holds that too.
Decided ==
    /\ TurnStarts
    /\ turn' = [at |-> "save", text |-> Nil, known |-> Nil, action |-> Nil,
                call |-> 1, away |-> {}]

Execute ==
    /\ Decided
    /\ UNCHANGED <<pending, history>>

\* The confirmed action is prepared again, and its path stands for several
\* files: the question replaces the one that is open.
Reask(files) ==
    /\ Decided
    /\ Opens(<<PathQuestion(files)>>)
    /\ pending' = Opened(<<PathQuestion(files)>>, {})

-----------------------------------------------------------------------------
(* The session goes on with another agent, or the same one.                 *)

\* The chain that comes back when the question p takes the open one's place.
Back(p) == IF p \in {Nil, pending} THEN {} ELSE {p.chain}

Resumes(p, gone) ==
    /\ pending' = p
    /\ restored' = [n \in DOMAIN restored |->
                       IF n \in Back(p) THEN restored[n] + 1 ELSE restored[n]]
    /\ dropped' = {d \in gone : d.chain \notin Back(p)}

\* A turn is over.  The next one finds the agent in the cache, or builds one
\* from the row.
EndTurn(row, gone) ==
    /\ turn' = Nil /\ last' = Nil
    /\ savedPending' = row
    /\ CASE cached.agent = "this"    -> Resumes(pending, gone) /\ cached' = This
         [] cached.agent = "nobody"  -> Resumes(row, gone) /\ cached' = Nobody
         [] cached.agent = "another" -> Resumes(cached.asks, gone) /\ cached' = This
    /\ UNCHANGED <<call, breaks, begun, carried>>

SaveSession ==
    /\ turn # Nil /\ turn.at = "save"
    /\ EndTurn(pending, dropped \cup turn.away)

\* The agent, or the save, raises: what the memory holds stays, unsaved.
TurnFails ==
    /\ turn # Nil
    /\ EndTurn(savedPending, dropped)

Breaks ==
    /\ breaks < MaxBreaks
    /\ breaks' = breaks + 1

\* The gateway dies, and the session is read back.
Restart ==
    /\ Breaks
    /\ Resumes(savedPending, dropped)
    /\ turn' = Nil /\ call' = Nil /\ cached' = Nobody /\ last' = Nil
    /\ UNCHANGED <<savedPending, begun, carried>>

-----------------------------------------------------------------------------
(* The calls of the capability workflow, which take no lock.                *)

Calls(at, kind, asks) ==
    /\ call = Nil
    /\ Breaks
    /\ call' = [at |-> at, kind |-> kind, asks |-> asks,
                turns |-> IF turn = Nil THEN 0 ELSE 1]
    /\ UNCHANGED <<turn, savedPending, begun, carried, last>>

\* Between two turns the next one would be with the agent p is open in.
Between(p) ==
    IF turn = Nil THEN Resumes(p, dropped)
    ELSE UNCHANGED <<pending, restored, dropped>>

\* _reload_session_runtime forgets the agent and loads the row.
ReloadLoads ==
    /\ Calls("build", "reload", savedPending)
    /\ cached' = Nobody
    /\ Between(savedPending)

\* _execute_workflow_action takes the agent it finds, or loads the row.
ActionStarts ==
    /\ IF cached.agent = "nobody" THEN Calls("build", "action", savedPending)
       ELSE Calls("act", "action", Nil)
    /\ UNCHANGED <<pending, cached, restored, dropped>>

\* An agent with the question of the row as it was then takes the cache.
CallBuilds ==
    /\ call # Nil /\ call.at = "build"
    /\ Between(call.asks)
    /\ cached' = IF turn = Nil THEN This
                ELSE [agent |-> "another", asks |-> call.asks]
    /\ call' = IF call.kind = "reload" THEN Nil
               ELSE [call EXCEPT !.at = "act", !.asks = Nil]
    /\ UNCHANGED <<turn, savedPending, breaks, begun, carried, last>>

Acts(asks) ==
    /\ call # Nil /\ call.at = "act"
    /\ call' = [call EXCEPT !.at = "save", !.asks = asks]
    /\ UNCHANGED <<turn, savedPending, breaks>>

\* The action is executed, or refused, and the snapshot is taken.
WorkflowActs ==
    /\ Acts(IF cached.agent = "another" THEN cached.asks ELSE pending)
    /\ UNCHANGED <<pending, cached, history>>

\* Its path stands for several files: a question in the agent it was found in.
WorkflowAsks(files) ==
    LET chain == <<PathQuestion(files)>>
        q     == Opened(chain, {})
    IN  /\ Acts(q)
        /\ Opens(chain)
        /\ IF cached.agent = "another"
           THEN cached' = [cached EXCEPT !.asks = q] /\ UNCHANGED pending
           ELSE pending' = q /\ UNCHANGED cached

\* The row is replaced by the snapshot, however old that is by now.
WorkflowSaves ==
    /\ call # Nil /\ call.at = "save"
    /\ savedPending' = call.asks
    /\ call' = Nil
    /\ UNCHANGED <<pending, turn, cached, breaks, history>>

CallFails ==
    /\ call # Nil
    /\ call' = Nil
    /\ UNCHANGED <<pending, turn, savedPending, cached, breaks, history>>

Hears ==
    \/ \E text \in Texts : Hear(text)
    \/ Block
    \/ LetGo
    \/ AskAgain
    \/ TakePath
    \/ PassOn

Answers ==
    \/ CancelSelected
    \/ Repeat
    \/ PlannerFails
    \/ \E value \in Ids \cup {"words"} : AskNext(value) \/ Complete(value)

Plans ==
    \/ RouterAsks
    \/ Review
    \/ \E chain \in Chains : ModelAsks(chain)
    \/ PlansAnswer
    \/ PlansAction

Prepares ==
    \/ Carry
    \/ Refuse
    \/ \E files \in Matches : Ambiguous(files)

Decisions ==
    \/ Execute
    \/ \E files \in Matches : Reask(files)

Ends ==
    \/ SaveSession
    \/ TurnFails
    \/ Restart

WorkflowCalls ==
    \/ ReloadLoads
    \/ ActionStarts
    \/ CallBuilds
    \/ WorkflowActs
    \/ \E files \in Matches : WorkflowAsks(files)
    \/ WorkflowSaves
    \/ CallFails

DialogueNext ==
    \/ Hears
    \/ Answers
    \/ Plans
    \/ Prepares
    \/ Decisions
    \/ Ends
    \/ WorkflowCalls

DialogueSpec == DialogueInit /\ [][DialogueNext]_dialogueVars

-----------------------------------------------------------------------------
(* Properties.                                                              *)

\* An action that follows from questions is made of what was offered in each
\* of them, or of the user's own words where words were asked for; nothing the
\* model makes up, and never the option to cancel, gets into it.
AnswersOffered ==
    \A a \in {last} \ {Nil} : \A answer \in a.answers :
        /\ answer.value # "cancel"
        /\ \/ answer.value \in Range(answer.question.options)
           \/ answer.value = "words"
                /\ (answer.question.free \/ answer.question.field = "path")

\* A chain of questions leads to one action: its answers are used once, however
\* often the planner or a turn fails or asks in between, and once more for each
\* time that an agent built from an older row brings its question back: a
\* restart, a turn that failed, the reload of the session during a turn.
CarriedOnce == \A n \in DOMAIN carried : carried[n] <= 1 + restored[n]

\* Refuted: once, whatever comes back.
CarriedNeverTwice == \A n \in DOMAIN carried : carried[n] <= 1

\* An action goes to execution only after every question planned for it has
\* been answered, except those behind a question about a path.
NothingSkipped ==
    (last # Nil /\ last.chain # 0) =>
        LET planned == begun[last.chain]
        IN  \A n \in DOMAIN planned :
                \/ \E answer \in last.answers :
                        answer.question.field = planned[n].field
                \/ \E k \in 1..(n - 1) : planned[k].field = "path"

Dropped == dropped \cup (IF turn = Nil THEN {} ELSE turn.away)

\* The question, or the action, of a chain the user has turned away from.
Revived(d) ==
    \/ turn = Nil /\ pending # Nil /\ pending.chain = d.chain
    \/ last # Nil /\ last.chain = d.chain

\* A question the user has cancelled, forgotten or, unless it is about a path,
\* left for another subject or request is gone: it is neither asked again nor
\* answered by a later message, until an agent built from an older row brings
\* it back.
DroppedIsGone ==
    \A d \in Dropped : (d.how = "cancel" \/ d.field # "path") => ~Revived(d)

\* Refuted: the same of questions about a path.
SubjectChangeClears == \A d \in Dropped : ~Revived(d)

\* Refuted: no agent brings such a question back.
DroppedNeverBack == [][dropped \subseteq dropped']_dialogueVars

=============================================================================
