--------------------------- MODULE GatewaySession ---------------------------
(***************************************************************************)
(* The sessions of the gateway: one agent per session in memory, its saved  *)
(* snapshot, and the confirmations a user has to decide.                    *)
(*                                                                         *)
(*   gateway/service.py, app.py   requests, session locks, agent cache      *)
(*   sessions/repository.py       tables sessions and confirmations         *)
(*   agent.py                     what a message or a decision does         *)
(*                                                                         *)
(* A message and a decision hold the session's lock; the two calls that the *)
(* capability workflow makes back into the service take no lock.  Two      *)
(* things are named after the request that made them: an agent after the    *)
(* one whose thread built it, a confirmation after the one that asked.      *)
(* A decision may ask again: it has drafted a tool, which has to be approved *)
(* now, or enabled one, which is tried once the registry is loaded anew.     *)
(***************************************************************************)
EXTENDS Naturals

CONSTANTS
    Handlers,     \* request threads of the gateway
    Sessions,     \* session ids
    None,
    MaxRequests,  \* bound: requests the gateway receives
    MaxCrashes    \* bound: restarts of the gateway

ASSUME SessionAssumption ==
    /\ MaxRequests \in Nat /\ MaxCrashes \in Nat
    /\ None \notin Sessions \cup Handlers \cup Nat

Requests == 1..MaxRequests

\* "retry": a decision that has enabled a tool.
Kinds == {"message", "decision", "retry", "reload", "action"}

\* Where a thread is: the call of the service it makes next.
Places == {"none", "acquire", "pop", "lookup", "load", "build", "work",
           "start", "persist", "snapshot", "save", "again"}

VARIABLES
    received,  \* how many requests have come
    crashes,
    process,   \* what each thread is doing
    lock,      \* _session_locks: who is inside handle or resolve_confirmation
    cache,     \* _agents: the agent of each session
    memory,    \* what is in the memory of each agent: the requests it answered
    saved,     \* sessions.snapshot_json
    session,   \* the session of each request, also confirmations.session_id
    status,    \* confirmations.status; "absent" when there is no row
    executed,  \* history: how often a confirmed action was taken up; recovery's
               \*   one retry of a failed attempt is part of it
    answered,  \* history: the requests with a normal response
    mixed      \* history: sessions in which a call without the lock has
               \*   overlapped another request

storeVars   == <<saved, status>>
agentVars   == <<cache, memory>>
historyVars == <<executed, answered>>
vars == <<received, crashes, process, lock, cache, memory, saved, session,
          status, executed, answered, mixed>>

Idle == [at |-> "none", kind |-> "message", request |-> None, session |-> None,
         confirmation |-> None, agent |-> None, turns |-> {}]

Threads == [at : Places, kind : Kinds, request : Requests \cup {None},
            session : Sessions \cup {None}, confirmation : Requests \cup {None},
            agent : Requests \cup {None}, turns : SUBSET Requests]

TypeOK ==
    /\ received \in 0..MaxRequests
    /\ crashes \in 0..MaxCrashes
    /\ process \in [Handlers -> Threads]
    /\ \A p \in Handlers :
          process[p].at \in {"work", "start", "persist", "snapshot", "save", "again"}
             => process[p].agent # None
    /\ lock \in [Sessions -> Handlers \cup {None}]
    /\ cache \in [Sessions -> Requests \cup {None}]
    /\ memory \in [Requests -> SUBSET Requests]
    /\ saved \in [Sessions -> SUBSET Requests]
    /\ session \in [Requests -> Sessions \cup {None}]
    /\ status \in [Requests -> {"absent", "pending", "approved", "rejected"}]
    /\ executed \in [Requests -> Nat]
    /\ answered \subseteq Requests
    /\ mixed \subseteq Sessions

Init ==
    /\ received = 0 /\ crashes = 0
    /\ process = [p \in Handlers |-> Idle]
    /\ lock = [s \in Sessions |-> None]
    /\ cache = [s \in Sessions |-> None]
    /\ memory = [r \in Requests |-> {}]
    /\ saved = [s \in Sessions |-> {}]
    /\ session = [r \in Requests |-> None]
    /\ status = [r \in Requests |-> "absent"]
    /\ executed = [r \in Requests |-> 0]
    /\ answered = {} /\ mixed = {}
-----------------------------------------------------------------------------
(* Requests come in.                                                       *)

Become(p, record) == process' = [process EXCEPT ![p] = record]

Goes(p, place) == Become(p, [process[p] EXCEPT !.at = place])

\* p is using the session's agent, with its lock or without.
Inside(p, s) == process[p].session = s /\ process[p].at \notin {"none", "acquire"}

\* What the capability workflow calls takes no lock.
Unlocked == {"reload", "action"}

\* p comes inside while another thread is there, and one of them has no lock.
Mixes(p, s, kind) ==
    mixed' = IF \E q \in Handlers \ {p} :
                   Inside(q, s) /\ {kind, process[q].kind} \cap Unlocked # {}
             THEN mixed \cup {s} ELSE mixed

Receive(p, s, kind, place, confirmation) ==
    /\ process[p].at = "none"
    /\ received < MaxRequests
    /\ received' = received + 1
    /\ session' = [session EXCEPT ![received + 1] = s]
    /\ Become(p, [Idle EXCEPT !.at = place, !.kind = kind, !.session = s,
                              !.request = received + 1,
                              !.confirmation = confirmation])

\* POST /v1/chat, or a queued request of the scheduler.
Message(p, s) ==
    /\ Receive(p, s, "message", "acquire", None)
    /\ UNCHANGED <<crashes, lock, agentVars, storeVars, historyVars, mixed>>

\* Seeded fault: the update does not look at the status.
Decide_AnyStatus(p, c, verdict) ==
    /\ c \in answered /\ status[c] # "absent"
    /\ status' = [status EXCEPT ![c] = verdict]
    /\ Receive(p, session[c], "decision", "acquire", c)
    /\ UNCHANGED <<crashes, lock, agentVars, saved, historyVars, mixed>>

\* POST /v1/confirmations/{id}: resolve_confirmation of the repository is the
\* first call, before the lock.  The id is only known from a response.
Decide(p, c, verdict) ==
    /\ c \in answered /\ status[c] = "pending"
    /\ status' = [status EXCEPT ![c] = verdict]
    /\ Receive(p, session[c], "decision", "acquire", c)
    /\ UNCHANGED <<crashes, lock, agentVars, saved, historyVars, mixed>>

\* Node reload_runtime of the capability workflow.
Reload(p, s) ==
    /\ Receive(p, s, "reload", "pop", None)
    /\ Mixes(p, s, "reload")
    /\ UNCHANGED <<crashes, lock, agentVars, storeVars, historyVars>>

\* Node execute_action of the capability workflow.
WorkflowAction(p, s) ==
    /\ Receive(p, s, "action", "lookup", None)
    /\ Mixes(p, s, "action")
    /\ UNCHANGED <<crashes, lock, agentVars, storeVars, historyVars>>
-----------------------------------------------------------------------------
(* Inside a request.                                                       *)

\* Seeded fault: every request has a lock of its own.
Acquire_Unshared(p) ==
    LET s == process[p].session
    IN  /\ process[p].at = "acquire"
        /\ lock' = [lock EXCEPT ![s] = p]
        /\ Goes(p, "lookup")
        /\ Mixes(p, s, process[p].kind)
        /\ UNCHANGED <<received, crashes, agentVars, session, storeVars,
                       historyVars>>

\* with lock
Acquire(p) ==
    LET s == process[p].session
    IN  /\ process[p].at = "acquire" /\ lock[s] = None
        /\ lock' = [lock EXCEPT ![s] = p]
        /\ Goes(p, "lookup")
        /\ Mixes(p, s, process[p].kind)
        /\ UNCHANGED <<received, crashes, agentVars, session, storeVars,
                       historyVars>>

\* The end of a request: the with statement gives the lock back.
Leave(p) ==
    /\ Become(p, Idle)
    /\ lock' = [s \in Sessions |-> IF lock[s] = p THEN None ELSE lock[s]]

\* _reload_session_runtime, or a decision that enabled a tool, forgets the agent.
Pop(p) ==
    /\ process[p].at = "pop"
    /\ cache' = [cache EXCEPT ![process[p].session] = None]
    /\ Goes(p, "lookup")
    /\ UNCHANGED <<received, crashes, lock, memory, session, storeVars,
                   historyVars, mixed>>

\* _get_or_create_agent_for_session finds an agent; a reload is done then.
Found(p) ==
    LET s == process[p].session
    IN  /\ process[p].at = "lookup" /\ cache[s] # None
        /\ IF process[p].kind = "reload" THEN Leave(p)
           ELSE /\ Become(p, [process[p] EXCEPT !.at = "work", !.agent = cache[s]])
                /\ UNCHANGED lock
        /\ UNCHANGED <<received, crashes, agentVars, session, storeVars,
                       historyVars, mixed>>

NotFound(p) ==
    /\ process[p].at = "lookup" /\ cache[process[p].session] = None
    /\ Goes(p, "load")
    /\ UNCHANGED <<received, crashes, lock, agentVars, session, storeVars,
                   historyVars, mixed>>

LoadSnapshot(p) ==
    /\ process[p].at = "load"
    /\ Become(p, [process[p] EXCEPT !.at = "build",
                                    !.turns = saved[process[p].session]])
    /\ UNCHANGED <<received, crashes, lock, agentVars, session, storeVars,
                   historyVars, mixed>>

\* A new agent with the memory of the snapshot takes the place in the cache.
BuildAgent(p) ==
    LET r == process[p].request
    IN  /\ process[p].at = "build"
        /\ memory' = [memory EXCEPT ![r] = process[p].turns]
        /\ cache' = [cache EXCEPT ![process[p].session] = r]
        /\ IF process[p].kind = "reload" THEN Leave(p)
           ELSE /\ Become(p, [process[p] EXCEPT !.at = "work", !.agent = r,
                                               !.turns = {}])
                /\ UNCHANGED lock
        /\ UNCHANGED <<received, crashes, session, storeVars, historyVars, mixed>>
-----------------------------------------------------------------------------
(* What the agent does, and what is kept of it.                            *)

Remembers(p) ==
    memory' = [memory EXCEPT ![process[p].agent] = @ \cup {process[p].request}]

\* agent.handle: an answer, an action that needs no confirmation or is
\* refused; an action that needs one; a proposal for the capability workflow.
Think(p) ==
    /\ process[p].at = "work" /\ process[p].kind = "message"
    /\ Remembers(p)
    /\ \E place \in {"snapshot", "persist", "start"} : Goes(p, place)
    /\ UNCHANGED <<received, crashes, lock, cache, session, storeVars,
                   historyVars, mixed>>

\* start_from_proposal of the capability workflow.
StartWorkflow(p) ==
    /\ process[p].at = "start"
    /\ Goes(p, "snapshot")
    /\ UNCHANGED <<received, crashes, lock, agentVars, session, storeVars,
                   historyVars, mixed>>

\* _persist_confirmation
PersistConfirmation(p) ==
    /\ process[p].at = "persist"
    /\ status' = [status EXCEPT ![process[p].request] = "pending"]
    /\ Goes(p, "snapshot")
    /\ UNCHANGED <<received, crashes, lock, agentVars, session, saved,
                   historyVars, mixed>>

\* execute_confirmed_action: an approved action is executed, or refused by the
\* registry or its policy; a rejected one is not.
ExecuteConfirmed(p) ==
    LET c == process[p].confirmation
    IN  /\ process[p].at = "work" /\ process[p].kind = "decision"
        /\ \/ /\ status[c] = "approved"
              /\ executed' = [executed EXCEPT ![c] = @ + 1]
           \/ UNCHANGED executed
        /\ Remembers(p)
        /\ Goes(p, "snapshot")
        /\ UNCHANGED <<received, crashes, lock, cache, session, storeVars,
                       answered, mixed>>

\* _execute_workflow_action; whether it runs is up to CapabilityWorkflow.
ExecuteWorkflowAction(p) ==
    /\ process[p].at = "work" /\ process[p].kind = "action"
    /\ Remembers(p)
    /\ Goes(p, "snapshot")
    /\ UNCHANGED <<received, crashes, lock, cache, session, storeVars,
                   historyVars, mixed>>

\* prepare_provisioned_retry: the action the enabled tool was made for, or why
\* it cannot be prepared.
PrepareRetry(p) ==
    /\ process[p].at = "work" /\ process[p].kind = "retry"
    /\ Remembers(p)
    /\ Goes(p, "snapshot")
    /\ UNCHANGED <<received, crashes, lock, cache, session, storeVars,
                   historyVars, mixed>>

\* agent.memory.snapshot()
TakeSnapshot(p) ==
    /\ process[p].at = "snapshot"
    /\ Become(p, [process[p] EXCEPT !.at = "save",
                                    !.turns = memory[process[p].agent]])
    /\ UNCHANGED <<received, crashes, lock, agentVars, session, storeVars,
                   historyVars, mixed>>

Respond(p) ==
    /\ Leave(p)
    /\ answered' = answered \cup {process[p].request}

\* save; then the response, another confirmation, or the reload of the session.
Save(p) ==
    /\ process[p].at = "save"
    /\ saved' = [saved EXCEPT ![process[p].session] = process[p].turns]
    /\ \/ Respond(p)
       \/ /\ process[p].kind \in {"decision", "retry"}
          /\ Goes(p, "again")
          /\ UNCHANGED <<lock, answered>>
       \/ /\ process[p].kind = "decision"
          /\ Become(p, [process[p] EXCEPT !.at = "pop", !.kind = "retry"])
          /\ UNCHANGED <<lock, answered>>
    /\ UNCHANGED <<received, crashes, agentVars, session, status, executed,
                   mixed>>

\* _persist_confirmation of a decision: what it asked is saved already.
PersistAgain(p) ==
    /\ process[p].at = "again"
    /\ status' = [status EXCEPT ![process[p].request] = "pending"]
    /\ Respond(p)
    /\ UNCHANGED <<received, crashes, agentVars, session, saved, executed, mixed>>
-----------------------------------------------------------------------------
(* What goes wrong.                                                        *)

\* Seeded fault: an exception leaves the lock taken.
Raise_KeepsLock(p) ==
    /\ process[p].at # "none"
    /\ Become(p, Idle)
    /\ UNCHANGED <<received, crashes, lock, agentVars, session, storeVars,
                   historyVars, mixed>>

\* Any call may raise, before the lock too (cleanup_expired, load_confirmation),
\* before or after the agent has changed its memory or has executed the action;
\* what was done is not undone and nothing is saved.
Raise(p) ==
    /\ process[p].at # "none"
    /\ Leave(p)
    /\ UNCHANGED <<received, crashes, agentVars, session, storeVars,
                   historyVars, mixed>>

\* The gateway is stopped or killed, and started again.
Crash ==
    /\ crashes < MaxCrashes
    /\ crashes' = crashes + 1
    /\ process' = [p \in Handlers |-> Idle]
    /\ lock' = [s \in Sessions |-> None]
    /\ cache' = [s \in Sessions |-> None]
    /\ UNCHANGED <<received, memory, session, storeVars, historyVars, mixed>>
-----------------------------------------------------------------------------
RequestStep(p) ==
    \/ Acquire(p) \/ Pop(p) \/ Found(p) \/ NotFound(p) \/ LoadSnapshot(p)
    \/ BuildAgent(p) \/ Think(p) \/ StartWorkflow(p) \/ PersistConfirmation(p)
    \/ ExecuteConfirmed(p) \/ ExecuteWorkflowAction(p) \/ PrepareRetry(p)
    \/ TakeSnapshot(p) \/ Save(p) \/ PersistAgain(p)

Next ==
    \/ \E p \in Handlers :
          \/ \E s \in Sessions : Message(p, s) \/ Reload(p, s) \/ WorkflowAction(p, s)
          \/ \E c \in Requests, verdict \in {"approved", "rejected"} :
                Decide(p, c, verdict)
          \/ RequestStep(p) \/ Raise(p)
    \/ Crash

Spec == Init /\ [][Next]_vars

\* A thread that is inside a request goes on.
FairSpec == Spec /\ \A p \in Handlers : WF_vars(RequestStep(p))
-----------------------------------------------------------------------------
(* What a session promises.                                                *)

\* A confirmed action is executed at most once, and only if the user said yes,
\* whatever decisions are sent twice, fail or are cut short by a restart
\* (resolve_confirmation).
ConfirmedOnce ==
    \A c \in Requests :
        /\ executed[c] <= 1
        /\ executed[c] = 1 => status[c] = "approved"

\* A confirmation is a one-shot action: the approval claims it, once and for
\* good, and it runs only then.  Its row is never marked as executed, so it
\* stays claimed (ConfirmationRepository.resolve, a compare-and-set).
Claims == [c \in Requests |->
             IF status[c] = "approved" THEN "executing" ELSE "pending"]

OneShot == INSTANCE OneShotAction
               WITH Actions <- Requests, phase <- Claims, runs <- executed

ConfirmsOneShot == OneShot!Spec

\* What the gateway has answered is in the saved session, where a restart finds
\* it, although exceptions leave memory and snapshot apart: the lock is enough
\* as long as the calls that do not take it overlap no other request (handle,
\* resolve_confirmation).
AnswersKept ==
    \A r \in answered : session[r] \notin mixed => r \in saved[session[r]]

\* Every request that the gateway takes up comes to its end: whoever leaves by
\* an exception gives the session's lock back.
RequestEnds ==
    \A p \in Handlers : process[p].at # "none" ~> process[p].at = "none"
=============================================================================
