------------------------ MODULE GatewaySessionProofs ------------------------
(* What GatewaySession keeps for any number of sessions, threads, requests  *)
(* and restarts; and, in the second half, what Dialogue keeps in the turns   *)
(* that the lock of a session admits one at a time, for any messages, any    *)
(* chains of questions and any number of them.                              *)
EXTENDS GatewaySession, Dialogue, WellFoundedInduction, TLAPS

Busy(p) == process[p].at # "none"

\* A thread works on a request of its own, and names point to the session.
ThreadsKnown ==
    \A p \in Handlers : Busy(p) =>
        /\ process[p].session \in Sessions
        /\ process[p].request \in 1..received
        /\ session[process[p].request] = process[p].session
        /\ process[p].kind = "decision" => process[p].confirmation \in Requests

OwnRequest ==
    \A p, q \in Handlers :
        Busy(p) /\ Busy(q) /\ process[p].request = process[q].request => p = q

NamesKnown ==
    /\ \A r \in answered : r <= received /\ session[r] \in Sessions
    /\ \A s \in Sessions : cache[s] # None =>
          cache[s] <= received /\ session[cache[s]] = s

BaseInv == TypeOK /\ ThreadsKnown /\ OwnRequest /\ NamesKnown

\* Of the decisions that changed a confirmation's status one thread is left to
\* carry it out, and it has not done so before it has done so.
Deciding(p) == Busy(p) /\ process[p].kind = "decision"

Over == {"snapshot", "save", "again"}

\* A decision, also once it has enabled a tool, asks after it is saved.
Deciders == {"decision", "retry"}

NotAskedYet ==
    /\ \A r \in Requests : r > received => status[r] = "absent"
    /\ \A p \in Handlers :
          Busy(p) /\ (process[p].at \in {"snapshot", "save"}
                       => process[p].kind \in Deciders)
             => status[process[p].request] = "absent"
    /\ \A p \in Handlers :
          process[p].at = "persist" => process[p].kind = "message"

OneDecider ==
    /\ \A p \in Handlers : Deciding(p) =>
          /\ status[process[p].confirmation] \in {"approved", "rejected"}
          /\ process[p].at \notin Over
                => executed[process[p].confirmation] = 0
    /\ \A p, q \in Handlers :
          Deciding(p) /\ Deciding(q)
          /\ process[p].confirmation = process[q].confirmation => p = q

VerdictInv == BaseInv /\ NotAskedYet /\ OneDecider /\ ConfirmedOnce

\* In a session that is not mixed one thread is inside, and it uses the agent
\* of the cache.
LockHeld ==
    \A p \in Handlers, s \in Sessions :
        Inside(p, s) /\ process[p].kind \notin Unlocked => lock[s] = p

Alone ==
    \A p, q \in Handlers, s \in Sessions :
        s \notin mixed /\ Inside(p, s) /\ Inside(q, s) => p = q

Working == {"work", "start", "persist", "snapshot", "save", "again"}

UseOK(p, s) ==
    /\ process[p].at \in Working => process[p].agent = cache[s]
    /\ process[p].at = "build" => process[p].turns = saved[s]
    /\ process[p].at \in {"start", "persist", "snapshot"}
          => process[p].request \in memory[cache[s]]
    /\ process[p].at = "again" => process[p].request \in saved[s]
    /\ process[p].at = "save" =>
          /\ process[p].request \in process[p].turns
          /\ saved[s] \subseteq process[p].turns
          /\ process[p].turns \subseteq memory[cache[s]]

\* The memory of the cached agent is never behind the snapshot.
AheadOK(s) == cache[s] # None => saved[s] \subseteq memory[cache[s]]

KeptOK(s) == \A r \in answered : session[r] = s => r \in saved[s]

UsesCached ==
    \A s \in Sessions : s \notin mixed =>
        /\ \A p \in Handlers : Inside(p, s) => UseOK(p, s)
        /\ AheadOK(s) /\ KeptOK(s)

SessionInv ==
    BaseInv /\ LockHeld /\ Alone /\ UsesCached

USE DEF storeVars, agentVars, historyVars
-----------------------------------------------------------------------------
(* How a thread moves.                                                     *)

OthersStay(p) == \A q \in Handlers : q # p => process'[q] = process[q]

KeepsKind(p) ==
    \/ process'[p].kind = process[p].kind
    \/ process[p].kind = "decision" /\ process'[p].kind = "retry"

SameRequest(p) ==
    /\ process'[p].session = process[p].session
    /\ process'[p].request = process[p].request
    /\ KeepsKind(p)
    /\ process'[p].confirmation = process[p].confirmation

Moves(p) ==
    /\ Busy(p)
    /\ OthersStay(p)
    /\ process'[p] = Idle \/ (SameRequest(p) /\ process'[p].at # "none")
    /\ UNCHANGED <<received, session>>

Arrives(p) ==
    /\ ~Busy(p)
    /\ OthersStay(p)
    /\ received' = received + 1 /\ received + 1 \in Requests
    /\ \E s \in Sessions :
          /\ session' = [session EXCEPT ![received + 1] = s]
          /\ process'[p].session = s
          /\ process'[p].request = received + 1
          /\ process'[p].kind = "decision" => process'[p].confirmation \in answered
    /\ process'[p].at \in {"acquire", "pop", "lookup"}

LEMMA BecomeType ==
    ASSUME TypeOK, NEW p \in Handlers, NEW x \in Threads, Become(p, x),
           x.at \in Working => x.agent # None
    PROVE  /\ process' \in [Handlers -> Threads]
           /\ \A q \in Handlers : process'[q].at \in Working
                 => process'[q].agent # None
           /\ process'[p] = x /\ OthersStay(p)
BY DEF TypeOK, Become, OthersStay, Working

LEMMA IdleType == Idle \in Threads /\ Idle.at = "none"
BY DEF Idle, Threads, Places, Kinds

LEMMA GoesType ==
    ASSUME TypeOK, NEW p \in Handlers, NEW a \in Places, Goes(p, a),
           a \in Working => process[p].agent # None
    PROVE  /\ process' \in [Handlers -> Threads]
           /\ \A q \in Handlers : process'[q].at \in Working
                 => process'[q].agent # None
           /\ process'[p] = [process[p] EXCEPT !.at = a] /\ OthersStay(p)
<1>. DEFINE x == [process[p] EXCEPT !.at = a]
<1>0. process[p] \in Threads
  BY DEF TypeOK
<1>1. x \in Threads /\ x.at = a /\ x.agent = process[p].agent
  BY <1>0 DEF Threads
<1>. HIDE DEF x
<1>2. Become(p, x)
  BY DEF Goes, x
<1>3. process'[p] = x
  BY <1>1, <1>2, BecomeType
<1>. QED BY <1>1, <1>2, <1>3, BecomeType DEF x

LEMMA LeaveType ==
    ASSUME TypeOK, NEW p \in Handlers, Leave(p)
    PROVE  /\ process' \in [Handlers -> Threads]
           /\ \A q \in Handlers : process'[q].at \in Working
                 => process'[q].agent # None
           /\ process'[p] = Idle /\ OthersStay(p)
           /\ lock' \in [Sessions -> Handlers \cup {None}]
<1>1. Become(p, Idle)
  BY DEF Leave
<1>2. Idle \in Threads /\ Idle.at \notin Working
  BY IdleType DEF Working
<1>. HIDE DEF Idle
<1>3. lock' \in [Sessions -> Handlers \cup {None}]
  BY DEF Leave, TypeOK
<1>. QED BY <1>1, <1>2, <1>3, BecomeType

LEMMA GoesMoves ==
    ASSUME TypeOK, NEW p \in Handlers, NEW a \in Places \ {"none"}, Goes(p, a),
           Busy(p), UNCHANGED <<received, session>>
    PROVE  OthersStay(p) => Moves(p)
BY DEF TypeOK, Threads, Moves, SameRequest, KeepsKind, Goes, Become, Busy

\* Each step of a request keeps the types, and the request.
LEMMA RequestMoves ==
    ASSUME BaseInv, NEW p \in Handlers, RequestStep(p) \/ Raise(p)
    PROVE  TypeOK' /\ Moves(p)
<1>. TypeOK /\ ThreadsKnown /\ NamesKnown
  BY DEF BaseInv
<1>0. /\ process[p] \in Threads /\ process[p].at \in Places
      /\ Busy(p)
      /\ process[p].session \in Sessions /\ process[p].request \in Requests
  <2>1. Busy(p)
    BY DEF RequestStep, Raise, Acquire, Pop, Found, NotFound, LoadSnapshot,
           BuildAgent, Think, StartWorkflow, PersistConfirmation, ExecuteConfirmed,
           ExecuteWorkflowAction, PrepareRetry, TakeSnapshot, Save, PersistAgain,
           Busy
  <2>. QED BY <2>1, SessionAssumption DEF TypeOK, Threads, ThreadsKnown, Requests
<1>. DEFINE Typed == /\ process' \in [Handlers -> Threads]
                    /\ \A q \in Handlers : process'[q].at \in Working
                          => process'[q].agent # None
<1>1. SUFFICES /\ Typed /\ Moves(p)
               /\ lock' \in [Sessions -> Handlers \cup {None}]
               /\ cache' \in [Sessions -> Requests \cup {None}]
               /\ memory' \in [Requests -> SUBSET Requests]
               /\ saved' \in [Sessions -> SUBSET Requests]
               /\ status' \in [Requests -> {"absent", "pending", "approved", "rejected"}]
               /\ executed' \in [Requests -> Nat]
               /\ answered' \subseteq Requests
               /\ mixed' \subseteq Sessions
               /\ crashes' = crashes
  BY DEF TypeOK, Moves, Working
<1>2. CASE Acquire(p)
  <2>1. Goes(p, "lookup") /\ UNCHANGED <<received, session>>
    BY <1>2 DEF Acquire
  <2>2. Typed /\ Moves(p)
    BY <1>0, <2>1, GoesType, GoesMoves DEF Places, Working, TypeOK, Acquire
  <2>. QED BY <1>2, <2>2, <1>0, <1>1 DEF Acquire, TypeOK, Threads, Mixes, Remembers
<1>3. CASE Pop(p)
  <2>1. Goes(p, "lookup") /\ UNCHANGED <<received, session>>
    BY <1>3 DEF Pop
  <2>2. Typed /\ Moves(p)
    BY <1>0, <2>1, GoesType, GoesMoves DEF Places, Working, TypeOK, Pop
  <2>. QED BY <1>3, <2>2, <1>0, <1>1 DEF Pop, TypeOK, Threads, Mixes, Remembers
<1>4. CASE Found(p)
  <2>. DEFINE x == [process[p] EXCEPT !.at = "work",
                                     !.agent = cache[process[p].session]]
  <2>1. CASE process[p].kind = "reload"
    <3>1. Leave(p) /\ UNCHANGED <<received, session>>
      BY <1>4, <2>1 DEF Found
    <3>2. Typed /\ Moves(p) /\ lock' \in [Sessions -> Handlers \cup {None}]
      BY <1>0, <3>1, LeaveType DEF Moves
    <3>. QED BY <1>4, <3>2, <1>0, <1>1 DEF Found, TypeOK, Threads
  <2>2. CASE process[p].kind # "reload"
    <3>1. /\ x \in Threads /\ x.at = "work" /\ x.agent # None
          /\ x.session = process[p].session /\ x.request = process[p].request
          /\ x.kind = process[p].kind /\ x.confirmation = process[p].confirmation
      BY <1>4, <1>0, SessionAssumption DEF Found, Threads, Places, TypeOK, Requests
    <3>2. Become(p, x) /\ UNCHANGED <<received, session, lock>>
      BY <1>4, <2>2 DEF Found
    <3>. HIDE DEF x
    <3>3. Typed /\ process'[p] = x /\ OthersStay(p)
      BY <3>1, <3>2, BecomeType
    <3>4. Moves(p)
      BY <1>0, <3>1, <3>2, <3>3 DEF Moves, SameRequest, KeepsKind
    <3>. QED BY <1>4, <3>2, <3>3, <3>4, <1>0, <1>1 DEF Found, TypeOK, Threads
  <2>. QED BY <2>1, <2>2
<1>5. CASE NotFound(p)
  <2>1. Goes(p, "load") /\ UNCHANGED <<received, session>>
    BY <1>5 DEF NotFound
  <2>2. Typed /\ Moves(p)
    BY <1>0, <2>1, GoesType, GoesMoves DEF Places, Working, TypeOK, NotFound
  <2>. QED BY <1>5, <2>2, <1>0, <1>1 DEF NotFound, TypeOK, Threads, Mixes, Remembers
<1>6. CASE LoadSnapshot(p)
  <2>. DEFINE x == [process[p] EXCEPT !.at = "build",
                                     !.turns = saved[process[p].session]]
  <2>1. /\ x \in Threads /\ x.at = "build"
        /\ x.at \in Working => x.agent # None
        /\ x.session = process[p].session /\ x.request = process[p].request
        /\ x.kind = process[p].kind /\ x.confirmation = process[p].confirmation
    BY <1>6, <1>0, SessionAssumption DEF LoadSnapshot, Threads, Places, TypeOK, Working, Requests
  <2>2. Become(p, x) /\ UNCHANGED <<received, session>>
    BY <1>6 DEF LoadSnapshot
  <2>. HIDE DEF x
  <2>3. Typed /\ process'[p] = x /\ OthersStay(p)
    BY <2>1, <2>2, BecomeType
  <2>4. Moves(p)
    BY <1>0, <2>1, <2>2, <2>3 DEF Moves, SameRequest, KeepsKind
  <2>. QED BY <1>6, <2>3, <2>4, <1>0, <1>1 DEF LoadSnapshot, TypeOK, Threads
<1>7. CASE BuildAgent(p)
  <2>. DEFINE x == [process[p] EXCEPT !.at = "work",
                                     !.agent = process[p].request, !.turns = {}]
  <2>1. CASE process[p].kind = "reload"
    <3>1. Leave(p) /\ UNCHANGED <<received, session>>
      BY <1>7, <2>1 DEF BuildAgent
    <3>2. Typed /\ Moves(p) /\ lock' \in [Sessions -> Handlers \cup {None}]
      BY <1>0, <3>1, LeaveType DEF Moves
    <3>. QED BY <1>7, <3>2, <1>0, <1>1 DEF BuildAgent, TypeOK, Threads
  <2>2. CASE process[p].kind # "reload"
    <3>1. /\ x \in Threads /\ x.at = "work" /\ x.agent # None
          /\ x.session = process[p].session /\ x.request = process[p].request
          /\ x.kind = process[p].kind /\ x.confirmation = process[p].confirmation
      <4>1. process[p].request # None
        BY <1>0, SessionAssumption DEF Requests
      <4>2. {} \in SUBSET Requests /\ "work" \in Places
        BY DEF Places
      <4>. QED BY <1>0, <4>1, <4>2 DEF Threads
    <3>2. Become(p, x) /\ UNCHANGED <<received, session, lock>>
      BY <1>7, <2>2 DEF BuildAgent
    <3>. HIDE DEF x
    <3>3. Typed /\ process'[p] = x /\ OthersStay(p)
      BY <3>1, <3>2, BecomeType
    <3>4. Moves(p)
      BY <1>0, <3>1, <3>2, <3>3 DEF Moves, SameRequest, KeepsKind
    <3>. QED BY <1>7, <3>2, <3>3, <3>4, <1>0, <1>1 DEF BuildAgent, TypeOK, Threads
  <2>. QED BY <2>1, <2>2
<1>8. CASE Think(p)
  <2>1. PICK place \in {"snapshot", "persist", "start"} : Goes(p, place)
    BY <1>8 DEF Think
  <2>2. process[p].agent # None /\ UNCHANGED <<received, session>>
    BY <1>8 DEF Think, TypeOK
  <2>3. Typed /\ Moves(p)
    BY <1>0, <2>1, <2>2, GoesType, GoesMoves DEF Places
  <2>. QED BY <1>8, <2>3, <1>0, <1>1 DEF Think, TypeOK, Threads, Remembers
<1>9. CASE StartWorkflow(p)
  <2>1. Goes(p, "snapshot") /\ UNCHANGED <<received, session>>
    BY <1>9 DEF StartWorkflow
  <2>2. process[p].agent # None
    BY <1>9 DEF StartWorkflow, TypeOK
  <2>3. Typed /\ Moves(p)
    BY <1>0, <2>1, <2>2, GoesType, GoesMoves DEF Places
  <2>. QED BY <1>9, <2>3, <1>0, <1>1 DEF StartWorkflow, TypeOK, Threads, Mixes, Remembers
<1>10. CASE PersistConfirmation(p)
  <2>1. Goes(p, "snapshot") /\ UNCHANGED <<received, session>>
    BY <1>10 DEF PersistConfirmation
  <2>2. process[p].agent # None
    BY <1>10 DEF PersistConfirmation, TypeOK
  <2>3. Typed /\ Moves(p)
    BY <1>0, <2>1, <2>2, GoesType, GoesMoves DEF Places
  <2>. QED BY <1>10, <2>3, <1>0, <1>1 DEF PersistConfirmation, TypeOK, Threads, Mixes, Remembers
<1>11. CASE ExecuteConfirmed(p)
  <2>1. Goes(p, "snapshot") /\ UNCHANGED <<received, session>>
    BY <1>11 DEF ExecuteConfirmed
  <2>2. process[p].agent # None
    BY <1>11 DEF ExecuteConfirmed, TypeOK
  <2>3. Typed /\ Moves(p)
    BY <1>0, <2>1, <2>2, GoesType, GoesMoves DEF Places
  <2>4. /\ executed' \in [Requests -> Nat]
        /\ UNCHANGED <<crashes, lock, cache, storeVars, answered, mixed>>
    BY <1>11 DEF ExecuteConfirmed, TypeOK
  <2>5. memory' \in [Requests -> SUBSET Requests]
    BY <1>11, <1>0 DEF ExecuteConfirmed, TypeOK, Remembers
  <2>. QED BY <2>3, <2>4, <2>5, <1>1 DEF TypeOK
<1>12. CASE ExecuteWorkflowAction(p)
  <2>1. Goes(p, "snapshot") /\ UNCHANGED <<received, session>>
    BY <1>12 DEF ExecuteWorkflowAction
  <2>2. process[p].agent # None
    BY <1>12 DEF ExecuteWorkflowAction, TypeOK
  <2>3. Typed /\ Moves(p)
    BY <1>0, <2>1, <2>2, GoesType, GoesMoves DEF Places
  <2>. QED BY <1>12, <2>3, <1>0, <1>1 DEF ExecuteWorkflowAction, TypeOK, Threads, Mixes, Remembers
<1>13. CASE TakeSnapshot(p)
  <2>. DEFINE x == [process[p] EXCEPT !.at = "save",
                                     !.turns = memory[process[p].agent]]
  <2>0. memory[process[p].agent] \subseteq Requests
    BY <1>13, <1>0 DEF TakeSnapshot, TypeOK, Threads
  <2>1. /\ x \in Threads /\ x.at = "save"
        /\ x.at \in Working => x.agent # None
        /\ x.session = process[p].session /\ x.request = process[p].request
        /\ x.kind = process[p].kind /\ x.confirmation = process[p].confirmation
    BY <1>13, <1>0, <2>0, SessionAssumption DEF TakeSnapshot, Threads, Places, TypeOK, Working, Requests
  <2>2. Become(p, x) /\ UNCHANGED <<received, session>>
    BY <1>13 DEF TakeSnapshot
  <2>. HIDE DEF x
  <2>3. Typed /\ process'[p] = x /\ OthersStay(p)
    BY <2>1, <2>2, BecomeType
  <2>4. Moves(p)
    BY <1>0, <2>1, <2>2, <2>3 DEF Moves, SameRequest, KeepsKind
  <2>. QED BY <1>13, <2>3, <2>4, <1>0, <1>1 DEF TakeSnapshot, TypeOK, Threads
<1>14. CASE Save(p)
  <2>0. UNCHANGED <<received, session>> /\ process[p].agent # None
    BY <1>14 DEF Save, TypeOK
  <2>1. /\ saved' \in [Sessions -> SUBSET Requests]
        /\ UNCHANGED <<crashes, cache, memory, status, executed, mixed>>
    BY <1>14, <1>0 DEF Save, TypeOK, Threads
  <2>2. CASE Respond(p)
    <3>1. Typed /\ Moves(p) /\ lock' \in [Sessions -> Handlers \cup {None}]
      BY <1>0, <2>0, <2>2, LeaveType DEF Moves, Respond
    <3>. QED BY <2>1, <2>2, <3>1, <1>0, <1>1 DEF Respond, TypeOK
  <2>3. CASE Goes(p, "again") /\ UNCHANGED <<lock, answered>>
    <3>1. Typed /\ Moves(p)
      BY <1>0, <2>0, <2>3, GoesType, GoesMoves DEF Places
    <3>. QED BY <2>1, <2>3, <3>1, <1>1 DEF TypeOK
  <2>4. CASE /\ process[p].kind = "decision"
             /\ Become(p, [process[p] EXCEPT !.at = "pop", !.kind = "retry"])
             /\ UNCHANGED <<lock, answered>>
    <3>. DEFINE x == [process[p] EXCEPT !.at = "pop", !.kind = "retry"]
    <3>1. /\ x \in Threads /\ x.at = "pop" /\ x.at \notin Working
          /\ x.session = process[p].session /\ x.request = process[p].request
          /\ x.kind = "retry" /\ x.confirmation = process[p].confirmation
      BY <1>0 DEF Threads, Places, Kinds, Working
    <3>2. Become(p, x)
      BY <2>4
    <3>. HIDE DEF x
    <3>3. Typed /\ process'[p] = x /\ OthersStay(p)
      BY <3>1, <3>2, BecomeType
    <3>4. Moves(p)
      BY <1>0, <2>0, <2>4, <3>1, <3>3 DEF Moves, SameRequest, KeepsKind
    <3>. QED BY <2>1, <2>4, <3>3, <3>4, <1>1 DEF TypeOK
  <2>. QED BY <1>14, <2>2, <2>3, <2>4 DEF Save
<1>15. CASE Raise(p)
  <2>1. Leave(p) /\ UNCHANGED <<received, session>>
    BY <1>15 DEF Raise
  <2>2. Typed /\ Moves(p) /\ lock' \in [Sessions -> Handlers \cup {None}]
    BY <1>0, <2>1, LeaveType DEF Moves
  <2>. QED BY <1>15, <2>2, <1>0, <1>1 DEF Raise, TypeOK, Threads
<1>16. CASE PrepareRetry(p)
  <2>1. Goes(p, "snapshot") /\ UNCHANGED <<received, session>>
    BY <1>16 DEF PrepareRetry
  <2>2. process[p].agent # None
    BY <1>16 DEF PrepareRetry, TypeOK
  <2>3. Typed /\ Moves(p)
    BY <1>0, <2>1, <2>2, GoesType, GoesMoves DEF Places
  <2>. QED BY <1>16, <2>3, <1>0, <1>1 DEF PrepareRetry, TypeOK, Threads, Remembers
<1>17. CASE PersistAgain(p)
  <2>1. Leave(p) /\ UNCHANGED <<received, session>>
    BY <1>17 DEF PersistAgain, Respond
  <2>2. Typed /\ Moves(p) /\ lock' \in [Sessions -> Handlers \cup {None}]
    BY <1>0, <2>1, LeaveType DEF Moves
  <2>. QED BY <1>17, <2>2, <1>0, <1>1 DEF PersistAgain, Respond, TypeOK, Threads
<1>. QED
  BY <1>2, <1>3, <1>4, <1>5, <1>6, <1>7, <1>8, <1>9, <1>10, <1>11, <1>12, <1>13,
     <1>14, <1>15, <1>16, <1>17 DEF RequestStep

\* A new request keeps the types, and is like no other.
LEMMA ReceiveArrives ==
    ASSUME BaseInv, NEW p \in Handlers, NEW s \in Sessions, NEW kind \in Kinds,
           NEW place \in {"acquire", "pop", "lookup"},
           NEW c \in Requests \cup {None}, kind = "decision" => c \in answered,
           Receive(p, s, kind, place, c)
    PROVE  /\ Arrives(p)
           /\ received' \in 0..MaxRequests
           /\ process' \in [Handlers -> Threads]
           /\ \A q \in Handlers : process'[q].at \in Working
                 => process'[q].agent # None
           /\ session' \in [Requests -> Sessions \cup {None}]
           /\ process'[p].kind = kind /\ process'[p].session = s
           /\ process'[p].at = place /\ process'[p].confirmation = c
<1>. DEFINE x == [Idle EXCEPT !.at = place, !.kind = kind, !.session = s,
                             !.request = received + 1, !.confirmation = c]
<1>0. received \in 0..MaxRequests /\ received < MaxRequests /\ MaxRequests \in Nat
  BY SessionAssumption DEF BaseInv, TypeOK, Receive
<1>1. received + 1 \in Requests /\ received + 1 \in 0..MaxRequests
  BY <1>0 DEF Requests
<1>2. /\ x \in Threads
      /\ x.at = place /\ x.kind = kind /\ x.session = s
      /\ x.request = received + 1 /\ x.confirmation = c
      /\ x.at \notin Working
  BY <1>1 DEF Threads, Places, Idle, Working
<1>3. Become(p, x) /\ ~Busy(p) /\ received' = received + 1
  BY DEF Receive, Busy
<1>. HIDE DEF x
<1>4. /\ process' \in [Handlers -> Threads]
      /\ \A q \in Handlers : process'[q].at \in Working
            => process'[q].agent # None
      /\ process'[p] = x /\ OthersStay(p)
  BY <1>2, <1>3, BecomeType DEF BaseInv
<1>5. /\ session' = [session EXCEPT ![received + 1] = s]
      /\ session' \in [Requests -> Sessions \cup {None}]
  BY <1>1 DEF Receive, BaseInv, TypeOK
<1>. QED BY <1>0, <1>1, <1>2, <1>3, <1>4, <1>5 DEF Arrives

LEMMA MessageArrives ==
    ASSUME BaseInv, NEW p \in Handlers, NEW s \in Sessions,
           Message(p, s) \/ Reload(p, s) \/ WorkflowAction(p, s)
    PROVE  TypeOK' /\ Arrives(p) /\ process'[p].kind # "decision"
<1>1. \E kind \in Kinds \ {"decision"}, place \in {"acquire", "pop", "lookup"} :
         Receive(p, s, kind, place, None)
  BY DEF Message, Reload, WorkflowAction, Kinds
<1>2. PICK kind \in Kinds \ {"decision"}, place \in {"acquire", "pop", "lookup"} :
         Receive(p, s, kind, place, None)
  BY <1>1
<1>3. /\ Arrives(p)
      /\ received' \in 0..MaxRequests
      /\ process' \in [Handlers -> Threads]
      /\ \A q \in Handlers : process'[q].at \in Working
            => process'[q].agent # None
      /\ session' \in [Requests -> Sessions \cup {None}]
      /\ process'[p].kind = kind
  BY <1>2, ReceiveArrives
<1>4. /\ UNCHANGED <<crashes, lock, agentVars, storeVars, historyVars>>
      /\ mixed' \in {mixed, mixed \cup {s}}
  BY DEF Message, Reload, WorkflowAction, Mixes
<1>5. TypeOK'
  BY <1>3, <1>4 DEF BaseInv, TypeOK, Working
<1>. QED BY <1>3, <1>5

LEMMA DecideArrives ==
    ASSUME BaseInv, NEW p \in Handlers, NEW c \in Requests,
           NEW verdict \in {"approved", "rejected"}, Decide(p, c, verdict)
    PROVE  /\ TypeOK' /\ Arrives(p)
           /\ process'[p].kind = "decision" /\ process'[p].confirmation = c
           /\ process'[p].at = "acquire"
<1>1. /\ c \in answered /\ session[c] \in Sessions
      /\ Receive(p, session[c], "decision", "acquire", c)
  BY DEF Decide, BaseInv, NamesKnown
<1>2. /\ Arrives(p)
      /\ received' \in 0..MaxRequests
      /\ process' \in [Handlers -> Threads]
      /\ \A q \in Handlers : process'[q].at \in Working
            => process'[q].agent # None
      /\ session' \in [Requests -> Sessions \cup {None}]
      /\ process'[p].kind = "decision" /\ process'[p].confirmation = c
      /\ process'[p].at = "acquire"
  BY <1>1, ReceiveArrives DEF Kinds
<1>3. TypeOK'
  BY <1>2 DEF BaseInv, TypeOK, Working, Decide
<1>. QED BY <1>2, <1>3

LEMMA CrashType == ASSUME TypeOK, Crash PROVE TypeOK'
<1>1. process' \in [Handlers -> Threads]
      /\ \A q \in Handlers : process'[q].at = "none"
  BY IdleType DEF Crash
<1>2. crashes' \in 0..MaxCrashes
  BY SessionAssumption DEF Crash, TypeOK
<1>. QED BY <1>1, <1>2 DEF Crash, TypeOK

LEMMA NextShape ==
    ASSUME BaseInv, Next
    PROVE  TypeOK' /\ (Crash \/ \E p \in Handlers : Moves(p) \/ Arrives(p))
BY RequestMoves, MessageArrives, DecideArrives, CrashType DEF Next, BaseInv
-----------------------------------------------------------------------------
(* Names.                                                                  *)

LEMMA InitBase == Init => BaseInv
<1>. SUFFICES ASSUME Init PROVE BaseInv
  OBVIOUS
<1>1. TypeOK
  BY IdleType, SessionAssumption DEF Init, TypeOK
<1>2. \A p \in Handlers : ~Busy(p)
  BY DEF Init, Busy, Idle
<1>. QED BY <1>1, <1>2 DEF BaseInv, ThreadsKnown, OwnRequest, NamesKnown, Init

LEMMA ThreadsKnownKept ==
    ASSUME BaseInv, Next
    PROVE  ThreadsKnown' /\ OwnRequest'
<1>. TypeOK /\ ThreadsKnown /\ OwnRequest /\ NamesKnown /\ received \in Nat
  BY SessionAssumption DEF BaseInv, TypeOK
<1>1. CASE Crash
  <2>1. \A q \in Handlers : ~Busy(q)'
    BY <1>1 DEF Crash, Busy, Idle
  <2>. QED BY <2>1 DEF ThreadsKnown, OwnRequest
<1>2. ASSUME NEW p \in Handlers, Moves(p)
      PROVE  ThreadsKnown' /\ OwnRequest'
  <2>1. \A q \in Handlers : Busy(q)' =>
          /\ Busy(q)
          /\ process'[q].session = process[q].session
          /\ process'[q].request = process[q].request
          /\ KeepsKind(q)
          /\ process'[q].confirmation = process[q].confirmation
    BY <1>2, IdleType DEF Moves, OthersStay, SameRequest, KeepsKind, Busy
  <2>2. received' = received /\ session' = session
    BY <1>2 DEF Moves
  <2>3. ThreadsKnown'
    BY <2>1, <2>2 DEF ThreadsKnown, KeepsKind
  <2>4. OwnRequest'
    BY <2>1 DEF OwnRequest
  <2>. QED BY <2>3, <2>4
<1>3. ASSUME NEW p \in Handlers, Arrives(p)
      PROVE  ThreadsKnown' /\ OwnRequest'
  <2>1. \A q \in Handlers : q # p => process'[q] = process[q]
    BY <1>3 DEF Arrives, OthersStay
  <2>2. received' = received + 1 /\ received + 1 \in Requests
    BY <1>3 DEF Arrives
  <2>3. PICK s \in Sessions :
          /\ session' = [session EXCEPT ![received + 1] = s]
          /\ process'[p].session = s
          /\ process'[p].request = received + 1
          /\ process'[p].kind = "decision" => process'[p].confirmation \in answered
    BY <1>3 DEF Arrives
  <2>4. /\ \A r \in 1..received : session'[r] = session[r] /\ r # received + 1
        /\ session'[received + 1] = s
    BY <2>2, <2>3 DEF TypeOK
  <2>5. ThreadsKnown'
    <3>. SUFFICES ASSUME NEW q \in Handlers, Busy(q)'
                  PROVE  /\ process'[q].session \in Sessions
                         /\ process'[q].request \in 1..received'
                         /\ session'[process'[q].request] = process'[q].session
                         /\ process'[q].kind = "decision"
                               => process'[q].confirmation \in Requests
      BY DEF ThreadsKnown
    <3>1. CASE q = p
      BY <3>1, <2>2, <2>3, <2>4 DEF TypeOK
    <3>2. CASE q # p
      BY <3>2, <2>1, <2>2, <2>4 DEF ThreadsKnown, Busy
    <3>. QED BY <3>1, <3>2
  <2>6. OwnRequest'
    <3>1. \A q \in Handlers : q # p /\ Busy(q)' =>
             process'[q].request # process'[p].request
      BY <2>1, <2>3, <2>4 DEF ThreadsKnown, Busy
    <3>. QED BY <3>1, <2>1 DEF OwnRequest, Busy
  <2>. QED BY <2>5, <2>6
<1>. QED BY <1>1, <1>2, <1>3, NextShape

\* What a step does to answered and cache.
LEMMA NamesMove ==
    ASSUME BaseInv, Next
    PROVE  /\ \A r \in answered' : r \in answered \/
                 \E p \in Handlers : Busy(p) /\ r = process[p].request
           /\ \A s \in Sessions : cache'[s] \in {cache[s], None} \/
                 \E p \in Handlers : /\ Busy(p) /\ cache'[s] = process[p].request
                                    /\ process[p].session = s
<1>. TypeOK
  BY DEF BaseInv
<1>. USE DEF Busy
<1>1. ASSUME NEW p \in Handlers, RequestStep(p) \/ Raise(p)
      PROVE  /\ answered' \in {answered, answered \cup {process[p].request}}
             /\ \A s \in Sessions : cache'[s] \in {cache[s], None} \/
                   (cache'[s] = process[p].request /\ process[p].session = s)
  <2>1. CASE Pop(p)
    BY <2>1 DEF Pop, TypeOK
  <2>2. CASE BuildAgent(p)
    BY <2>2 DEF BuildAgent, TypeOK
  <2>3. CASE Save(p) \/ PersistAgain(p)
    BY <2>3 DEF Save, PersistAgain, Respond
  <2>4. CASE UNCHANGED <<answered, cache>>
    BY <2>4
  <2>. QED BY <1>1, <2>1, <2>2, <2>3, <2>4
              DEF RequestStep, Raise, Acquire, Found, NotFound, LoadSnapshot, Think,
                  StartWorkflow, PersistConfirmation, ExecuteConfirmed,
                  ExecuteWorkflowAction, PrepareRetry, TakeSnapshot
<1>2. ASSUME NEW p \in Handlers, RequestStep(p) \/ Raise(p) PROVE Busy(p)
  BY <1>2, RequestMoves DEF Moves
<1>3. CASE UNCHANGED <<answered, cache>>
  BY <1>3
<1>4. CASE Crash
  BY <1>4 DEF Crash
<1>5. ASSUME NEW p \in Handlers, RequestStep(p) \/ Raise(p)
      PROVE  /\ \A r \in answered' : r \in answered \/
                   \E q \in Handlers : Busy(q) /\ r = process[q].request
             /\ \A s \in Sessions : cache'[s] \in {cache[s], None} \/
                   \E q \in Handlers : /\ Busy(q) /\ cache'[s] = process[q].request
                                      /\ process[q].session = s
  BY <1>1, <1>2, <1>5
<1>6. Next => \/ Crash \/ UNCHANGED <<answered, cache>>
              \/ \E p \in Handlers : RequestStep(p) \/ Raise(p)
  BY DEF Next, Message, Decide, Reload, WorkflowAction
<1>. QED BY <1>3, <1>4, <1>5, <1>6

LEMMA NamesKnownKept == ASSUME BaseInv, Next PROVE NamesKnown'
<1>. TypeOK /\ ThreadsKnown /\ NamesKnown /\ received \in Nat
  BY SessionAssumption DEF BaseInv, TypeOK
<1>1. /\ received' \in Nat /\ received <= received'
      /\ \A r \in 1..received : session'[r] = session[r]
  <2>1. CASE Crash
    BY <2>1 DEF Crash
  <2>2. ASSUME NEW p \in Handlers, Moves(p)
        PROVE  received' = received /\ session' = session
    BY <2>2 DEF Moves
  <2>3. ASSUME NEW p \in Handlers, Arrives(p)
        PROVE  received' = received + 1 /\ \A r \in 1..received : session'[r] = session[r]
    BY <2>3 DEF Arrives, TypeOK
  <2>. QED BY <2>1, <2>2, <2>3, NextShape
<1>2. \A p \in Handlers : Busy(p) =>
         /\ process[p].request \in 1..received
         /\ session[process[p].request] = process[p].session
         /\ process[p].session \in Sessions
  BY DEF ThreadsKnown
<1>3. \A r \in answered : r \in 1..received
  BY DEF NamesKnown, TypeOK, Requests
<1>4. \A s \in Sessions : cache[s] # None => cache[s] \in 1..received
  BY SessionAssumption DEF NamesKnown, TypeOK, Requests
<1>5. \A r \in answered' : r <= received' /\ session'[r] \in Sessions
  BY <1>1, <1>2, <1>3, NamesMove DEF NamesKnown
<1>6. \A s \in Sessions : cache'[s] # None => cache'[s] <= received' /\ session'[cache'[s]] = s
  BY <1>1, <1>2, <1>4, NamesMove DEF NamesKnown
<1>. QED BY <1>5, <1>6 DEF NamesKnown

LEMMA StutterBase == ASSUME BaseInv, UNCHANGED vars PROVE BaseInv'
BY DEF BaseInv, TypeOK, ThreadsKnown, OwnRequest, NamesKnown, Busy, vars

LEMMA BaseStep == BaseInv /\ [Next]_vars => BaseInv'
BY NextShape, ThreadsKnownKept, NamesKnownKept, StutterBase DEF BaseInv

LEMMA BaseCorrect == Spec => []BaseInv
BY InitBase, BaseStep, PTL DEF Spec

\* Every variable of the gateway keeps its type: in particular whoever works for
\* a session has an agent, and no row names a request that has not come.
THEOREM TypeCorrect == Spec => []TypeOK
<1>1. BaseInv => TypeOK
  BY DEF BaseInv
<1>. QED BY BaseCorrect, <1>1, PTL
-----------------------------------------------------------------------------
(* Confirmations.                                                          *)

LEMMA InitVerdict == Init => VerdictInv
<1>1. Init => NotAskedYet /\ OneDecider /\ ConfirmedOnce
  BY DEF Init, NotAskedYet, OneDecider, ConfirmedOnce, Deciding, Busy, Idle
<1>. QED BY <1>1, InitBase DEF VerdictInv

\* Where a thread may still ask or execute, it might before.
LEMMA NoWayBack ==
    ASSUME BaseInv, NEW p \in Handlers, RequestStep(p) \/ Raise(p)
    PROVE  /\ process[p].at \in {"snapshot", "save"} /\ process[p].kind \notin Deciders
                 => process'[p].at \in {"none", "snapshot", "save"}
           /\ process[p].at \in Over
                 => process'[p].at \in {"none"} \cup Over \/ process'[p].kind = "retry"
           /\ process'[p].at = "persist" => process'[p].kind = "message"
<1>. USE DEF Over, Deciders
<1>. TypeOK /\ process[p] \in Threads
  BY DEF BaseInv, TypeOK
<1>1. CASE Raise(p)
  BY <1>1, IdleType, LeaveType DEF Raise
<1>2. CASE Save(p)
  <2>1. CASE Respond(p)
    BY <2>1, IdleType, LeaveType DEF Respond
  <2>2. CASE process[p].kind \in Deciders /\ Goes(p, "again")
    BY <1>2, <2>2 DEF Goes, Become, TypeOK, Threads
  <2>3. CASE /\ process[p].kind = "decision"
             /\ Become(p, [process[p] EXCEPT !.at = "pop", !.kind = "retry"])
    BY <2>3 DEF Become, TypeOK, Threads
  <2>. QED BY <1>2, <2>1, <2>2, <2>3 DEF Save
<1>3. CASE TakeSnapshot(p)
  BY <1>3 DEF TakeSnapshot, Become, TypeOK, Threads
<1>4. CASE PersistAgain(p)
  BY <1>4, IdleType, LeaveType DEF PersistAgain, Respond
<1>5. CASE Think(p)
  BY <1>5 DEF Think, Goes, Become, TypeOK, Threads
<1>6. CASE Found(p) \/ BuildAgent(p)
  <2>1. CASE process[p].kind = "reload"
    BY <1>6, <2>1, IdleType, LeaveType DEF Found, BuildAgent
  <2>2. CASE process[p].kind # "reload"
    <3>1. process[p].at \in {"lookup", "build"} /\ process'[p].at = "work"
      <4>1. CASE Found(p)
        BY <4>1, <2>2 DEF Found, Become, TypeOK, Threads
      <4>2. CASE BuildAgent(p)
        <5>1. process[p].at = "build"
          BY <4>2 DEF BuildAgent
        <5>2. process' = [process EXCEPT ![p] =
                            [process[p] EXCEPT !.at = "work",
                                               !.agent = process[p].request,
                                               !.turns = {}]]
          BY <4>2, <2>2 DEF BuildAgent, Become
        <5>. QED BY <5>1, <5>2 DEF TypeOK, Threads
      <4>. QED BY <1>6, <4>1, <4>2
    <3>. QED BY <3>1
  <2>. QED BY <2>1, <2>2
<1>7. CASE Acquire(p) \/ Pop(p) \/ NotFound(p) \/ LoadSnapshot(p)
  <2>1. /\ process[p].at \notin {"snapshot", "save", "again"}
        /\ process'[p].at \in {"lookup", "load", "build"}
    <3>1. CASE Acquire(p)
      BY <3>1 DEF Acquire, Goes, Become, TypeOK, Threads
    <3>2. CASE Pop(p)
      BY <3>2 DEF Pop, Goes, Become, TypeOK, Threads
    <3>3. CASE NotFound(p)
      BY <3>3 DEF NotFound, Goes, Become, TypeOK, Threads
    <3>4. CASE LoadSnapshot(p)
      BY <3>4 DEF LoadSnapshot, Become, TypeOK, Threads
    <3>. QED BY <1>7, <3>1, <3>2, <3>3, <3>4
  <2>. QED BY <2>1
<1>8. CASE \/ StartWorkflow(p) \/ PersistConfirmation(p) \/ ExecuteConfirmed(p)
           \/ ExecuteWorkflowAction(p) \/ PrepareRetry(p)
  BY <1>8 DEF StartWorkflow, PersistConfirmation, ExecuteConfirmed,
     ExecuteWorkflowAction, PrepareRetry, Goes, Become, TypeOK, Threads
<1>. QED
  BY <1>1, <1>2, <1>3, <1>4, <1>5, <1>6, <1>7, <1>8 DEF RequestStep

LEMMA QuietStepVerdict ==
    ASSUME VerdictInv, NEW p \in Handlers, RequestStep(p) \/ Raise(p),
           UNCHANGED <<status, executed>>
    PROVE  (NotAskedYet /\ OneDecider /\ ConfirmedOnce)'
<1>. BaseInv /\ NotAskedYet /\ OneDecider /\ ConfirmedOnce
  BY DEF VerdictInv
<1>1. Moves(p)
  BY RequestMoves
<1>2. \A q \in Handlers : Busy(q)' =>
        /\ Busy(q)
        /\ process'[q].request = process[q].request
        /\ KeepsKind(q)
        /\ process'[q].confirmation = process[q].confirmation
        /\ process[q].at \in {"snapshot", "save"} /\ process[q].kind \notin Deciders
              => process'[q].at \in {"snapshot", "save"}
        /\ process[q].at \in Over
              => process'[q].at \in Over \/ process'[q].kind = "retry"
  BY <1>1, IdleType, NoWayBack DEF Moves, OthersStay, SameRequest, KeepsKind, Busy
<1>3. received' = received
  BY <1>1 DEF Moves
<1>4. NotAskedYet'
  <2>1. \A q \in Handlers :
           Busy(q)' /\ (process'[q].at \in {"snapshot", "save"}
                           => process'[q].kind \in Deciders)
             => status[process[q].request] = "absent"
    BY <1>2 DEF NotAskedYet, KeepsKind, Deciders
  <2>2. \A q \in Handlers :
           process'[q].at = "persist" => process'[q].kind = "message"
    BY <1>1, NoWayBack DEF NotAskedYet, Moves, OthersStay
  <2>. QED BY <1>2, <1>3, <2>1, <2>2 DEF NotAskedYet
<1>5. OneDecider'
  <2>1. \A q \in Handlers : Deciding(q)' =>
           Deciding(q) /\ (process'[q].at \notin Over => process[q].at \notin Over)
    BY <1>2 DEF Deciding, KeepsKind
  <2>2. \A q \in Handlers : Deciding(q)' =>
          /\ status'[process'[q].confirmation] \in {"approved", "rejected"}
          /\ process'[q].at \notin Over
                => executed'[process'[q].confirmation] = 0
    BY <1>2, <2>1 DEF OneDecider, Deciding
  <2>3. \A q1, q2 \in Handlers :
          Deciding(q1)' /\ Deciding(q2)'
          /\ process'[q1].confirmation = process'[q2].confirmation => q1 = q2
    BY <1>2, <2>1 DEF OneDecider, Deciding
  <2>. QED BY <2>2, <2>3 DEF OneDecider
<1>6. ConfirmedOnce'
  BY DEF ConfirmedOnce
<1>. QED BY <1>4, <1>5, <1>6

LEMMA PersistVerdict ==
    ASSUME VerdictInv, NEW p \in Handlers, PersistConfirmation(p) \/ PersistAgain(p)
    PROVE  (NotAskedYet /\ OneDecider /\ ConfirmedOnce)'
<1>. /\ BaseInv /\ NotAskedYet /\ OneDecider /\ ConfirmedOnce
     /\ TypeOK /\ ThreadsKnown /\ OwnRequest
  BY DEF VerdictInv, BaseInv
<1>. DEFINE r == process[p].request
<1>1. Moves(p)
  BY RequestMoves DEF RequestStep
<1>2. /\ Busy(p) /\ process[p].at \in {"persist", "again"}
      /\ \/ process'[p].at = "none"
         \/ process'[p].at = "snapshot" /\ process'[p].kind = "message"
      /\ status' = [status EXCEPT ![r] = "pending"]
      /\ UNCHANGED <<executed, received>>
  <2>1. CASE PersistConfirmation(p)
    BY <2>1 DEF PersistConfirmation, NotAskedYet, Busy, Goes, Become, TypeOK, Threads
  <2>2. CASE PersistAgain(p)
    BY <2>2, LeaveType, IdleType DEF PersistAgain, Respond, Busy
  <2>. QED BY <2>1, <2>2
<1>3. r \in Requests /\ r <= received /\ status[r] = "absent"
  <2>1. r \in 1..received /\ received \in 0..MaxRequests /\ MaxRequests \in Nat
    BY <1>2, SessionAssumption DEF ThreadsKnown, TypeOK
  <2>2. status[r] = "absent"
    BY <1>2 DEF NotAskedYet
  <2>. QED BY <2>1, <2>2 DEF Requests
<1>4. \A c \in Requests : status'[c] = IF c = r THEN "pending" ELSE status[c]
  BY <1>2, <1>3 DEF TypeOK
<1>5. \A q \in Handlers : Busy(q)' =>
        /\ Busy(q)
        /\ process'[q].request = process[q].request
        /\ KeepsKind(q)
        /\ process'[q].confirmation = process[q].confirmation
        /\ q # p => process'[q].at = process[q].at /\ process[q].request # r
        /\ process[q].request \in Requests
  BY <1>1, <1>2, IdleType, SessionAssumption
     DEF Moves, OthersStay, SameRequest, KeepsKind, Busy, OwnRequest, ThreadsKnown,
         TypeOK, Requests
<1>6. NotAskedYet'
  <2>1. ASSUME NEW q \in Handlers, Busy(q)',
               process'[q].at \in {"snapshot", "save"} => process'[q].kind \in Deciders
        PROVE  status'[process'[q].request] = "absent"
    <3>1. q # p
      BY <1>2, <2>1 DEF Deciders, Busy
    <3>2. process'[q] = process[q] /\ process[q].request # r
      BY <1>1, <1>5, <2>1, <3>1 DEF Moves, OthersStay
    <3>. QED BY <1>4, <1>5, <2>1, <3>2 DEF NotAskedYet
  <2>3. \A q \in Handlers :
           process'[q].at = "persist" => process'[q].kind = "message"
    BY <1>1, <1>2 DEF NotAskedYet, Moves, OthersStay
  <2>2. \A c \in Requests : c > received' => status'[c] = "absent"
    BY <1>2, <1>3, <1>4, SessionAssumption DEF NotAskedYet, TypeOK, Requests
  <2>. QED BY <2>1, <2>2, <2>3 DEF NotAskedYet
<1>7. OneDecider'
  <2>1. \A q \in Handlers : Deciding(q)' =>
          /\ Deciding(q) /\ process[q].confirmation \in Requests
          /\ process[q].confirmation # r
          /\ status'[process[q].confirmation] = status[process[q].confirmation]
    BY <1>3, <1>4, <1>5 DEF Deciding, OneDecider, ThreadsKnown, KeepsKind
  <2>2. \A q \in Handlers : Deciding(q)' =>
          /\ status'[process'[q].confirmation] \in {"approved", "rejected"}
          /\ process'[q].at \notin Over
                => executed'[process'[q].confirmation] = 0
    BY <1>2, <1>5, <2>1 DEF OneDecider, Deciding, Over, Busy
  <2>3. \A q1, q2 \in Handlers :
          Deciding(q1)' /\ Deciding(q2)'
          /\ process'[q1].confirmation = process'[q2].confirmation => q1 = q2
    BY <1>5, <2>1 DEF OneDecider, Deciding
  <2>. QED BY <2>2, <2>3 DEF OneDecider
<1>8. ConfirmedOnce'
  BY <1>2, <1>3, <1>4 DEF ConfirmedOnce, TypeOK
<1>. QED BY <1>6, <1>7, <1>8

LEMMA ExecuteVerdict ==
    ASSUME VerdictInv, NEW p \in Handlers, ExecuteConfirmed(p)
    PROVE  (NotAskedYet /\ OneDecider /\ ConfirmedOnce)'
<1>. /\ BaseInv /\ NotAskedYet /\ OneDecider /\ ConfirmedOnce
     /\ TypeOK /\ ThreadsKnown
  BY DEF VerdictInv, BaseInv
<1>. DEFINE c == process[p].confirmation
<1>1. CASE UNCHANGED executed
  BY <1>1, QuietStepVerdict DEF ExecuteConfirmed, RequestStep
<1>2. CASE executed' # executed
  <2>1. /\ Deciding(p) /\ process[p].at = "work" /\ process'[p].at = "snapshot"
        /\ status[c] = "approved" /\ UNCHANGED <<status, received>>
        /\ executed' = [executed EXCEPT ![c] = @ + 1]
    BY <1>2 DEF ExecuteConfirmed, Deciding, Busy, Goes, Become, TypeOK, Threads
  <2>2. c \in Requests /\ executed[c] = 0
    BY <2>1 DEF OneDecider, ThreadsKnown, Deciding, Over
  <2>3. executed'[c] = 1 /\ \A d \in Requests : d # c => executed'[d] = executed[d]
    BY <2>1, <2>2 DEF TypeOK
  <2>4. Moves(p)
    BY RequestMoves DEF RequestStep
  <2>5. \A q \in Handlers : Busy(q)' =>
          /\ Busy(q)
          /\ process'[q].request = process[q].request
          /\ KeepsKind(q)
          /\ process'[q].confirmation = process[q].confirmation
          /\ q # p => process'[q].at = process[q].at
    BY <2>4, IdleType DEF Moves, OthersStay, SameRequest, KeepsKind, Busy
  <2>6. NotAskedYet'
    <3>1. \A q \in Handlers : Busy(q)' =>
             \/ q = p
             \/ process'[q] = process[q]
      BY <2>4 DEF Moves, OthersStay
    <3>2. status[process[p].request] = "absent"
      BY <2>1 DEF NotAskedYet, Deciding
    <3>3. process'[p].at # "persist" /\ \A q \in Handlers : q # p => process'[q] = process[q]
      BY <2>1, <2>4 DEF Moves, OthersStay
    <3>. QED BY <2>1, <2>5, <3>1, <3>2, <3>3 DEF NotAskedYet, Busy
  <2>7. OneDecider'
    <3>1. \A q \in Handlers : Deciding(q)' =>
            /\ Deciding(q) /\ process[q].confirmation \in Requests
            /\ q # p => process[q].confirmation # c
      BY <2>1, <2>5 DEF Deciding, OneDecider, ThreadsKnown, KeepsKind
    <3>2. \A q \in Handlers : Deciding(q)' =>
            /\ status'[process'[q].confirmation] \in {"approved", "rejected"}
            /\ process'[q].at \notin Over
                  => executed'[process'[q].confirmation] = 0
      BY <2>1, <2>3, <2>5, <3>1 DEF OneDecider, Deciding, Over
    <3>3. \A q1, q2 \in Handlers :
            Deciding(q1)' /\ Deciding(q2)'
            /\ process'[q1].confirmation = process'[q2].confirmation => q1 = q2
      BY <2>5, <3>1 DEF OneDecider, Deciding
    <3>. QED BY <3>2, <3>3 DEF OneDecider
  <2>8. ConfirmedOnce'
    BY <2>1, <2>2, <2>3 DEF ConfirmedOnce
  <2>. QED BY <2>6, <2>7, <2>8
<1>. QED BY <1>1, <1>2

LEMMA ArriveVerdict ==
    ASSUME VerdictInv, NEW p \in Handlers, Arrives(p), process'[p].kind # "decision",
           UNCHANGED <<status, executed>>
    PROVE  (NotAskedYet /\ OneDecider /\ ConfirmedOnce)'
<1>. BaseInv /\ NotAskedYet /\ OneDecider /\ ConfirmedOnce /\ TypeOK /\ ThreadsKnown
  BY DEF VerdictInv, BaseInv
<1>1. /\ \A q \in Handlers : q # p => process'[q] = process[q]
      /\ process'[p].request = received + 1
      /\ received' = received + 1 /\ received + 1 \in Requests /\ received \in Nat
  BY SessionAssumption DEF Arrives, OthersStay, TypeOK
<1>2. NotAskedYet'
  <2>1. process'[p].at \in {"acquire", "pop", "lookup"}
    BY DEF Arrives
  <2>2. \A r \in Requests : r > received' => status'[r] = "absent"
    BY <1>1 DEF NotAskedYet, Requests
  <2>3. ASSUME NEW q \in Handlers, Busy(q)',
               process'[q].at \in {"snapshot", "save"} => process'[q].kind \in Deciders
        PROVE  status'[process'[q].request] = "absent"
    <3>1. CASE q = p
      BY <1>1, <3>1 DEF NotAskedYet, Requests
    <3>2. CASE q # p
      BY <1>1, <2>3, <3>2 DEF NotAskedYet, Busy
    <3>. QED BY <3>1, <3>2
  <2>4. \A q \in Handlers :
           process'[q].at = "persist" => process'[q].kind = "message"
    BY <1>1, <2>1 DEF NotAskedYet
  <2>. QED BY <2>2, <2>3, <2>4 DEF NotAskedYet
<1>3. OneDecider'
  BY <1>1 DEF OneDecider, Deciding, Busy
<1>4. ConfirmedOnce'
  BY DEF ConfirmedOnce
<1>. QED BY <1>2, <1>3, <1>4

LEMMA DecideVerdict ==
    ASSUME VerdictInv, NEW p \in Handlers, NEW c \in Requests,
           NEW verdict \in {"approved", "rejected"}, Decide(p, c, verdict)
    PROVE  (NotAskedYet /\ OneDecider /\ ConfirmedOnce)'
<1>. /\ BaseInv /\ NotAskedYet /\ OneDecider /\ ConfirmedOnce
     /\ TypeOK /\ ThreadsKnown /\ NamesKnown
  BY DEF VerdictInv, BaseInv
<1>1. /\ Arrives(p) /\ process'[p].kind = "decision"
      /\ process'[p].confirmation = c /\ process'[p].at = "acquire"
  BY DecideArrives
<1>2. /\ status[c] = "pending" /\ c \in answered /\ executed' = executed
      /\ \A d \in Requests : status'[d] = IF d = c THEN verdict ELSE status[d]
  BY DEF Decide, TypeOK
<1>3. c <= received /\ executed[c] = 0
  <2>1. executed[c] \in Nat /\ executed[c] <= 1 /\ executed[c] # 1
    BY <1>2 DEF ConfirmedOnce, TypeOK
  <2>. QED BY <1>2, <2>1 DEF NamesKnown
<1>4. /\ \A q \in Handlers : q # p => process'[q] = process[q]
      /\ process'[p].request = received + 1
      /\ received' = received + 1 /\ received + 1 \in Requests /\ received \in Nat
  BY <1>1, SessionAssumption DEF Arrives, OthersStay, TypeOK
<1>5. \A q \in Handlers : Busy(q) => process[q].request \in Requests
  BY <1>4, SessionAssumption DEF ThreadsKnown, Requests, TypeOK
<1>6. NotAskedYet'
  <2>1. \A d \in Requests : d > received' => status'[d] = "absent"
    BY <1>2, <1>3, <1>4 DEF NotAskedYet, Requests
  <2>2. \A q \in Handlers :
           Busy(q)' /\ (process'[q].at \in {"snapshot", "save"}
                           => process'[q].kind \in Deciders)
             => status'[process'[q].request] = "absent"
    <3>1. status'[received + 1] = "absent"
      BY <1>2, <1>3, <1>4 DEF NotAskedYet, Requests
    <3>. QED BY <1>2, <1>4, <1>5, <3>1 DEF NotAskedYet, Busy
  <2>3. \A q \in Handlers :
           process'[q].at = "persist" => process'[q].kind = "message"
    BY <1>1, <1>4 DEF NotAskedYet
  <2>. QED BY <2>1, <2>2, <2>3 DEF NotAskedYet
<1>7. OneDecider'
  <2>1. \A q \in Handlers : q # p /\ Deciding(q)' =>
          /\ Deciding(q) /\ process[q].confirmation \in Requests
          /\ process[q].confirmation # c
          /\ status'[process[q].confirmation] = status[process[q].confirmation]
    BY <1>2, <1>4 DEF Deciding, Busy, OneDecider, ThreadsKnown
  <2>2. \A q \in Handlers : Deciding(q)' =>
          /\ status'[process'[q].confirmation] \in {"approved", "rejected"}
          /\ process'[q].at \notin Over
                => executed'[process'[q].confirmation] = 0
    BY <1>1, <1>2, <1>3, <1>4, <2>1 DEF OneDecider
  <2>3. \A q1, q2 \in Handlers :
          Deciding(q1)' /\ Deciding(q2)'
          /\ process'[q1].confirmation = process'[q2].confirmation => q1 = q2
    BY <1>1, <1>4, <2>1 DEF OneDecider
  <2>. QED BY <2>2, <2>3 DEF OneDecider
<1>8. ConfirmedOnce'
  BY <1>2, <1>3 DEF ConfirmedOnce
<1>. QED BY <1>6, <1>7, <1>8

LEMMA VerdictStep == VerdictInv /\ [Next]_vars => VerdictInv'
<1>. SUFFICES ASSUME VerdictInv, [Next]_vars
              PROVE  (NotAskedYet /\ OneDecider /\ ConfirmedOnce)'
  BY BaseStep DEF VerdictInv
<1>. BaseInv
  BY DEF VerdictInv
<1>1. CASE UNCHANGED vars
  BY <1>1 DEF VerdictInv, NotAskedYet, OneDecider, ConfirmedOnce, Deciding, Busy, vars
<1>2. CASE Crash
  <2>1. \A q \in Handlers : ~Busy(q)'
    BY <1>2 DEF Crash, Busy, Idle
  <2>2. UNCHANGED <<status, executed, received>>
    BY <1>2 DEF Crash
  <2>. QED BY <2>1, <2>2 DEF VerdictInv, NotAskedYet, OneDecider, ConfirmedOnce,
                             Deciding, Busy
<1>3. ASSUME NEW p \in Handlers, NEW s \in Sessions,
             Message(p, s) \/ Reload(p, s) \/ WorkflowAction(p, s)
      PROVE  (NotAskedYet /\ OneDecider /\ ConfirmedOnce)'
  <2>1. UNCHANGED <<status, executed>>
    BY <1>3 DEF Message, Reload, WorkflowAction
  <2>. QED BY <1>3, <2>1, MessageArrives, ArriveVerdict
<1>4. ASSUME NEW p \in Handlers, RequestStep(p) \/ Raise(p)
      PROVE  (NotAskedYet /\ OneDecider /\ ConfirmedOnce)'
  <2>1. \/ PersistConfirmation(p) \/ PersistAgain(p) \/ ExecuteConfirmed(p)
        \/ UNCHANGED <<status, executed>>
    BY <1>4 DEF RequestStep, Raise, Acquire, Pop, Found, NotFound, LoadSnapshot,
       BuildAgent, Think, StartWorkflow, ExecuteWorkflowAction, PrepareRetry,
       TakeSnapshot, Save
  <2>. QED BY <1>4, <2>1, PersistVerdict, ExecuteVerdict, QuietStepVerdict
<1>. QED BY <1>1, <1>2, <1>3, <1>4, DecideVerdict DEF Next

\* However often a decision is sent, whoever raises and whenever the gateway
\* restarts, a confirmed action is executed at most once and only after a yes.
THEOREM ConfirmedAtMostOnce == Spec => []ConfirmedOnce
<1>1. VerdictInv => ConfirmedOnce
  BY DEF VerdictInv
<1>. QED BY InitVerdict, VerdictStep, <1>1, PTL DEF Spec

LEMMA SameClaims == ASSUME UNCHANGED status PROVE Claims' = Claims
BY DEF Claims

\* The thread that executes a confirmed action is the one whose decision claimed
\* it, and it has not been executed before.
LEMMA ExecuteRuns ==
    ASSUME VerdictInv, NEW p \in Handlers, ExecuteConfirmed(p)
    PROVE  OneShot!Next \/ UNCHANGED <<Claims, executed>>
<1>. DEFINE c == process[p].confirmation
<1>1. Claims' = Claims
  BY SameClaims DEF ExecuteConfirmed
<1>2. CASE UNCHANGED executed
  BY <1>1, <1>2
<1>3. CASE status[c] = "approved" /\ executed' = [executed EXCEPT ![c] = @ + 1]
  <2>1. Deciding(p) /\ process[p].at = "work"
    BY DEF ExecuteConfirmed, Deciding, Busy
  <2>2. c \in Requests /\ executed[c] = 0
    BY <2>1 DEF VerdictInv, BaseInv, OneDecider, ThreadsKnown, Deciding, Over
  <2>. HIDE DEF c
  <2>3. Claims[c] = "executing"
    BY <1>3, <2>2 DEF Claims
  <2>4. executed' = [executed EXCEPT ![c] = 1]
    BY <1>3, <2>2
  <2>. QED BY <1>1, <2>2, <2>3, <2>4 DEF OneShot!Next, OneShot!Run
<1>. QED BY <1>2, <1>3 DEF ExecuteConfirmed

LEMMA DecideClaims ==
    ASSUME VerdictInv, NEW p \in Handlers, NEW c \in Requests,
           NEW verdict \in {"approved", "rejected"}, Decide(p, c, verdict)
    PROVE  OneShot!Next \/ UNCHANGED <<Claims, executed>>
<1>1. /\ status[c] = "pending" /\ UNCHANGED executed
      /\ status' = [status EXCEPT ![c] = verdict]
      /\ status \in [Requests -> {"absent", "pending", "approved", "rejected"}]
  BY DEF Decide, VerdictInv, BaseInv, TypeOK
<1>2. CASE verdict = "rejected"
  BY <1>1, <1>2 DEF Claims
<1>3. CASE verdict = "approved"
  <2>1. Claims[c] = "pending"
    BY <1>1 DEF Claims
  <2>2. Claims' = [Claims EXCEPT ![c] = "executing"]
    BY <1>1, <1>3 DEF Claims
  <2>. QED BY <1>1, <2>1, <2>2 DEF OneShot!Next, OneShot!Claim
<1>. QED BY <1>2, <1>3

LEMMA PersistOffers ==
    ASSUME VerdictInv, NEW p \in Handlers, PersistConfirmation(p) \/ PersistAgain(p)
    PROVE  UNCHANGED <<Claims, executed>>
<1>. DEFINE r == process[p].request
<1>1. status[r] = "absent" /\ status' = [status EXCEPT ![r] = "pending"]
      /\ UNCHANGED executed
  BY DEF PersistConfirmation, PersistAgain, VerdictInv, NotAskedYet, Busy
<1>. HIDE DEF r
<1>2. \A c \in Requests : status'[c] = "approved" <=> status[c] = "approved"
  BY <1>1 DEF VerdictInv, BaseInv, TypeOK
<1>. QED BY <1>1, <1>2 DEF Claims

\* resolve_confirmation of the repository: a confirmation is approved once and
\* for good, and its action runs only then and once.
THEOREM ConfirmationIsOneShot == Spec => ConfirmsOneShot
<1>1. Init => OneShot!Init
  BY DEF Init, OneShot!Init, Claims
<1>2. VerdictInv /\ [Next]_vars => [OneShot!Next]_<<Claims, executed>>
  <2>. SUFFICES ASSUME VerdictInv, [Next]_vars
                PROVE  OneShot!Next \/ UNCHANGED <<Claims, executed>>
    OBVIOUS
  <2>1. CASE UNCHANGED vars
    BY <2>1, SameClaims DEF vars
  <2>2. CASE Crash
    BY <2>2, SameClaims DEF Crash, storeVars, historyVars
  <2>3. ASSUME NEW p \in Handlers, NEW s \in Sessions,
               Message(p, s) \/ Reload(p, s) \/ WorkflowAction(p, s)
        PROVE  UNCHANGED <<Claims, executed>>
    BY <2>3, SameClaims DEF Message, Reload, WorkflowAction, storeVars, historyVars
  <2>4. ASSUME NEW p \in Handlers, RequestStep(p) \/ Raise(p)
        PROVE  OneShot!Next \/ UNCHANGED <<Claims, executed>>
    <3>1. \/ PersistConfirmation(p) \/ PersistAgain(p) \/ ExecuteConfirmed(p)
          \/ UNCHANGED <<status, executed>>
      BY <2>4 DEF RequestStep, Raise, Acquire, Pop, Found, NotFound, LoadSnapshot,
         BuildAgent, Think, StartWorkflow, ExecuteWorkflowAction, PrepareRetry,
         TakeSnapshot, Save
    <3>. QED BY <3>1, PersistOffers, ExecuteRuns, SameClaims
  <2>. QED BY <2>1, <2>2, <2>3, <2>4, DecideClaims DEF Next
<1>. QED
  BY InitVerdict, VerdictStep, <1>1, <1>2, PTL
     DEF Spec, ConfirmsOneShot, OneShot!Spec
-----------------------------------------------------------------------------
(* Sessions.                                                               *)

LEMMA InitSession == Init => SessionInv
<1>1. Init => LockHeld /\ Alone /\ UsesCached
  BY DEF Init, LockHeld, Alone, UsesCached, Inside, AheadOK, KeptOK, Idle
<1>. QED BY <1>1, InitBase DEF SessionInv

\* Nobody comes inside except by Acquire, Reload and WorkflowAction.
LEMMA StaysOutside ==
    ASSUME BaseInv, NEW p \in Handlers, RequestStep(p) \/ Raise(p), ~Acquire(p)
    PROVE  /\ \A q \in Handlers, s \in Sessions : Inside(q, s)' =>
                 Inside(q, s) /\ KeepsKind(q)
           /\ process'[p].at # "none" => lock' = lock
           /\ \A q \in Handlers \ {p}, s \in Sessions : lock[s] = q => lock'[s] = q
           /\ mixed' = mixed
<1>. TypeOK
  BY DEF BaseInv
<1>1. Moves(p)
  BY RequestMoves
<1>2. process[p].at = "acquire" => process'[p] = Idle
  BY LeaveType DEF RequestStep, Raise, Pop, Found, NotFound, LoadSnapshot,
     BuildAgent, Think, StartWorkflow, PersistConfirmation, ExecuteConfirmed,
     ExecuteWorkflowAction, PrepareRetry, TakeSnapshot, Save, PersistAgain
<1>3. mixed' = mixed /\ (lock' = lock \/ Leave(p))
  BY DEF RequestStep, Raise, Pop, Found, NotFound, LoadSnapshot, BuildAgent, Think,
     StartWorkflow, PersistConfirmation, ExecuteConfirmed, ExecuteWorkflowAction,
     PrepareRetry, TakeSnapshot, Save, PersistAgain, Respond
<1>4. \A q \in Handlers \ {p}, s \in Sessions : lock[s] = q => lock'[s] = q
  BY <1>3 DEF Leave, TypeOK
<1>5. process'[p].at # "none" => lock' = lock
  BY <1>3, LeaveType, IdleType
<1>6. \A q \in Handlers, s \in Sessions : Inside(q, s)' =>
         Inside(q, s) /\ KeepsKind(q)
  BY <1>1, <1>2, IdleType DEF Moves, OthersStay, SameRequest, KeepsKind, Inside, Busy
<1>. QED BY <1>3, <1>4, <1>5, <1>6

\* Whoever comes inside marks the session if another is there without the lock.
LEMMA EnterAlone ==
    ASSUME TypeOK, LockHeld, Alone, NEW p \in Handlers, NEW s \in Sessions,
           NEW kind \in Kinds, Mixes(p, s, kind), OthersStay(p),
           process'[p].session = s,
           process'[p].at \notin {"none", "acquire"} => process'[p].kind = kind,
           kind \notin Unlocked => lock[s] = None
    PROVE  Alone' /\ mixed \subseteq mixed'
<1>1. mixed \subseteq mixed'
  BY DEF Mixes
<1>2. ASSUME NEW q \in Handlers, q # p, s \notin mixed'
      PROVE  ~Inside(q, s)
  <2>. SUFFICES ASSUME Inside(q, s) PROVE FALSE
    OBVIOUS
  <2>1. kind \notin Unlocked /\ process[q].kind \notin Unlocked
    BY <1>2 DEF Mixes
  <2>2. lock[s] = q /\ lock[s] = None
    BY <2>1 DEF LockHeld
  <2>. QED BY <2>2, SessionAssumption
<1>. QED BY <1>1, <1>2 DEF Alone, OthersStay, Inside

\* A message and a decision wait outside; the unlocked calls come inside at once.
LEMMA WaitsOutside ==
    ASSUME BaseInv, NEW p \in Handlers, NEW s \in Sessions, Message(p, s)
    PROVE  process'[p].at = "acquire" /\ OthersStay(p) /\ UNCHANGED <<lock, mixed>>
<1>1. process'[p].at = "acquire" /\ Arrives(p)
  BY ReceiveArrives DEF Message, Kinds
<1>. QED BY <1>1 DEF Message, Arrives

LEMMA ComesInside ==
    ASSUME BaseInv, NEW p \in Handlers, NEW s \in Sessions, NEW kind \in Unlocked,
           NEW place \in {"pop", "lookup"}, Receive(p, s, kind, place, None)
    PROVE  /\ OthersStay(p) /\ process'[p].session = s /\ process'[p].kind = kind
           /\ process'[p].at = place
<1>1. kind \in Kinds /\ kind # "decision"
  BY DEF Unlocked, Kinds
<1>2. Arrives(p) /\ process'[p].session = s /\ process'[p].kind = kind
      /\ process'[p].at = place
  BY <1>1, ReceiveArrives
<1>. QED BY <1>2 DEF Arrives

LEMMA LockStep ==
    ASSUME BaseInv, LockHeld, Alone, Next
    PROVE  LockHeld' /\ Alone' /\ mixed \subseteq mixed'
<1>. TypeOK /\ ThreadsKnown
  BY DEF BaseInv
<1>1. CASE Crash
  BY <1>1 DEF Crash, LockHeld, Alone, Inside, Idle
<1>2. ASSUME NEW p \in Handlers, process'[p].at = "acquire", OthersStay(p),
             UNCHANGED <<lock, mixed>>
      PROVE  LockHeld' /\ Alone' /\ mixed \subseteq mixed'
  BY <1>2 DEF LockHeld, Alone, Inside, OthersStay
<1>3. ASSUME NEW p \in Handlers, NEW s \in Sessions, Reload(p, s) \/ WorkflowAction(p, s)
      PROVE  LockHeld' /\ Alone' /\ mixed \subseteq mixed'
  <2>1. PICK kind \in Unlocked, place \in {"pop", "lookup"} :
           Receive(p, s, kind, place, None) /\ Mixes(p, s, kind) /\ UNCHANGED lock
    BY <1>3 DEF Reload, WorkflowAction, Unlocked
  <2>2. /\ OthersStay(p) /\ process'[p].session = s /\ process'[p].kind = kind
        /\ kind \in Kinds
    BY <2>1, ComesInside DEF Unlocked, Kinds
  <2>3. Alone' /\ mixed \subseteq mixed'
    BY <2>1, <2>2, EnterAlone
  <2>4. LockHeld'
    BY <2>1, <2>2 DEF LockHeld, Inside, OthersStay
  <2>. QED BY <2>3, <2>4
<1>4. ASSUME NEW p \in Handlers, Acquire(p)
      PROVE  LockHeld' /\ Alone' /\ mixed \subseteq mixed'
  <2>. DEFINE s == process[p].session
  <2>1. Moves(p)
    BY <1>4, RequestMoves DEF RequestStep
  <2>2. /\ lock[s] = None /\ lock' = [lock EXCEPT ![s] = p]
        /\ Mixes(p, s, process[p].kind) /\ process'[p].at = "lookup"
    BY <1>4 DEF Acquire, Goes, Become, TypeOK, Threads
  <2>3. /\ s \in Sessions /\ OthersStay(p) /\ process'[p].session = s
        /\ process'[p].kind = process[p].kind /\ process[p].kind \in Kinds
    <3>1. process'[p].kind = process[p].kind
      BY <1>4 DEF Acquire, Goes, Become, TypeOK, Threads
    <3>. QED BY <2>1, <2>2, <3>1, IdleType
            DEF Moves, SameRequest, ThreadsKnown, TypeOK, Threads
  <2>. HIDE DEF s
  <2>4. Alone' /\ mixed \subseteq mixed'
    BY <2>2, <2>3, EnterAlone
  <2>5. LockHeld'
    <3>. SUFFICES ASSUME NEW q \in Handlers, NEW s2 \in Sessions, Inside(q, s2)',
                         process'[q].kind \notin Unlocked
                  PROVE  lock'[s2] = q
      BY DEF LockHeld
    <3>1. CASE q = p
      BY <3>1, <2>2, <2>3 DEF Inside, TypeOK
    <3>2. CASE q # p
      <4>1. Inside(q, s2) /\ lock[s2] = q
        BY <3>2, <2>3 DEF OthersStay, Inside, LockHeld
      <4>. QED BY <4>1, <2>2, SessionAssumption DEF TypeOK
    <3>. QED BY <3>1, <3>2
  <2>. QED BY <2>4, <2>5
<1>5. ASSUME NEW p \in Handlers, RequestStep(p) \/ Raise(p), ~Acquire(p)
      PROVE  LockHeld' /\ Alone' /\ mixed \subseteq mixed'
  <2>1. /\ \A q \in Handlers, s \in Sessions : Inside(q, s)' =>
              Inside(q, s) /\ KeepsKind(q)
        /\ process'[p].at # "none" => lock' = lock
        /\ \A q \in Handlers \ {p}, s \in Sessions : lock[s] = q => lock'[s] = q
        /\ mixed' = mixed
    BY <1>5, StaysOutside
  <2>2. LockHeld'
    <3>. SUFFICES ASSUME NEW q \in Handlers, NEW s \in Sessions, Inside(q, s)',
                         process'[q].kind \notin Unlocked
                  PROVE  lock'[s] = q
      BY DEF LockHeld
    <3>1. lock[s] = q /\ process'[q].at # "none"
      BY <2>1 DEF LockHeld, Inside, KeepsKind, Unlocked
    <3>. QED BY <2>1, <3>1
  <2>3. Alone'
    BY <2>1 DEF Alone
  <2>. QED BY <2>1, <2>2, <2>3
<1>6. ASSUME NEW p \in Handlers, NEW c \in Requests,
             NEW verdict \in {"approved", "rejected"}, Decide(p, c, verdict)
      PROVE  process'[p].at = "acquire" /\ OthersStay(p) /\ UNCHANGED <<lock, mixed>>
  BY <1>6, DecideArrives DEF Decide, Arrives
<1>. QED BY <1>1, <1>2, <1>3, <1>4, <1>5, <1>6, WaitsOutside DEF Next, RequestStep

LEMMA ArriveSession ==
    ASSUME BaseInv, UsesCached, NEW p \in Handlers, Arrives(p), mixed \subseteq mixed',
           UNCHANGED <<cache, memory, saved, answered>>
    PROVE  UsesCached'
<1>. TypeOK /\ NamesKnown
  BY DEF BaseInv
<1>1. /\ \A q \in Handlers : q # p => process'[q] = process[q]
      /\ process'[p].at \in {"acquire", "pop", "lookup"}
      /\ \A r \in answered : session'[r] = session[r]
  <2>1. \A r \in answered : r # received + 1
    BY SessionAssumption DEF NamesKnown, TypeOK, Requests
  <2>. QED BY <2>1 DEF Arrives, OthersStay, TypeOK
<1>. SUFFICES ASSUME NEW s \in Sessions, s \notin mixed'
              PROVE  /\ \A q \in Handlers : Inside(q, s)' => UseOK(q, s)'
                     /\ AheadOK(s)' /\ KeptOK(s)'
  BY DEF UsesCached
<1>2. s \notin mixed
  OBVIOUS
<1>3. AheadOK(s)' /\ KeptOK(s)'
  BY <1>1, <1>2 DEF UsesCached, AheadOK, KeptOK
<1>4. UseOK(p, s)'
  BY <1>1 DEF UseOK, Working
<1>5. ASSUME NEW q \in Handlers, q # p, Inside(q, s)' PROVE UseOK(q, s)'
  <2>1. process'[q] = process[q] /\ Inside(q, s)
    BY <1>1, <1>5 DEF Inside
  <2>. QED BY <2>1, <1>2 DEF UsesCached, UseOK
<1>. QED BY <1>3, <1>4, <1>5

\* What a step of p does to a session that is not its own.
LEMMA OtherSession ==
    ASSUME BaseInv, NEW p \in Handlers, RequestStep(p) \/ Raise(p),
           NEW s \in Sessions, s # process[p].session
    PROVE  /\ cache'[s] = cache[s] /\ saved'[s] = saved[s]
           /\ cache[s] # None => memory[cache[s]] \subseteq memory'[cache[s]]
           /\ \A r \in answered' : r \in answered \/ r = process[p].request
<1>. TypeOK /\ ThreadsKnown /\ NamesKnown
  BY DEF BaseInv
<1>0. Busy(p) /\ session[process[p].request] = process[p].session
  BY RequestMoves DEF Moves, ThreadsKnown
<1>1. CASE UNCHANGED <<cache, saved, memory, answered>>
  BY <1>1
<1>2. CASE Pop(p)
  BY <1>2 DEF Pop, TypeOK
<1>3. CASE BuildAgent(p)
  <2>1. cache[s] # None => cache[s] # process[p].request
    BY <1>0 DEF NamesKnown
  <2>. QED BY <1>3, <2>1 DEF BuildAgent, TypeOK
<1>4. CASE Remembers(p) /\ UNCHANGED <<cache, saved, answered>>
  BY <1>4 DEF Remembers, TypeOK
<1>5. CASE Save(p)
  BY <1>5 DEF Save, Respond, TypeOK
<1>6. CASE PersistAgain(p)
  BY <1>6 DEF PersistAgain, Respond
<1>. QED
  BY <1>1, <1>2, <1>3, <1>4, <1>5, <1>6 DEF RequestStep, Raise, Acquire, Found, NotFound,
     LoadSnapshot, Think, StartWorkflow, PersistConfirmation, ExecuteConfirmed,
     ExecuteWorkflowAction, PrepareRetry, TakeSnapshot

\* What it does to its own, when nobody else is inside.
LEMMA OwnSession ==
    ASSUME BaseInv, NEW p \in Handlers, RequestStep(p) \/ Raise(p),
           NEW s \in Sessions, s = process[p].session,
           Inside(p, s) => UseOK(p, s), AheadOK(s), KeptOK(s)
    PROVE  /\ Inside(p, s)' => UseOK(p, s)'
           /\ AheadOK(s)' /\ KeptOK(s)'
<1>. TypeOK /\ ThreadsKnown /\ NamesKnown
  BY DEF BaseInv
<1>0. /\ Moves(p) /\ Busy(p) /\ process[p] \in Threads
      /\ process[p].request \in Requests /\ UNCHANGED session
  <2>1. Moves(p)
    BY RequestMoves
  <2>. QED BY <2>1, SessionAssumption DEF Moves, ThreadsKnown, TypeOK, Requests
<1>1. CASE Acquire(p) \/ NotFound(p)
  <2>1. process'[p].at \in {"lookup", "load"} /\ UNCHANGED <<cache, memory, saved, answered>>
    BY <1>1, <1>0 DEF Acquire, NotFound, Goes, Become, TypeOK, Threads
  <2>. QED BY <2>1, <1>0 DEF UseOK, AheadOK, KeptOK, Working
<1>2. CASE Pop(p)
  <2>1. process'[p].at = "lookup" /\ cache'[s] = None /\ UNCHANGED <<saved, answered>>
    BY <1>2, <1>0 DEF Pop, Goes, Become, TypeOK, Threads
  <2>. QED BY <2>1, <1>0 DEF UseOK, AheadOK, KeptOK, Working
<1>3. CASE Found(p)
  <2>1. UNCHANGED <<cache, memory, saved, answered>>
    BY <1>3 DEF Found
  <2>2. process'[p] = Idle \/ (process'[p].at = "work" /\ process'[p].agent = cache[s])
    <3>1. CASE process[p].kind = "reload"
      BY <1>3, <3>1, LeaveType DEF Found
    <3>2. CASE process[p].kind # "reload"
      BY <1>3, <3>2, <1>0 DEF Found, Become, TypeOK, Threads
    <3>. QED BY <3>1, <3>2
  <2>. QED BY <2>1, <2>2, <1>0, IdleType DEF UseOK, AheadOK, KeptOK, Working, Inside
<1>4. CASE LoadSnapshot(p)
  <2>1. UNCHANGED <<cache, memory, saved, answered>>
    BY <1>4 DEF LoadSnapshot
  <2>2. process'[p].at = "build" /\ process'[p].turns = saved[s]
    BY <1>4, <1>0 DEF LoadSnapshot, Become, TypeOK, Threads
  <2>. QED BY <2>1, <2>2, <1>0 DEF UseOK, AheadOK, KeptOK, Working
<1>5. CASE BuildAgent(p)
  <2>. DEFINE r == process[p].request
  <2>1. process[p].turns = saved[s]
    BY <1>5, <1>0 DEF BuildAgent, UseOK, Inside
  <2>2. /\ memory'[r] = saved[s] /\ cache'[s] = r
        /\ UNCHANGED <<saved, answered>>
    BY <1>5, <1>0, <2>1 DEF BuildAgent, TypeOK
  <2>3. process'[p] = Idle \/ (process'[p].at = "work" /\ process'[p].agent = r)
    <3>1. CASE process[p].kind = "reload"
      BY <1>5, <3>1, LeaveType DEF BuildAgent
    <3>2. CASE process[p].kind # "reload"
      <4>1. process' = [process EXCEPT ![p] =
                          [process[p] EXCEPT !.at = "work", !.agent = process[p].request,
                                             !.turns = {}]]
        BY <1>5, <3>2 DEF BuildAgent, Become
      <4>2. /\ process'[p].at = "work" /\ process'[p].agent = process[p].request
            /\ process'[p].request = process[p].request
        BY <1>0, <4>1 DEF TypeOK, Threads
      <4>. QED BY <4>2
    <3>. QED BY <3>1, <3>2
  <2>. QED BY <2>2, <2>3, <1>0, IdleType DEF UseOK, AheadOK, KeptOK, Working, Inside
<1>6. CASE Think(p) \/ ExecuteConfirmed(p) \/ ExecuteWorkflowAction(p) \/ PrepareRetry(p)
  <2>1. /\ Remembers(p) /\ UNCHANGED <<cache, saved, answered>>
        /\ process[p].at = "work"
    BY <1>6 DEF Think, ExecuteConfirmed, ExecuteWorkflowAction, PrepareRetry
  <2>2. /\ process'[p].at \in {"snapshot", "persist", "start"}
        /\ process'[p].agent = process[p].agent
    BY <1>6, <1>0 DEF Think, ExecuteConfirmed, ExecuteWorkflowAction, PrepareRetry,
                      Goes, Become, TypeOK, Threads
  <2>3. process[p].agent = cache[s] /\ cache[s] # None /\ cache[s] \in Requests
    BY <2>1, <1>0 DEF UseOK, Inside, Working, TypeOK
  <2>4. memory'[cache[s]] = memory[cache[s]] \cup {process[p].request}
    BY <2>1, <2>3 DEF Remembers, TypeOK
  <2>5. process'[p].request = process[p].request
    BY <1>0, <2>2, IdleType DEF Moves, SameRequest, KeepsKind
  <2>. QED BY <2>1, <2>2, <2>3, <2>4, <2>5, <1>0 DEF UseOK, AheadOK, KeptOK
<1>7. CASE StartWorkflow(p) \/ PersistConfirmation(p)
  <2>1. UNCHANGED <<cache, memory, saved, answered>>
    BY <1>7 DEF StartWorkflow, PersistConfirmation
  <2>2. /\ process'[p].at = "snapshot" /\ process'[p].agent = process[p].agent
        /\ process'[p].request = process[p].request
        /\ process[p].at \in {"start", "persist"}
    BY <1>7, <1>0 DEF StartWorkflow, PersistConfirmation, Goes, Become, TypeOK, Threads
  <2>3. UseOK(p, s)
    BY <2>2, <1>0 DEF Inside
  <2>. QED BY <2>1, <2>2, <2>3, <1>0 DEF UseOK, AheadOK, KeptOK, Working
<1>8. CASE TakeSnapshot(p)
  <2>1. UNCHANGED <<cache, memory, saved, answered>>
    BY <1>8 DEF TakeSnapshot
  <2>2. /\ process'[p].at = "save" /\ process'[p].agent = process[p].agent
        /\ process'[p].request = process[p].request
        /\ process'[p].turns = memory[process[p].agent]
        /\ process[p].at = "snapshot"
    BY <1>8, <1>0 DEF TakeSnapshot, Become, TypeOK, Threads
  <2>3. UseOK(p, s) /\ process[p].agent # None
    BY <2>2, <1>0 DEF Inside, TypeOK
  <2>. QED BY <2>1, <2>2, <2>3, <1>0 DEF UseOK, AheadOK, KeptOK, Working
<1>9. CASE Save(p)
  <2>1. /\ UNCHANGED <<cache, memory>>
        /\ answered' \in {answered, answered \cup {process[p].request}}
        /\ saved'[s] = process[p].turns /\ process[p].at = "save"
    BY <1>9 DEF Save, Respond, TypeOK
  <2>2. \/ process'[p].at \in {"none", "pop"}
        \/ /\ process'[p].at = "again" /\ process'[p].agent = process[p].agent
           /\ process'[p].request = process[p].request
    <3>1. CASE Respond(p)
      BY <3>1, LeaveType, IdleType DEF Respond
    <3>2. CASE Goes(p, "again")
      BY <1>0, <3>2 DEF Goes, Become, TypeOK, Threads
    <3>3. CASE Become(p, [process[p] EXCEPT !.at = "pop", !.kind = "retry"])
      BY <1>0, <3>3 DEF Become, TypeOK, Threads
    <3>. QED BY <1>9, <3>1, <3>2, <3>3 DEF Save
  <2>3. UseOK(p, s)
    BY <2>1, <1>0 DEF Inside
  <2>4. process[p].agent = cache[s]
    BY <2>1, <2>3 DEF UseOK, Working
  <2>5. Inside(p, s)' => UseOK(p, s)'
    BY <2>1, <2>2, <2>3, <2>4, <1>0 DEF UseOK, Inside, Working
  <2>. QED BY <2>1, <2>3, <2>5, <1>0 DEF UseOK, AheadOK, KeptOK
<1>11. CASE PersistAgain(p)
  <2>1. /\ process[p].at = "again" /\ process'[p].at = "none"
        /\ UNCHANGED <<cache, memory, saved>>
        /\ answered' = answered \cup {process[p].request}
    BY <1>11, LeaveType, IdleType DEF PersistAgain, Respond
  <2>2. process[p].request \in saved[s]
    BY <2>1, <1>0 DEF UseOK, Inside
  <2>. QED BY <2>1, <2>2, <1>0 DEF AheadOK, KeptOK, Inside
<1>10. CASE Raise(p)
  <2>1. process'[p].at = "none" /\ UNCHANGED <<cache, memory, saved, answered>>
    BY <1>10, LeaveType, IdleType DEF Raise
  <2>. QED BY <2>1, <1>0 DEF AheadOK, KeptOK, Inside
<1>. QED
  BY <1>1, <1>2, <1>3, <1>4, <1>5, <1>6, <1>7, <1>8, <1>9, <1>10, <1>11
     DEF RequestStep

LEMMA RequestSession ==
    ASSUME SessionInv, NEW p \in Handlers, RequestStep(p) \/ Raise(p),
           LockHeld', Alone', mixed \subseteq mixed'
    PROVE  UsesCached'
<1>. BaseInv /\ TypeOK /\ ThreadsKnown /\ NamesKnown /\ Alone /\ UsesCached
  BY DEF SessionInv, BaseInv
<1>0. /\ Moves(p) /\ Busy(p) /\ UNCHANGED session
      /\ session[process[p].request] = process[p].session
      /\ \A q \in Handlers : q # p => process'[q] = process[q]
  BY RequestMoves DEF Moves, ThreadsKnown, OthersStay
<1>. SUFFICES ASSUME NEW s \in Sessions, s \notin mixed'
              PROVE  /\ \A q \in Handlers : Inside(q, s)' => UseOK(q, s)'
                     /\ AheadOK(s)' /\ KeptOK(s)'
  BY DEF UsesCached
<1>1. /\ \A q \in Handlers : Inside(q, s) => UseOK(q, s)
      /\ AheadOK(s) /\ KeptOK(s) /\ s \notin mixed
  BY DEF UsesCached
<1>2. CASE s # process[p].session
  <2>1. /\ cache'[s] = cache[s] /\ saved'[s] = saved[s]
        /\ cache[s] # None => memory[cache[s]] \subseteq memory'[cache[s]]
        /\ \A r \in answered' : r \in answered \/ r = process[p].request
    BY <1>2, OtherSession
  <2>2. AheadOK(s)' /\ KeptOK(s)'
    BY <1>0, <1>1, <1>2, <2>1 DEF AheadOK, KeptOK
  <2>3. ASSUME NEW q \in Handlers, Inside(q, s)' PROVE UseOK(q, s)'
    <3>1. q # p
      BY <1>0, <1>2, <2>3, IdleType DEF Moves, SameRequest, Inside
    <3>2. process'[q] = process[q] /\ Inside(q, s) /\ UseOK(q, s)
      BY <1>0, <1>1, <2>3, <3>1 DEF Inside
    <3>3. process[q].at \in Working => cache[s] # None
      BY <3>2 DEF UseOK, TypeOK, Working
    <3>. QED BY <2>1, <3>2, <3>3 DEF UseOK, Working
  <2>. QED BY <2>2, <2>3
<1>3. CASE s = process[p].session
  <2>1. (Inside(p, s)' => UseOK(p, s)') /\ AheadOK(s)' /\ KeptOK(s)'
    BY <1>1, <1>3, OwnSession
  <2>2. ASSUME NEW q \in Handlers, q # p, Inside(q, s)' PROVE UseOK(q, s)'
    <3>1. process'[q] = process[q] /\ Inside(q, s) /\ UseOK(q, s)
      BY <1>0, <1>1, <2>2 DEF Inside
    <3>2. process[p].at = "acquire"
      BY <1>0, <1>1, <1>3, <2>2, <3>1 DEF Alone, Inside, Busy
    <3>3. UNCHANGED <<cache, memory, saved>>
      BY <3>2 DEF RequestStep, Raise, Acquire, Pop, Found, NotFound, LoadSnapshot,
         BuildAgent, Think, StartWorkflow, PersistConfirmation, ExecuteConfirmed,
         ExecuteWorkflowAction, PrepareRetry, TakeSnapshot, Save, PersistAgain
    <3>. QED BY <3>1, <3>3 DEF UseOK
  <2>. QED BY <2>1, <2>2
<1>. QED BY <1>2, <1>3

LEMMA SessionStep == SessionInv /\ [Next]_vars => SessionInv'
<1>. SUFFICES ASSUME SessionInv, [Next]_vars
              PROVE  (LockHeld /\ Alone /\ UsesCached)'
  BY BaseStep DEF SessionInv
<1>. BaseInv /\ LockHeld /\ Alone /\ UsesCached
  BY DEF SessionInv
<1>1. CASE UNCHANGED vars
  BY <1>1 DEF LockHeld, Alone, UsesCached, Inside, UseOK, AheadOK, KeptOK, vars
<1>2. CASE Next
  <2>1. LockHeld' /\ Alone' /\ mixed \subseteq mixed'
    BY <1>2, LockStep
  <2>2. CASE Crash
    <3>1. /\ \A q \in Handlers : process'[q].at = "none"
          /\ \A s \in Sessions : cache'[s] = None
          /\ UNCHANGED <<saved, answered, session, mixed>>
      BY <2>2 DEF Crash, Idle
    <3>. QED BY <2>1, <3>1 DEF UsesCached, Inside, AheadOK, KeptOK
  <2>3. ASSUME NEW p \in Handlers, NEW s \in Sessions,
               Message(p, s) \/ Reload(p, s) \/ WorkflowAction(p, s)
        PROVE  UsesCached'
    <3>1. UNCHANGED <<cache, memory, saved, answered>>
      BY <2>3 DEF Message, Reload, WorkflowAction
    <3>. QED BY <2>1, <2>3, <3>1, MessageArrives, ArriveSession
  <2>4. ASSUME NEW p \in Handlers, NEW c \in Requests,
               NEW verdict \in {"approved", "rejected"}, Decide(p, c, verdict)
        PROVE  UsesCached'
    <3>1. UNCHANGED <<cache, memory, saved, answered>>
      BY <2>4 DEF Decide
    <3>. QED BY <2>1, <2>4, <3>1, DecideArrives, ArriveSession
  <2>. QED BY <1>2, <2>1, <2>2, <2>3, <2>4, RequestSession DEF Next
<1>. QED BY <1>1, <1>2

\* What was answered is in the snapshot of every session in which the calls that
\* take no lock have overlapped nothing, with any number of threads, sessions
\* and restarts.
THEOREM AnswersSurvive == Spec => []AnswersKept
<1>1. SessionInv => AnswersKept
  BY DEF SessionInv, BaseInv, NamesKnown, UsesCached, KeptOK, AnswersKept
<1>. QED BY InitSession, SessionStep, <1>1, PTL DEF Spec

-----------------------------------------------------------------------------
(* Dialogue: the inductive invariant.                                      *)

\* What AnswersOffered says of the answers of an action.
Sound(answers) ==
    \A a \in answers :
        /\ a.value # "cancel"
        /\ \/ a.value \in Range(a.question.options)
           \/ a.value = "words" /\ (a.question.free \/ a.question.field = "path")

Has(answers, field) == \E a \in answers : a.question.field = field

\* Question n of a chain stands behind a question about a path.
Escaped(chain, n) == \E k \in 1..(n - 1) : chain[k].field = "path"

\* chains: the chains begun.
ActionSound(a, chains) ==
    a # Nil =>
        /\ Sound(a.answers)
        /\ a.chain \in 0..Len(chains)
        /\ a.chain # 0 =>
              \A n \in DOMAIN chains[a.chain] :
                  \/ Has(a.answers, chains[a.chain][n].field)
                  \/ Escaped(chains[a.chain], n)

\* The place in its chain of the question that is open.
Place(p, chains) == Len(chains[p.chain]) - Len(p.rest)

\* What is left of a chain is the end of it, and the rest of it is answered.
PendingSound(p, chains) ==
    p # Nil =>
        /\ Sound(p.answers)
        /\ p.chain \in 1..Len(chains)
        /\ Place(p, chains) \in 1..Len(chains[p.chain])
        /\ p.rest # <<>> => p.asked = chains[p.chain][Place(p, chains)]
        /\ \A n \in 1..Len(p.rest) :
              p.rest[n] = chains[p.chain][Place(p, chains) + n]
        /\ \A n \in 1..Place(p, chains) :
              \/ Has(p.answers, chains[p.chain][n].field)
              \/ chains[p.chain][n].field = p.asked.field
              \/ Escaped(chains[p.chain], n)

\* Wherever a question or an action is kept: in the agents, the row, the turn
\* and the call of the workflow.
AllSound(chains) ==
    /\ PendingSound(pending, chains)
    /\ PendingSound(savedPending, chains)
    /\ PendingSound(cached.asks, chains)
    /\ call # Nil => PendingSound(call.asks, chains)
    /\ turn # Nil => PendingSound(turn.known, chains)
    /\ turn # Nil => ActionSound(turn.action, chains)
    /\ ActionSound(last, chains)

AnswersInv == AllSound(begun) /\ \A n \in DOMAIN begun : begun[n] # <<>>

\* What a turn holds at each stage; a question whose action is being prepared
\* is no longer open in the agent.
TurnInv ==
    /\ turn = Nil => last = Nil
    /\ turn # Nil =>
          /\ turn.at \in {"resolve", "plan"} => turn.action = Nil
                                                /\ turn.text \in Texts
          /\ turn.at = "resolve" => turn.away = AwayFrom(turn.text, turn.known)
          /\ turn.at = "prepare" => turn.action # Nil /\ turn.known = Nil
          /\ turn.at = "save" => turn.action = Nil /\ turn.known = Nil
          /\ turn.at # "save" => last = Nil
          /\ turn.action # Nil /\ turn.action.chain # 0 /\ pending # Nil =>
                pending.chain # turn.action.chain

\* A chain may still lead to an action: by the question that is open in the
\* agent or in the copy of the turn, or by the action that is being prepared.
Alive(n) ==
    \/ pending # Nil /\ pending.chain = n
    \/ turn # Nil /\ turn.known # Nil /\ turn.known.chain = n
    \/ turn # Nil /\ turn.action # Nil /\ turn.action.chain = n

OnceInv ==
    \A n \in DOMAIN carried :
        carried[n] + (IF Alive(n) THEN 1 ELSE 0) <= 1 + restored[n]

Final(d) == d.how = "cancel" \/ d.field # "path"

Ended(d) == ~Alive(d.chain) /\ (last # Nil => last.chain # d.chain)

\* A chain the user turns away from is done with once the message is resolved,
\* or the planner has yet to read it, and will find the cancel option.
GoneInv ==
    /\ \A d \in dropped : Final(d) => d.chain \in 1..Len(begun) /\ Ended(d)
    /\ turn # Nil => \A d \in turn.away :
          /\ d.chain \in 1..Len(begun)
          /\ turn.at # "resolve" /\ Final(d) =>
                \/ Ended(d)
                \/ /\ turn.at = "plan" /\ turn.known # Nil
                   /\ Loose(turn.text, turn.known.asked) = "cancel"

DialogueInv ==
    DialogueTypeOK /\ AnswersInv /\ TurnInv /\ OnceInv /\ GoneInv
-----------------------------------------------------------------------------
(* What the matchers return.                                               *)

LEMMA LeastPlace ==
    ASSUME NEW S \in SUBSET Nat, S # {}
    PROVE  Min(S) \in S
<1>1. PICK n \in S : \A m \in S : ~(<<m, n>> \in OpToRel(<, Nat))
  BY WFMin, NatLessThanWellFounded, Zenon
<1>2. ASSUME NEW m \in S, m < n PROVE FALSE
  <2>1. <<m, n>> \in OpToRel(<, Nat)
    BY <1>2 DEF OpToRel
  <2>. QED BY <1>1, <2>1
<1>3. \A m \in S : n <= m
  BY <1>2
<1>. QED BY <1>3 DEF Min

LEMMA FirstOfOffered ==
    ASSUME NEW q \in Question, NEW ids
    PROVE  /\ FirstOf(q, ids) # Nil =>
                 FirstOf(q, ids) \in Range(q.options) \cap ids
           /\ FirstOf(q, ids) = Nil => Range(q.options) \cap ids = {}
<1>. DEFINE places == {n \in DOMAIN q.options : q.options[n] \in ids}
<1>1. q.options \in Seq(Ids)
  BY DEF Question
<1>2. CASE places = {}
  BY <1>2 DEF FirstOf, Range
<1>3. CASE places # {}
  <2>0. places \in SUBSET Nat
    BY <1>1
  <2>. HIDE DEF places
  <2>1. Min(places) \in places
    BY <1>3, <2>0, LeastPlace
  <2>2. PICK n \in DOMAIN q.options : n = Min(places) /\ q.options[n] \in ids
    BY <2>1 DEF places
  <2>3. FirstOf(q, ids) = q.options[n]
    BY <1>3, <2>2 DEF FirstOf, places
  <2>. QED BY <1>1, <2>2, <2>3, DialogueAssumption DEF Range
<1>. QED BY <1>2, <1>3

LEMMA AtOffered ==
    ASSUME NEW q \in Question, NEW n
    PROVE  At(n, q) # Nil => At(n, q) \in Range(q.options)
BY DEF At, Range

LEMMA OptionsAreIds ==
    ASSUME NEW q \in Question
    PROVE  Range(q.options) \subseteq Ids
BY DEF Question, Range

LEMMA MatchesOffered ==
    ASSUME NEW text, NEW q \in Question
    PROVE  /\ Exact(text, q) # Nil => Exact(text, q) \in Range(q.options)
           /\ Loose(text, q) # Nil => Loose(text, q) \in Range(q.options)
BY FirstOfOffered, AtOffered DEF Exact, Loose

\* A message that the resolver of paths reads as the option to cancel, the
\* planner reads as that too.
LEMMA CancelMeant ==
    ASSUME NEW text \in Texts, NEW q \in Question,
           Exact(text, q) = "cancel", "cancel" \notin text.marks
    PROVE  Loose(text, q) = "cancel"
<1>1. text \in Text /\ "cancel" # Nil
  BY DialogueAssumption
<1>2. CASE text.number # 0
  BY <1>1, <1>2 DEF Exact, Loose
<1>3. CASE text.number = 0
  <2>1. FirstOf(q, {text.only}) = "cancel"
    BY <1>3 DEF Exact
  <2>2. text.only = "cancel" /\ "cancel" \in Range(q.options)
    BY <1>1, <2>1, FirstOfOffered
  <2>3. text.ordinal = 0 /\ text.names = {"cancel"}
    BY <2>2, DialogueAssumption
  <2>4. At(0, q) = Nil
    BY DEF At, Question
  <2>5. FirstOf(q, {"cancel"}) = "cancel"
    BY <2>2, FirstOfOffered
  <2>. QED BY <1>3, <2>3, <2>4, <2>5 DEF Loose
<1>. QED BY <1>2, <1>3
-----------------------------------------------------------------------------
(* How a turn moves.                                                       *)

\* The same chains, and perhaps more.
Extended(chains, more) ==
    /\ chains \in Seq(Seq(Question)) /\ more \in Seq(Seq(Question))
    /\ Len(chains) <= Len(more)
    /\ \A n \in 1..Len(chains) : more[n] = chains[n]

LEMMA PendingKept ==
    ASSUME NEW chains, NEW more, Extended(chains, more),
           NEW p, PendingSound(p, chains)
    PROVE  PendingSound(p, more)
<1>. SUFFICES ASSUME p # Nil PROVE PendingSound(p, more)
  BY DEF PendingSound
<1>1. p.chain \in 1..Len(chains) /\ p.chain \in 1..Len(more)
  BY DEF PendingSound, Extended
<1>2. more[p.chain] = chains[p.chain]
  BY <1>1 DEF Extended
<1>3. Place(p, more) = Place(p, chains)
  BY <1>2 DEF Place
<1>. QED BY <1>1, <1>2, <1>3 DEF PendingSound

LEMMA ActionKept ==
    ASSUME NEW chains, NEW more, Extended(chains, more),
           NEW a, ActionSound(a, chains)
    PROVE  ActionSound(a, more)
<1>. SUFFICES ASSUME a # Nil PROVE ActionSound(a, more)
  BY DEF ActionSound
<1>1. a.chain \in 0..Len(chains) /\ a.chain \in 0..Len(more)
  BY DEF ActionSound, Extended
<1>2. a.chain # 0 => more[a.chain] = chains[a.chain]
  BY <1>1 DEF Extended
<1>. QED BY <1>1, <1>2 DEF ActionSound

LEMMA AllKept ==
    ASSUME NEW more, Extended(begun, more), AllSound(begun)
    PROVE  AllSound(more)
BY PendingKept, ActionKept DEF AllSound

LEMMA NilSound ==
    ASSUME NEW chains PROVE PendingSound(Nil, chains) /\ ActionSound(Nil, chains)
BY DEF PendingSound, ActionSound

LEMMA Moved ==
    ASSUME DialogueTypeOK, turn # Nil, NEW at \in Stages,
           NEW action \in Action \cup {Nil}, GoTo(at, action)
    PROVE  /\ turn' \in Turn /\ turn' # Nil /\ turn'.at = at
           /\ turn'.action = action /\ turn'.text = Nil /\ turn'.known = Nil
           /\ turn'.away = turn.away
<1>1. turn \in Turn
  BY DEF DialogueTypeOK
<1>2. turn' = [at |-> at, text |-> Nil, known |-> Nil, action |-> action,
               call |-> 1, away |-> turn.away]
  BY <1>1 DEF GoTo, Turn
<1>3. turn' \in Turn
  BY <1>1, <1>2 DEF Turn
<1>. QED BY <1>2, <1>3, NilAssumption

\* A turn goes on: what is open afterwards, or is being prepared, was open or
\* being prepared before, or belongs to no chain.
LEMMA AdvanceHolds ==
    ASSUME DialogueInv, turn # Nil, turn.at # "save",
           NEW at \in {"prepare", "save"}, NEW action \in Action \cup {Nil},
           GoTo(at, action),
           pending' \in Pending \cup {Nil},
           UNCHANGED <<beside, history>>,
           at = "prepare" => action # Nil,
           at = "save" => action = Nil,
           PendingSound(pending', begun), ActionSound(action, begun),
           pending' # Nil => Alive(pending'.chain),
           action # Nil => action.chain = 0 \/ Alive(action.chain),
           action # Nil /\ action.chain # 0 /\ pending' # Nil =>
              pending'.chain # action.chain,
           pending' # Nil \/ action # Nil =>
              \A d \in turn.away : Final(d) => Ended(d)
    PROVE  DialogueInv'
<1>1. /\ turn' \in Turn /\ turn' # Nil /\ turn'.at = at
      /\ turn'.action = action /\ turn'.known = Nil /\ turn'.away = turn.away
  BY Moved DEF DialogueInv, Stages
<1>2. UNCHANGED <<savedPending, cached, call, breaks, begun, carried, restored,
                  dropped, last>>
  BY DEF beside, history
<1>3. DialogueTypeOK'
  BY <1>1, <1>2 DEF DialogueInv, DialogueTypeOK
<1>4. AnswersInv'
  BY <1>1, <1>2, NilSound DEF DialogueInv, AnswersInv, AllSound
<1>5. last = Nil
  BY DEF DialogueInv, TurnInv
<1>6. TurnInv'
  BY <1>1, <1>2, <1>5 DEF TurnInv
<1>7. ASSUME NEW n, Alive(n)' PROVE Alive(n) \/ n = 0
  <2>1. CASE pending' # Nil /\ pending'.chain = n
    BY <2>1
  <2>2. CASE action # Nil /\ action.chain = n
    BY <2>2
  <2>. QED BY <1>1, <1>7, <2>1, <2>2 DEF Alive
<1>8. OnceInv'
  <2>. SUFFICES ASSUME NEW n \in DOMAIN carried
                PROVE  carried[n] + (IF Alive(n)' THEN 1 ELSE 0) <= 1 + restored[n]
    BY <1>2 DEF OnceInv
  <2>1. carried \in Seq(Nat) /\ restored \in Seq(Nat) /\ Len(carried) = Len(restored)
    BY DEF DialogueInv, DialogueTypeOK
  <2>2. carried[n] \in Nat /\ restored[n] \in Nat /\ n # 0
    BY <2>1
  <2>3. Alive(n)' => Alive(n)
    BY <1>7, <2>2
  <2>. QED BY <2>2, <2>3 DEF DialogueInv, OnceInv
<1>9. ASSUME NEW d, d.chain \in 1..Len(begun), Ended(d) PROVE Ended(d)'
  BY <1>2, <1>7, <1>9 DEF Ended
<1>10. GoneInv'
  <2>1. ASSUME NEW d \in turn.away, Final(d) PROVE Ended(d)'
    <3>1. d.chain \in 1..Len(begun)
      BY DEF DialogueInv, GoneInv
    <3>2. CASE Ended(d)
      BY <1>9, <3>1, <3>2
    <3>3. CASE pending' = Nil /\ action = Nil
      <4>1. ~Alive(d.chain)'
        BY <1>1, <3>3 DEF Alive
      <4>. QED BY <1>2, <1>5, <4>1 DEF Ended
    <3>. QED BY <2>1, <3>2, <3>3
  <2>2. \A d \in dropped : Final(d) => Ended(d)'
    BY <1>9 DEF DialogueInv, GoneInv
  <2>. QED BY <1>1, <1>2, <2>1, <2>2 DEF DialogueInv, GoneInv, Final
<1>. QED BY <1>3, <1>4, <1>6, <1>8, <1>10 DEF DialogueInv

\* A turn comes to its end: the question that is open stays, or the one of the
\* copy is, or none.
LEMMA FinishHolds ==
    ASSUME DialogueInv, turn # Nil, turn.at # "save", Finish,
           pending' \in {pending, turn.known, Nil}, UNCHANGED <<beside, history>>,
           pending' # Nil => \A d \in turn.away : Final(d) => Ended(d)
    PROVE  DialogueInv'
<1>1. turn \in Turn
  BY DEF DialogueInv, DialogueTypeOK
<1>2. pending' \in Pending \cup {Nil} /\ PendingSound(pending', begun)
  BY <1>1, NilSound DEF DialogueInv, DialogueTypeOK, AnswersInv, AllSound, Turn
<1>3. pending' # Nil => Alive(pending'.chain)
  BY DEF Alive
<1>. QED BY <1>2, <1>3, NilSound, AdvanceHolds DEF Finish

LEMMA StartsTyped ==
    ASSUME DialogueTypeOK, TurnStarts
    PROVE  /\ turn = Nil /\ cached' = This /\ This \in Cached
           /\ call' \in Call \cup {Nil}
           /\ call' # Nil => call # Nil /\ call'.asks = call.asks
           /\ UNCHANGED <<savedPending, breaks>>
<1>1. CASE call = Nil
  BY <1>1 DEF TurnStarts, This, Cached
<1>2. CASE call # Nil
  <2>1. call \in Call /\ call.turns \in 0..MaxBeside /\ call.turns < MaxBeside
    BY <1>2 DEF TurnStarts, DialogueTypeOK, Call
  <2>2. call.turns + 1 \in 0..MaxBeside
    BY <2>1, DialogueAssumption
  <2>3. call' = [at |-> call.at, kind |-> call.kind, asks |-> call.asks,
                 turns |-> call.turns + 1]
    BY <1>2, <2>1 DEF TurnStarts, Call
  <2>. QED BY <1>2, <2>1, <2>2, <2>3 DEF TurnStarts, Call, This, Cached
<1>. QED BY <1>1, <1>2

\* A message arrives.
LEMMA HearHolds ==
    ASSUME DialogueInv, NEW text \in Texts, Hear(text)
    PROVE  DialogueInv'
<1>1. /\ turn = Nil /\ cached' = This /\ This \in Cached
      /\ call' \in Call \cup {Nil}
      /\ call' # Nil => call # Nil /\ call'.asks = call.asks
      /\ UNCHANGED <<savedPending, breaks>>
  BY StartsTyped DEF Hear, DialogueInv
<1>2. UNCHANGED <<pending, begun, carried, restored, dropped, last>>
  BY DEF Hear, history
<1>3. pending \in Pending \cup {Nil}
  BY DEF DialogueInv, DialogueTypeOK
<1>4. AwayFrom(text, pending) \subseteq Away
  <2>1. CASE pending = Nil
    BY <2>1 DEF AwayFrom
  <2>2. CASE pending # Nil
    <3>1. pending \in Pending /\ pending.asked.field \in Fields
      BY <1>3, <2>2 DEF Pending, Question
    <3>. QED BY <3>1 DEF AwayFrom, Away, Pending
  <2>. QED BY <2>1, <2>2
<1>5. /\ turn' \in Turn /\ turn' # Nil /\ turn'.at = "resolve"
      /\ turn'.text = text /\ turn'.known = pending /\ turn'.action = Nil
      /\ turn'.away = AwayFrom(text, pending)
  <2>1. turn' = [at |-> "resolve", text |-> text, known |-> pending,
                 action |-> Nil, call |-> 1, away |-> AwayFrom(text, pending)]
    BY DEF Hear
  <2>2. turn' \in Turn
    BY <1>3, <1>4, <2>1 DEF Turn, Stages
  <2>. QED BY <2>1, <2>2, NilAssumption
<1>6. last = Nil
  BY <1>1 DEF DialogueInv, TurnInv
<1>7. DialogueTypeOK'
  BY <1>1, <1>2, <1>5 DEF DialogueInv, DialogueTypeOK
<1>8. AnswersInv'
  BY <1>1, <1>2, <1>5, NilSound DEF DialogueInv, AnswersInv, AllSound, This
<1>9. TurnInv'
  BY <1>2, <1>5, <1>6 DEF TurnInv
<1>10. \A n : Alive(n)' <=> Alive(n)
  BY <1>1, <1>2, <1>5 DEF Alive
<1>11. OnceInv'
  BY <1>2, <1>10 DEF DialogueInv, OnceInv
<1>12. GoneInv'
  <2>1. \A d \in dropped : Final(d) => d.chain \in 1..Len(begun) /\ Ended(d)'
    BY <1>2, <1>10 DEF DialogueInv, GoneInv, Ended
  <2>2. ASSUME NEW d \in AwayFrom(text, pending) PROVE d.chain \in 1..Len(begun)
    BY <2>2 DEF AwayFrom, DialogueInv, AnswersInv, AllSound, PendingSound
  <2>. QED BY <1>2, <1>5, <2>1, <2>2 DEF GoneInv, Final
<1>. QED BY <1>7, <1>8, <1>9, <1>11, <1>12 DEF DialogueInv

\* A confirmation is decided.
LEMMA ExecuteHolds ==
    ASSUME DialogueInv, Execute
    PROVE  DialogueInv'
<1>1. /\ turn = Nil /\ cached' = This /\ This \in Cached
      /\ call' \in Call \cup {Nil}
      /\ call' # Nil => call # Nil /\ call'.asks = call.asks
      /\ UNCHANGED <<savedPending, breaks>>
  BY StartsTyped DEF Execute, Decided, DialogueInv
<1>2. UNCHANGED <<pending, begun, carried, restored, dropped, last>>
  BY DEF Execute, history
<1>3. /\ turn' \in Turn /\ turn' # Nil /\ turn'.at = "save"
      /\ turn'.known = Nil /\ turn'.action = Nil /\ turn'.away = {}
  <2>1. turn' = [at |-> "save", text |-> Nil, known |-> Nil, action |-> Nil,
                 call |-> 1, away |-> {}]
    BY DEF Execute, Decided
  <2>2. turn' \in Turn
    BY <2>1 DEF Turn, Stages
  <2>. QED BY <2>1, <2>2, NilAssumption
<1>4. DialogueTypeOK'
  BY <1>1, <1>2, <1>3 DEF DialogueInv, DialogueTypeOK
<1>5. AnswersInv'
  BY <1>1, <1>2, <1>3, NilSound DEF DialogueInv, AnswersInv, AllSound, This
<1>6. TurnInv'
  BY <1>1, <1>2, <1>3 DEF DialogueInv, TurnInv
<1>7. \A n : Alive(n)' <=> Alive(n)
  BY <1>1, <1>2, <1>3 DEF Alive
<1>8. OnceInv'
  BY <1>2, <1>7 DEF DialogueInv, OnceInv
<1>9. GoneInv'
  BY <1>2, <1>3, <1>7 DEF DialogueInv, GoneInv, Ended, Final
<1>. QED BY <1>4, <1>5, <1>6, <1>8, <1>9 DEF DialogueInv
-----------------------------------------------------------------------------
(* What a message is to the question that is open.                         *)

LEMMA Resolving ==
    ASSUME DialogueInv, NEW resolutions, Resolves(resolutions)
    PROVE  /\ turn # Nil /\ turn \in Turn /\ turn.at = "resolve"
           /\ turn.text \in Texts /\ turn.action = Nil
           /\ turn.known \in Pending \cup {Nil} /\ PendingSound(turn.known, begun)
           /\ turn.away = AwayFrom(turn.text, turn.known)
           /\ Resolution(turn.text, turn.known) \in resolutions
           /\ UNCHANGED <<beside, history>>
BY DEF Resolves, DialogueInv, DialogueTypeOK, TurnInv, Turn, AnswersInv, AllSound

LEMMA BlockHolds ==
    ASSUME DialogueInv, Block PROVE DialogueInv'
<1>1. /\ turn # Nil /\ turn.at = "resolve" /\ UNCHANGED <<beside, history>>
      /\ turn.away = AwayFrom(turn.text, turn.known)
      /\ Resolution(turn.text, turn.known) = "blocked"
  BY Resolving DEF Block
<1>2. "no_execution" \in turn.text.marks
  BY <1>1 DEF Resolution, PathResolution
<1>3. turn.away = {}
  BY <1>1, <1>2 DEF AwayFrom
<1>. QED BY <1>1, <1>3, FinishHolds DEF Block

LEMMA LetGoHolds ==
    ASSUME DialogueInv, LetGo PROVE DialogueInv'
BY Resolving, FinishHolds DEF LetGo

\* What a question about a path is not left for without being let go.
LEMMA PathStays ==
    ASSUME DialogueInv, NEW resolutions, Resolves(resolutions),
           resolutions \subseteq {"unresolved", "resolved"}
    PROVE  /\ turn.known # Nil /\ turn.known \in Pending
           /\ turn.known.asked.field = "path"
           /\ PathAnswer(turn.text, turn.known.asked) # "cancel"
           /\ "resolved" = Resolution(turn.text, turn.known) =>
                 PathAnswer(turn.text, turn.known.asked) # Nil
           /\ \A d \in turn.away : ~Final(d)
<1>. DEFINE text == turn.text
            p == turn.known
<1>1. /\ p \in Pending \cup {Nil} /\ turn.away = AwayFrom(text, p)
      /\ Resolution(text, p) \in {"unresolved", "resolved"}
  BY Resolving
<1>2. /\ p # Nil /\ p.asked.field = "path"
      /\ text.marks \cap {"no_execution", "cancel", "forget"} = {}
      /\ Resolution(text, p) = PathResolution(text, p.asked)
  BY <1>1 DEF Resolution
<1>3. /\ PathAnswer(text, p.asked) # "cancel"
      /\ Resolution(text, p) = "resolved" => PathAnswer(text, p.asked) # Nil
  BY <1>1, <1>2 DEF PathResolution
<1>4. Exact(text, p.asked) # "cancel"
  BY <1>3, DialogueAssumption DEF PathAnswer
<1>5. \A d \in AwayFrom(text, p) : d.field = "path" /\ d.how # "cancel"
  BY <1>2, <1>4 DEF AwayFrom
<1>. QED BY <1>1, <1>2, <1>3, <1>5 DEF Final

LEMMA AskAgainHolds ==
    ASSUME DialogueInv, AskAgain PROVE DialogueInv'
<1>1. /\ turn # Nil /\ turn.at = "resolve" /\ UNCHANGED <<beside, history>>
      /\ \A d \in turn.away : ~Final(d)
  BY Resolving, PathStays DEF AskAgain
<1>. QED BY <1>1, FinishHolds DEF AskAgain

\* The answer to the open question joins the earlier ones.
LEMMA AnsweredSound ==
    ASSUME NEW p \in Pending, Sound(p.answers), NEW value, value # "cancel",
           \/ value \in Range(p.asked.options)
           \/ value = "words" /\ (p.asked.free \/ p.asked.field = "path")
    PROVE  /\ Answered(p, value) \subseteq Answer /\ Sound(Answered(p, value))
           /\ Has(Answered(p, value), p.asked.field)
           /\ \A f : Has(p.answers, f) => Has(Answered(p, value), f)
<1>. DEFINE new == [question |-> p.asked, value |-> value]
<1>1. p.asked \in Question /\ p.answers \subseteq Answer
  BY DEF Pending
<1>2. value \in Ids \cup {"words"}
  BY <1>1, OptionsAreIds
<1>3. new \in Answer /\ new.question = p.asked /\ new.value = value
  BY <1>1, <1>2 DEF Answer
<1>4. Answered(p, value) =
        {a \in p.answers : a.question.field # p.asked.field} \cup {new}
  BY DEF Answered
<1>. HIDE DEF new
<1>5. Answered(p, value) \subseteq Answer
  BY <1>1, <1>3, <1>4
<1>6. Sound(Answered(p, value))
  BY <1>3, <1>4 DEF Sound
<1>7. Has(Answered(p, value), p.asked.field)
  BY <1>3, <1>4 DEF Has
<1>8. ASSUME NEW f, Has(p.answers, f) PROVE Has(Answered(p, value), f)
  BY <1>4, <1>7, <1>8 DEF Has
<1>. QED BY <1>5, <1>6, <1>7, <1>8

LEMMA TakePathHolds ==
    ASSUME DialogueInv, TakePath PROVE DialogueInv'
<1>0. PICK p : p = turn.known
  OBVIOUS
<1>. DEFINE value == PathAnswer(turn.text, p.asked)
            action == [chain |-> p.chain, answers |-> Answered(p, value)]
<1>1. /\ turn # Nil /\ turn.at = "resolve" /\ UNCHANGED <<beside, history>>
      /\ Resolution(turn.text, p) = "resolved"
      /\ GoTo("prepare", action) /\ pending' = Nil
  BY <1>0, Resolving DEF TakePath
<1>2. /\ p # Nil /\ p \in Pending /\ p.asked.field = "path"
      /\ value # "cancel" /\ value # Nil
      /\ \A d \in turn.away : ~Final(d)
  BY <1>0, <1>1, PathStays DEF TakePath
<1>3. p.asked \in Question
  BY <1>2 DEF Pending
<1>4. value \in Range(p.asked.options) \/ value = "words"
  BY <1>2, <1>3, MatchesOffered DEF PathAnswer
<1>5. PendingSound(p, begun)
  BY <1>0, <1>1 DEF DialogueInv, AnswersInv, AllSound
<1>6. /\ Answered(p, value) \subseteq Answer /\ Sound(Answered(p, value))
      /\ Has(Answered(p, value), p.asked.field)
      /\ \A f : Has(p.answers, f) => Has(Answered(p, value), f)
  BY <1>2, <1>4, <1>5, AnsweredSound DEF PendingSound
<1>. HIDE DEF value
<1>7. action \in Action /\ action # Nil /\ action.chain = p.chain
      /\ action.answers = Answered(p, value)
  BY <1>2, <1>6, NilAssumption DEF Action, Pending
<1>8. ActionSound(action, begun)
  <2>1. begun \in Seq(Seq(Question)) /\ p.chain \in 1..Len(begun)
        /\ p.rest \in Seq(Question)
    BY <1>2, <1>5 DEF PendingSound, DialogueInv, DialogueTypeOK, Pending
  <2>. DEFINE chain == begun[p.chain]
              place == Place(p, begun)
  <2>2. chain \in Seq(Question) /\ place \in 1..Len(chain)
    BY <1>2, <1>5, <2>1 DEF PendingSound
  <2>3. ASSUME NEW n \in 1..place
        PROVE  Has(action.answers, chain[n].field) \/ Escaped(chain, n)
    BY <1>2, <1>5, <1>6, <1>7 DEF PendingSound
  <2>4. ASSUME NEW n \in DOMAIN chain, n > place
        PROVE  Escaped(chain, n)
    <3>1. Len(p.rest) = Len(chain) - place
      BY <2>1, <2>2 DEF Place
    <3>2. p.rest # <<>>
      BY <2>1, <2>2, <2>4, <3>1
    <3>3. chain[place].field = "path"
      BY <1>2, <1>5, <3>2 DEF PendingSound
    <3>4. place \in 1..(n - 1)
      BY <2>2, <2>4
    <3>. QED BY <3>3, <3>4 DEF Escaped
  <2>5. \A n \in DOMAIN chain : Has(action.answers, chain[n].field) \/ Escaped(chain, n)
    BY <2>2, <2>3, <2>4
  <2>. QED BY <1>6, <1>7, <2>1, <2>5 DEF ActionSound
<1>9. Alive(action.chain)
  BY <1>0, <1>1, <1>2, <1>7 DEF Alive
<1>. HIDE DEF action
<1>. QED BY <1>1, <1>2, <1>7, <1>8, <1>9, NilSound, AdvanceHolds

LEMMA PassOnHolds ==
    ASSUME DialogueInv, PassOn PROVE DialogueInv'
<1>0. PICK p : p = turn.known
  OBVIOUS
<1>. DEFINE text == turn.text
            known == IF LetsGo THEN Nil ELSE p
<1>1. /\ turn # Nil /\ turn \in Turn /\ turn.at = "resolve" /\ text \in Texts
      /\ turn.action = Nil /\ p \in Pending \cup {Nil} /\ PendingSound(p, begun)
      /\ turn.away = AwayFrom(text, p)
      /\ Resolution(text, p) \in {"not_applicable", "new_intent"}
      /\ UNCHANGED <<savedPending, cached, call, breaks, begun, carried, restored,
                     dropped, last>>
  BY <1>0, Resolving DEF PassOn, beside, history
<1>2. pending' = IF LetsGo THEN Nil ELSE pending
  BY DEF PassOn
<1>3. /\ turn' \in Turn /\ turn' # Nil /\ turn'.at = "plan" /\ turn'.text = text
      /\ turn'.known = known /\ turn'.action = Nil /\ turn'.away = turn.away
  <2>1. turn' = [at |-> "plan", text |-> text, known |-> known, action |-> Nil,
                 call |-> turn.call, away |-> turn.away]
    BY <1>0, <1>1 DEF PassOn, Turn
  <2>2. turn' \in Turn
    BY <1>1, <2>1 DEF Turn, Stages
  <2>. QED BY <2>1, <2>2, NilAssumption
<1>4. last = Nil
  BY <1>1 DEF DialogueInv, TurnInv
<1>5. DialogueTypeOK'
  BY <1>1, <1>2, <1>3 DEF DialogueInv, DialogueTypeOK
<1>6. AnswersInv'
  BY <1>1, <1>2, <1>3, NilSound DEF DialogueInv, AnswersInv, AllSound
<1>7. TurnInv'
  BY <1>1, <1>3, <1>4 DEF TurnInv
<1>8. ASSUME NEW n, Alive(n)' PROVE Alive(n)
  BY <1>0, <1>1, <1>2, <1>3, <1>8 DEF Alive
<1>9. OnceInv'
  <2>1. carried \in Seq(Nat) /\ restored \in Seq(Nat) /\ Len(carried) = Len(restored)
    BY DEF DialogueInv, DialogueTypeOK
  <2>2. ASSUME NEW n \in DOMAIN carried
        PROVE  carried[n] + (IF Alive(n)' THEN 1 ELSE 0) <= 1 + restored[n]
    <3>1. carried[n] \in Nat /\ restored[n] \in Nat
      BY <2>1
    <3>. QED BY <1>8, <3>1 DEF DialogueInv, OnceInv
  <2>. QED BY <1>1, <2>2 DEF OnceInv
<1>10. GoneInv'
  <2>1. \A d \in dropped : Final(d) => d.chain \in 1..Len(begun) /\ Ended(d)'
    BY <1>1, <1>8 DEF DialogueInv, GoneInv, Ended
  <2>2. ASSUME NEW d \in turn.away, Final(d)
        PROVE  \/ Ended(d)'
               \/ known # Nil /\ Loose(text, known.asked) = "cancel"
    <3>1. CASE LetsGo
      <4>1. ~Alive(d.chain)'
        BY <1>2, <1>3, <3>1 DEF Alive
      <4>. QED BY <1>1, <1>4, <4>1 DEF Ended
    <3>2. CASE ~LetsGo
      <4>1. /\ p # Nil /\ p \in Pending /\ known = p
            /\ "no_execution" \notin text.marks
        BY <1>1, <2>2, <3>2 DEF AwayFrom
      <4>2. Resolution(text, p) = "not_applicable" /\ ~TurnsAway(text, p)
        BY <1>0, <1>1, <3>2 DEF LetsGo
      <4>3. text.marks \cap {"no_execution", "cancel", "forget"} = {}
            /\ p.asked.field # "path"
        BY <4>1, <4>2 DEF Resolution, PathResolution
      <4>4. text.marks \cap {"reset", "new_action"} = {}
        BY <4>1, <4>2 DEF TurnsAway
      <4>5. Exact(text, p.asked) = "cancel"
        BY <1>1, <2>2, <4>3, <4>4 DEF AwayFrom
      <4>. QED BY <1>1, <4>1, <4>3, <4>5, CancelMeant DEF Pending
    <3>. QED BY <3>1, <3>2
  <2>3. \A d \in turn.away : d.chain \in 1..Len(begun)
    BY <1>1 DEF DialogueInv, GoneInv
  <2>. QED BY <1>1, <1>3, <2>1, <2>2, <2>3 DEF GoneInv, Final
<1>. QED BY <1>5, <1>6, <1>7, <1>9, <1>10 DEF DialogueInv

-----------------------------------------------------------------------------
(* The planner.                                                            *)

\* An answer other than the option to cancel was not meant as that.
LEMMA NotCancelled ==
    ASSUME DialogueInv, NEW value, Selects(value), value # "cancel"
    PROVE  \A d \in turn.away : Final(d) => Ended(d)
<1>1. Loose(turn.text, turn.known.asked) # "cancel"
  BY DialogueAssumption DEF Selects, Selection
<1>. QED BY <1>1 DEF DialogueInv, GoneInv, Selects, Answering

LEMMA Undecided ==
    ASSUME DialogueInv, Answering, Selection = Nil
    PROVE  \A d \in turn.away : Final(d) => Ended(d)
<1>1. Loose(turn.text, turn.known.asked) # "cancel"
  BY DialogueAssumption DEF Selection
<1>. QED BY <1>1 DEF DialogueInv, GoneInv, Answering

\* Something new was not meant for the question.
LEMMA SomethingNew ==
    ASSUME DialogueInv, Planning
    PROVE  \A d \in turn.away : Final(d) => Ended(d)
BY DEF DialogueInv, GoneInv, Planning

LEMMA CancelSelectedHolds ==
    ASSUME DialogueInv, CancelSelected PROVE DialogueInv'
<1>1. turn # Nil /\ turn.at = "plan" /\ pending' = Nil
  BY DEF CancelSelected, Selects, Answering, Settle
<1>. QED BY <1>1, FinishHolds DEF CancelSelected

LEMMA RepeatHolds ==
    ASSUME DialogueInv, Repeat PROVE DialogueInv'
<1>1. turn # Nil /\ turn.at = "plan"
  BY DEF Repeat, Selects, Answering
<1>2. \A d \in turn.away : Final(d) => Ended(d)
  BY NotCancelled, Undecided DEF Repeat
<1>. QED BY <1>1, <1>2, FinishHolds DEF Repeat

LEMMA PlannerFailsHolds ==
    ASSUME DialogueInv, PlannerFails PROVE DialogueInv'
<1>1. turn # Nil /\ turn.at = "plan"
  BY DEF PlannerFails, Selects, Answering
<1>2. \A d \in turn.away : Final(d) => Ended(d)
  BY NotCancelled, Undecided, SomethingNew DEF PlannerFails, Planning
<1>. QED BY <1>1, <1>2, FinishHolds DEF PlannerFails

LEMMA PlansAnswerHolds ==
    ASSUME DialogueInv, PlansAnswer PROVE DialogueInv'
<1>1. turn # Nil /\ turn.at = "plan"
  BY DEF PlansAnswer, Planning
<1>. QED BY <1>1, SomethingNew, FinishHolds DEF PlansAnswer

\* The answer taken from a message, and the question it is to.
LEMMA TakenSound ==
    ASSUME DialogueInv, NEW value, Taken(value), NEW p, p = turn.known
    PROVE  /\ turn # Nil /\ turn.at = "plan" /\ p # Nil /\ Alive(p.chain)
           /\ p \in Pending /\ PendingSound(p, begun)
           /\ Answered(p, value) \subseteq Answer
           /\ Sound(Answered(p, value))
           /\ Has(Answered(p, value), p.asked.field)
           /\ \A f : Has(p.answers, f) => Has(Answered(p, value), f)
           /\ \A d \in turn.away : Final(d) => Ended(d)
<1>1. turn # Nil /\ turn.at = "plan" /\ p # Nil /\ Selects(value) /\ value # "cancel"
  BY DEF Taken, Selects, Answering
<1>2. Alive(p.chain)
  BY <1>1 DEF Alive
<1>3. p \in Pending /\ PendingSound(p, begun)
  BY <1>1 DEF DialogueInv, DialogueTypeOK, AnswersInv, AllSound, Turn
<1>4. p.asked \in Question /\ Sound(p.answers)
  BY <1>1, <1>3 DEF Pending, PendingSound
<1>5. \/ value \in Range(p.asked.options)
      \/ value = "words" /\ p.asked.free
  <2>1. Loose(turn.text, p.asked) # Nil =>
           Loose(turn.text, p.asked) \in Range(p.asked.options)
    BY <1>4, MatchesOffered
  <2>2. /\ Selection # Nil => value = Selection
        /\ Selection = Nil => value \in Range(p.asked.options)
    BY <1>1 DEF Selects, Offered
  <2>3. /\ Loose(turn.text, p.asked) # Nil => Selection = Loose(turn.text, p.asked)
        /\ Loose(turn.text, p.asked) = Nil /\ Selection # Nil =>
              Selection = "words" /\ p.asked.free
    BY Zenon DEF Selection
  <2>. QED BY <2>1, <2>2, <2>3, Zenon
<1>6. /\ Answered(p, value) \subseteq Answer
      /\ Sound(Answered(p, value))
      /\ Has(Answered(p, value), p.asked.field)
      /\ \A f : Has(p.answers, f) => Has(Answered(p, value), f)
  BY <1>1, <1>3, <1>4, <1>5, AnsweredSound
<1>. QED BY <1>1, <1>2, <1>3, <1>6, NotCancelled

LEMMA AskNextHolds ==
    ASSUME DialogueInv, NEW value, AskNext(value) PROVE DialogueInv'
<1>1. PICK p : p = turn.known
  OBVIOUS
<1>2. /\ turn # Nil /\ turn.at = "plan" /\ p # Nil /\ Alive(p.chain)
      /\ p \in Pending /\ PendingSound(p, begun)
      /\ Answered(p, value) \subseteq Answer
      /\ Sound(Answered(p, value))
      /\ Has(Answered(p, value), p.asked.field)
      /\ \A f : Has(p.answers, f) => Has(Answered(p, value), f)
      /\ \A d \in turn.away : Final(d) => Ended(d)
  BY <1>1, TakenSound DEF AskNext
<1>. DEFINE next == [chain |-> p.chain, asked |-> Head(p.rest),
                     rest |-> Tail(p.rest), answers |-> Answered(p, value)]
<1>3. p.rest # <<>> /\ pending' = next
  BY <1>1 DEF AskNext, Remaining
<1>4. p.rest \in Seq(Question) /\ p.chain \in Chain
  BY <1>2 DEF Pending
<1>5. Head(p.rest) = p.rest[1] /\ Head(p.rest) \in Question
      /\ Tail(p.rest) \in Seq(Question) /\ Len(Tail(p.rest)) = Len(p.rest) - 1
      /\ \A n \in 1..Len(Tail(p.rest)) : Tail(p.rest)[n] = p.rest[n + 1]
  BY <1>3, <1>4
<1>6. next \in Pending /\ next # Nil /\ next.chain = p.chain
      /\ next.asked = Head(p.rest) /\ next.rest = Tail(p.rest)
      /\ next.answers = Answered(p, value)
  BY <1>2, <1>4, <1>5, NilAssumption DEF Pending
<1>. HIDE DEF next
<1>7. PendingSound(next, begun)
  <2>. DEFINE chain == begun[p.chain]
              place == Place(p, begun)
  <2>1. begun \in Seq(Seq(Question)) /\ p.chain \in 1..Len(begun)
    BY <1>2 DEF PendingSound, DialogueInv, DialogueTypeOK
  <2>2. chain \in Seq(Question) /\ place \in 1..Len(chain)
        /\ Len(p.rest) = Len(chain) - place /\ Len(p.rest) \in Nat
    <3>1. chain \in Seq(Question) /\ Len(chain) \in Nat /\ Len(p.rest) \in Nat
      BY <1>4, <2>1
    <3>2. place \in 1..Len(chain)
      BY <1>2 DEF PendingSound
    <3>3. place = Len(chain) - Len(p.rest)
      BY DEF Place
    <3>. HIDE DEF chain, place
    <3>. QED BY <3>1, <3>2, <3>3
  <2>3. Place(next, begun) = place + 1 /\ place + 1 \in 1..Len(chain)
    <3>1. Place(next, begun) = Len(chain) - Len(next.rest)
      BY <1>6 DEF Place
    <3>2. Len(p.rest) > 0
      BY <1>3, <1>4
    <3>3. Len(chain) \in Nat
      BY <2>2
    <3>4. Len(next.rest) = Len(p.rest) - 1
      BY <1>5, <1>6
    <3>. QED BY <2>2, <3>1, <3>2, <3>3, <3>4
  <2>4. /\ p.asked = chain[place]
        /\ \A n \in 1..Len(p.rest) : p.rest[n] = chain[place + n]
        /\ \A n \in 1..place : \/ Has(p.answers, chain[n].field)
                               \/ chain[n].field = p.asked.field
                               \/ Escaped(begun[p.chain], n)
    BY <1>2, <1>3 DEF PendingSound
  <2>. HIDE DEF place
  <2>5. next.asked = chain[place + 1]
    <3>1. 1 \in 1..Len(p.rest)
      BY <1>3, <1>4
    <3>. QED BY <1>5, <1>6, <2>4, <3>1
  <2>6. ASSUME NEW n \in 1..Len(next.rest)
        PROVE  next.rest[n] = chain[(place + 1) + n]
    <3>1. n + 1 \in 1..Len(p.rest) /\ next.rest[n] = p.rest[n + 1]
      BY <1>4, <1>5, <1>6, <2>6
    <3>2. place + (n + 1) = (place + 1) + n
      BY <2>2
    <3>. QED BY <2>4, <3>1, <3>2
  <2>7. ASSUME NEW n \in 1..(place + 1)
        PROVE  \/ Has(next.answers, chain[n].field)
               \/ chain[n].field = next.asked.field
               \/ Escaped(begun[next.chain], n)
    <3>1. CASE n = place + 1
      BY <2>5, <3>1
    <3>2. CASE n \in 1..place
      BY <1>2, <1>6, <2>4, <3>2
    <3>. QED BY <2>2, <3>1, <3>2
  <2>8. /\ Sound(next.answers) /\ next.chain \in 1..Len(begun)
        /\ Place(next, begun) \in 1..Len(begun[next.chain])
        /\ next.asked = begun[next.chain][Place(next, begun)]
    BY <1>2, <1>6, <2>1, <2>3, <2>5
  <2>9. \A n \in 1..Len(next.rest) :
           next.rest[n] = begun[next.chain][Place(next, begun) + n]
    BY <1>6, <2>3, <2>6
  <2>10. \A n \in 1..Place(next, begun) :
            \/ Has(next.answers, begun[next.chain][n].field)
            \/ begun[next.chain][n].field = next.asked.field
            \/ Escaped(begun[next.chain], n)
    BY <1>6, <2>3, <2>7
  <2>. QED BY <2>8, <2>9, <2>10 DEF PendingSound
<1>8. Alive(next.chain)
  BY <1>2, <1>6 DEF Alive
<1>. QED BY <1>2, <1>3, <1>6, <1>7, <1>8, NilSound, AdvanceHolds
         DEF AskNext, Finish

LEMMA CompleteHolds ==
    ASSUME DialogueInv, NEW value, Complete(value) PROVE DialogueInv'
<1>1. PICK p : p = turn.known
  OBVIOUS
<1>2. /\ turn # Nil /\ turn.at = "plan" /\ p # Nil /\ Alive(p.chain)
      /\ p \in Pending /\ PendingSound(p, begun)
      /\ Answered(p, value) \subseteq Answer
      /\ Sound(Answered(p, value))
      /\ Has(Answered(p, value), p.asked.field)
      /\ \A f : Has(p.answers, f) => Has(Answered(p, value), f)
      /\ \A d \in turn.away : Final(d) => Ended(d)
  BY <1>1, TakenSound DEF Complete
<1>. DEFINE action == [chain |-> p.chain, answers |-> Answered(p, value)]
<1>3. p.rest = <<>> /\ GoTo("prepare", action) /\ pending' = Nil
  BY <1>1 DEF Complete, Remaining, Settle
<1>4. action \in Action /\ action # Nil /\ action.chain = p.chain
      /\ action.answers = Answered(p, value)
  BY <1>2, NilAssumption DEF Action, Pending
<1>. HIDE DEF action
<1>5. ActionSound(action, begun)
  <2>1. begun \in Seq(Seq(Question)) /\ p.chain \in 1..Len(begun)
    BY <1>2 DEF PendingSound, DialogueInv, DialogueTypeOK
  <2>2. Place(p, begun) = Len(begun[p.chain])
    BY <1>3, <2>1 DEF Place
  <2>3. ASSUME NEW n \in DOMAIN begun[p.chain]
        PROVE  Has(action.answers, begun[p.chain][n].field) \/ Escaped(begun[p.chain], n)
    <3>1. n \in 1..Place(p, begun)
      BY <2>1, <2>2
    <3>2. \/ Has(p.answers, begun[p.chain][n].field)
          \/ begun[p.chain][n].field = p.asked.field
          \/ Escaped(begun[p.chain], n)
      BY <1>2, <3>1 DEF PendingSound
    <3>. QED BY <1>2, <1>4, <3>2
  <2>. QED BY <1>2, <1>4, <2>1, <2>3 DEF ActionSound
<1>6. Alive(action.chain)
  BY <1>2, <1>4 DEF Alive
<1>. QED BY <1>2, <1>3, <1>4, <1>5, <1>6, NilSound, AdvanceHolds DEF Complete

LEMMA PlansActionHolds ==
    ASSUME DialogueInv, PlansAction PROVE DialogueInv'
<1>. DEFINE action == [chain |-> 0, answers |-> {}]
<1>1. turn # Nil /\ turn.at = "plan"
      /\ GoTo("prepare", action) /\ pending' = pending
  BY DEF PlansAction, Planning
<1>2. pending \in Pending \cup {Nil} /\ PendingSound(pending, begun)
      /\ (pending # Nil => Alive(pending.chain))
  BY DEF DialogueInv, DialogueTypeOK, AnswersInv, AllSound, Alive
<1>3. action \in Action /\ action # Nil /\ action.chain = 0 /\ action.answers = {}
  BY NilAssumption, DialogueAssumption DEF Action, Chain
<1>. HIDE DEF action
<1>4. ActionSound(action, begun)
  BY <1>3 DEF ActionSound, Sound, DialogueInv, DialogueTypeOK
<1>. QED BY <1>1, <1>2, <1>3, <1>4, SomethingNew, AdvanceHolds DEF PlansAction

LEMMA ReviewHolds ==
    ASSUME DialogueInv, Review PROVE DialogueInv'
<1>1. turn \in Turn /\ turn # Nil
  BY DEF Review, Planning, DialogueInv, DialogueTypeOK
<1>2. /\ turn' \in Turn /\ turn' # Nil /\ turn'.at = turn.at
      /\ turn'.action = turn.action /\ turn'.text = turn.text
      /\ turn'.known = turn.known /\ turn'.away = turn.away
      /\ UNCHANGED <<pending, savedPending, cached, call, breaks, begun, carried,
                     restored, dropped, last>>
  <2>1. turn' = [at |-> turn.at, text |-> turn.text, known |-> turn.known,
                 action |-> turn.action, call |-> turn.call + 1,
                 away |-> turn.away]
    BY <1>1 DEF Review, Turn
  <2>2. turn.call + 1 \in 1..3
    BY <1>1 DEF Review, Turn
  <2>3. turn' \in Turn
    BY <1>1, <2>1, <2>2 DEF Turn
  <2>. QED BY <2>1, <2>3, NilAssumption DEF Review, beside, history
<1>3. DialogueTypeOK' /\ TurnInv'
  BY <1>1, <1>2 DEF DialogueInv, DialogueTypeOK, TurnInv
<1>4. AnswersInv'
  BY <1>1, <1>2 DEF DialogueInv, AnswersInv, AllSound
<1>5. \A n : Alive(n)' <=> Alive(n)
  BY <1>1, <1>2 DEF Alive
<1>6. OnceInv'
  BY <1>2, <1>5 DEF DialogueInv, OnceInv
<1>7. GoneInv'
  <2>1. \A d : Ended(d)' <=> Ended(d)
    BY <1>2, <1>5 DEF Ended
  <2>. QED BY <1>1, <1>2, <2>1 DEF DialogueInv, GoneInv, Final
<1>. QED BY <1>3, <1>4, <1>6, <1>7 DEF DialogueInv
-----------------------------------------------------------------------------
(* New chains.                                                             *)

\* What is known once a chain is begun.
LEMMA OpensKeeps ==
    ASSUME DialogueInv, NEW chain \in Seq(Question), chain # <<>>,
           NEW answers, answers \subseteq Answer, Sound(answers), Opens(chain),
           NEW q, q = Opened(chain, answers)
    PROVE  /\ begun' \in Seq(Seq(Question)) /\ Len(begun') = Len(begun) + 1
           /\ Len(begun') <= MaxChains /\ Len(begun) \in Nat
           /\ carried' \in Seq(Nat) /\ Len(carried') = Len(begun')
           /\ restored' \in Seq(Nat) /\ Len(restored') = Len(begun')
           /\ \A n \in 1..Len(begun) :
                 n # q.chain /\ carried'[n] = carried[n] /\ restored'[n] = restored[n]
           /\ \A n \in 1..Len(begun') : n \in 1..Len(begun) \/ n = q.chain
           /\ carried'[q.chain] = 0 /\ restored'[q.chain] = 0
           /\ q \in Pending /\ q # Nil /\ PendingSound(q, begun')
           /\ AllSound(begun') /\ \A n \in DOMAIN begun' : begun'[n] # <<>>
           /\ UNCHANGED <<dropped, last>>
<1>. DEFINE new == Len(begun) + 1
<1>1. /\ begun \in Seq(Seq(Question)) /\ carried \in Seq(Nat) /\ restored \in Seq(Nat)
      /\ Len(begun) < MaxChains /\ Len(carried) = Len(begun)
      /\ Len(restored) = Len(begun)
      /\ begun' = Append(begun, chain) /\ carried' = Append(carried, 0)
      /\ restored' = Append(restored, 0)
      /\ UNCHANGED <<dropped, last>>
  BY DEF Opens, DialogueInv, DialogueTypeOK
<1>2. /\ Head(chain) \in Question /\ Head(chain) = chain[1]
      /\ Tail(chain) \in Seq(Question) /\ Len(Tail(chain)) = Len(chain) - 1
      /\ \A n \in 1..Len(Tail(chain)) : Tail(chain)[n] = chain[n + 1]
      /\ Len(chain) \in Nat \ {0}
  OBVIOUS
<1>3. new \in Chain /\ new \in Nat /\ Len(begun) \in Nat /\ new <= MaxChains
  BY <1>1, DialogueAssumption DEF Chain
<1>4. q \in Pending /\ q # Nil /\ q.chain = new /\ q.asked = chain[1]
      /\ q.rest = Tail(chain) /\ q.answers = answers
  <2>1. q = [chain |-> new, asked |-> Head(chain), rest |-> Tail(chain),
             answers |-> answers]
    BY DEF Opened
  <2>2. q \in Pending
    BY <1>2, <1>3, <2>1 DEF Pending
  <2>3. q # Nil
    BY <2>2, NilAssumption
  <2>4. /\ q.chain = new /\ q.asked = Head(chain) /\ q.rest = Tail(chain)
        /\ q.answers = answers
    BY <2>1
  <2>5. Head(chain) = chain[1]
    BY <1>2
  <2>. QED BY <2>2, <2>3, <2>4, <2>5
<1>5. /\ begun' \in Seq(Seq(Question)) /\ Len(begun') = new
      /\ begun'[new] = chain /\ \A n \in 1..Len(begun) : begun'[n] = begun[n]
  BY <1>1
<1>6. /\ carried' \in Seq(Nat) /\ Len(carried') = new
      /\ carried'[new] = 0 /\ \A n \in 1..Len(begun) : carried'[n] = carried[n]
  BY <1>1
<1>7. /\ restored' \in Seq(Nat) /\ Len(restored') = new
      /\ restored'[new] = 0 /\ \A n \in 1..Len(begun) : restored'[n] = restored[n]
  BY <1>1
<1>8. \A n \in 1..Len(begun) : n # new
  BY <1>3
<1>9. \A n \in 1..new : n \in 1..Len(begun) \/ n = new
  BY <1>3
<1>10. new \in 1..new /\ Len(begun) <= new
  BY <1>3
<1>. HIDE DEF new
<1>11. Extended(begun, begun')
  BY <1>1, <1>5, <1>10 DEF Extended
<1>12. PendingSound(q, begun')
  <2>1. begun'[q.chain] = chain /\ q.chain \in 1..Len(begun')
    BY <1>4, <1>5, <1>10
  <2>2. Place(q, begun') = 1
    BY <1>2, <1>4, <2>1 DEF Place
  <2>3. Sound(q.answers)
    BY <1>4
  <2>4. 1 \in 1..Len(begun'[q.chain])
    BY <1>2, <2>1
  <2>5. q.asked = begun'[q.chain][1]
    BY <1>4, <2>1
  <2>6. \A n \in 1..Len(q.rest) : q.rest[n] = begun'[q.chain][1 + n]
    BY <1>2, <1>4, <2>1
  <2>7. \A n \in 1..1 : begun'[q.chain][n].field = q.asked.field
    BY <2>5
  <2>. QED BY <2>1, <2>2, <2>3, <2>4, <2>5, <2>6, <2>7 DEF PendingSound
<1>13. AllSound(begun')
  BY <1>11, AllKept DEF DialogueInv, AnswersInv
<1>14. \A n \in DOMAIN begun' : begun'[n] # <<>>
  BY <1>1, <1>5, <1>9 DEF DialogueInv, AnswersInv
<1>15. /\ Len(begun') = Len(begun) + 1
       /\ \A n \in 1..Len(begun) : n # q.chain
       /\ \A n \in 1..Len(begun') : n \in 1..Len(begun) \/ n = q.chain
  BY <1>4, <1>5, <1>8, <1>9 DEF new
<1>. QED BY <1>1, <1>3, <1>4, <1>5, <1>6, <1>7, <1>12, <1>13, <1>14, <1>15

\* The new chain has led to nothing yet, and the old ones are as they were.
LEMMA OnceOpened ==
    ASSUME DialogueInv, NEW k,
           Len(begun) \in Nat, Len(carried') = Len(begun'),
           carried' \in Seq(Nat), restored' \in Seq(Nat),
           Len(restored') = Len(begun'),
           \A n \in 1..Len(begun) :
              carried'[n] = carried[n] /\ restored'[n] = restored[n],
           \A n \in 1..Len(begun') : n \in 1..Len(begun) \/ n = k,
           carried'[k] = 0 /\ restored'[k] = 0,
           \A n \in 1..Len(begun) : Alive(n)' => Alive(n)
    PROVE  OnceInv'
<1>. SUFFICES ASSUME NEW n \in DOMAIN carried'
              PROVE  carried'[n] + (IF Alive(n)' THEN 1 ELSE 0) <= 1 + restored'[n]
  BY DEF OnceInv
<1>1. n \in 1..Len(begun) \/ n = k
  OBVIOUS
<1>2. CASE n = k
  BY <1>2
<1>3. CASE n \in 1..Len(begun)
  <2>0. /\ carried \in Seq(Nat) /\ Len(carried) = Len(begun)
        /\ restored \in Seq(Nat) /\ Len(restored) = Len(begun)
    BY DEF DialogueInv, DialogueTypeOK
  <2>1. /\ n \in DOMAIN carried /\ carried[n] \in Nat /\ restored[n] \in Nat
        /\ carried'[n] = carried[n] /\ restored'[n] = restored[n]
    BY <1>3, <2>0
  <2>2. carried[n] + (IF Alive(n) THEN 1 ELSE 0) <= 1 + restored[n]
    BY <2>1 DEF DialogueInv, OnceInv
  <2>3. Alive(n)' => Alive(n)
    BY <1>3
  <2>. QED BY <2>1, <2>2, <2>3
<1>. QED BY <1>1, <1>2, <1>3

\* A chain begins at the end of a turn; whatever was open before it is done
\* with.
LEMMA BeginHolds ==
    ASSUME DialogueInv, last = Nil,
           NEW chain \in Seq(Question), chain # <<>>,
           NEW answers, answers \subseteq Answer, Sound(answers),
           Opens(chain), pending' = Opened(chain, answers),
           turn' \in Turn, turn' # Nil, turn'.at = "save",
           turn'.action = Nil, turn'.known = Nil,
           turn'.away = {} \/ (turn # Nil /\ turn'.away = turn.away),
           UNCHANGED <<savedPending, breaks>>,
           cached' \in Cached, PendingSound(cached'.asks, begun'),
           call' \in Call \cup {Nil}, call' # Nil => PendingSound(call'.asks, begun')
    PROVE  DialogueInv'
<1>1. PICK q : q = Opened(chain, answers)
  OBVIOUS
<1>2. /\ begun' \in Seq(Seq(Question)) /\ Len(begun') = Len(begun) + 1
      /\ Len(begun') <= MaxChains /\ Len(begun) \in Nat
      /\ carried' \in Seq(Nat) /\ Len(carried') = Len(begun')
      /\ restored' \in Seq(Nat) /\ Len(restored') = Len(begun')
      /\ \A n \in 1..Len(begun) :
            n # q.chain /\ carried'[n] = carried[n] /\ restored'[n] = restored[n]
      /\ \A n \in 1..Len(begun') : n \in 1..Len(begun) \/ n = q.chain
      /\ carried'[q.chain] = 0 /\ restored'[q.chain] = 0
      /\ q \in Pending /\ q # Nil /\ PendingSound(q, begun')
      /\ AllSound(begun') /\ \A n \in DOMAIN begun' : begun'[n] # <<>>
      /\ UNCHANGED <<dropped, last>>
  BY <1>1, OpensKeeps
<1>3. pending' = q
  BY <1>1
<1>4. DialogueTypeOK'
  BY <1>2, <1>3 DEF DialogueInv, DialogueTypeOK
<1>5. AnswersInv'
  <2>1. PendingSound(savedPending', begun')
    BY <1>2 DEF AllSound
  <2>. QED BY <1>2, <1>3, <2>1, NilSound DEF AnswersInv, AllSound
<1>6. TurnInv'
  BY DEF TurnInv
<1>7. \A n \in 1..Len(begun) : ~Alive(n)'
  BY <1>2, <1>3 DEF Alive
<1>8. OnceInv'
  BY <1>2, <1>7, OnceOpened
<1>9. ASSUME NEW d, d.chain \in 1..Len(begun)
      PROVE  d.chain \in 1..Len(begun') /\ Ended(d)'
  BY <1>2, <1>7, <1>9 DEF Ended
<1>10. GoneInv'
  <2>1. \A d \in dropped : Final(d) => d.chain \in 1..Len(begun') /\ Ended(d)'
    BY <1>9 DEF DialogueInv, GoneInv
  <2>2. \A d \in turn'.away : d.chain \in 1..Len(begun') /\ Ended(d)'
    BY <1>9 DEF DialogueInv, GoneInv
  <2>. QED BY <1>2, <2>1, <2>2 DEF GoneInv, Final
<1>. QED BY <1>4, <1>5, <1>6, <1>8, <1>10 DEF DialogueInv

\* The same in a turn that was planning or preparing.
LEMMA BeginsAtEnd ==
    ASSUME DialogueInv, turn # Nil, turn.at # "save", Finish,
           NEW chain \in Seq(Question), chain # <<>>,
           NEW answers, answers \subseteq Answer, Sound(answers),
           Begin(chain, answers)
    PROVE  DialogueInv'
<1>1. /\ turn' \in Turn /\ turn' # Nil /\ turn'.at = "save"
      /\ turn'.action = Nil /\ turn'.known = Nil /\ turn'.away = turn.away
  BY Moved DEF Finish, DialogueInv, Stages
<1>2. last = Nil
  BY DEF DialogueInv, TurnInv
<1>3. UNCHANGED <<savedPending, cached, call, breaks>>
  BY DEF Begin, beside
<1>4. AllSound(begun')
  BY OpensKeeps DEF Begin
<1>5. /\ cached' \in Cached /\ PendingSound(cached'.asks, begun')
      /\ call' \in Call \cup {Nil} /\ (call' # Nil => PendingSound(call'.asks, begun'))
  BY <1>3, <1>4 DEF DialogueInv, DialogueTypeOK, AllSound
<1>. QED BY <1>1, <1>2, <1>3, <1>5, BeginHolds DEF Begin

LEMMA RouterAsksHolds ==
    ASSUME DialogueInv, RouterAsks PROVE DialogueInv'
<1>1. EditQuestion \in Question /\ ReminderQuestion \in Question
  BY DialogueAssumption
     DEF EditQuestion, ReminderQuestion, Options, Question, Fields
<1>2. /\ <<EditQuestion>> \in Seq(Question) /\ <<EditQuestion>> # <<>>
      /\ <<ReminderQuestion>> \in Seq(Question) /\ <<ReminderQuestion>> # <<>>
  BY <1>1
<1>3. Sound({})
  BY DEF Sound
<1>. QED BY <1>2, <1>3, BeginsAtEnd DEF RouterAsks, Planning

LEMMA ModelAsksHolds ==
    ASSUME DialogueInv, NEW chain \in Chains, ModelAsks(chain)
    PROVE  DialogueInv'
<1>1. chain \in Seq(Question) /\ chain # <<>>
  BY DialogueAssumption
<1>2. Sound({})
  BY DEF Sound
<1>. QED BY <1>1, <1>2, BeginsAtEnd DEF ModelAsks, Planning

LEMMA PathQuestionTyped ==
    ASSUME NEW files \in Matches
    PROVE  /\ PathQuestion(files) \in Question
           /\ PathQuestion(files).field = "path"
           /\ <<PathQuestion(files)>> \in Seq(Question)
           /\ <<PathQuestion(files)>> # <<>>
           /\ Head(<<PathQuestion(files)>>) = PathQuestion(files)
           /\ Tail(<<PathQuestion(files)>>) = <<>>
<1>1. files \in Seq(Ids) /\ "cancel" \in Ids
  BY DialogueAssumption
<1>2. Append(files, "cancel") \in Seq(Ids)
  BY <1>1
<1>3. PathQuestion(files) \in Question /\ PathQuestion(files).field = "path"
  BY <1>2 DEF PathQuestion, Options, Question, Fields
<1>. QED BY <1>3

LEMMA ReaskHolds ==
    ASSUME DialogueInv, NEW files \in Matches, Reask(files)
    PROVE  DialogueInv'
<1>1. PICK chain : chain = <<PathQuestion(files)>>
  OBVIOUS
<1>2. chain \in Seq(Question) /\ chain # <<>> /\ Sound({})
  BY <1>1, PathQuestionTyped DEF Sound
<1>3. Opens(chain) /\ pending' = Opened(chain, {})
  BY <1>1 DEF Reask
<1>4. /\ turn = Nil /\ cached' = This /\ This \in Cached
      /\ call' \in Call \cup {Nil}
      /\ call' # Nil => call # Nil /\ call'.asks = call.asks
      /\ UNCHANGED <<savedPending, breaks>>
  BY StartsTyped DEF Reask, Decided, DialogueInv
<1>5. last = Nil
  BY <1>4 DEF DialogueInv, TurnInv
<1>6. turn' = [at |-> "save", text |-> Nil, known |-> Nil, action |-> Nil,
               call |-> 1, away |-> {}]
  BY DEF Reask, Decided
<1>7. turn' \in Turn /\ turn' # Nil
  BY <1>6, NilAssumption DEF Turn, Stages
<1>8. AllSound(begun')
  BY <1>2, <1>3, OpensKeeps
<1>9. /\ PendingSound(cached'.asks, begun')
      /\ call' # Nil => PendingSound(call'.asks, begun')
  BY <1>4, <1>8, NilSound DEF AllSound, This
<1>. QED BY <1>2, <1>3, <1>4, <1>5, <1>6, <1>7, <1>9, BeginHolds

\* A question about the file joins the chain the action came from.
LEMMA AmbiguousHolds ==
    ASSUME DialogueInv, NEW files \in Matches, Ambiguous(files)
    PROVE  DialogueInv'
<1>. DEFINE q == PathQuestion(files)
<1>1. PICK a : a = turn.action
  OBVIOUS
<1>2. turn # Nil /\ turn.at = "prepare" /\ Finish
  BY DEF Ambiguous, Preparing
<1>3. a \in Action /\ a # Nil /\ ActionSound(a, begun)
  BY <1>1, <1>2 DEF DialogueInv, DialogueTypeOK, Turn, TurnInv, AnswersInv, AllSound
<1>4. a.answers \subseteq Answer /\ Sound(a.answers) /\ a.chain \in Chain
  BY <1>3 DEF Action, ActionSound
<1>5. q \in Question /\ <<q>> \in Seq(Question) /\ <<q>> # <<>>
  BY PathQuestionTyped
<1>6. CASE a.chain = 0
  <2>1. Begin(<<q>>, a.answers)
    BY <1>1, <1>6 DEF Ambiguous
  <2>. QED BY <1>2, <1>4, <1>5, <2>1, BeginsAtEnd
<1>7. CASE a.chain # 0
  <2>. DEFINE p == [chain |-> a.chain, asked |-> q, rest |-> <<>>,
                    answers |-> a.answers]
  <2>1. pending' = p /\ UNCHANGED <<beside, history>>
    BY <1>1, <1>7 DEF Ambiguous
  <2>. HIDE DEF q
  <2>2. p \in Pending /\ p # Nil /\ p.chain = a.chain /\ p.rest = <<>>
        /\ p.answers = a.answers
    <3>1. <<>> \in Seq(Question)
      OBVIOUS
    <3>2. p \in Pending
      BY <1>4, <1>5, <3>1 DEF Pending
    <3>. QED BY <3>2, NilAssumption
  <2>. HIDE DEF p
  <2>3. PendingSound(p, begun)
    <3>1. begun \in Seq(Seq(Question)) /\ a.chain \in 1..Len(begun)
          /\ begun[a.chain] # <<>>
      BY <1>3, <1>7 DEF ActionSound, DialogueInv, DialogueTypeOK, AnswersInv
    <3>2. begun[a.chain] \in Seq(Question)
      BY <3>1
    <3>3. Len(begun[a.chain]) \in 1..Len(begun[a.chain])
      BY <3>1, <3>2
    <3>4. Place(p, begun) = Len(begun[a.chain])
      BY <2>2, <3>2 DEF Place
    <3>5. \A n \in 1..Place(p, begun) :
             \/ Has(p.answers, begun[p.chain][n].field)
             \/ Escaped(begun[p.chain], n)
      BY <1>3, <1>7, <2>2, <3>2, <3>4 DEF ActionSound
    <3>. QED BY <1>4, <2>2, <3>1, <3>3, <3>4, <3>5 DEF PendingSound
  <2>4. Alive(p.chain)
    BY <1>1, <1>2, <1>3, <2>2 DEF Alive
  <2>5. \A d \in turn.away : Final(d) => Ended(d)
    BY <1>2 DEF DialogueInv, GoneInv
  <2>. QED BY <1>2, <2>1, <2>2, <2>3, <2>4, <2>5, NilSound, AdvanceHolds DEF Finish
<1>. QED BY <1>6, <1>7

LEMMA RefuseHolds ==
    ASSUME DialogueInv, Refuse PROVE DialogueInv'
<1>1. turn # Nil /\ turn.at = "prepare"
  BY DEF Refuse, Preparing
<1>2. \A d \in turn.away : Final(d) => Ended(d)
  BY <1>1 DEF DialogueInv, GoneInv
<1>. QED BY <1>1, <1>2, FinishHolds DEF Refuse

LEMMA CarryHolds ==
    ASSUME DialogueInv, Carry PROVE DialogueInv'
<1>1. PICK a : a = turn.action
  OBVIOUS
<1>2. /\ turn # Nil /\ turn.at = "prepare" /\ last = Nil /\ a # Nil
      /\ turn.known = Nil
      /\ a.chain # 0 /\ pending # Nil => pending.chain # a.chain
  BY <1>1 DEF Carry, Preparing, DialogueInv, TurnInv
<1>3. a \in Action /\ ActionSound(a, begun) /\ Alive(a.chain)
  BY <1>1, <1>2 DEF DialogueInv, DialogueTypeOK, Turn, AnswersInv, AllSound, Alive
<1>4. /\ turn' \in Turn /\ turn' # Nil /\ turn'.at = "save"
      /\ turn'.action = Nil /\ turn'.known = Nil /\ turn'.away = turn.away
  BY <1>2, Moved DEF Carry, Finish, DialogueInv, Stages
<1>5. /\ last' = a
      /\ UNCHANGED <<pending, savedPending, cached, call, breaks, begun, restored,
                     dropped>>
      /\ carried' = [n \in DOMAIN carried |->
                        IF n = a.chain THEN carried[n] + 1 ELSE carried[n]]
  BY <1>1, <1>2 DEF Carry, beside
<1>6. /\ carried \in Seq(Nat) /\ restored \in Seq(Nat)
      /\ Len(carried) = Len(begun) /\ Len(restored) = Len(begun)
      /\ begun \in Seq(Seq(Question))
  BY DEF DialogueInv, DialogueTypeOK
<1>7. carried' \in Seq(Nat) /\ Len(carried') = Len(carried)
      /\ DOMAIN carried' = DOMAIN carried
  <2>1. DOMAIN carried = 1..Len(carried) /\ Len(carried) \in Nat
    BY <1>6
  <2>2. \A n \in 1..Len(carried) : carried[n] \in Nat
    BY <1>6
  <2>3. carried' \in [1..Len(carried) -> Nat]
    BY <1>5, <2>1, <2>2
  <2>. QED BY <2>1, <2>3
<1>8. DialogueTypeOK'
  BY <1>3, <1>4, <1>5, <1>7 DEF DialogueInv, DialogueTypeOK
<1>9. AnswersInv'
  BY <1>3, <1>4, <1>5, NilSound DEF DialogueInv, AnswersInv, AllSound
<1>10. TurnInv'
  BY <1>4 DEF TurnInv
<1>11. ASSUME NEW n, Alive(n)' PROVE Alive(n) /\ (n # 0 => n # a.chain)
  BY <1>2, <1>4, <1>5, <1>11 DEF Alive
<1>12. OnceInv'
  <2>. SUFFICES ASSUME NEW n \in DOMAIN carried
                PROVE  carried'[n] + (IF Alive(n)' THEN 1 ELSE 0) <= 1 + restored[n]
    BY <1>5, <1>7 DEF OnceInv
  <2>1. carried[n] + (IF Alive(n) THEN 1 ELSE 0) <= 1 + restored[n]
    BY DEF DialogueInv, OnceInv
  <2>2. carried[n] \in Nat /\ restored[n] \in Nat /\ n # 0
    BY <1>6
  <2>3. carried'[n] = IF n = a.chain THEN carried[n] + 1 ELSE carried[n]
    BY <1>5
  <2>4. CASE n = a.chain
    BY <1>3, <1>11, <2>1, <2>2, <2>3, <2>4
  <2>5. CASE n # a.chain
    <3>1. Alive(n)' => Alive(n)
      BY <1>11
    <3>. QED BY <2>1, <2>2, <2>3, <2>5, <3>1
  <2>. QED BY <2>4, <2>5
<1>13. ASSUME NEW d, Ended(d) PROVE Ended(d)'
  BY <1>1, <1>2, <1>3, <1>5, <1>11, <1>13 DEF Ended
<1>14. GoneInv'
  BY <1>2, <1>4, <1>5, <1>13 DEF DialogueInv, GoneInv, Final
<1>. QED BY <1>8, <1>9, <1>10, <1>12, <1>14 DEF DialogueInv
-----------------------------------------------------------------------------
(* The session goes on with another agent, or the same one.                *)

\* The question of the agent takes the place of the open one; a chain that was
\* not open comes back, is counted, and is no longer dropped.
LEMMA ResumesKeeps ==
    ASSUME DialogueInv, NEW p \in Pending \cup {Nil}, PendingSound(p, begun),
           NEW gone, gone \subseteq Away, Resumes(p, gone),
           \A d \in gone : Final(d) => d.chain \in 1..Len(begun) /\ ~Alive(d.chain),
           turn' = Nil, last' = Nil, UNCHANGED <<begun, carried>>
    PROVE  /\ pending' = p
           /\ restored' \in Seq(Nat) /\ Len(restored') = Len(restored)
           /\ dropped' \subseteq Away
           /\ TurnInv' /\ OnceInv' /\ GoneInv'
<1>1. /\ pending' = p
      /\ restored' = [n \in DOMAIN restored |->
                        IF n \in Back(p) THEN restored[n] + 1 ELSE restored[n]]
      /\ dropped' = {d \in gone : d.chain \notin Back(p)}
  BY DEF Resumes
<1>2. /\ carried \in Seq(Nat) /\ restored \in Seq(Nat)
      /\ Len(carried) = Len(begun) /\ Len(restored) = Len(begun)
  BY DEF DialogueInv, DialogueTypeOK
<1>3. restored' \in Seq(Nat) /\ Len(restored') = Len(restored)
  <2>1. DOMAIN restored = 1..Len(restored) /\ Len(restored) \in Nat
    BY <1>2
  <2>2. \A n \in 1..Len(restored) : restored[n] \in Nat
    BY <1>2
  <2>3. restored' \in [1..Len(restored) -> Nat]
    BY <1>1, <2>1, <2>2
  <2>. QED BY <2>1, <2>3
<1>4. \A n : Alive(n)' <=> p # Nil /\ p.chain = n
  BY <1>1 DEF Alive
<1>5. \A n : Alive(n)' => Alive(n) \/ n \in Back(p)
  BY <1>4 DEF Alive, Back
<1>6. OnceInv'
  <2>. SUFFICES ASSUME NEW n \in DOMAIN carried
                PROVE  carried[n] + (IF Alive(n)' THEN 1 ELSE 0) <= 1 + restored'[n]
    BY DEF OnceInv
  <2>1. carried[n] \in Nat /\ restored[n] \in Nat /\ n \in DOMAIN restored
    BY <1>2
  <2>2. restored'[n] = IF n \in Back(p) THEN restored[n] + 1 ELSE restored[n]
    BY <1>1, <2>1
  <2>3. carried[n] + (IF Alive(n) THEN 1 ELSE 0) <= 1 + restored[n]
    BY DEF DialogueInv, OnceInv
  <2>4. Alive(n)' => Alive(n) \/ n \in Back(p)
    BY <1>5
  <2>5. CASE n \in Back(p)
    BY <2>1, <2>2, <2>3, <2>5
  <2>6. CASE n \notin Back(p)
    BY <2>1, <2>2, <2>3, <2>4, <2>6
  <2>. QED BY <2>5, <2>6
<1>7. GoneInv'
  <2>1. ASSUME NEW d \in dropped', Final(d)
        PROVE  d.chain \in 1..Len(begun) /\ Ended(d)'
    BY <1>1, <1>5, <2>1 DEF Ended
  <2>. QED BY <2>1 DEF GoneInv, Final
<1>8. TurnInv'
  BY DEF TurnInv
<1>. QED BY <1>1, <1>3, <1>6, <1>7, <1>8

LEMMA EndTurnHolds ==
    ASSUME DialogueInv, turn # Nil,
           NEW row \in Pending \cup {Nil}, PendingSound(row, begun),
           NEW gone, gone \subseteq Away,
           \A d \in gone : Final(d) => d.chain \in 1..Len(begun) /\ ~Alive(d.chain),
           EndTurn(row, gone)
    PROVE  DialogueInv'
<1>1. /\ turn' = Nil /\ last' = Nil /\ savedPending' = row
      /\ UNCHANGED <<call, breaks, begun, carried>>
  BY DEF EndTurn
<1>2. PICK p \in Pending \cup {Nil} :
         /\ PendingSound(p, begun) /\ Resumes(p, gone)
         /\ cached' \in {This, Nobody}
  <2>1. CASE cached.agent = "this"
    BY <2>1 DEF EndTurn, DialogueInv, DialogueTypeOK, AnswersInv, AllSound
  <2>2. CASE cached.agent = "nobody"
    BY <2>2 DEF EndTurn
  <2>3. CASE cached.agent = "another"
    BY <2>3 DEF EndTurn, DialogueInv, DialogueTypeOK, Cached, AnswersInv, AllSound
  <2>. QED BY <2>1, <2>2, <2>3 DEF DialogueInv, DialogueTypeOK, Cached
<1>3. /\ pending' = p
      /\ restored' \in Seq(Nat) /\ Len(restored') = Len(restored)
      /\ dropped' \subseteq Away
      /\ TurnInv' /\ OnceInv' /\ GoneInv'
  BY <1>1, <1>2, ResumesKeeps
<1>4. cached' \in Cached /\ cached'.agent # "another" /\ cached'.asks = Nil
  BY <1>2 DEF This, Nobody, Cached
<1>5. DialogueTypeOK'
  BY <1>1, <1>3, <1>4 DEF DialogueInv, DialogueTypeOK
<1>6. AnswersInv'
  BY <1>1, <1>2, <1>3, <1>4, NilSound DEF DialogueInv, AnswersInv, AllSound
<1>. QED BY <1>3, <1>5, <1>6 DEF DialogueInv

LEMMA SaveSessionHolds ==
    ASSUME DialogueInv, SaveSession PROVE DialogueInv'
<1>1. turn # Nil /\ turn \in Turn /\ turn.at = "save"
  BY DEF SaveSession, DialogueInv, DialogueTypeOK
<1>2. dropped \cup turn.away \subseteq Away
  BY <1>1 DEF DialogueInv, DialogueTypeOK, Turn
<1>3. \A d \in dropped \cup turn.away :
         Final(d) => d.chain \in 1..Len(begun) /\ ~Alive(d.chain)
  BY <1>1 DEF DialogueInv, GoneInv, Ended
<1>4. pending \in Pending \cup {Nil} /\ PendingSound(pending, begun)
  BY DEF DialogueInv, DialogueTypeOK, AnswersInv, AllSound
<1>. QED BY <1>1, <1>2, <1>3, <1>4, EndTurnHolds DEF SaveSession

\* What has been dropped is done with.
LEMMA DroppedKept ==
    ASSUME DialogueInv
    PROVE  /\ dropped \subseteq Away
           /\ \A d \in dropped :
                 Final(d) => d.chain \in 1..Len(begun) /\ ~Alive(d.chain)
BY DEF DialogueInv, DialogueTypeOK, GoneInv, Ended

LEMMA TurnFailsHolds ==
    ASSUME DialogueInv, TurnFails PROVE DialogueInv'
<1>1. savedPending \in Pending \cup {Nil} /\ PendingSound(savedPending, begun)
  BY DEF DialogueInv, DialogueTypeOK, AnswersInv, AllSound
<1>. QED BY <1>1, DroppedKept, EndTurnHolds DEF TurnFails

LEMMA BreaksTyped ==
    ASSUME DialogueInv, Breaks PROVE breaks' \in 0..MaxBreaks
BY DialogueAssumption DEF Breaks, DialogueInv, DialogueTypeOK

LEMMA RestartHolds ==
    ASSUME DialogueInv, Restart PROVE DialogueInv'
<1>1. /\ turn' = Nil /\ last' = Nil /\ call' = Nil /\ cached' = Nobody
      /\ breaks' \in 0..MaxBreaks
      /\ UNCHANGED <<savedPending, begun, carried>>
  BY BreaksTyped DEF Restart
<1>2. savedPending \in Pending \cup {Nil} /\ PendingSound(savedPending, begun)
  BY DEF DialogueInv, DialogueTypeOK, AnswersInv, AllSound
<1>3. /\ pending' = savedPending
      /\ restored' \in Seq(Nat) /\ Len(restored') = Len(restored)
      /\ dropped' \subseteq Away
      /\ TurnInv' /\ OnceInv' /\ GoneInv'
  BY <1>1, <1>2, DroppedKept, ResumesKeeps DEF Restart
<1>4. cached' \in Cached /\ cached'.agent # "another" /\ cached'.asks = Nil
  BY <1>1 DEF Nobody, Cached
<1>5. DialogueTypeOK'
  BY <1>1, <1>2, <1>3, <1>4 DEF DialogueInv, DialogueTypeOK
<1>6. AnswersInv'
  BY <1>1, <1>2, <1>3, <1>4, NilSound DEF DialogueInv, AnswersInv, AllSound
<1>. QED BY <1>3, <1>5, <1>6 DEF DialogueInv
-----------------------------------------------------------------------------
(* The calls that take no lock.                                            *)

\* Beside a turn, or between two.
LEMMA BetweenKeeps ==
    ASSUME DialogueInv, NEW p \in Pending \cup {Nil}, PendingSound(p, begun),
           Between(p), UNCHANGED <<turn, begun, carried, last>>
    PROVE  /\ pending' \in Pending \cup {Nil} /\ PendingSound(pending', begun)
           /\ restored' \in Seq(Nat) /\ Len(restored') = Len(restored)
           /\ dropped' \subseteq Away
           /\ TurnInv' /\ OnceInv' /\ GoneInv'
<1>1. CASE turn = Nil
  <2>1. last = Nil /\ Resumes(p, dropped)
    BY <1>1 DEF DialogueInv, TurnInv, Between
  <2>. QED BY <1>1, <2>1, DroppedKept, ResumesKeeps
<1>2. CASE turn # Nil
  <2>1. UNCHANGED <<pending, restored, dropped>>
    BY <1>2 DEF Between
  <2>2. TurnInv' /\ OnceInv' /\ GoneInv'
    BY <2>1 DEF DialogueInv, TurnInv, OnceInv, GoneInv, Alive, Ended, Final
  <2>. QED BY <2>1, <2>2 DEF DialogueInv, DialogueTypeOK, AnswersInv, AllSound
<1>. QED BY <1>1, <1>2

LEMMA CallsTyped ==
    ASSUME DialogueInv, NEW at \in {"build", "act", "save"},
           NEW kind \in {"reload", "action"}, NEW asks \in Pending \cup {Nil},
           Calls(at, kind, asks)
    PROVE  /\ call' \in Call /\ call'.asks = asks /\ breaks' \in 0..MaxBreaks
           /\ UNCHANGED <<turn, savedPending, begun, carried, last>>
<1>1. (IF turn = Nil THEN 0 ELSE 1) \in 0..MaxBeside
  BY DialogueAssumption
<1>2. call' = [at |-> at, kind |-> kind, asks |-> asks,
               turns |-> IF turn = Nil THEN 0 ELSE 1]
  BY DEF Calls
<1>. QED BY <1>1, <1>2, BreaksTyped DEF Calls, Call

LEMMA ReloadLoadsHolds ==
    ASSUME DialogueInv, ReloadLoads PROVE DialogueInv'
<1>1. savedPending \in Pending \cup {Nil} /\ PendingSound(savedPending, begun)
  BY DEF DialogueInv, DialogueTypeOK, AnswersInv, AllSound
<1>2. /\ call' \in Call /\ call'.asks = savedPending /\ breaks' \in 0..MaxBreaks
      /\ UNCHANGED <<turn, savedPending, begun, carried, last>>
  BY <1>1, CallsTyped DEF ReloadLoads
<1>3. /\ pending' \in Pending \cup {Nil} /\ PendingSound(pending', begun)
      /\ restored' \in Seq(Nat) /\ Len(restored') = Len(restored)
      /\ dropped' \subseteq Away
      /\ TurnInv' /\ OnceInv' /\ GoneInv'
  BY <1>1, <1>2, BetweenKeeps DEF ReloadLoads
<1>4. cached' \in Cached /\ cached'.agent # "another" /\ cached'.asks = Nil
  BY DEF ReloadLoads, Nobody, Cached
<1>5. DialogueTypeOK'
  BY <1>2, <1>3, <1>4 DEF DialogueInv, DialogueTypeOK
<1>6. AnswersInv'
  BY <1>1, <1>2, <1>3, <1>4, NilSound DEF DialogueInv, AnswersInv, AllSound
<1>. QED BY <1>3, <1>5, <1>6 DEF DialogueInv

\* A step of a call that changes nothing but the call, the row and the bound.
LEMMA CallStepHolds ==
    ASSUME DialogueInv, call' \in Call \cup {Nil}, breaks' \in 0..MaxBreaks,
           call' # Nil => PendingSound(call'.asks, begun),
           savedPending' \in Pending \cup {Nil}, PendingSound(savedPending', begun),
           UNCHANGED <<pending, turn, cached, begun, carried, restored, dropped, last>>
    PROVE  DialogueInv'
<1>1. DialogueTypeOK'
  BY DEF DialogueInv, DialogueTypeOK
<1>2. AnswersInv'
  BY DEF DialogueInv, AnswersInv, AllSound
<1>3. TurnInv' /\ OnceInv' /\ GoneInv'
  BY DEF DialogueInv, TurnInv, OnceInv, GoneInv, Alive, Ended, Final
<1>. QED BY <1>1, <1>2, <1>3 DEF DialogueInv

LEMMA ActionStartsHolds ==
    ASSUME DialogueInv, ActionStarts PROVE DialogueInv'
<1>1. savedPending \in Pending \cup {Nil} /\ PendingSound(savedPending, begun)
  BY DEF DialogueInv, DialogueTypeOK, AnswersInv, AllSound
<1>2. PICK asks \in {savedPending, Nil} :
         /\ call' \in Call /\ call'.asks = asks /\ breaks' \in 0..MaxBreaks
         /\ UNCHANGED <<turn, savedPending, begun, carried, last>>
  BY <1>1, CallsTyped DEF ActionStarts
<1>3. UNCHANGED <<pending, cached, restored, dropped>>
  BY DEF ActionStarts
<1>. QED BY <1>1, <1>2, <1>3, NilSound, CallStepHolds

LEMMA CallBuildsHolds ==
    ASSUME DialogueInv, CallBuilds PROVE DialogueInv'
<1>1. /\ call # Nil /\ call \in Call /\ call.asks \in Pending \cup {Nil}
      /\ PendingSound(call.asks, begun)
      /\ UNCHANGED <<turn, savedPending, breaks, begun, carried, last>>
  BY DEF CallBuilds, DialogueInv, DialogueTypeOK, Call, AnswersInv, AllSound
<1>2. /\ pending' \in Pending \cup {Nil} /\ PendingSound(pending', begun)
      /\ restored' \in Seq(Nat) /\ Len(restored') = Len(restored)
      /\ dropped' \subseteq Away
      /\ TurnInv' /\ OnceInv' /\ GoneInv'
  BY <1>1, BetweenKeeps DEF CallBuilds
<1>3. /\ cached' \in Cached /\ (turn' = Nil => cached'.agent # "another")
      /\ PendingSound(cached'.asks, begun)
  BY <1>1, NilSound DEF CallBuilds, This, Cached
<1>4. /\ call' \in Call \cup {Nil}
      /\ call' # Nil => PendingSound(call'.asks, begun)
  <2>1. CASE call.kind = "reload"
    BY <2>1 DEF CallBuilds
  <2>2. CASE call.kind # "reload"
    <3>1. call' = [at |-> "act", kind |-> call.kind, asks |-> Nil,
                   turns |-> call.turns]
      BY <1>1, <2>2 DEF CallBuilds, Call
    <3>. QED BY <1>1, <3>1, NilSound DEF Call
  <2>. QED BY <2>1, <2>2
<1>5. DialogueTypeOK'
  BY <1>1, <1>2, <1>3, <1>4 DEF DialogueInv, DialogueTypeOK
<1>6. AnswersInv'
  BY <1>1, <1>2, <1>3, <1>4 DEF DialogueInv, AnswersInv, AllSound
<1>. QED BY <1>2, <1>5, <1>6 DEF DialogueInv

LEMMA ActsTyped ==
    ASSUME DialogueInv, NEW asks \in Pending \cup {Nil}, Acts(asks)
    PROVE  /\ call' \in Call /\ call' # Nil /\ call'.asks = asks
           /\ UNCHANGED <<turn, savedPending, breaks>>
<1>1. call \in Call
  BY DEF Acts, DialogueInv, DialogueTypeOK
<1>2. call' = [at |-> "save", kind |-> call.kind, asks |-> asks,
               turns |-> call.turns]
  BY <1>1 DEF Acts, Call
<1>3. call' \in Call
  BY <1>1, <1>2 DEF Call
<1>. QED BY <1>2, <1>3, NilAssumption DEF Acts

LEMMA WorkflowActsHolds ==
    ASSUME DialogueInv, WorkflowActs PROVE DialogueInv'
<1>1. PICK asks : asks = IF cached.agent = "another" THEN cached.asks ELSE pending
  OBVIOUS
<1>2. /\ asks \in Pending \cup {Nil} /\ PendingSound(asks, begun)
      /\ savedPending \in Pending \cup {Nil} /\ PendingSound(savedPending, begun)
      /\ breaks \in 0..MaxBreaks
  BY <1>1 DEF DialogueInv, DialogueTypeOK, Cached, AnswersInv, AllSound
<1>3. /\ Acts(asks)
      /\ UNCHANGED <<pending, cached, begun, carried, restored, dropped, last>>
  BY <1>1 DEF WorkflowActs, history
<1>4. /\ call' \in Call /\ call'.asks = asks
      /\ UNCHANGED <<turn, savedPending, breaks>>
  BY <1>2, <1>3, ActsTyped
<1>. QED BY <1>2, <1>3, <1>4, CallStepHolds

\* The new question is open in the agent of the turn, or in another one; the
\* turn goes on with its copy.
LEMMA WorkflowAsksHolds ==
    ASSUME DialogueInv, NEW files \in Matches, WorkflowAsks(files)
    PROVE  DialogueInv'
<1>1. PICK chain : chain = <<PathQuestion(files)>>
  OBVIOUS
<1>2. chain \in Seq(Question) /\ chain # <<>> /\ Sound({})
  BY <1>1, PathQuestionTyped DEF Sound
<1>3. PICK q : q = Opened(chain, {})
  OBVIOUS
<1>4. /\ Acts(q) /\ Opens(chain)
      /\ \/ cached' = [cached EXCEPT !.asks = q] /\ pending' = pending
         \/ cached' = cached /\ pending' = q
      /\ turn = Nil => cached' = cached
  BY <1>1, <1>3 DEF WorkflowAsks, DialogueInv, DialogueTypeOK
<1>5. /\ begun' \in Seq(Seq(Question)) /\ Len(begun') = Len(begun) + 1
      /\ Len(begun') <= MaxChains /\ Len(begun) \in Nat
      /\ carried' \in Seq(Nat) /\ Len(carried') = Len(begun')
      /\ restored' \in Seq(Nat) /\ Len(restored') = Len(begun')
      /\ \A n \in 1..Len(begun) :
            n # q.chain /\ carried'[n] = carried[n] /\ restored'[n] = restored[n]
      /\ \A n \in 1..Len(begun') : n \in 1..Len(begun) \/ n = q.chain
      /\ carried'[q.chain] = 0 /\ restored'[q.chain] = 0
      /\ q \in Pending /\ q # Nil /\ PendingSound(q, begun')
      /\ AllSound(begun') /\ \A n \in DOMAIN begun' : begun'[n] # <<>>
      /\ UNCHANGED <<dropped, last>>
  BY <1>2, <1>3, <1>4, OpensKeeps
<1>6. /\ call' \in Call /\ call' # Nil /\ call'.asks = q
      /\ UNCHANGED <<turn, savedPending, breaks>>
  BY <1>4, <1>5, ActsTyped
<1>7. cached' \in Cached /\ cached'.asks \in {cached.asks, q}
      /\ (turn = Nil => cached' = cached)
  <2>1. cached \in Cached
    BY DEF DialogueInv, DialogueTypeOK
  <2>. QED BY <1>4, <1>5, <2>1 DEF Cached
<1>8. DialogueTypeOK'
  BY <1>4, <1>5, <1>6, <1>7 DEF DialogueInv, DialogueTypeOK
<1>9. AnswersInv'
  BY <1>4, <1>5, <1>6, <1>7 DEF AnswersInv, AllSound
<1>10. turn # Nil /\ turn.action # Nil => turn.action.chain \in 0..Len(begun)
  BY DEF DialogueInv, AnswersInv, AllSound, ActionSound
<1>11. TurnInv'
  <2>1. turn # Nil /\ turn.action # Nil /\ turn.action.chain # 0 =>
           q.chain # turn.action.chain
    BY <1>5, <1>10
  <2>. QED BY <1>4, <1>5, <1>6, <2>1 DEF DialogueInv, TurnInv
<1>12. \A n \in 1..Len(begun) : Alive(n)' => Alive(n)
  BY <1>4, <1>5, <1>6 DEF Alive
<1>13. OnceInv'
  BY <1>5, <1>12, OnceOpened
<1>14. GoneInv'
  <2>1. ASSUME NEW d, d.chain \in 1..Len(begun)
        PROVE  d.chain \in 1..Len(begun') /\ (Ended(d) => Ended(d)')
    BY <1>5, <1>12, <2>1 DEF Ended
  <2>. QED BY <1>5, <1>6, <2>1 DEF DialogueInv, GoneInv, Final
<1>. QED BY <1>8, <1>9, <1>11, <1>13, <1>14 DEF DialogueInv

LEMMA WorkflowSavesHolds ==
    ASSUME DialogueInv, WorkflowSaves PROVE DialogueInv'
<1>1. /\ call.asks \in Pending \cup {Nil} /\ PendingSound(call.asks, begun)
      /\ breaks \in 0..MaxBreaks
  BY DEF WorkflowSaves, DialogueInv, DialogueTypeOK, Call, AnswersInv, AllSound
<1>. QED BY <1>1, CallStepHolds DEF WorkflowSaves, history

LEMMA CallFailsHolds ==
    ASSUME DialogueInv, CallFails PROVE DialogueInv'
<1>1. /\ savedPending \in Pending \cup {Nil} /\ PendingSound(savedPending, begun)
      /\ breaks \in 0..MaxBreaks
  BY DEF DialogueInv, DialogueTypeOK, AnswersInv, AllSound
<1>. QED BY <1>1, CallStepHolds DEF CallFails, history
-----------------------------------------------------------------------------

LEMMA DialogueKeeps ==
    ASSUME DialogueInv, [DialogueNext]_dialogueVars PROVE DialogueInv'
<1>1. CASE Hears
  BY <1>1, HearHolds, BlockHolds, LetGoHolds, AskAgainHolds, TakePathHolds,
     PassOnHolds DEF Hears
<1>2. CASE Answers
  BY <1>2, CancelSelectedHolds, RepeatHolds, PlannerFailsHolds, AskNextHolds,
     CompleteHolds DEF Answers
<1>3. CASE Plans
  BY <1>3, RouterAsksHolds, ReviewHolds, ModelAsksHolds, PlansAnswerHolds,
     PlansActionHolds DEF Plans
<1>4. CASE Prepares
  BY <1>4, CarryHolds, RefuseHolds, AmbiguousHolds DEF Prepares
<1>5. CASE Decisions
  BY <1>5, ExecuteHolds, ReaskHolds DEF Decisions
<1>6. CASE Ends
  BY <1>6, SaveSessionHolds, TurnFailsHolds, RestartHolds DEF Ends
<1>7. CASE WorkflowCalls
  BY <1>7, ReloadLoadsHolds, ActionStartsHolds, CallBuildsHolds, WorkflowActsHolds,
     WorkflowAsksHolds, WorkflowSavesHolds, CallFailsHolds DEF WorkflowCalls
<1>8. CASE UNCHANGED dialogueVars
  <2>1. DialogueTypeOK' /\ TurnInv' /\ OnceInv'
    BY <1>8 DEF dialogueVars, beside, history, DialogueInv, DialogueTypeOK, TurnInv,
       OnceInv, Alive
  <2>2. AnswersInv'
    BY <1>8 DEF dialogueVars, beside, history, DialogueInv, AnswersInv, AllSound
  <2>3. GoneInv'
    BY <1>8 DEF dialogueVars, beside, history, DialogueInv, GoneInv, Ended, Alive,
       Final
  <2>. QED BY <2>1, <2>2, <2>3 DEF DialogueInv
<1>. QED BY <1>1, <1>2, <1>3, <1>4, <1>5, <1>6, <1>7, <1>8 DEF DialogueNext

LEMMA DialogueStarts ==
    ASSUME DialogueInit PROVE DialogueInv
<1>1. DialogueTypeOK
  BY DialogueAssumption DEF DialogueInit, DialogueTypeOK, Nobody, Cached
<1>2. AnswersInv /\ TurnInv /\ OnceInv /\ GoneInv
  BY NilSound DEF DialogueInit, AnswersInv, AllSound, TurnInv, OnceInv, GoneInv,
     Nobody
<1>. QED BY <1>1, <1>2 DEF DialogueInv

\* What the planner and the agent keep between and during turns, and beside the
\* calls of the capability workflow, for any messages, options, chains of
\* questions and lists of files.
THEOREM DialogueHolds == DialogueSpec => []DialogueInv
BY DialogueStarts, DialogueKeeps, PTL DEF DialogueSpec

\* The session's question, the turn, the calls and the history have their types.
THEOREM DialogueTyped == DialogueSpec => []DialogueTypeOK
<1>1. DialogueInv => DialogueTypeOK
  BY DEF DialogueInv
<1>. QED BY <1>1, DialogueHolds, PTL

\* planner.py, _resolve_pending_clarification: whatever the model selects, what
\* gets into the arguments of an action that goes to execution was offered
\* in its question, or is the user's words where words were asked for.
THEOREM AnswersAreOffered == DialogueSpec => []AnswersOffered
<1>1. DialogueInv => AnswersOffered
  BY DEF DialogueInv, AnswersInv, AllSound, ActionSound, Sound, AnswersOffered
<1>. QED BY <1>1, DialogueHolds, PTL

\* agent.py, clear_pending_clarification: a chain of questions is consumed by its
\* answers.  It leads to one action, and to one more for each time that an agent
\* built from an older row (a restart, a failed save, the reload of the session
\* beside a turn) brings its question back.
THEOREM CarriesOnce == DialogueSpec => []CarriedOnce
<1>1. DialogueInv => CarriedOnce
  <2>. SUFFICES ASSUME DialogueInv, NEW n \in DOMAIN carried
                PROVE  carried[n] <= 1 + restored[n]
    BY DEF CarriedOnce
  <2>1. carried[n] \in Nat /\ restored[n] \in Nat
    BY DEF DialogueInv, DialogueTypeOK
  <2>. QED BY <2>1 DEF DialogueInv, OnceInv
<1>. QED BY <1>1, DialogueHolds, PTL

\* planner.py, remaining_questions: an action goes to execution with an answer to every
\* question planned for it, up to one about a path.
THEOREM NoQuestionSkipped == DialogueSpec => []NothingSkipped
<1>1. DialogueInv => NothingSkipped
  BY DEF DialogueInv, AnswersInv, AllSound, ActionSound, Has, Escaped, NothingSkipped
<1>. QED BY <1>1, DialogueHolds, PTL

\* agent.py, clear_pending_clarification on cancel, forget and a change of
\* subject: a question the user turned away from, in a turn that was saved, is
\* neither asked again nor answered later, until an agent built from an older row
\* brings it back.
THEOREM DroppedStaysGone == DialogueSpec => []DroppedIsGone
<1>1. DialogueInv => DroppedIsGone
  <2>. SUFFICES ASSUME DialogueInv, NEW d \in Dropped, Final(d)
                PROVE  ~Revived(d)
    BY DEF DroppedIsGone, Final
  <2>1. CASE d \in dropped
    BY <2>1 DEF DialogueInv, GoneInv, Ended, Alive, Revived
  <2>2. CASE turn # Nil /\ d \in turn.away
    <3>1. CASE turn.at \in {"save"}
      BY <2>2, <3>1 DEF DialogueInv, GoneInv, Ended, Revived
    <3>2. CASE turn.at # "save"
      BY <2>2, <3>2 DEF DialogueInv, TurnInv, Revived
    <3>. QED BY <3>1, <3>2
  <2>. QED BY <2>1, <2>2 DEF Dropped
<1>. QED BY <1>1, DialogueHolds, PTL

=============================================================================
