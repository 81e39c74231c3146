------------------------------ MODULE MemoryStore ------------------------------
(* The long-term memory of the assistant (src/assistant/memory).             *)
(*                                                                           *)
(* Learnings live in two places.  The command line appends what the user     *)
(* has confirmed to a Markdown file; the gateway keeps a table in SQLite.    *)
(* The first request that finds no memory engine builds one, and before it   *)
(* does it imports the file into the table.  Nothing but the table's UNIQUE  *)
(* column keeps two request threads from importing the same entry.  Once an  *)
(* agent has its engine, every request asks it for the memories that matter  *)
(* before it plans, searches the file when there are none, and shows it the  *)
(* message afterwards, from which it may extract a learning.                 *)
(*                                                                           *)
(* A learning is a model value.  What the patterns of the policy, of the     *)
(* file and of the extractor make of its text is given by the constants.     *)
(* Which learnings the words of a message recall is left open, so Plan may   *)
(* recall any of those the code may look at.                                 *)
EXTENDS Naturals, Sequences, FiniteSets, SequencesExt

CONSTANTS
    Threads,      \* request threads of the gateway, one session each
    Dirs,         \* working directories a request may name
    Learnings,    \* what can be remembered
    Decisions,    \* learnings that read as a decision about a project
    OfProject,    \* learnings the extractor keeps for one directory
    Extracted,    \* learnings the extractor takes from a message
    Blocked,      \* learnings with a sensitive pattern of the policy
    Refused,      \* learnings with a sensitive pattern of the file's store
    AutoSave,     \* the setting memory_auto_save_low_risk
    Limit,        \* how many memories a request is given (5 in the code)
    MaxFile,      \* bound: entries of the file
    MaxFaults,    \* bound: stops of the gateway, errors of SQLite and edits
                  \* that leave the file unreadable
    None

ASSUME MemoryAssumption ==
    /\ Decisions \subseteq OfProject /\ OfProject \subseteq Learnings
    /\ Extracted \subseteq Learnings
    /\ Refused \subseteq Blocked /\ Blocked \subseteq Learnings
    /\ AutoSave \in BOOLEAN
    /\ Limit \in Nat \ {0} /\ MaxFile \in Nat /\ MaxFaults \in Nat
    /\ None \notin Dirs

VARIABLES
    file,         \* the entries of the Markdown file, in order
    readable,     \* whether the file is UTF-8
    imported,     \* the rows with a source_ref: how many for each entry
    observed,     \* the rows without one, those extracted from messages
    runtime,      \* "down", "up", or "ready": _memory_engine is set
    pc,           \* where each thread is
    dir,          \* the directory of its request
    todo,         \* the entries its migration has still to look at
    given,        \* the learnings its planner was given
    faults,
    \* History: what the properties refer to and the code does not keep.
    lasting,      \* entries in the file ever since the gateway was started
    written,      \* entries the file has ever had
    said          \* learnings kept from a message, and its directory

markdown == <<file, readable>>
table == <<imported, observed>>
history == <<lasting, written, said>>
vars == <<markdown, table, runtime, pc, dir, todo, given, faults, history>>

Row == [what: Learnings, scope: Dirs \cup {None}, status: {"pending", "active"}]
Building == {"list", "find", "create"}
PCs == {"idle", "plan", "observe", "failed"} \cup Building

TypeOK ==
    /\ file \in Seq(Learnings) /\ Len(file) <= MaxFile
    /\ imported \in [Learnings -> Nat]
    /\ observed \subseteq Row
    /\ runtime \in {"down", "up", "ready"}
    /\ pc \in [Threads -> PCs]
    /\ dir \in [Threads -> Dirs \cup {None}]
    /\ todo \in [Threads -> Seq(Learnings)]
    /\ given \in [Threads -> SUBSET Learnings]
    /\ faults \in 0..MaxFaults
    /\ readable \in BOOLEAN
    /\ lasting \subseteq ToSet(file) /\ written \subseteq Learnings
    /\ said \subseteq Learnings \X Dirs

Init ==
    /\ file = <<>> /\ readable = TRUE
    /\ imported = [l \in Learnings |-> 0] /\ observed = {}
    /\ runtime = "down" /\ pc = [h \in Threads |-> "idle"]
    /\ dir = [h \in Threads |-> None] /\ todo = [h \in Threads |-> <<>>]
    /\ given = [h \in Threads |-> {}] /\ faults = 0
    /\ lasting = {} /\ written = {} /\ said = {}

Go(h, s) == pc' = [pc EXCEPT ![h] = s]

\* The request has its answer.
Answered(h) ==
    /\ Go(h, "idle")
    /\ dir' = [dir EXCEPT ![h] = None]
    /\ given' = [given EXCEPT ![h] = {}]
    /\ todo' = [todo EXCEPT ![h] = <<>>]

\* What the policy makes of a learning.
Decide(l) ==
    IF l \in Blocked THEN "block"
    ELSE IF l \in Decisions \/ ~AutoSave THEN "confirm" ELSE "auto_save"

StatusOf == [confirm |-> "pending", auto_save |-> "active"]

-----------------------------------------------------------------------------
(* The command line.                                                         *)

\* /remember and "lembre que": refused, or confirmed by the user and appended.
Remember(l) ==
    /\ l \notin Refused /\ Len(file) < MaxFile
    /\ file' = Append(file, l)
    /\ written' = written \cup {l}
    /\ UNCHANGED <<readable, table, runtime, pc, dir, todo, given, faults,
                   lasting, said>>

Texts == UNION {[1..n -> Learnings] : n \in 0..MaxFile}

\* The file belongs to the user, who may add, change and remove entries with an
\* editor.  Nothing tells the table of it.
EditFile(text) ==
    /\ file' = text /\ readable' = TRUE
    /\ lasting' = lasting \cap ToSet(text)
    /\ written' = written \cup ToSet(text)
    /\ UNCHANGED <<table, runtime, pc, dir, todo, given, faults, said>>

\* The editor saves it in another encoding.
GarbleFile ==
    /\ readable /\ faults < MaxFaults
    /\ readable' = FALSE
    /\ faults' = faults + 1
    /\ UNCHANGED <<file, table, runtime, pc, dir, todo, given, history>>

-----------------------------------------------------------------------------
(* The engine is built.                                                      *)

Start ==
    /\ runtime = "down"
    /\ runtime' = "up" /\ lasting' = ToSet(file)
    /\ UNCHANGED <<markdown, table, pc, dir, todo, given, faults, written,
                   said>>

\* A request whose session has no agent yet asks for the engine: the check
\* and the assignment at the end of the migration hold no common lock.
Request(h, d) ==
    /\ runtime # "down" /\ pc[h] = "idle"
    /\ dir' = [dir EXCEPT ![h] = d]
    /\ Go(h, IF runtime = "ready" THEN "plan" ELSE "list")
    /\ UNCHANGED <<markdown, table, runtime, todo, given, faults, history>>

\* list_memories decodes the file as UTF-8 or raises.
List(h) ==
    /\ pc[h] = "list"
    /\ IF readable
       THEN todo' = [todo EXCEPT ![h] = file] /\ Go(h, "find")
       ELSE Go(h, "failed") /\ UNCHANGED todo
    /\ UNCHANGED <<markdown, table, runtime, dir, given, faults, history>>

HasRow(l) == imported[l] > 0

\* Seeded fault: The first entry already imported ends the loop.
Find_StopsAtKnown(h) ==
    /\ pc[h] = "find" /\ todo[h] # <<>>
    /\ IF HasRow(Head(todo[h])) \/ Decide(Head(todo[h])) = "block"
       THEN todo' = [todo EXCEPT ![h] = <<>>] /\ UNCHANGED pc
       ELSE Go(h, "create") /\ UNCHANGED todo
    /\ UNCHANGED <<markdown, table, runtime, dir, given, faults, history>>

\* Seeded fault: The migration does not ask which entries it has imported.
Find_NeverKnown(h) ==
    /\ pc[h] = "find" /\ todo[h] # <<>>
    /\ IF Decide(Head(todo[h])) = "block"
       THEN todo' = [todo EXCEPT ![h] = Tail(@)] /\ UNCHANGED pc
       ELSE Go(h, "create") /\ UNCHANGED todo
    /\ UNCHANGED <<markdown, table, runtime, dir, given, faults, history>>

\* The next entry is skipped when a row has its source_ref or the policy
\* blocks it.
Find(h) ==
    /\ pc[h] = "find" /\ todo[h] # <<>>
    /\ IF HasRow(Head(todo[h])) \/ Decide(Head(todo[h])) = "block"
       THEN todo' = [todo EXCEPT ![h] = Tail(@)] /\ UNCHANGED pc
       ELSE Go(h, "create") /\ UNCHANGED todo
    /\ UNCHANGED <<markdown, table, runtime, dir, given, faults, history>>

\* Seeded fault: The column is not UNIQUE.
Insert_NotUnique(l) == imported' = [imported EXCEPT ![l] = @ + 1]

\* The insert is active whatever else the policy said of the entry, and
\* source_ref is UNIQUE: sqlite3 raises when the row is there by now.
Insert(l) ==
    /\ imported[l] = 0
    /\ imported' = [imported EXCEPT ![l] = @ + 1]

Create(h) ==
    /\ pc[h] = "create"
    /\ \/ /\ Insert(Head(todo[h]))
          /\ todo' = [todo EXCEPT ![h] = Tail(@)]
          /\ Go(h, "find")
       \/ /\ HasRow(Head(todo[h]))
          /\ Go(h, "failed") /\ UNCHANGED <<imported, todo>>
    /\ UNCHANGED <<markdown, observed, runtime, dir, given, faults, history>>

Built(h) ==
    /\ pc[h] = "find" /\ todo[h] = <<>>
    /\ runtime' = "ready"
    /\ Go(h, "plan")
    /\ UNCHANGED <<markdown, table, dir, todo, given, faults, history>>

\* Any other error of SQLite, a database locked for too long for one.
DatabaseError(h) ==
    /\ pc[h] \in Building /\ faults < MaxFaults
    /\ faults' = faults + 1
    /\ Go(h, "failed")
    /\ UNCHANGED <<markdown, table, runtime, dir, todo, given, history>>

\* The exception leaves build_agent and the request is answered with 500.
Reply500(h) ==
    /\ pc[h] = "failed"
    /\ Answered(h)
    /\ UNCHANGED <<markdown, table, runtime, faults, history>>

-----------------------------------------------------------------------------
(* The engine is used.                                                       *)

Few(S) == {T \in SUBSET S : Cardinality(T) <= Limit}

\* Seeded fault: The retriever does not look at the scope.
InScope_Any(scope, d) == TRUE

InScope(scope, d) == scope \in {None, d}

\* What the retriever may look at for a request made in directory d.
Active(d) ==
    {l \in Learnings : HasRow(l)} \cup
    {r.what : r \in {x \in observed : /\ x.status = "active"
                                      /\ InScope(x.scope, d)}}

\* What search finds in the file; it raises when it cannot be decoded, which
\* ends the plan.
Searched == IF readable THEN ToSet(file) ELSE {}

\* The planner is given the memories retrieved, those found in the file when
\* there are none or the engine raised, or nothing when the message needs no
\* plan; the rest of the request may also raise, and is then not observed.
Plan(h) ==
    /\ pc[h] = "plan"
    /\ \E found \in Few(Active(dir[h])) \cup Few(Searched) :
          given' = [given EXCEPT ![h] = found]
    /\ Go(h, "observe")
    /\ UNCHANGED <<markdown, table, runtime, dir, todo, faults, history>>

NotObserved(h) ==
    /\ pc[h] = "observe"
    /\ Answered(h)
    /\ UNCHANGED <<markdown, table, runtime, faults, history>>

Scope(l, d) == IF l \in OfProject THEN d ELSE None

Saves(l) == Decide(l) # "block"

Observe(h, l) ==
    /\ pc[h] = "observe"
    /\ IF Saves(l)
       THEN /\ observed' = observed \cup
                  {[what |-> l, scope |-> Scope(l, dir[h]),
                    status |-> StatusOf[Decide(l)]]}
            /\ said' = said \cup {<<l, dir[h]>>}
       ELSE UNCHANGED <<observed, said>>
    /\ Answered(h)
    /\ UNCHANGED <<markdown, imported, runtime, faults, lasting, written>>

\* The gateway is stopped or dies; the file and the table stay.
Stop ==
    /\ runtime # "down" /\ faults < MaxFaults
    /\ faults' = faults + 1
    /\ runtime' = "down"
    /\ pc' = [h \in Threads |-> "idle"]
    /\ todo' = [h \in Threads |-> <<>>]
    /\ given' = [h \in Threads |-> {}]
    /\ dir' = [h \in Threads |-> None]
    /\ UNCHANGED <<markdown, table, history>>

-----------------------------------------------------------------------------
Step(h) ==
    \/ List(h) \/ Find(h) \/ Create(h) \/ Built(h) \/ Reply500(h)
    \/ Plan(h) \/ NotObserved(h) \/ \E l \in Extracted : Observe(h, l)

Next ==
    \/ Start \/ Stop \/ GarbleFile
    \/ \E l \in Learnings : Remember(l)
    \/ \E text \in Texts : EditFile(text)
    \/ \E h \in Threads : Step(h) \/ DatabaseError(h)
    \/ \E h \in Threads, d \in Dirs : Request(h, d)

Spec == Init /\ [][Next]_vars

\* A thread that has a request goes on with it; requests need not come.
FairSpec == Spec /\ \A h \in Threads : WF_vars(Step(h))

=============================================================================
