-------------------------- MODULE MemoryStoreProofs --------------------------
(***************************************************************************)
(* For any number of request threads, directories and learnings: an entry  *)
(* of the file is imported once and not skipped, nothing sensitive enters   *)
(* the table, and the planner is given only what the user agreed to keep.   *)
(***************************************************************************)
EXTENDS MemoryClaims, TLAPS

USE MemoryAssumption DEF markdown, table, history

\* What the place of a thread says of its request: there is one, its
\* directory is known, and the planner has been given something only
\* when the plan is made.
Placed ==
    \A h \in Threads :
        /\ pc[h] # "idle" => runtime # "down" /\ dir[h] \in Dirs
        /\ pc[h] # "observe" => given[h] = {}

\* The entries of the file are written down, and so are those a thread has
\* still to look at; one it is about to insert passed the policy.
Reading ==
    /\ ToSet(file) \subseteq written
    /\ \A h \in Threads :
        /\ ToSet(todo[h]) \subseteq written
        /\ pc[h] = "create" => todo[h] # <<>> /\ Head(todo[h]) \notin Blocked

\* An imported row is an entry the file has had and the policy lets pass.
RowsOfFile == \A l \in Learnings : HasRow(l) => l \in written \ Blocked

\* A row made from a message is what the policy says of a message there was.
RowsSaid ==
    \A r \in observed :
        /\ r.what \notin Blocked
        /\ r.status = "active" =>
               /\ AutoSave /\ r.what \notin Decisions
               /\ \E d \in Dirs : /\ <<r.what, d>> \in said
                                  /\ r.scope = Scope(r.what, d)

\* An entry that needs no row or has one.
Settled(l) == l \in Blocked \/ HasRow(l)

\* What a thread has passed by is settled.
Progress ==
    \A h \in Threads : pc[h] \in {"find", "create"} =>
        \A l \in lasting : Settled(l) \/ l \in ToSet(todo[h])

IInv ==
    /\ TypeOK /\ ImportedOnce /\ EarlierImported /\ OnlyAgreed
    /\ Placed /\ Reading /\ RowsOfFile /\ RowsSaid /\ Progress
-----------------------------------------------------------------------------
\* The elements of a sequence are its head and those of its tail.
LEMMA HeadTail ==
    ASSUME NEW S, NEW s \in Seq(S), s # <<>>
    PROVE  /\ Head(s) \in S /\ Tail(s) \in Seq(S)
           /\ ToSet(s) = {Head(s)} \cup ToSet(Tail(s))
<1>1. Head(s) = s[1] /\ Len(s) > 0 /\ Head(s) \in S /\ Tail(s) \in Seq(S)
  OBVIOUS
<1>2. Len(Tail(s)) = Len(s) - 1 /\ \A i \in 1..Len(s) - 1 : Tail(s)[i] = s[i + 1]
  BY <1>1
<1>3. ToSet(Tail(s)) \subseteq ToSet(s) /\ Head(s) \in ToSet(s)
  BY <1>1, <1>2 DEF ToSet
<1>4. \A i \in 1..Len(s) : s[i] = Head(s) \/ s[i] \in ToSet(Tail(s))
  <2>. SUFFICES ASSUME NEW i \in 1..Len(s), i # 1 PROVE s[i] \in ToSet(Tail(s))
    BY <1>1
  <2>1. i - 1 \in 1..Len(s) - 1 /\ s[i] = Tail(s)[i - 1]
    BY <1>1, <1>2
  <2>2. i - 1 \in DOMAIN Tail(s)
    BY <1>1, <1>2, <2>1
  <2>. QED BY <2>1, <2>2 DEF ToSet
<1>. QED BY <1>1, <1>3, <1>4 DEF ToSet

\* An entry appended to a sequence leaves the others where they are.
LEMMA Appended ==
    ASSUME NEW S, NEW s \in Seq(S), NEW e \in S
    PROVE  /\ Append(s, e) \in Seq(S) /\ Len(Append(s, e)) = Len(s) + 1
           /\ \A i \in 1..Len(s) : Append(s, e)[i] = s[i]
           /\ ToSet(Append(s, e)) = ToSet(s) \cup {e}
<1>1. Append(s, e) \in Seq(S) /\ Len(Append(s, e)) = Len(s) + 1
  OBVIOUS
<1>2. /\ \A i \in 1..Len(s) : Append(s, e)[i] = s[i]
      /\ Append(s, e)[Len(s) + 1] = e
  OBVIOUS
<1>. QED BY <1>1, <1>2 DEF ToSet

\* A text of the editor is a sequence of entries.
LEMMA EditedText ==
    ASSUME NEW text \in Texts
    PROVE  text \in Seq(Learnings) /\ Len(text) <= MaxFile
<1>1. PICK n \in 0..MaxFile : text \in [1..n -> Learnings]
  BY DEF Texts
<1>. QED BY <1>1

\* Nothing is remembered and no thread works at first.
LEMMA InitInv == Init => IInv
<1>. SUFFICES ASSUME Init PROVE IInv
  OBVIOUS
<1>1. TypeOK
  BY DEF Init, TypeOK, PCs, ToSet
<1>2. Placed /\ Reading
  BY DEF Init, Placed, Reading, ToSet
<1>. QED
  BY <1>1, <1>2 DEF Init, IInv, ImportedOnce, EarlierImported, OnlyAgreed, RowsOfFile,
                    HasRow, RowsSaid, Progress, SavedUnasked

\* An answered request leaves nothing of the types' concern.
LEMMA AnswerTypes ==
    ASSUME TypeOK, NEW h \in Threads, Answered(h)
    PROVE  /\ pc' \in [Threads -> PCs] /\ dir' \in [Threads -> Dirs \cup {None}]
           /\ todo' \in [Threads -> Seq(Learnings)]
           /\ given' \in [Threads -> SUBSET Learnings]
<1>1. <<>> \in Seq(Learnings)
  OBVIOUS
<1>2. todo' \in [Threads -> Seq(Learnings)]
  BY <1>1 DEF Answered, TypeOK
<1>3. given' \in [Threads -> SUBSET Learnings] /\ dir' \in [Threads -> Dirs \cup {None}]
  BY DEF Answered, TypeOK
<1>4. pc' \in [Threads -> PCs]
  BY DEF Answered, Go, TypeOK, PCs
<1>. QED BY <1>2, <1>3, <1>4

\* Every step keeps the types.
LEMMA TypeStep == TypeOK /\ Placed /\ Reading /\ [Next]_vars => TypeOK'
<1>. SUFFICES ASSUME TypeOK, Placed, Reading, [Next]_vars PROVE TypeOK'
  OBVIOUS
<1>1. CASE Start
  BY <1>1 DEF Start, TypeOK
<1>2. CASE Stop
  BY <1>2 DEF Stop, TypeOK, PCs
<1>3. ASSUME NEW l \in Learnings, Remember(l) PROVE TypeOK'
  <2>1. /\ file' \in Seq(Learnings) /\ Len(file') <= MaxFile
        /\ lasting' \subseteq ToSet(file')
    BY <1>3, Appended DEF Remember, TypeOK
  <2>. QED BY <1>3, <2>1 DEF Remember, TypeOK
<1>13. ASSUME NEW text \in Texts, EditFile(text) PROVE TypeOK'
  <2>1. text \in Seq(Learnings) /\ Len(text) <= MaxFile
    BY EditedText
  <2>2. ToSet(text) \subseteq Learnings
    BY <2>1 DEF ToSet
  <2>. QED BY <1>13, <2>1, <2>2 DEF EditFile, TypeOK
<1>14. CASE GarbleFile
  <2>1. faults' \in 0..MaxFaults
    BY <1>14 DEF GarbleFile, TypeOK
  <2>2. readable' \in BOOLEAN /\ ToSet(file') = ToSet(file)
    BY <1>14 DEF GarbleFile
  <2>. QED BY <1>14, <2>1, <2>2 DEF GarbleFile, TypeOK
<1>4. ASSUME NEW h \in Threads, NEW d \in Dirs, Request(h, d) PROVE TypeOK'
  BY <1>4 DEF Request, Go, TypeOK, PCs, Building
<1>5. ASSUME NEW h \in Threads, List(h) \/ Built(h) PROVE TypeOK'
  BY <1>5 DEF List, Built, Go, TypeOK, PCs, Building
<1>10. ASSUME NEW h \in Threads, Reply500(h) \/ NotObserved(h) PROVE TypeOK'
  BY <1>10, AnswerTypes DEF Reply500, NotObserved, TypeOK
<1>11. ASSUME NEW h \in Threads, DatabaseError(h) PROVE TypeOK'
  BY <1>11 DEF DatabaseError, Go, TypeOK, PCs
<1>6. ASSUME NEW h \in Threads, Find(h) PROVE TypeOK'
  <2>1. Tail(todo[h]) \in Seq(Learnings)
    BY <1>6, HeadTail DEF Find, TypeOK
  <2>. QED BY <1>6, <2>1 DEF Find, Go, TypeOK, PCs, Building
<1>7. ASSUME NEW h \in Threads, Create(h) PROVE TypeOK'
  <2>1. Tail(todo[h]) \in Seq(Learnings) /\ Head(todo[h]) \in Learnings
    BY <1>7, HeadTail DEF Create, Reading, TypeOK
  <2>2. imported' \in [Learnings -> Nat] /\ todo' \in [Threads -> Seq(Learnings)]
    <3>1. CASE Insert(Head(todo[h])) /\ todo' = [todo EXCEPT ![h] = Tail(@)]
      <4>1. imported' \in [Learnings -> Nat]
        BY <2>1, <3>1 DEF Insert, TypeOK
      <4>. QED BY <2>1, <3>1, <4>1 DEF TypeOK
    <3>2. CASE UNCHANGED <<imported, todo>>
      BY <3>2 DEF TypeOK
    <3>. QED BY <1>7, <3>1, <3>2 DEF Create
  <2>3. pc' \in [Threads -> PCs]
    BY <1>7 DEF Create, Go, TypeOK, PCs, Building
  <2>. QED BY <1>7, <2>2, <2>3 DEF Create, TypeOK
<1>8. ASSUME NEW h \in Threads, Plan(h) PROVE TypeOK'
  <2>1. Searched \subseteq Learnings
    BY DEF TypeOK, ToSet, Searched
  <2>2. Active(dir[h]) \subseteq Learnings
    BY DEF TypeOK, Active, Row
  <2>. QED BY <1>8, <2>1, <2>2 DEF Plan, Few, Go, TypeOK, PCs
<1>9. ASSUME NEW h \in Threads, NEW l \in Learnings, Observe(h, l) PROVE TypeOK'
  <2>1. Saves(l) => StatusOf[Decide(l)] \in {"pending", "active"}
    BY DEF Saves, Decide, StatusOf
  <2>2. Scope(l, dir[h]) \in Dirs \cup {None}
    BY DEF Scope, TypeOK
  <2>3. observed' \subseteq Row /\ said' \subseteq Learnings \X Dirs
    <3>1. dir[h] \in Dirs
      BY <1>9 DEF Observe, Placed
    <3>. QED BY <1>9, <2>1, <2>2, <3>1 DEF Observe, Row, TypeOK
  <2>. QED BY <1>9, <2>3, AnswerTypes DEF Observe, TypeOK
<1>12. CASE UNCHANGED vars
  BY <1>12 DEF vars, TypeOK
<1>. QED
  BY <1>1, <1>2, <1>3, <1>4, <1>5, <1>6, <1>7, <1>8, <1>9, <1>10, <1>11, <1>12,
     <1>13, <1>14 DEF Next, Step

\* What was written or said stays so, and so do the imported rows.
LEMMA Kept ==
    ASSUME TypeOK, Reading, [Next]_vars
    PROVE  /\ written \subseteq written'
           /\ \A l \in Learnings : HasRow(l) => HasRow(l)'
           /\ said \subseteq said'
<1>1. ASSUME NEW h \in Threads, Create(h)
      PROVE  /\ UNCHANGED <<written, said>>
             /\ \A l \in Learnings : HasRow(l) => HasRow(l)'
  <2>1. Head(todo[h]) \in Learnings
    BY <1>1, HeadTail DEF Create, Reading, TypeOK
  <2>2. CASE Insert(Head(todo[h]))
    BY <1>1, <2>1, <2>2 DEF Create, Insert, HasRow, TypeOK
  <2>3. CASE UNCHANGED imported
    BY <1>1, <2>3 DEF Create, HasRow
  <2>. QED BY <1>1, <2>2, <2>3 DEF Create
<1>2. \/ /\ UNCHANGED imported
         /\ written \subseteq written' /\ said \subseteq said'
      \/ \E h \in Threads : Create(h)
  BY DEF Next, Step, vars, Remember, EditFile, GarbleFile, Start, Stop, List,
         Find, Built, Reply500, Plan, NotObserved, Observe, DatabaseError,
         Request
<1>. QED BY <1>1, <1>2 DEF HasRow

\* Every step keeps what the place of a thread says of its request.
LEMMA PlacedStep == TypeOK /\ Placed /\ [Next]_vars => Placed'
<1>. SUFFICES ASSUME TypeOK, Placed, [Next]_vars PROVE Placed'
  OBVIOUS
<1>1. CASE Start \/ GarbleFile \/ UNCHANGED vars
  BY <1>1 DEF Start, GarbleFile, vars, Placed
<1>2. CASE Stop
  BY <1>2 DEF Stop, Placed
<1>3. CASE (\E l \in Learnings : Remember(l))
           \/ \E text \in Texts : EditFile(text)
  BY <1>3 DEF Remember, EditFile, Placed
<1>4. ASSUME NEW h \in Threads, NEW d \in Dirs, Request(h, d) PROVE Placed'
  BY <1>4 DEF Request, Go, Placed, TypeOK
<1>5. ASSUME NEW h \in Threads, List(h) \/ Find(h) \/ Create(h) \/ DatabaseError(h)
      PROVE  Placed'
  BY <1>5 DEF List, Find, Create, DatabaseError, Building, Go, Placed, TypeOK
<1>6. ASSUME NEW h \in Threads, Built(h) PROVE Placed'
  BY <1>6 DEF Built, Go, Placed, TypeOK
<1>7. ASSUME NEW h \in Threads, Plan(h) PROVE Placed'
  BY <1>7 DEF Plan, Go, Placed, TypeOK
<1>8. ASSUME NEW h \in Threads, Answered(h), UNCHANGED runtime PROVE Placed'
  BY <1>8 DEF Answered, Go, Placed, TypeOK
<1>. QED
  BY <1>1, <1>2, <1>3, <1>4, <1>5, <1>6, <1>7, <1>8
     DEF Next, Step, Reply500, NotObserved, Observe

\* Every step keeps a migration within the file.
LEMMA ReadingStep == TypeOK /\ Reading /\ [Next]_vars => Reading'
<1>. SUFFICES ASSUME TypeOK, Reading, [Next]_vars PROVE Reading'
  OBVIOUS
<1>1. ASSUME UNCHANGED <<file, todo>>,
             \A h \in Threads : pc'[h] = "create" => pc[h] = "create"
      PROVE  Reading'
  BY <1>1, Kept DEF Reading
<1>2. CASE Start \/ GarbleFile \/ UNCHANGED vars
  BY <1>1, <1>2 DEF Start, GarbleFile, vars
<1>3. CASE Stop
  BY <1>3 DEF Stop, Reading, ToSet
<1>4. ASSUME NEW l \in Learnings, Remember(l) PROVE Reading'
  <2>1. ToSet(Append(file, l)) = ToSet(file) \cup {l}
    BY Appended DEF TypeOK
  <2>. QED BY <1>4, <2>1 DEF Remember, Reading
<1>11. ASSUME NEW text \in Texts, EditFile(text) PROVE Reading'
  BY <1>11 DEF EditFile, Reading
<1>5. ASSUME NEW h \in Threads, NEW d \in Dirs, Request(h, d) PROVE Reading'
  BY <1>1, <1>5 DEF Request, Go, TypeOK
<1>6. ASSUME NEW h \in Threads, List(h) PROVE Reading'
  BY <1>6 DEF List, Go, Reading, TypeOK
<1>7. ASSUME NEW h \in Threads, Find(h) PROVE Reading'
  <2>1. ToSet(Tail(todo[h])) \subseteq written
    BY <1>7, HeadTail DEF Find, Reading, TypeOK
  <2>2. Decide(Head(todo[h])) # "block" => Head(todo[h]) \notin Blocked
    BY DEF Decide
  <2>. QED BY <1>7, <2>1, <2>2 DEF Find, Go, Reading, TypeOK
<1>8. ASSUME NEW h \in Threads, Create(h) PROVE Reading'
  <2>1. ToSet(Tail(todo[h])) \subseteq written
    BY <1>8, HeadTail DEF Create, Reading, TypeOK
  <2>. QED BY <1>8, <2>1 DEF Create, Go, Reading, TypeOK
<1>9. ASSUME NEW h \in Threads, Built(h) \/ Plan(h) \/ DatabaseError(h) PROVE Reading'
  BY <1>1, <1>9 DEF Built, Plan, DatabaseError, Go, TypeOK
<1>10. ASSUME NEW h \in Threads, Answered(h), UNCHANGED file PROVE Reading'
  <2>1. ToSet(<<>>) = {}
    BY DEF ToSet
  <2>. QED BY <1>10, <2>1, Kept DEF Answered, Go, Reading, TypeOK
<1>. QED
  BY <1>2, <1>3, <1>4, <1>5, <1>6, <1>7, <1>8, <1>9, <1>10, <1>11
     DEF Next, Step, Reply500, NotObserved, Observe

\* A row is inserted for an entry of the file that has none.
LEMMA RowsStep ==
    TypeOK /\ Reading /\ ImportedOnce /\ RowsOfFile /\ [Next]_vars
        => ImportedOnce' /\ RowsOfFile'
<1>. SUFFICES ASSUME TypeOK, Reading, ImportedOnce, RowsOfFile, [Next]_vars
              PROVE  ImportedOnce' /\ RowsOfFile'
  OBVIOUS
<1>1. CASE UNCHANGED imported
  BY <1>1, Kept DEF ImportedOnce, RowsOfFile, HasRow
<1>2. ASSUME NEW h \in Threads, Create(h), Insert(Head(todo[h]))
      PROVE  ImportedOnce' /\ RowsOfFile'
  <2>1. Head(todo[h]) \in written \ Blocked
    BY <1>2, HeadTail DEF Create, Reading, TypeOK
  <2>. QED BY <1>2, <2>1 DEF Create, Insert, ImportedOnce, RowsOfFile, HasRow, TypeOK
<1>3. \/ UNCHANGED imported
      \/ \E h \in Threads : Create(h) /\ Insert(Head(todo[h]))
  BY DEF Next, Step, vars, Remember, EditFile, GarbleFile, Start, Stop, List,
         Find, Built, Create, Reply500, Plan, NotObserved, Observe, DatabaseError, Request
<1>. QED BY <1>1, <1>2, <1>3

\* A row made from a message follows the policy and the directory.
LEMMA SaidStep ==
    TypeOK /\ Placed /\ Reading /\ RowsSaid /\ [Next]_vars => RowsSaid'
<1>. SUFFICES ASSUME TypeOK, Placed, Reading, RowsSaid, [Next]_vars PROVE RowsSaid'
  OBVIOUS
<1>1. CASE UNCHANGED observed
  BY <1>1, Kept DEF RowsSaid
<1>2. ASSUME NEW h \in Threads, NEW l \in Learnings, Observe(h, l), Saves(l)
      PROVE  RowsSaid'
  <2> DEFINE r == [what |-> l, scope |-> Scope(l, dir[h]), status |-> StatusOf[Decide(l)]]
  <2>1. observed' = observed \cup {r} /\ said' = said \cup {<<l, dir[h]>>}
    BY <1>2 DEF Observe
  <2>2. l \notin Blocked /\ dir[h] \in Dirs
    BY <1>2 DEF Saves, Decide, Observe, Placed
  <2>3. r.status = "active" => AutoSave /\ l \notin Decisions
    BY <2>2 DEF StatusOf, Decide
  <2>4. r.what = l /\ r.scope = Scope(r.what, dir[h]) /\ <<r.what, dir[h]>> \in said'
    BY <2>1
  <2>. HIDE DEF r
  <2>. QED BY <2>1, <2>2, <2>3, <2>4 DEF RowsSaid
<1>3. \/ UNCHANGED observed
      \/ \E h \in Threads, l \in Learnings : Observe(h, l) /\ Saves(l)
  BY DEF Next, Step, vars, Remember, EditFile, GarbleFile, Start, Stop, List,
         Find, Built, Create, Reply500, Plan, NotObserved, Observe, DatabaseError, Request
<1>. QED BY <1>1, <1>2, <1>3

\* What an unfinished migration has passed by is settled, so the engine of
\* one that is finished lacks nothing the file has had since the start.
LEMMA ProgressStep ==
    /\ TypeOK /\ Placed /\ Reading /\ Progress /\ EarlierImported
    /\ [Next]_vars
    => Progress' /\ EarlierImported'
<1>. SUFFICES ASSUME TypeOK, Placed, Reading, Progress, EarlierImported, [Next]_vars
              PROVE  Progress' /\ EarlierImported'
  OBVIOUS
<1>1. CASE Start
  BY <1>1 DEF Start, Placed, Progress, EarlierImported
<1>2. CASE ~Start
  <2>1. lasting' \subseteq lasting
    BY <1>2 DEF Next, Step, vars, Remember, EditFile, GarbleFile, Stop, List,
         Find, Built, Create, Reply500, Plan, NotObserved, Observe,
         DatabaseError, Request
  <2>2. \A l \in lasting : l \in Learnings /\ (Settled(l) => Settled(l)')
    <3>1. lasting \subseteq Learnings
      BY DEF TypeOK, ToSet
    <3>. QED BY <3>1, Kept DEF Settled
  <2> DEFINE Past(h) ==
        \A l \in lasting' : Settled(l)' \/ l \in ToSet(todo[h])'
  <2>3. ASSUME NEW h \in Threads, pc'[h] \in {"find", "create"} PROVE Past(h)
    <3>1. CASE List(h)
      BY <2>3, <3>1 DEF List, Go, TypeOK
    <3>2. CASE Find(h)
      <4>1. CASE HasRow(Head(todo[h])) \/ Decide(Head(todo[h])) = "block"
        <5>1. Head(todo[h]) \in Blocked \/ HasRow(Head(todo[h]))
          BY <4>1 DEF Decide
        <5>2. ToSet(todo[h]) = {Head(todo[h])} \cup ToSet(todo'[h])
          BY <3>2, <4>1, HeadTail DEF Find, TypeOK
        <5>3. pc[h] = "find"
          BY <3>2 DEF Find
        <5>. QED BY <2>1, <2>2, <5>1, <5>2, <5>3 DEF Progress, Settled
      <4>2. CASE UNCHANGED todo
        BY <2>1, <2>2, <3>2, <4>2 DEF Find, Progress
      <4>. QED BY <3>2, <4>1, <4>2 DEF Find
    <3>3. CASE Create(h)
      <4>1. Insert(Head(todo[h])) /\ todo'[h] = Tail(todo[h])
        BY <2>3, <3>3 DEF Create, Go, TypeOK
      <4>2. Head(todo[h]) \in Learnings
            /\ ToSet(todo[h]) = {Head(todo[h])} \cup ToSet(todo'[h])
        BY <3>3, <4>1, HeadTail DEF Create, Reading, TypeOK
      <4>3. imported'[Head(todo[h])] = 1
        BY <4>1, <4>2 DEF Insert, TypeOK
      <4>4. pc[h] = "create"
        BY <3>3 DEF Create
      <4>5. ASSUME NEW l \in lasting, l = Head(todo[h]) PROVE Settled(l)'
        BY <4>3, <4>5 DEF Settled, HasRow
      <4>. QED BY <2>1, <2>2, <4>2, <4>4, <4>5 DEF Progress
    <3>4. CASE UNCHANGED <<pc[h], todo[h]>>
      BY <2>1, <2>2, <2>3, <3>4 DEF Progress
    <3>5. List(h) \/ Find(h) \/ Create(h) \/ UNCHANGED <<pc[h], todo[h]>>
      <4>1. ASSUME NEW g \in Threads, g # h, Step(g)
            PROVE  UNCHANGED <<pc[h], todo[h]>>
        BY <4>1 DEF Step, List, Find, Create, Built, Reply500, Plan, NotObserved,
                    Observe, Answered, Go, TypeOK
      <4>2. Step(h) => List(h) \/ Find(h) \/ Create(h)
        BY <2>3 DEF Step, Built, Reply500, Plan, NotObserved, Observe, Answered, Go,
                    TypeOK
      <4>3. ASSUME NEW g \in Threads,
                   DatabaseError(g) \/ \E d \in Dirs : Request(g, d)
            PROVE  UNCHANGED <<pc[h], todo[h]>>
        BY <2>3, <4>3 DEF DatabaseError, Request, Go, TypeOK
      <4>4. ~Stop
        BY <2>3 DEF Stop
      <4>5. ASSUME \/ UNCHANGED vars \/ GarbleFile
                   \/ \E l \in Learnings : Remember(l)
                   \/ \E text \in Texts : EditFile(text)
            PROVE  UNCHANGED <<pc[h], todo[h]>>
        BY <4>5 DEF vars, GarbleFile, Remember, EditFile
      <4>. QED BY <1>2, <4>1, <4>2, <4>3, <4>4, <4>5 DEF Next
    <3>. QED BY <3>1, <3>2, <3>3, <3>4, <3>5
  <2>4. Progress'
    BY <2>1, <2>2, <2>3 DEF Progress
  <2>5. ASSUME runtime' = "ready" PROVE \A l \in lasting' : Settled(l)'
    <3>1. CASE runtime = "ready"
      BY <2>1, <2>2, <3>1 DEF EarlierImported, Settled
    <3>2. ASSUME NEW h \in Threads, Built(h) PROVE \A l \in lasting' : Settled(l)'
      <4>1. ToSet(todo[h]) = {} /\ pc[h] = "find"
        BY <3>2 DEF Built, ToSet
      <4>. QED BY <2>1, <2>2, <4>1 DEF Progress
    <3>3. runtime = "ready" \/ \E h \in Threads : Built(h)
      BY <1>2, <2>5
         DEF Next, Step, vars, Remember, EditFile, GarbleFile, Stop, List, Find,
             Create, Reply500, Plan, NotObserved, Observe, DatabaseError,
             Request, Answered
    <3>. QED BY <3>1, <3>2, <3>3
  <2>. QED BY <2>1, <2>4, <2>5 DEF EarlierImported, Settled
<1>. QED BY <1>1, <1>2

\* What may be recalled for a request was in the file or saved unasked.
LEMMA Recalled ==
    ASSUME RowsOfFile, RowsSaid, TypeOK, NEW d \in Dirs, NEW l \in Active(d)
    PROVE  l \in written \/ SavedUnasked(l, d)
<1>1. CASE l \in Learnings /\ HasRow(l)
  BY <1>1 DEF RowsOfFile
<1>2. ASSUME NEW r \in observed, r.what = l, r.status = "active",
             InScope(r.scope, d)
      PROVE  SavedUnasked(l, d)
  <2>1. PICK e \in Dirs : <<l, e>> \in said /\ r.scope = Scope(l, e)
    BY <1>2 DEF RowsSaid
  <2>2. l \in OfProject => e = d
    BY <1>2, <2>1 DEF InScope, Scope
  <2>. QED BY <1>2, <2>1, <2>2 DEF RowsSaid, SavedUnasked
<1>. QED BY <1>1, <1>2 DEF Active

\* Only a plan gives the planner something, and the request keeps its
\* directory until it is answered.
LEMMA AgreedStep ==
    /\ TypeOK /\ Placed /\ Reading /\ RowsOfFile /\ RowsSaid /\ OnlyAgreed
    /\ [Next]_vars
    => OnlyAgreed'
<1>. SUFFICES ASSUME TypeOK, Placed, Reading, RowsOfFile, RowsSaid, OnlyAgreed,
                     [Next]_vars, NEW h \in Threads, NEW l \in given'[h],
                     l \notin written'
              PROVE  SavedUnasked(l, dir[h])'
  BY DEF OnlyAgreed
<1>0. l \notin written
  BY Kept
<1>1. CASE l \in given[h] /\ dir'[h] = dir[h]
  <2>1. SavedUnasked(l, dir[h])
    BY <1>0, <1>1 DEF OnlyAgreed
  <2>. QED BY <1>1, <2>1, Kept DEF SavedUnasked
<1>2. CASE Plan(h)
  <2>1. /\ dir[h] \in Dirs /\ dir' = dir
        /\ l \in Active(dir[h]) \cup Searched
    BY <1>2 DEF Plan, Few, Placed, TypeOK
  <2>2. l \notin Searched
    BY <1>0 DEF Reading, Searched
  <2>3. SavedUnasked(l, dir[h])
    BY <1>0, <2>1, <2>2, Recalled
  <2>. QED BY <2>1, <2>3, Kept DEF SavedUnasked
<1>3. Plan(h) \/ (l \in given[h] /\ dir'[h] = dir[h])
  <2>1. CASE Stop
    BY <2>1 DEF Stop
  <2>2. ASSUME NEW g \in Threads, Answered(g) PROVE l \in given[h] /\ dir'[h] = dir[h]
    BY <2>2 DEF Answered, TypeOK
  <2>3. ASSUME NEW g \in Threads, NEW d \in Dirs, Request(g, d)
        PROVE  l \in given[h] /\ dir'[h] = dir[h]
    BY <2>3 DEF Request, Placed, TypeOK
  <2>4. ASSUME NEW g \in Threads, Plan(g), g # h
        PROVE  l \in given[h] /\ dir'[h] = dir[h]
    BY <2>4 DEF Plan, TypeOK
  <2>. QED
    BY <2>1, <2>2, <2>3, <2>4
       DEF Next, Step, vars, Remember, EditFile, GarbleFile, Start, List, Find,
           Built, Create, Reply500, NotObserved, Observe, DatabaseError
<1>. QED BY <1>1, <1>2, <1>3
-----------------------------------------------------------------------------
\* Every step keeps the invariant.
LEMMA Inductive == IInv /\ [Next]_vars => IInv'
  BY TypeStep, PlacedStep, ReadingStep, RowsStep, SaidStep, ProgressStep, AgreedStep
     DEF IInv

\* The invariant holds in every state that is reached.
LEMMA Invariant == Spec => []IInv
  BY InitInv, Inductive, PTL DEF Spec

\* The rows, the threads and the history keep their types for any number of
\* threads, directories and learnings.
THEOREM TypeCorrect == Spec => []TypeOK
  BY Invariant, PTL DEF IInv

\* However many threads import the file, and wherever one was stopped, an
\* entry has one row.
THEOREM EntryImportedOnce == Spec => []ImportedOnce
  BY Invariant, PTL DEF IInv

\* The engine is set by the first thread whose loop is done: it has found or
\* inserted, or the policy blocks, each entry there has been since the start.
THEOREM NoEntrySkipped == Spec => []EarlierImported
  BY Invariant, PTL DEF IInv

\* The planner is given what the file once had, or what the setting saves
\* without asking and the user said before, within the directory.
THEOREM GivenWasAgreed == Spec => []OnlyAgreed
  BY Invariant, PTL DEF IInv

\* Neither the import nor a message brings a learning with a sensitive
\* pattern into the table.
THEOREM TableHasNoSecret == Spec => []NoSecretInTable
<1>1. IInv => NoSecretInTable
  BY DEF IInv, RowsOfFile, RowsSaid, NoSecretInTable, TypeOK
<1>. QED BY <1>1, Invariant, PTL
=============================================================================
