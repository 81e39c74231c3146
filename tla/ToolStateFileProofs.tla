------------------------ MODULE ToolStateFileProofs ------------------------
(***************************************************************************)
(* Proofs about ToolStateFile, for any tools, contents, processes and      *)
(* commands.  A save puts back records that may be old, so what has to be  *)
(* invariant holds of every version of the file that can still be written: *)
(* the one on disk and the ones processes have loaded.                     *)
(***************************************************************************)
EXTENDS ToolStateFile, SequenceTheorems, TLAPS

\* The version on disk and those that a process is about to write back.
Versions ==
    {file} \cup ({process[p].copy : p \in Processes} \ {None})

\* The calls of an installation after it has copied the files.
Installing == {"environment", "dependencies", "installed"}

HasFiles == {"installed", "enabled", "disabled"}

\* The order in which a command makes the calls of an installation.
Ordered(todo) ==
    \A i \in 1..Len(todo) - 1 :
        /\ todo[i + 1] = "environment" => todo[i] = "copy"
        /\ todo[i + 1] = "dependencies" => todo[i] = "environment"
        /\ todo[i + 1] = "installed" => todo[i] \in {"environment", "dependencies"}

\* A process has a tool, and has loaded what its call accepts.
Working ==
    \A p \in Processes :
        /\ process[p].todo # <<>> => process[p].tool \in Tools
        /\ Ordered(process[p].todo)
        /\ process[p].copy # None =>
              /\ Call(p) \in ToolStates
              /\ Accepts(Call(p), process[p].copy[process[p].tool])

Approved ==
    \A f \in Versions : \A t \in Tools :
        f[t].state \in PastApproval => <<t, f[t].hash>> \in consented

There ==
    \A f \in Versions : \A t \in Tools :
        f[t].state \in HasFiles => installed[t] # None /\ env[t]

\* Between the copy and the record that says so, one process installs a
\* tool, and no version of the file says that it is installed.
Alone ==
    \A p \in Processes :
        Call(p) \in Installing =>
            /\ installed[process[p].tool] # None
            /\ Call(p) # "environment" => env[process[p].tool]
            /\ \A f \in Versions : f[process[p].tool].state \notin HasFiles
            /\ \A q \in Processes :
                  Call(q) \in Installing /\ process[q].tool = process[p].tool
                      => q = p

IInv == TypeOK /\ Working /\ Approved /\ There /\ Alone
-----------------------------------------------------------------------------
LEMMA CallType ==
    ASSUME TypeOK, NEW p \in Processes, process[p].todo # <<>>
    PROVE  /\ Call(p) = Head(process[p].todo)
           /\ Call(p) \in Calls
           /\ Tail(process[p].todo) \in Seq(Calls)
  BY HeadTailProperties DEF TypeOK, Call

\* What follows a call in a command is in order too, and what comes next
\* determines what was called.
LEMMA TailOrdered ==
    ASSUME NEW s \in Seq(Calls), s # <<>>, Ordered(s)
    PROVE  /\ Ordered(Tail(s))
           /\ Tail(s) # <<>> =>
                /\ Head(Tail(s)) = "environment" => Head(s) = "copy"
                /\ Head(Tail(s)) = "dependencies" => Head(s) = "environment"
                /\ Head(Tail(s)) = "installed" =>
                      Head(s) \in {"environment", "dependencies"}
  <1>1. /\ Len(s) \in Nat \ {0}
        /\ Tail(s) \in Seq(Calls)
        /\ Len(Tail(s)) = Len(s) - 1
        /\ \A i \in 1..Len(s) - 1 : Tail(s)[i] = s[i + 1]
        /\ Head(s) = s[1]
    BY HeadTailProperties, EmptySeq
  <1>2. Ordered(Tail(s))
    <2>1. SUFFICES ASSUME NEW i \in 1..Len(Tail(s)) - 1
                   PROVE  /\ Tail(s)[i + 1] = s[(i + 1) + 1]
                          /\ Tail(s)[i] = s[i + 1]
                          /\ i + 1 \in 1..Len(s) - 1
      BY DEF Ordered
    <2> QED  BY <1>1
  <1>3. ASSUME Tail(s) # <<>>
        PROVE  Head(Tail(s)) = s[2] /\ 1 \in 1..Len(s) - 1
    <2>1. Len(Tail(s)) \in Nat \ {0} /\ Head(Tail(s)) = Tail(s)[1]
      BY <1>1, <1>3, HeadTailProperties, EmptySeq
    <2> QED  BY <1>1, <2>1
  <1> QED  BY <1>1, <1>2, <1>3 DEF Ordered

LEMMA ProgramOrdered ==
    ASSUME NEW command \in ToolCommands
    PROVE  /\ Program(command) \in Seq(Calls)
           /\ Program(command) # <<>>
           /\ Ordered(Program(command))
           /\ Head(Program(command)) \notin Installing
  <1>1. CASE command = "register"
    BY <1>1 DEF Program, Calls, ToolStates, Ordered, Installing
  <1>2. CASE command = "generate"
    BY <1>2 DEF Program, Calls, ToolStates, Ordered, Installing
  <1>3. CASE command = "approve"
    BY <1>3 DEF Program, Calls, ToolStates, Ordered, Installing
  <1>4. CASE command = "install"
    BY <1>4 DEF Program, Calls, ToolStates, Ordered, Installing
  <1>5. CASE command = "enable"
    BY <1>5 DEF Program, Calls, ToolStates, Ordered, Installing
  <1>6. CASE command = "disable"
    BY <1>6 DEF Program, Calls, ToolStates, Ordered, Installing
  <1>7. CASE command = "accept"
    BY <1>7 DEF Program, Calls, ToolStates, Ordered, Installing
  <1>8. CASE command = "expire"
    BY <1>8 DEF Program, Calls, ToolStates, Ordered, Installing
  <1>9. CASE command = "list"
    BY <1>9 DEF Program, Calls, ToolStates, Ordered, Installing
  <1> QED
    BY <1>1, <1>2, <1>3, <1>4, <1>5, <1>6, <1>7, <1>8, <1>9 DEF ToolCommands
-----------------------------------------------------------------------------
(* Type correctness.                                                        *)

LEMMA ReturnType ==
    ASSUME TypeOK, NEW p \in Processes, process[p].todo # <<>>
    PROVE  /\ Returned(p) => process' \in [Processes ->
                [tool : Tools \cup {None}, todo : Seq(Calls),
                 copy : [Tools -> Record] \cup {None},
                 hash : Contents \cup {None}]]
           /\ Ended(p) => process' \in [Processes ->
                [tool : Tools \cup {None}, todo : Seq(Calls),
                 copy : [Tools -> Record] \cup {None},
                 hash : Contents \cup {None}]]
           /\ \A todo \in Seq(Calls) :
                GoesOn(p, todo) => process' \in [Processes ->
                    [tool : Tools \cup {None}, todo : Seq(Calls),
                     copy : [Tools -> Record] \cup {None},
                     hash : Contents \cup {None}]]
  <1>1. Tail(process[p].todo) \in Seq(Calls)
    BY CallType
  <1>2. <<>> \in Seq(Calls)
    OBVIOUS
  <1>3. process \in [Processes -> [tool : Tools \cup {None}, todo : Seq(Calls),
                                   copy : [Tools -> Record] \cup {None},
                                   hash : Contents \cup {None}]]
    BY DEF TypeOK
  <1>4. Idle \in [tool : Tools \cup {None}, todo : Seq(Calls),
                  copy : [Tools -> Record] \cup {None},
                  hash : Contents \cup {None}]
    BY <1>2 DEF Idle
  <1>5. CASE Returned(p)
    BY <1>1, <1>3, <1>5 DEF Returned
  <1>6. CASE Ended(p)
    BY <1>3, <1>4, <1>6 DEF Ended
  <1>7. ASSUME NEW todo \in Seq(Calls), GoesOn(p, todo)
        PROVE  process' \in [Processes -> [tool : Tools \cup {None}, todo : Seq(Calls),
                                           copy : [Tools -> Record] \cup {None},
                                           hash : Contents \cup {None}]]
    BY <1>3, <1>7 DEF GoesOn
  <1> QED
    BY <1>3, <1>4, <1>5, <1>6, <1>7 DEF Returned, Ended

LEMMA ChangeType ==
    ASSUME NEW call \in ToolStates, NEW record \in Record,
           NEW hash \in Contents \cup {None}
    PROVE  Change(call, record, hash) \in Record
  BY DEF Change, Record, ToolStates

LEMMA HasCall ==
    ASSUME NEW p \in Processes, Call(p) # "none"
    PROVE  process[p].todo # <<>>
  BY DEF Call

LEMMA StepType ==
    ASSUME IInv, NEW p \in Processes, Step(p)
    PROVE  TypeOK'
  <1> USE ToolFileAssumption DEF IInv
  <1>1. process[p].todo # <<>>
    BY HasCall DEF Step, Load, Save, NewDraft, HashDraft, Verdict, Get, Remove,
                   Copy, Environment, Dependencies, HashInstalled, Verify,
                   Killed, Call, ToolStates
  <1>2. process[p].tool \in Tools /\ Tail(process[p].todo) \in Seq(Calls)
    BY <1>1, CallType DEF Working
  <1>3. CASE Load(p)
    <2>1. CASE Ended(p)
      BY <1>1, <1>3, <2>1, ReturnType DEF Load, TypeOK, diskVars
    <2>2. CASE process' = [process EXCEPT ![p].copy = file]
      <3>1. file \in [Tools -> Record] \cup {None}
        BY DEF TypeOK
      <3>2. process' \in [Processes -> [tool : Tools \cup {None}, todo : Seq(Calls),
                                        copy : [Tools -> Record] \cup {None},
                                        hash : Contents \cup {None}]]
        BY <2>2, <3>1 DEF TypeOK
      <3> QED
        BY <1>3, <3>2 DEF Load, TypeOK, diskVars
    <2> QED
      BY <1>3, <2>1, <2>2 DEF Load
  <1>4. CASE Save(p)
    <2>1. process[p].copy \in [Tools -> Record] /\ Call(p) \in ToolStates
      BY <1>4 DEF Save, TypeOK
    <2>2. Change(Call(p), process[p].copy[process[p].tool], process[p].hash)
             \in Record
      BY <2>1, <1>2, ChangeType DEF TypeOK
    <2>3. file' \in [Tools -> Record]
      BY <1>4, <2>1, <2>2 DEF Save
    <2>4. consented' \subseteq Tools \X (Contents \cup {None})
      BY <1>2, <1>4, <2>2 DEF Save, TypeOK, Record
    <2>5. process' \in [Processes -> [tool : Tools \cup {None}, todo : Seq(Calls),
                                      copy : [Tools -> Record] \cup {None},
                                      hash : Contents \cup {None}]]
      BY <1>2, <1>4 DEF Save, TypeOK
    <2> QED
      BY <1>4, <2>3, <2>4, <2>5 DEF Save, TypeOK
  <1>5. CASE NewDraft(p)
    BY <1>1, <1>2, <1>5, ReturnType DEF NewDraft, TypeOK
  <1>6. CASE HashDraft(p)
    BY <1>2, <1>6 DEF HashDraft, TypeOK, diskVars
  <1>7. CASE Verdict(p)
    <2>1. <<"validated">> \in Seq(Calls) /\ <<"rejected">> \in Seq(Calls)
      BY DEF Calls, ToolStates
    <2> QED
      BY <1>1, <1>7, <2>1, ReturnType DEF Verdict, TypeOK, diskVars
  <1>8. CASE Get(p)
    <2>1. <<"remove">> \in Seq(Calls)
      BY DEF Calls
    <2> QED
      BY <1>1, <1>8, <2>1, ReturnType DEF Get, TypeOK, diskVars
  <1>9. CASE Remove(p)
    BY <1>1, <1>2, <1>9, ReturnType DEF Remove, TypeOK
  <1>10. CASE Copy(p)
    BY <1>1, <1>2, <1>10, ReturnType DEF Copy, TypeOK
  <1>11. CASE Environment(p)
    BY <1>1, <1>2, <1>11, ReturnType DEF Environment, TypeOK
  <1>12. CASE Dependencies(p)
    BY <1>1, <1>2, <1>12, ReturnType DEF Dependencies, TypeOK
  <1>13. CASE HashInstalled(p)
    BY <1>2, <1>13 DEF HashInstalled, TypeOK, diskVars
  <1>14. CASE Verify(p)
    <2>1. <<"broken">> \in Seq(Calls)
      BY DEF Calls, ToolStates
    <2> QED
      BY <1>1, <1>14, <2>1, ReturnType DEF Verify, TypeOK, diskVars
  <1>15. CASE Killed(p)
    BY <1>1, <1>15, ReturnType DEF Killed, TypeOK, diskVars
  <1> QED
    BY <1>3, <1>4, <1>5, <1>6, <1>7, <1>8, <1>9, <1>10, <1>11, <1>12, <1>13,
       <1>14, <1>15 DEF Step

LEMMA NextType ==
    ASSUME IInv, [Next]_vars
    PROVE  TypeOK'
  <1> USE ToolFileAssumption DEF IInv
  <1>1. ASSUME NEW p \in Processes, Step(p)
        PROVE  TypeOK'
    BY <1>1, StepType
  <1>2. ASSUME NEW p \in Processes, NEW use \in Usage, Begin(p, use[1], use[2])
        PROVE  TypeOK'
    <2>1. use[1] \in ToolCommands /\ use[2] \in Tools
      OBVIOUS
    <2>2. Program(use[1]) \in Seq(Calls)
      BY <2>1, ProgramOrdered
    <2>3. [Idle EXCEPT !.tool = use[2], !.todo = Program(use[1])] \in
             [tool : Tools \cup {None}, todo : Seq(Calls),
              copy : [Tools -> Record] \cup {None},
              hash : Contents \cup {None}]
      BY <2>1, <2>2 DEF Idle
    <2>4. process' \in [Processes -> [tool : Tools \cup {None}, todo : Seq(Calls),
                                      copy : [Tools -> Record] \cup {None},
                                      hash : Contents \cup {None}]]
      BY <1>2, <2>3 DEF Begin, TypeOK
    <2>5. begun' \in Nat
      BY <1>2 DEF Begin, TypeOK
    <2> QED
      BY <1>2, <2>4, <2>5 DEF Begin, TypeOK, diskVars
  <1>3. ASSUME NEW t \in Tools, Edit(t)
        PROVE  TypeOK'
    <2>1. edits' \in Nat
      BY <1>3 DEF Edit, TypeOK
    <2>2. draft' \in [Tools -> Contents \cup {None}]
      BY <1>3 DEF Edit, TypeOK
    <2>3. installed' \in [Tools -> Contents \cup {None}]
      BY <1>3 DEF Edit, TypeOK
    <2> QED
      BY <1>3, <2>1, <2>2, <2>3 DEF Edit, TypeOK
  <1>4. CASE UNCHANGED vars
    BY <1>4 DEF vars, diskVars, TypeOK
  <1> QED
    BY <1>1, <1>2, <1>3, <1>4 DEF Next
-----------------------------------------------------------------------------
(* What a step of a process does to the processes.                          *)

OneCall ==
    {<<"validated">>, <<"rejected">>, <<"remove">>, <<"broken">>}

\* The command ended, goes on with a next call, or has loaded the file.
HasEnded(p) == process'[p] = Idle

Advanced(p) ==
    /\ process'[p].tool = process[p].tool
    /\ process'[p].copy = None
    /\ process'[p].todo \in {Tail(process[p].todo)} \cup OneCall

Loaded(p) ==
    /\ Call(p) \in ToolStates
    /\ Accepts(Call(p), file[process[p].tool])
    /\ process'[p].tool = process[p].tool
    /\ process'[p].todo = process[p].todo
    /\ process'[p].copy = file

LEMMA Moves ==
    ASSUME IInv, NEW p \in Processes, Step(p)
    PROVE  /\ process[p].todo # <<>>
           /\ \A q \in Processes \ {p} : process'[q] = process[q]
           /\ HasEnded(p) \/ Advanced(p) \/ Loaded(p)
  <1> USE DEF IInv
  <1>1. process[p].todo # <<>>
    BY HasCall DEF Step, Load, Save, NewDraft, HashDraft, Verdict, Get, Remove,
                   Copy, Environment, Dependencies, HashInstalled, Verify,
                   Killed, Call, ToolStates
  <1>2. Call(p) \notin ToolStates => process[p].copy = None
    BY DEF Working
  <1>3. CASE Load(p)
    BY <1>1, <1>3 DEF Load, TypeOK, Ended, HasEnded, Loaded
  <1>4. CASE Save(p)
    BY <1>1, <1>4 DEF Save, TypeOK, Advanced
  <1>5. ASSUME Returned(p), process[p].copy = None
        PROVE  Advanced(p) /\ \A q \in Processes \ {p} : process'[q] = process[q]
    BY <1>5 DEF Returned, Advanced, TypeOK
  <1>6. ASSUME Ended(p)
        PROVE  HasEnded(p) /\ \A q \in Processes \ {p} : process'[q] = process[q]
    BY <1>6 DEF Ended, HasEnded, TypeOK
  <1>7. ASSUME NEW todo \in OneCall, GoesOn(p, todo), process[p].copy = None
        PROVE  Advanced(p) /\ \A q \in Processes \ {p} : process'[q] = process[q]
    BY <1>7 DEF GoesOn, Advanced, TypeOK
  <1>8. CASE NewDraft(p)
    BY <1>1, <1>2, <1>5, <1>6, <1>8 DEF NewDraft, ToolStates
  <1>9. CASE HashDraft(p)
    BY <1>1, <1>2, <1>9 DEF HashDraft, ToolStates, Advanced, TypeOK
  <1>10. CASE Verdict(p)
    BY <1>1, <1>2, <1>6, <1>7, <1>10 DEF Verdict, ToolStates, OneCall
  <1>11. CASE Get(p)
    BY <1>1, <1>2, <1>5, <1>6, <1>7, <1>11 DEF Get, ToolStates, OneCall
  <1>12. CASE Remove(p)
    BY <1>1, <1>6, <1>12 DEF Remove
  <1>13. CASE Copy(p)
    BY <1>1, <1>2, <1>5, <1>6, <1>13 DEF Copy, ToolStates
  <1>14. CASE Environment(p)
    BY <1>1, <1>2, <1>5, <1>6, <1>14 DEF Environment, ToolStates
  <1>15. CASE Dependencies(p)
    BY <1>1, <1>2, <1>5, <1>6, <1>15 DEF Dependencies, ToolStates
  <1>16. CASE HashInstalled(p)
    BY <1>1, <1>2, <1>16 DEF HashInstalled, ToolStates, Advanced, TypeOK
  <1>17. CASE Verify(p)
    BY <1>1, <1>2, <1>6, <1>7, <1>17 DEF Verify, ToolStates, OneCall
  <1>18. CASE Killed(p)
    BY <1>1, <1>6, <1>18 DEF Killed
  <1> QED
    BY <1>3, <1>4, <1>8, <1>9, <1>10, <1>11, <1>12, <1>13, <1>14, <1>15,
       <1>16, <1>17, <1>18 DEF Step

\* A command goes on in the order of an installation, or with one call that
\* is none of it.
LEMMA NextCall ==
    ASSUME IInv, NEW p \in Processes, Step(p)
    PROVE  /\ Ordered(process'[p].todo)
           /\ process'[p].todo # <<>> => process'[p].tool = process[p].tool
           /\ Loaded(p) => Call(p)' = Call(p)
           /\ ~Loaded(p) =>
                /\ Call(p)' = "environment" => Call(p) = "copy"
                /\ Call(p)' = "dependencies" => Call(p) = "environment"
                /\ Call(p)' = "installed" => Call(p) \in {"environment", "dependencies"}
  <1> USE DEF IInv
  <1>1. /\ process[p].todo # <<>>
        /\ Ordered(process[p].todo)
        /\ process[p].todo \in Seq(Calls)
        /\ Call(p) = Head(process[p].todo)
    BY Moves, CallType DEF Working, TypeOK
  <1>2. CASE HasEnded(p)
    BY <1>2 DEF HasEnded, Idle, Ordered, Call, Loaded, ToolStates
  <1>3. CASE Loaded(p)
    BY <1>1, <1>3 DEF Loaded, Call
  <1>4. CASE Advanced(p) /\ ~Loaded(p)
    <2>1. CASE process'[p].todo = Tail(process[p].todo)
      BY <1>1, <1>4, <2>1, TailOrdered DEF Advanced, Call
    <2>2. CASE process'[p].todo \in OneCall
      BY <1>4, <2>2 DEF Advanced, OneCall, Ordered, Call
    <2> QED
      BY <1>4, <2>1, <2>2 DEF Advanced
  <1> QED
    BY <1>2, <1>3, <1>4, Moves

LEMMA StepWorking ==
    ASSUME IInv, NEW p \in Processes, Step(p)
    PROVE  Working'
  <1> USE DEF IInv
  <1>1. ASSUME NEW q \in Processes, q # p
        PROVE  (/\ process[q].todo # <<>> => process[q].tool \in Tools
                /\ Ordered(process[q].todo)
                /\ process[q].copy # None =>
                      /\ Call(q) \in ToolStates
                      /\ Accepts(Call(q), process[q].copy[process[q].tool]))'
    BY <1>1, Moves DEF Working, Call
  <1>2. process'[p].todo # <<>> => process'[p].tool \in Tools
    BY Moves, NextCall DEF Working
  <1>3. process'[p].copy # None =>
            /\ Call(p)' \in ToolStates
            /\ Accepts(Call(p), process[p].copy[process[p].tool])'
    <2>1. CASE Loaded(p)
      BY <2>1, NextCall DEF Loaded
    <2>2. CASE ~Loaded(p)
      BY <2>2, Moves DEF HasEnded, Idle, Advanced
    <2> QED  BY <2>1, <2>2
  <1> QED
    BY <1>1, <1>2, <1>3, NextCall DEF Working
-----------------------------------------------------------------------------
(* What a step does to the versions of the file.                            *)

LEMMA VersionsKept ==
    ASSUME IInv, NEW p \in Processes, Step(p), ~Save(p)
    PROVE  Versions' \subseteq Versions
  <1>1. file' = file
    BY DEF Step, Load, NewDraft, HashDraft, Verdict, Get, Remove, Copy,
           Environment, Dependencies, HashInstalled, Verify, Killed, diskVars
  <1>2. \A q \in Processes :
            process'[q].copy \in {process[q].copy, None, file}
    BY Moves DEF HasEnded, Idle, Advanced, Loaded
  <1> QED
    BY <1>1, <1>2 DEF Versions

LEMMA VersionSaved ==
    ASSUME IInv, NEW p \in Processes, Save(p)
    PROVE  /\ process[p].copy \in Versions
           /\ process[p].tool \in Tools
           /\ file' = [process[p].copy EXCEPT ![process[p].tool] =
                          Change(Call(p), process[p].copy[process[p].tool],
                                 process[p].hash)]
           /\ Call(p) \in ToolStates
           /\ Accepts(Call(p), process[p].copy[process[p].tool])
           /\ Versions' \subseteq Versions \cup {file'}
  <1> USE DEF IInv
  <1>1. process[p].copy # None /\ Call(p) \in ToolStates
    BY DEF Save
  <1>2. process[p].tool \in Tools
    BY <1>1, HasCall DEF Working, ToolStates
  <1>3. \A q \in Processes : process'[q].copy \in {process[q].copy, None}
    BY DEF Save, TypeOK
  <1> QED
    BY <1>1, <1>2, <1>3 DEF Save, Versions, Working

LEMMA VersionType ==
    ASSUME TypeOK, NEW f \in Versions
    PROVE  f \in [Tools -> Record]
  BY DEF TypeOK, Versions

\* The only record a save writes past approval is one of approved files.
LEMMA StepApproved ==
    ASSUME IInv, NEW p \in Processes, Step(p)
    PROVE  Approved'
  <1> USE DEF IInv
  <1>1. CASE ~Save(p)
    <2>1. consented' = consented
      BY <1>1 DEF Step, Load, NewDraft, HashDraft, Verdict, Get, Remove, Copy,
             Environment, Dependencies, HashInstalled, Verify, Killed
    <2> QED
      BY <1>1, <2>1, VersionsKept DEF Approved
  <1>2. CASE Save(p)
    <2> DEFINE t == process[p].tool
               old == process[p].copy[t]
               new == Change(Call(p), old, process[p].hash)
    <2>1. /\ process[p].copy \in Versions
          /\ t \in Tools
          /\ file' = [process[p].copy EXCEPT ![t] = new]
          /\ Accepts(Call(p), old)
          /\ Call(p) \in ToolStates
          /\ Versions' \subseteq Versions \cup {file'}
      BY <1>2, VersionSaved
    <2>2. process[p].copy \in [Tools -> Record]
      BY <2>1, VersionType
    <2>3. /\ consented \subseteq consented'
          /\ Call(p) = "approved" => <<t, new.hash>> \in consented'
      BY <1>2 DEF Save
    <2>4. new.state \in PastApproval => <<t, new.hash>> \in consented'
      <3>1. SUFFICES ASSUME new.state \in PastApproval, Call(p) # "approved"
                     PROVE  <<t, new.hash>> \in consented'
        BY <2>3
      <3>2. Call(p) \in {"installed", "enabled", "disabled"}
        BY <3>1 DEF Change, PastApproval
      <3>3. new.hash = old.hash
        BY <2>1, <2>2, <3>2 DEF Change, Record
      <3>4. old.state \in PastApproval
        BY <2>1, <2>2, <3>2
           DEF Accepts, CanTransition, AllowedTransitions, PastApproval,
               Record, ToolStates
      <3> QED
        BY <2>1, <2>3, <3>3, <3>4 DEF Approved
    <2>5. \A u \in Tools :
              file'[u].state \in PastApproval => <<u, file'[u].hash>> \in consented'
      BY <2>1, <2>2, <2>3, <2>4 DEF Approved
    <2> QED
      BY <2>1, <2>3, <2>5 DEF Approved
  <1> QED
    BY <1>1, <1>2
-----------------------------------------------------------------------------
(* Installing a tool.                                                       *)

LEMMA DiskMoves ==
    ASSUME IInv, NEW p \in Processes, Step(p), NEW t \in Tools
    PROVE  /\ env[t] => env'[t]
           /\ installed[t] # None =>
                \/ installed'[t] # None
                \/ Call(p) = "dependencies" /\ process[p].tool = t
  <1> USE DEF IInv
  <1>1. CASE Copy(p)
    BY <1>1 DEF Copy, TypeOK
  <1>2. CASE Environment(p)
    BY <1>2 DEF Environment, TypeOK
  <1>3. CASE Dependencies(p)
    BY <1>3 DEF Dependencies, TypeOK
  <1>4. CASE ~Copy(p) /\ ~Environment(p) /\ ~Dependencies(p)
    BY <1>4 DEF Step, Load, Save, NewDraft, HashDraft, Verdict, Get, Remove,
                HashInstalled, Verify, Killed, diskVars
  <1> QED
    BY <1>1, <1>2, <1>3, <1>4

\* Which record of which tool a save makes one that has files.
LEMMA SavesFiles ==
    ASSUME IInv, NEW p \in Processes, Save(p), NEW t \in Tools,
           file'[t].state \in HasFiles
    PROVE  \/ process[p].copy[t].state \in HasFiles
           \/ t = process[p].tool /\ Call(p) = "installed"
  <1> USE DEF IInv
  <1>1. process[p].copy \in [Tools -> Record]
    BY VersionSaved, VersionType
  <1>2. CASE t # process[p].tool
    BY <1>1, <1>2, VersionSaved
  <1>3. CASE t = process[p].tool
    <2>1. file'[t] = Change(Call(p), process[p].copy[t], process[p].hash)
      BY <1>1, <1>3, VersionSaved
    <2>2. Call(p) \in HasFiles
      BY <1>1, <2>1 DEF Change, HasFiles, Record
    <2>3. Call(p) \in {"enabled", "disabled"} =>
              process[p].copy[t].state \in HasFiles
      BY <1>1, <1>3, VersionSaved
         DEF Accepts, CanTransition, AllowedTransitions, HasFiles, Record,
             ToolStates
    <2> QED
      BY <1>3, <2>2, <2>3 DEF HasFiles
  <1> QED
    BY <1>2, <1>3

LEMMA StepThere ==
    ASSUME IInv, NEW p \in Processes, Step(p)
    PROVE  There'
  <1> USE DEF IInv
  <1>1. SUFFICES ASSUME NEW f \in Versions', NEW t \in Tools,
                        f[t].state \in HasFiles
                 PROVE  installed'[t] # None /\ env'[t]
    BY DEF There
  <1>2. CASE f \in Versions
    <2>1. installed[t] # None /\ env[t]
      BY <1>1, <1>2 DEF There
    <2>2. ~(Call(p) = "dependencies" /\ process[p].tool = t)
      BY <1>1, <1>2 DEF Alone, Installing
    <2> QED
      BY <2>1, <2>2, DiskMoves
  <1>3. CASE f \notin Versions
    <2>1. Save(p) /\ f = file'
      BY <1>3, VersionsKept, VersionSaved
    <2>2. installed' = installed /\ env' = env
      BY <2>1 DEF Save
    <2>3. CASE process[p].copy[t].state \in HasFiles
      BY <2>1, <2>2, <2>3, VersionSaved DEF There
    <2>4. CASE t = process[p].tool /\ Call(p) = "installed"
      BY <2>2, <2>4 DEF Alone, Installing
    <2> QED
      BY <1>1, <2>1, <2>3, <2>4, SavesFiles
  <1> QED
    BY <1>2, <1>3

\* A process comes to a call of an installation from the copy, which found
\* no files there, or from an earlier call of the same installation.
LEMMA Enters ==
    ASSUME IInv, NEW p \in Processes, Step(p), Call(p)' \in Installing
    PROVE  /\ ~Save(p)
           /\ process[p].tool \in Tools
           /\ process'[p].tool = process[p].tool
           /\ installed'[process[p].tool] # None
           /\ Call(p)' # "environment" => env'[process[p].tool]
           /\ \/ Call(p) \in Installing
              \/ installed[process[p].tool] = None
  <1> USE ToolFileAssumption DEF IInv
  <1> DEFINE t == process[p].tool
  <1>1. process[p].todo # <<>> /\ process'[p].todo # <<>>
    BY Moves DEF Call, Installing
  <1>2. t \in Tools /\ process'[p].tool = t
    BY <1>1, NextCall DEF Working
  <1>3. process'[p] # Idle
    BY <1>1 DEF Idle
  <1>4. ~Ended(p)
    BY <1>3 DEF Ended, TypeOK
  <1>5. CASE Call(p) = "copy"
    <2>1. Copy(p)
      BY <1>4, <1>5 DEF Step, Load, Save, NewDraft, HashDraft, Verdict, Get,
             Remove, Environment, Dependencies, HashInstalled, Verify, Killed,
             ToolStates
    <2>2. ~Save(p) /\ ~Loaded(p)
      BY <1>5 DEF Save, Loaded, ToolStates
    <2>3. Call(p)' = "environment"
      BY <1>5, <2>2, NextCall DEF Installing
    <2> QED
      BY <1>2, <1>4, <2>1, <2>2, <2>3 DEF Copy, TypeOK
  <1>6. CASE Call(p) = "environment"
    <2>1. Environment(p)
      BY <1>4, <1>6 DEF Step, Load, Save, NewDraft, HashDraft, Verdict, Get,
             Remove, Copy, Dependencies, HashInstalled, Verify, Killed,
             ToolStates
    <2>2. ~Save(p)
      BY <1>6 DEF Save, ToolStates
    <2> QED
      BY <1>2, <1>4, <1>6, <2>1, <2>2 DEF Environment, TypeOK, Alone, Installing
  <1>7. CASE Call(p) = "dependencies"
    <2>1. Dependencies(p)
      BY <1>4, <1>7 DEF Step, Load, Save, NewDraft, HashDraft, Verdict, Get,
             Remove, Copy, Environment, HashInstalled, Verify, Killed,
             ToolStates
    <2>2. ~Save(p)
      BY <1>7 DEF Save, ToolStates
    <2> QED
      BY <1>2, <1>4, <1>7, <2>1, <2>2 DEF Dependencies, Alone, Installing
  <1>8. CASE Loaded(p)
    <2>1. Call(p) = "installed" /\ Call(p)' = Call(p)
      BY <1>8, NextCall DEF Loaded, Installing, ToolStates
    <2>2. ~Save(p)
      <3>1. process'[p].todo = process[p].todo
        BY <1>8 DEF Loaded
      <3>2. Tail(process[p].todo) # process[p].todo
        <4>1. process[p].todo \in Seq(Calls)
          BY DEF TypeOK
        <4>2. /\ Len(process[p].todo) \in Nat
              /\ Len(Tail(process[p].todo)) = Len(process[p].todo) - 1
          BY <1>1, <4>1, HeadTailProperties
        <4>3. ASSUME Tail(process[p].todo) = process[p].todo PROVE FALSE
          <5>1. Len(Tail(process[p].todo)) = Len(process[p].todo)
            BY <4>3
          <5> QED  BY <4>2, <5>1
        <4> QED
          BY <4>3
      <3> QED
        BY <3>1, <3>2 DEF Save, TypeOK
    <2>3. Load(p)
      BY <1>4, <2>1, <2>2 DEF Step, NewDraft, HashDraft, Verdict, Get,
             Remove, Copy, Environment, Dependencies, HashInstalled, Verify,
             Killed
    <2> QED
      BY <1>2, <2>1, <2>2, <2>3 DEF Load, diskVars, Alone, Installing
  <1> QED
    BY <1>5, <1>6, <1>7, <1>8, NextCall DEF Installing

LEMMA StepAlone ==
    ASSUME IInv, NEW p \in Processes, Step(p)
    PROVE  Alone'
  <1> USE DEF IInv
  <1>1. SUFFICES ASSUME NEW q \in Processes, Call(q)' \in Installing
                 PROVE  (/\ installed[process[q].tool] # None
                         /\ Call(q) # "environment" => env[process[q].tool]
                         /\ \A f \in Versions : f[process[q].tool].state \notin HasFiles
                         /\ \A r \in Processes :
                               Call(r) \in Installing /\ process[r].tool = process[q].tool
                                   => r = q)'
    BY DEF Alone
  <1>2. \A r \in Processes \ {p} : process'[r] = process[r] /\ Call(r)' = Call(r)
    BY Moves DEF Call
  <1>3. CASE q = p
    <2> DEFINE t == process[p].tool
    <2>1. /\ ~Save(p)
          /\ t \in Tools
          /\ process'[p].tool = t
          /\ installed'[t] # None
          /\ Call(p)' # "environment" => env'[t]
          /\ Call(p) \in Installing \/ installed[t] = None
      BY <1>1, <1>3, Enters
    <2>2. \A f \in Versions : f[t].state \notin HasFiles
      BY <2>1 DEF Alone, There
    <2>3. \A r \in Processes \ {p} :
              ~(Call(r) \in Installing /\ process[r].tool = t)
      BY <2>1 DEF Alone
    <2> QED
      BY <1>2, <1>3, <2>1, <2>2, <2>3, VersionsKept
  <1>4. CASE q # p
    <2> DEFINE t == process[q].tool
    <2>1. /\ Call(q) \in Installing /\ Call(q)' = Call(q)
          /\ process'[q].tool = t
      BY <1>1, <1>2, <1>4
    <2>2. t \in Tools
      BY <2>1, HasCall DEF Working, Installing
    <2>3. ~(Call(p) \in Installing /\ process[p].tool = t)
      BY <1>4, <2>1 DEF Alone
    <2>4. installed[t] # None /\ \A f \in Versions : f[t].state \notin HasFiles
      BY <2>1 DEF Alone
    <2>5. installed'[t] # None
      BY <2>2, <2>3, <2>4, DiskMoves DEF Installing
    <2>6. Call(q)' # "environment" => env'[t]
      BY <2>1, <2>2, DiskMoves DEF Alone
    <2>7. \A f \in Versions' : f[t].state \notin HasFiles
      <3>1. CASE ~Save(p)
        BY <2>4, <3>1, VersionsKept
      <3>2. CASE Save(p)
        <4>1. file'[t].state \notin HasFiles
          BY <2>2, <2>3, <2>4, <3>2, SavesFiles, VersionSaved DEF Installing
        <4> QED
          BY <2>4, <3>2, <4>1, VersionSaved
      <3> QED
        BY <3>1, <3>2
    <2>8. ~(Call(p)' \in Installing /\ process'[p].tool = t)
      BY <2>3, <2>4, Enters
    <2>9. \A r \in Processes :
              Call(r)' \in Installing /\ process'[r].tool = t => r = q
      BY <1>2, <2>1, <2>8 DEF Alone
    <2> QED
      BY <2>1, <2>5, <2>6, <2>7, <2>9
  <1> QED
    BY <1>3, <1>4
-----------------------------------------------------------------------------
(* The steps that are not calls, and the invariant.                         *)

LEMMA Starts ==
    ASSUME IInv, NEW p \in Processes, NEW use \in Usage,
           Begin(p, use[1], use[2])
    PROVE  Working' /\ Approved' /\ There' /\ Alone'
  <1> USE ToolFileAssumption DEF IInv
  <1>1. use[1] \in ToolCommands /\ use[2] \in Tools
    OBVIOUS
  <1>2. /\ process'[p] = [Idle EXCEPT !.tool = use[2], !.todo = Program(use[1])]
        /\ \A q \in Processes \ {p} : process'[q] = process[q]
    BY DEF Begin, TypeOK
  <1>3. /\ process'[p].tool = use[2]
        /\ process'[p].todo = Program(use[1])
        /\ process'[p].copy = None
    BY <1>2 DEF Idle
  <1>4. /\ Ordered(process'[p].todo)
        /\ Call(p)' \notin Installing
    BY <1>1, <1>3, ProgramOrdered DEF Call
  <1>5. \A q \in Processes \ {p} : Call(q)' = Call(q)
    BY <1>2 DEF Call
  <1>6. Versions' \subseteq Versions
    BY <1>2, <1>3 DEF Versions, Begin, diskVars
  <1>7. Working'
    <2>1. ASSUME NEW q \in Processes, q # p
          PROVE  (/\ process[q].todo # <<>> => process[q].tool \in Tools
                  /\ Ordered(process[q].todo)
                  /\ process[q].copy # None =>
                        /\ Call(q) \in ToolStates
                        /\ Accepts(Call(q), process[q].copy[process[q].tool]))'
      BY <1>2, <1>5, <2>1 DEF Working
    <2> QED
      BY <1>1, <1>3, <1>4, <2>1 DEF Working
  <1>8. Approved' /\ There'
    BY <1>6 DEF Approved, There, Begin, diskVars
  <1>9. Alone'
    BY <1>2, <1>4, <1>5, <1>6 DEF Alone, Begin, diskVars
  <1> QED
    BY <1>7, <1>8, <1>9

LEMMA Edits ==
    ASSUME IInv, NEW t \in Tools, Edit(t)
    PROVE  Working' /\ Approved' /\ There' /\ Alone'
  <1> USE ToolFileAssumption DEF IInv
  <1>1. /\ UNCHANGED <<file, env, process, consented>>
        /\ \A u \in Tools : installed[u] # None => installed'[u] # None
    BY DEF Edit, TypeOK
  <1>2. \A q \in Processes : Call(q)' = Call(q)
    BY <1>1 DEF Call
  <1>3. Versions' = Versions
    BY <1>1 DEF Versions
  <1>4. \A q \in Processes : Call(q) \in Installing => process[q].tool \in Tools
    BY HasCall DEF Working, Installing
  <1>5. Working' /\ Approved' /\ There'
    BY <1>1, <1>2, <1>3 DEF Working, Approved, There
  <1>6. Alone'
    BY <1>1, <1>2, <1>3, <1>4 DEF Alone
  <1> QED
    BY <1>5, <1>6

LEMMA InitInv == Init => IInv
  <1> SUFFICES ASSUME Init PROVE IInv
    OBVIOUS
  <1> USE ToolFileAssumption
  <1>1. TypeOK
    BY DEF Init, TypeOK, NoRecord, Record, Idle
  <1>2. Working /\ Alone
    BY DEF Init, Working, Alone, Ordered, Idle, Call, Installing
  <1>3. Versions = {file}
    BY DEF Init, Versions, Idle
  <1>4. Approved /\ There
    BY <1>3 DEF Init, Approved, There, NoRecord, PastApproval, HasFiles
  <1> QED
    BY <1>1, <1>2, <1>4 DEF IInv

LEMMA NextInv == IInv /\ [Next]_vars => IInv'
  <1> SUFFICES ASSUME IInv, [Next]_vars PROVE IInv'
    OBVIOUS
  <1>1. TypeOK'
    BY NextType
  <1>2. ASSUME NEW p \in Processes, Step(p)
        PROVE  IInv'
    BY <1>1, <1>2, StepWorking, StepApproved, StepThere, StepAlone DEF IInv
  <1>3. ASSUME NEW p \in Processes, NEW use \in Usage, Begin(p, use[1], use[2])
        PROVE  IInv'
    BY <1>1, <1>3, Starts DEF IInv
  <1>4. ASSUME NEW t \in Tools, Edit(t)
        PROVE  IInv'
    BY <1>1, <1>4, Edits DEF IInv
  <1>5. CASE UNCHANGED vars
    BY <1>1, <1>5 DEF IInv, vars, diskVars, Working, Approved, There, Alone,
                      Versions, Call
  <1> QED
    BY <1>2, <1>3, <1>4, <1>5 DEF Next

LEMMA Invariant == Spec => []IInv
  BY InitInv, NextInv, PTL DEF Spec

\* The variables of the model have their types, whatever the commands and
\* the number of processes that call ToolStateStore.
THEOREM TypeCorrect == Spec => []TypeOK
  <1>1. IInv => TypeOK
    BY DEF IInv
  <1> QED
    BY <1>1, Invariant, PTL

\* ToolStateStore without a lock: updates are lost, but no record comes past
\* its approval with hashes the user has not approved.
THEOREM HashesApproved == Spec => []HashApproved
  <1>1. IInv => HashApproved
    BY DEF IInv, Approved, Versions, HashApproved
  <1> QED
    BY <1>1, Invariant, PTL

\* ToolCatalog.list_enabled and verify_integrity: what a registry is built
\* with has the content the user approved.
THEOREM RegistryApproved == Spec => []ListedApproved
  <1>1. IInv => ListedApproved
    <2> SUFFICES ASSUME IInv, NEW p \in Processes, Listed(p)
                 PROVE  <<process[p].tool, process[p].hash>> \in consented
      BY DEF ListedApproved
    <2>1. process[p].tool \in Tools
      BY HasCall DEF IInv, Working, Listed
    <2>2. /\ file[process[p].tool].state = "enabled"
          /\ file[process[p].tool].hash = process[p].hash
      BY DEF Listed, Broken
    <2> QED
      BY <2>1, <2>2 DEF IInv, Approved, Versions, PastApproval
  <1> QED
    BY <1>1, Invariant, PTL

\* ToolInstaller: two installations of one tool exclude each other by the
\* directory they copy to, and none takes away the files of a tool that is
\* recorded as installed.
THEOREM FilesStay == Spec => []FilesThere
  <1>1. IInv => FilesThere
    BY DEF IInv, There, Versions, FilesThere, HasFiles
  <1> QED
    BY <1>1, Invariant, PTL
=============================================================================
