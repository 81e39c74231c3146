--------------------------- MODULE ToolStateFile ---------------------------
(***************************************************************************)
(* The state file of the local tools under several writers.                *)
(*                                                                         *)
(*   tools/state.py       ToolStateStore: load all records, change one,    *)
(*                        replace the file                                  *)
(*   tools/generator.py   drafts in quarantine, and their removal           *)
(*   tools/installer.py   copies, environments                              *)
(*   tools/catalog.py     what a registry is built from                     *)
(*   cli.py, capabilities/provisioning.py   the commands that call them     *)
(*                                                                         *)
(* ToolStateStore has no lock.  Request threads of the gateway and command *)
(* line processes use the same file; each call that writes is a load and a *)
(* save here, and the save puts back every other record as it was loaded.  *)
(***************************************************************************)
EXTENDS Naturals, Sequences, ToolLifecycle

CONSTANTS
    Tools,      \* name@version
    Contents,   \* what the files of a tool can hold; equal hash, equal content
    Processes,  \* request threads and command line processes
    Usage,      \* the <<command, tool>> pairs that are run
    MaxCommands,\* bound: commands begun
    MaxEdits,   \* bound: edits of a tool's files by the user
    None

ToolCommands ==
    {"register", "generate", "approve", "install", "enable", "disable",
     "accept", "expire", "list"}

ASSUME ToolFileAssumption ==
    /\ Usage \subseteq ToolCommands \X Tools
    /\ MaxCommands \in Nat
    /\ MaxEdits \in Nat
    /\ None \notin Contents

VARIABLES
    file,       \* tool-state.json: the record of each tool
    draft,      \* the files in quarantine, or in the user's own directory
    installed,  \* the files under tools_dir
    env,        \* whether the Python of the tool's environment exists
    process,    \* per process: the calls its command has still to make
    begun, edits,
    consented   \* history: <<tool, content>> the user approved

diskVars == <<file, draft, installed, env>>
vars == <<diskVars, process, begun, edits, consented>>

NoRecord == [state |-> "unknown", hash |-> None]

Record == [state : ToolStates \cup {"unknown"}, hash : Contents \cup {None}]

\* States in which the user has approved the files.
PastApproval == {"approved", "installed", "enabled", "disabled"}

Calls ==
    ToolStates \cup
    {"new_draft", "hash_draft", "verdict", "require_approved",
     "require_validated", "require_rejectable", "require_enabled", "copy",
     "environment", "dependencies", "remove", "hash_installed", "verify"}

Idle == [tool |-> None, todo |-> <<>>, copy |-> None, hash |-> None]

TypeOK ==
    /\ file \in [Tools -> Record]
    /\ draft \in [Tools -> Contents \cup {None}]
    /\ installed \in [Tools -> Contents \cup {None}]
    /\ env \in [Tools -> BOOLEAN]
    /\ process \in [Processes -> [tool : Tools \cup {None}, todo : Seq(Calls),
                                  copy : [Tools -> Record] \cup {None},
                                  hash : Contents \cup {None}]]
    /\ begun \in Nat
    /\ edits \in Nat
    /\ consented \subseteq Tools \X (Contents \cup {None})

Init ==
    /\ file = [t \in Tools |-> NoRecord]
    /\ draft \in [Tools -> Contents \cup {None}]
    /\ installed = [t \in Tools |-> None]
    /\ env = [t \in Tools |-> FALSE]
    /\ process = [p \in Processes |-> Idle]
    /\ begun = 0
    /\ edits = 0
    /\ consented = {}
-----------------------------------------------------------------------------
(* The commands, as the calls they make.  The name of a state stands for    *)
(* the call that writes it: register_draft, or transition to it; "broken"    *)
(* is the write of verify_integrity.                                         *)

\* tools_register, generate, tools_approve, install, tools_enable,
\* tools_disable, approve_install_enable, remove_quarantined, list_enabled.
Program(command) ==
    CASE command = "register" ->
            <<"hash_draft", "draft", "validating", "validated">>
      [] command = "generate" ->
            <<"new_draft", "hash_draft", "draft", "validating", "verdict">>
      [] command = "approve" -> <<"approved">>
      [] command = "install" ->
            <<"require_approved", "copy", "environment", "dependencies",
              "installed">>
      [] command = "enable"  -> <<"enabled">>
      [] command = "disable" -> <<"disabled">>
      [] command = "accept" ->
            <<"require_validated", "approved", "require_approved", "copy",
              "environment", "installed", "enabled">>
      [] command = "expire" -> <<"require_rejectable", "rejected", "remove">>
      [] command = "list" ->
            <<"require_enabled", "hash_installed", "verify">>

Call(p) == IF process[p].todo = <<>> THEN "none" ELSE Head(process[p].todo)

\* The call returned, the command goes on with the next one.
Returned(p) == process' = [process EXCEPT ![p].todo = Tail(@)]

GoesOn(p, todo) == process' = [process EXCEPT ![p].todo = todo]

\* The command ends: it is done, it raised, or the process was killed.
Ended(p) == process' = [process EXCEPT ![p] = Idle]

Begin(p, command, t) ==
    /\ process[p].todo = <<>>
    /\ begun < MaxCommands
    /\ begun' = begun + 1
    /\ process' = [process EXCEPT ![p] =
                      [Idle EXCEPT !.tool = t, !.todo = Program(command)]]
    /\ UNCHANGED <<diskVars, edits, consented>>

Killed(p) ==
    /\ process[p].todo # <<>>
    /\ Ended(p)
    /\ UNCHANGED <<diskVars, begun, edits, consented>>
-----------------------------------------------------------------------------
(* ToolStateStore.                                                          *)

\* Whether a call accepts the record it has loaded: register_draft replaces
\* any, verify_integrity any that exists, transition follows the table.
Accepts(call, record) ==
    CASE call = "draft"  -> TRUE
      [] call = "broken" -> record.state # "unknown"
      [] OTHER           -> CanTransition(record.state, call)

\* Seeded fault: registering again keeps the state of the old record.
Change_KeepsState(call, record, hash) ==
    IF call # "draft" THEN [record EXCEPT !.state = call]
    ELSE [state |-> IF record.state = "unknown" THEN "draft" ELSE record.state,
          hash |-> hash]

Change(call, record, hash) ==
    IF call = "draft" THEN [state |-> "draft", hash |-> hash]
    ELSE [record EXCEPT !.state = call]

\* _load, and the check that may raise.
Load(p) ==
    /\ Call(p) \in ToolStates
    /\ process[p].copy = None
    /\ IF Accepts(Call(p), file[process[p].tool])
       THEN process' = [process EXCEPT ![p].copy = file]
       ELSE Ended(p)
    /\ UNCHANGED <<diskVars, begun, edits, consented>>

\* _save: the temporary file replaces the file in one step.
Save(p) ==
    /\ Call(p) \in ToolStates
    /\ process[p].copy # None
    /\ LET call == Call(p)
           t == process[p].tool
           record == Change(call, process[p].copy[t], process[p].hash)
       IN /\ file' = [process[p].copy EXCEPT ![t] = record]
          /\ consented' = IF call = "approved"
                          THEN consented \cup {<<t, record.hash>>}
                          ELSE consented
    /\ process' = [process EXCEPT ![p].todo = Tail(@), ![p].copy = None]
    /\ UNCHANGED <<draft, installed, env, begun, edits>>
-----------------------------------------------------------------------------
(* What the commands do between the calls that write the file.             *)

\* generate: mkdir of the draft's directory, and its files.  A directory
\* that is there ends the command, with the draft or with an exception.
NewDraft(p) ==
    LET t == process[p].tool IN
    /\ Call(p) = "new_draft"
    /\ \/ /\ draft[t] = None
          /\ \E c \in Contents : draft' = [draft EXCEPT ![t] = c]
          /\ Returned(p)
       \/ /\ draft[t] # None
          /\ Ended(p)
          /\ UNCHANGED draft
    /\ UNCHANGED <<file, installed, env, begun, edits, consented>>

\* hash_tool_files, as the argument of register_draft: no files, no hashes.
HashDraft(p) ==
    /\ Call(p) = "hash_draft"
    /\ process' = [process EXCEPT ![p].todo = Tail(@),
                                  ![p].hash = draft[process[p].tool]]
    /\ UNCHANGED <<diskVars, begun, edits, consented>>

\* ToolValidator, then its report is written beside the draft.
Verdict(p) ==
    /\ Call(p) = "verdict"
    /\ IF draft[process[p].tool] = None
       THEN Ended(p)
       ELSE \E target \in {"validated", "rejected"} : GoesOn(p, <<target>>)
    /\ UNCHANGED <<diskVars, begun, edits, consented>>

\* What a command wants of the record it reads first.  list_enabled looks
\* at the tools whose files are under tools_dir.
Wanted(call, t) ==
    LET state == file[t].state IN
    CASE call = "require_approved"   -> state = "approved"
      [] call = "require_validated"  -> state = "validated"
      [] call = "require_rejectable" -> state \in {"validated", "rejected"}
      [] call = "require_enabled"    -> state = "enabled" /\ installed[t] # None
      [] OTHER                       -> FALSE

\* get.  A draft that is rejected already needs no transition; a tool that
\* is enabled and installed needs nothing, the other answers are errors.
Get(p) ==
    LET t == process[p].tool IN
    /\ Call(p) \in {"require_approved", "require_validated",
                    "require_rejectable", "require_enabled"}
    /\ IF ~Wanted(Call(p), t) THEN Ended(p)
       ELSE IF Call(p) = "require_rejectable" /\ file[t].state = "rejected"
            THEN GoesOn(p, <<"remove">>)
            ELSE Returned(p)
    /\ UNCHANGED <<diskVars, begun, edits, consented>>

\* shutil.rmtree of the draft.
Remove(p) ==
    /\ Call(p) = "remove"
    /\ draft' = [draft EXCEPT ![process[p].tool] = None]
    /\ Ended(p)
    /\ UNCHANGED <<file, installed, env, begun, edits, consented>>

\* Seeded fault: the copy is made over files that are there.
Copy_Merges(p) ==
    LET t == process[p].tool IN
    /\ Call(p) = "copy"
    /\ IF draft[t] # None
       THEN /\ installed' = [installed EXCEPT ![t] = draft[t]]
            /\ Returned(p)
       ELSE /\ Ended(p)
            /\ UNCHANGED installed
    /\ UNCHANGED <<file, draft, env, begun, edits, consented>>

\* shutil.copytree, which refuses a target that is there; one that is cut
\* short leaves what it has copied, and the command ends.
Copy(p) ==
    LET t == process[p].tool IN
    /\ Call(p) = "copy"
    /\ IF installed[t] = None /\ draft[t] # None
       THEN \/ /\ installed' = [installed EXCEPT ![t] = draft[t]]
               /\ Returned(p)
            \/ /\ \E c \in Contents : installed' = [installed EXCEPT ![t] = c]
               /\ Ended(p)
       ELSE /\ Ended(p)
            /\ UNCHANGED installed
    /\ UNCHANGED <<file, draft, env, begun, edits, consented>>

\* venv.create; what is left when it raises may hold a Python or not.
Environment(p) ==
    LET t == process[p].tool IN
    /\ Call(p) = "environment"
    /\ \/ /\ env' = [env EXCEPT ![t] = TRUE]
          /\ Returned(p)
       \/ /\ \E there \in {env[t], TRUE} : env' = [env EXCEPT ![t] = there]
          /\ Ended(p)
    /\ UNCHANGED <<file, draft, installed, begun, edits, consented>>

\* The packages of requirements.lock: none or installed; one without a hash,
\* which takes the copy back; or pip fails.
Dependencies(p) ==
    /\ Call(p) = "dependencies"
    /\ \/ Returned(p) /\ UNCHANGED installed
       \/ /\ installed' = [installed EXCEPT ![process[p].tool] = None]
          /\ Ended(p)
       \/ Ended(p) /\ UNCHANGED installed
    /\ UNCHANGED <<file, draft, env, begun, edits, consented>>

\* hash_tool_files of the installed files.
HashInstalled(p) ==
    /\ Call(p) = "hash_installed"
    /\ process' = [process EXCEPT ![p].todo = Tail(@),
                                  ![p].hash = installed[process[p].tool]]
    /\ UNCHANGED <<diskVars, begun, edits, consented>>

\* Seeded fault: a tool that is enabled is taken to be verified.
Broken_NotEnabled(record, hash) ==
    /\ record.hash # hash
    /\ record.state \notin {"draft", "validating", "enabled"}

\* verify_integrity finds that the files are not those of the record.
Broken(record, hash) ==
    /\ record.hash # hash
    /\ record.state \notin {"draft", "validating"}

\* verify_integrity returns the record, and list_enabled puts the tool,
\* whose environment has a Python, in the registry.
Listed(p) ==
    LET record == file[process[p].tool] IN
    /\ Call(p) = "verify"
    /\ ~Broken(record, process[p].hash)
    /\ record.state = "enabled"
    /\ env[process[p].tool]

\* The first load of verify_integrity, which raises without a record.
Verify(p) ==
    LET record == file[process[p].tool] IN
    /\ Call(p) = "verify"
    /\ IF record.state # "unknown" /\ Broken(record, process[p].hash)
       THEN GoesOn(p, <<"broken">>)
       ELSE Ended(p)
    /\ UNCHANGED <<diskVars, begun, edits, consented>>

\* The user, or a program of the user, changes files of a tool.
Edit(t) ==
    /\ edits < MaxEdits
    /\ edits' = edits + 1
    /\ \E c \in Contents :
          \/ /\ draft[t] # None
             /\ draft' = [draft EXCEPT ![t] = c]
             /\ UNCHANGED installed
          \/ /\ installed[t] # None
             /\ installed' = [installed EXCEPT ![t] = c]
             /\ UNCHANGED draft
    /\ UNCHANGED <<file, env, process, begun, consented>>

Step(p) ==
    \/ Load(p) \/ Save(p) \/ NewDraft(p) \/ HashDraft(p) \/ Verdict(p)
    \/ Get(p) \/ Remove(p) \/ Copy(p) \/ Environment(p) \/ Dependencies(p)
    \/ HashInstalled(p) \/ Verify(p) \/ Killed(p)

Next ==
    \/ \E p \in Processes : Step(p)
    \/ \E p \in Processes : \E use \in Usage : Begin(p, use[1], use[2])
    \/ \E t \in Tools : Edit(t)

Spec == Init /\ [][Next]_vars
-----------------------------------------------------------------------------
(* What is kept although updates are lost.                                 *)

\* A record that is past its approval has the hashes of files the user
\* approved, whatever was registered, disabled or written back in between:
\* a new registration starts again from draft.
HashApproved ==
    \A t \in Tools :
        file[t].state \in PastApproval => <<t, file[t].hash>> \in consented

\* A registry is built only with files that the user approved as they are,
\* although the installer copies them without comparing, the user may
\* change them, and another process may write an old record back.
ListedApproved ==
    \A p \in Processes :
        Listed(p) => <<process[p].tool, process[p].hash>> \in consented

\* A tool that is said to be installed, enabled or disabled has its files
\* and its Python, even when two commands install it at once.
FilesThere ==
    \A t \in Tools :
        file[t].state \in {"installed", "enabled", "disabled"} =>
            installed[t] # None /\ env[t]
-----------------------------------------------------------------------------
(* What is not kept.                                                       *)

\* "tool desabilitada nao pode ser chamada", the acceptance criteria of the
\* tool SDK design: only a command that enables it brings it back.
DisabledStays ==
    [][\A t \in Tools :
          file[t].state = "disabled" /\ file'[t].state = "enabled" =>
              \E p \in Processes :
                  Call(p) = "enabled" /\ process[p].tool = t]_vars
=============================================================================
