----------------------------- MODULE MemoryClaims -----------------------------
(* What should be true of the long-term memory.                             *)
EXTENDS MemoryStore

\* However many threads import the file, and wherever a gateway that imported
\* it was stopped, an entry has one row: what the read of
\* find_by_source_ref cannot promise, the UNIQUE column does.
ImportedOnce == \A l \in Learnings : imported[l] <= 1

\* A gateway that has its engine has imported every entry that has been in the
\* file since the gateway was started and that the policy lets pass, although
\* the engine is set by whichever thread is done, others may have failed, and
\* the file may have been edited or unreadable in the meantime.
EarlierImported ==
    runtime = "ready" => \A l \in lasting : l \in Blocked \/ HasRow(l)

\* The setting saves the learning without asking, it is no decision, and it was
\* said before, in directory d when it concerns a project.
SavedUnasked(l, d) ==
    /\ AutoSave /\ l \notin Decisions
    /\ \E e \in Dirs : <<l, e>> \in said /\ (l \in OfProject => e = d)

\* The planner is given nothing the user did not agree to keep at some time: a
\* learning was in the file once, confirmed at the terminal or written by the
\* user, or was saved unasked for the directory of this very request.
OnlyAgreed ==
    \A h \in Threads : \A l \in given[h] :
        l \in written \/ SavedUnasked(l, dir[h])

\* Nothing the policy blocks is in the table, whichever way it came.
NoSecretInTable ==
    /\ \A l \in Blocked : ~HasRow(l)
    /\ \A r \in observed : r.what \notin Blocked

\* Threads that build the engine at once make each other fail, yet not all of
\* them fail: once a thread starts to import a readable file, one of them ends
\* up setting the engine unless the gateway stops, SQLite fails or the file
\* becomes unreadable in the meantime.  What an earlier attempt has imported
\* does not prevent it, nor does an edit of the file.
EngineComes ==
    \A n \in 0..MaxFaults :
        (faults = n /\ readable /\ \E h \in Threads : pc[h] = "list")
            ~> (runtime = "ready" \/ faults # n)

-----------------------------------------------------------------------------
(* What the code does not do; the README names the run to try them in.       *)

\* tests/memory/test_migration.py: a migration that is repeated imports
\* nothing and goes through.  Repeated at once, it raises.
MigrationNeverFails == \A h \in Threads : faults = 0 => pc[h] # "failed"

\* /memories lists what the file has.  A learning the user has taken out of it
\* keeps its active row, and no command changes one: the planner is still
\* given it.
WithdrawnNotGiven ==
    [][\A h \in Threads : \A l \in given'[h] \ given[h] :
           l \in ToSet(file) \/ SavedUnasked(l, dir[h])]_vars

\* README.md line 308: passwords, tokens and credentials are not kept as a
\* memory, hence not given to the planner as one.
NoSecretGiven == \A h \in Threads : given[h] \cap Blocked = {}

=============================================================================
