------------------------------ MODULE AgentClaims ------------------------------
(* What should be true of the actions the agent executes.                   *)
EXTENDS AgentTurn

\* An agent whose registry is up to date changes nothing without a yes,
\* whichever way the action came: planned, repeated after a timeout, answered
\* to a question, or left over in a plan after another was confirmed.  It reads;
\* and it starts programs, but only by the actions of its own that open a file,
\* an application or a page, which the registry allows.
UnaskedReadsOrOpens ==
    last # None /\ last.yes = 0 /\ ~last.stale =>
        \/ last.effect = "reads"
        \/ last.effect = "launches" /\ last.action.cap \in Launchers

\* A yes is good for one call.  A second one is the retry after a timeout, and
\* is made only of a tool that could change nothing the first time, unless
\* another version has been enabled since the agent was built.
OneCallPerYes ==
    \A i \in DOMAIN proposals :
        /\ calls[i] # <<>> => proposals[i].status = "approved"
        /\ Len(calls[i]) <= 2
        /\ Len(calls[i]) = 2 => calls[i][1].effect = "reads" \/ calls[i][1].stale

\* What is executed on the strength of a yes is what the user was shown, other
\* actions and questions having been dealt with in between; except that a
\* file.write whose file has gone may go to a file with a similar name.
EffectMatchesApproval ==
    last # None /\ last.yes # 0 =>
        LET a == proposals[last.yes].action IN
        \/ last.action = a
        \/ /\ a.cap = "file.write" /\ last.action.cap = a.cap
           /\ last.yes \in missing /\ <<a.path, last.action.path>> \in Alike

\* A request comes to an end, with an answer, a question or a proposal: a plan
\* is walked through once, a tool that hangs is given up, and a retry is not
\* retried.
TurnEnds == ~direct /\ turn # None ~> turn = None

-----------------------------------------------------------------------------
(* What the code does not do.                                                *)

\* The tool SDK design, line 240: a confirmation is asked for when there are
\* side effects.
EffectsConfirmed ==
    last # None /\ last.effect = "writes" => last.yes # 0

\* policy.py:55 of the recovery calls what needs no confirmation a read-only
\* action, but file.open, open_application and open_url start a program.
UnaskedIsReadOnly ==
    last # None /\ last.yes = 0 /\ ~last.stale => last.effect = "reads"

\* The file resolution design, lines 68 and 88: the user is shown the path
\* that was resolved, and a file is written only after the confirmation.
WrittenIsShown ==
    last # None /\ last.yes # 0 => last.action = proposals[last.yes].action

=============================================================================
