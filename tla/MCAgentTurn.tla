------------------------------ MODULE MCAgentTurn ------------------------------
(* Bounded instances of the agent's turns.                                   *)
EXTENDS AgentClaims

CONSTANTS fa, fb, t1

Do(cap, path) == [cap |-> cap, path |-> path]

MCAlike == {<<fa, fb>>, <<fb, fa>>}
MCPlans == {<<Do("file.write", fa)>>,
            <<Do("file.create", fb), Do(t1, None)>>,
            <<Do("file.read", fb), Do("file.delete_one", fb)>>,
            <<Do("file.open", fa), Do("file.move_many", fa)>>,
            <<Do("open_url", None), Do(t1, None)>>,
            <<Do(t1, None)>>}
MCQuestions == {Do("file.write", None)}

=============================================================================
