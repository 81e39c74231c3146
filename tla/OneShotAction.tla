---------------------------- MODULE OneShotAction ----------------------------
(***************************************************************************)
(* What the retry life cycle of a capability workflow promises: an action   *)
(* is offered, claimed once, run at most once while it is claimed, and      *)
(* finished; it is finished as executed only if it has run.  CapabilityWork- *)
(* flow implements it with retry_status and two compare-and-set updates,    *)
(* GatewaySession for its confirmations with one.                           *)
(***************************************************************************)
EXTENDS Naturals

CONSTANT Actions

VARIABLES
    phase,   \* the life cycle of each action (retry_status)
    runs     \* how often each action has run

Phases == {"pending", "executing", "executed", "failed"}

Init ==
    /\ phase = [a \in Actions |-> "pending"]
    /\ runs = [a \in Actions |-> 0]

Claim(a) ==
    /\ phase[a] = "pending"
    /\ phase' = [phase EXCEPT ![a] = "executing"]
    /\ UNCHANGED runs

Run(a) ==
    /\ phase[a] = "executing"
    /\ runs[a] = 0
    /\ runs' = [runs EXCEPT ![a] = 1]
    /\ UNCHANGED phase

Finish(a) ==
    /\ phase[a] = "executing"
    /\ \E final \in {"executed", "failed"} :
          /\ final = "executed" => runs[a] = 1
          /\ phase' = [phase EXCEPT ![a] = final]
    /\ UNCHANGED runs

Next == \E a \in Actions : Claim(a) \/ Run(a) \/ Finish(a)

Spec == Init /\ [][Next]_<<phase, runs>>
=============================================================================
