---------------------------- MODULE ToolLifecycle ----------------------------
(***************************************************************************)
(* The life cycle of one local tool, tools/state.py: the states a record   *)
(* of ToolStateStore can hold and the transitions ToolStateStore.transition*)
(* accepts.  A tool that has no record is in the pseudo state "unknown".    *)
(***************************************************************************)

ToolStates ==
    {"draft", "validating", "validated", "approved", "installed",
     "enabled", "disabled", "broken", "rejected"}

\* ALLOWED_TRANSITIONS, the row of each current state.
AllowedTransitions(state) ==
    CASE state = "draft"      -> {"validating", "rejected"}
      [] state = "validating" -> {"validated", "rejected"}
      [] state = "validated"  -> {"approved", "rejected"}
      [] state = "approved"   -> {"installed", "rejected"}
      [] state = "installed"  -> {"enabled", "disabled", "broken"}
      [] state = "enabled"    -> {"disabled", "broken"}
      [] state = "disabled"   -> {"enabled", "broken"}
      [] state = "broken"     -> {"validated", "rejected"}
      [] OTHER                -> {}

\* transition() raises InvalidToolTransition (KeyError when there is no
\* record) exactly when this is false.
CanTransition(state, target) == target \in AllowedTransitions(state)
=============================================================================
