--------------------------- MODULE GatewayClaims ----------------------------
(* What the plan of the gateway says of a session, stated as it says it.    *)
EXTENDS GatewaySession

\* Plan of the gateway, line 793: a restart of the gateway preserves the
\* session.  A reload that runs beside a message builds its agent from a
\* snapshot that lacks the message, and the next request saves that.
SessionPreserved == \A r \in answered : r \in saved[session[r]]
=============================================================================
