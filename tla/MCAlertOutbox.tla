---------------------------- MODULE MCAlertOutbox ----------------------------
(* Model values for AlertOutbox.                                           *)
EXTENDS AlertOutbox

CONSTANTS d1, d2
=============================================================================
