-------------------------------- MODULE MCInbox --------------------------------
(* One message and two decisions, one request beside the triage job. *)
EXTENDS InboxProperties
===============================================================================
