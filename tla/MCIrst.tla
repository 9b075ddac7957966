------------------------------- MODULE MCIrst -------------------------------
(* One ICU and the two messages of irst's config.ini.  Four sequence numbers *)
(* let a stalled thread set the counter back past numbers already given out  *)
(* and let the counter wrap. *)
EXTENDS Irst

MCMessages == <<"status_report", "bit_report">>
=============================================================================
