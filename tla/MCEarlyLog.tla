---------------------------- MODULE MCEarlyLog ----------------------------
(* EarlyLog with a ring that overflows before the UART is mapped.          *)
EXTENDS EarlyLog
=============================================================================
