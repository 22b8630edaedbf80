--------------------------- MODULE MCSecureTimer ---------------------------
(* SecureTimer has no parameters: its states are all explored.             *)
EXTENDS SecureTimer
=============================================================================
