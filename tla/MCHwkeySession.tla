--------------------------- MODULE MCHwkeySession ---------------------------
(* Small instances of HwkeySession: the bounds are in the .cfg files.      *)
EXTENDS HwkeySession
=============================================================================
