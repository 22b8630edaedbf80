----------------------------- MODULE MCGcmCrypt -----------------------------
(* Small instances of GcmCrypt: the bounds are in the .cfg file.           *)
EXTENDS GcmCrypt
=============================================================================
