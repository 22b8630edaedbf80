------------------------------- MODULE MCHeci -------------------------------
(* Small instances of Heci: the bounds are in the .cfg files.              *)
EXTENDS Heci

(* A keybox whose bytes all differ, so that a byte out of place shows.     *)
MCKeybox == [i \in 0 .. FileSize-1 |-> 17 + i]
=============================================================================
