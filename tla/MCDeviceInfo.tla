---------------------------- MODULE MCDeviceInfo ----------------------------
(* Small instances of DeviceInfo: the bounds are in the .cfg file.         *)
EXTENDS DeviceInfo, TLC

MCKeybox == [i \in 0 .. FileSize-1 |-> 17 + i]

(* The one that gets the keybox and one that does not call twice.          *)
MCMaxCalls == [a \in Apps |-> IF a \in {"keymaster", "secure_storage"} THEN 2 ELSE 1]

(* The blocks of the heap are alike.                                       *)
MCBlockSymmetry == Permutations(Blocks)
=============================================================================
