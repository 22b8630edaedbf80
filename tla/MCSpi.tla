-------------------------------- MODULE MCSpi --------------------------------
(* Small instances of Spi: the bounds are in the .cfg files.               *)
EXTENDS Spi
=============================================================================
