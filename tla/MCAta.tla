-------------------------------- MODULE MCAta --------------------------------
(* An instance of the ATA driver's load for TLC.                           *)
EXTENDS AtaProps

SomePins == {2, 8, 14, 15}
=============================================================================
