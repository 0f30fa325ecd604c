---------------------------- MODULE MCConductor ----------------------------
(* TLC's instance of Conductor: the .cfg gives the constants.             *)
EXTENDS Conductor

BothModes == {"run", "stream"}
=============================================================================
