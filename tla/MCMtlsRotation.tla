--------------------------- MODULE MCMtlsRotation ---------------------------
(* TLC's instances of MtlsRotation: the .cfg files give the constants.      *)
EXTENDS MtlsRotation

Watcher == {"watcher"}
Provider == {"provider"}
BothSources == {"watcher", "provider"}
=============================================================================
