--------------------------- MODULE MCToolRegistry ---------------------------
(* TLC's instances of ToolRegistry: the .cfg files give the constants.      *)
EXTENDS ToolRegistry

AllKinds == {"stdio", "ws", "grpc", "http"}
=============================================================================
