--------------------------- MODULE MCMessageRouter ---------------------------
(* Instances of MessageRouter for TLC: the .cfg files give the constants.    *)
EXTENDS MessageRouter
=============================================================================
