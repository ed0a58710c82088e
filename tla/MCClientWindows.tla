--------------------------- MODULE MCClientWindows ---------------------------
(* Instances of ClientWindows for TLC: the .cfg files give the constants.    *)
EXTENDS ClientWindows
=============================================================================
