---------------------------- MODULE MCExternalPump ----------------------------
(***************************************************************************)
(* An instance of ExternalPump for TLC: requests at once, with delays below *)
(* and above the maximum, and one that equals the placeholder.             *)
(***************************************************************************)
EXTENDS ExternalPump

MCDelays == {-1, 0, 1, 2, 4, 9}
=============================================================================
