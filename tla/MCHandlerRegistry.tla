-------------------------- MODULE MCHandlerRegistry --------------------------
(* Three handlers: a first, a last and one in between, to be reordered,     *)
(* removed and added again under a running loop.                            *)
EXTENDS HandlerRegistry

ThreeHandlers == 1..3
==============================================================================
