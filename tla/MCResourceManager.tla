-------------------------- MODULE MCResourceManager --------------------------
(***************************************************************************)
(* Instances of ResourceManager for TLC.                                   *)
(***************************************************************************)
EXTENDS ResourceManager

CONSTANTS p1, p2, zip

\* Two providers share an order, two an identifier.
MCOrder == p1 :> 1 @@ p2 :> 1 @@ zip :> 2
MCIdentifier == p1 :> "a" @@ p2 :> "b" @@ zip :> "a"
\* One provider after the archive.
SmallOrder == zip :> 1 @@ p1 :> 2
SmallIdentifier == p1 :> "a" @@ zip :> "b"
=============================================================================
