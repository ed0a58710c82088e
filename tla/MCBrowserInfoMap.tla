--------------------------- MODULE MCBrowserInfoMap ---------------------------
(* Two browsers with three ids each: an inner map may have a first, a middle *)
(* and a last entry, and a loop may leave one browser for the next.          *)
EXTENDS BrowserInfoMap

TwoBrowsers == 1..2
ThreeIds == 1..3
===============================================================================
