------------------------------- MODULE InfoSet -------------------------------
(* What CefBrowserInfoMap is to its users: a set of (browser, id) keys.      *)
CONSTANTS Browsers, Ids

VARIABLE keys

Init == keys = {}

Add(k) == keys' = keys \cup {k}
Remove(k) == keys' = keys \ {k}
RemoveBrowser(b) == keys' = {k \in keys : k[1] # b}

Next ==
  \/ \E k \in Browsers \X Ids : Add(k) \/ Remove(k)
  \/ \E b \in Browsers : RemoveBrowser(b)
  \/ keys' = {}

Spec == Init /\ [][Next]_keys
==============================================================================
