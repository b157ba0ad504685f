---- MODULE MCPreferences ----
(* Three settings: the proxy's port, its mode (off or on: switched and saved *)
(* at once) and the path of sing-box, which the defaults leave empty.  Three *)
(* releases: the second has another default port and another subscription,   *)
(* the third has both subscriptions.                                         *)
(* The HTTP server is bound to the second release's port, which the proxy    *)
(* may not use while it is on.                                               *)
EXTENDS Preferences
CONSTANTS port, mode, path, a, b, c

On(url) == [url |-> url, enabled |-> TRUE]
Set(p, m, s) == [f \in {port, mode, path} |-> CASE f = port -> p [] f = mode -> m [] f = path -> s]
MCValues == [f \in {port, mode, path} |-> IF f = port THEN 1..3 ELSE 0..1]
MCReleases == <<[fields |-> Set(1, 0, 0), subs |-> <<On(a)>>],
                [fields |-> Set(2, 0, 0), subs |-> <<On(b)>>],
                [fields |-> Set(2, 0, 0), subs |-> <<On(a), On(b)>>]>>
MCLegacy == [fields |-> Set(3, 0, 0), subs |-> <<On(c)>>]
MCConflicts == {Set(2, 1, s) : s \in 0..1}
Symmetry == Permutations(Slots)
====
