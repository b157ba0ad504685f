------------------------- MODULE MCSubscriptionFetch -------------------------
(* SubscriptionFetch on small instances.                                     *)
EXTENDS SubscriptionFetch

CONSTANTS k1, k2, own

\* Overlapping documents; the last source waits for a free slot.
MCContent == <<{k1}, {k1, k2}, {k2}>>
MCStored == <<k2>>
MCEmergency == <<own>>
=============================================================================
