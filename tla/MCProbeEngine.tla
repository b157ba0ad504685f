--------------------------- MODULE MCProbeEngine ----------------------------
(* Six candidates, u without a definition, b and c with the same one; the    *)
(* calls differ in the policy, the batch size and what was found before.     *)
EXTENDS ProbeEngine

CONSTANTS a, b, c, d, e, u, gone

MCKeys == {a, b, c, d, e, u}
MCEntries ==
    {[first |-> a, aliases |-> {}], [first |-> b, aliases |-> {c}],
     [first |-> d, aliases |-> {}], [first |-> e, aliases |-> {}]}

Plain ==
    [mode |-> "active", scanAll |-> FALSE, topN |-> 1, stability |-> FALSE, asap |-> FALSE,
     previous |-> {}, prefound |-> 0, prefoundPrevious |-> 0,
     concurrency |-> 2, batchSize |-> 1]
Stable ==
    [Plain EXCEPT !.stability = TRUE, !.topN = 2, !.previous = {a, c}]
MCCalls ==
    {Plain, Stable,
     [Plain EXCEPT !.mode = "missing"],
     [Plain EXCEPT !.mode = "tcp"],
     [Plain EXCEPT !.scanAll = TRUE, !.batchSize = AutoSize],
     [Plain EXCEPT !.topN = 2, !.prefound = 1, !.batchSize = 2],
     [Stable EXCEPT !.topN = 1, !.previous = {a}],
     [Stable EXCEPT !.previous = {a, b, gone}, !.prefound = 1, !.prefoundPrevious = 1],
     [Stable EXCEPT !.topN = 3, !.asap = TRUE, !.previous = {c, u}, !.batchSize = 2]}
=============================================================================
