----------------------------- MODULE MCTerminal -----------------------------
(* Terminal on small instances.                                              *)
EXTENDS Terminal

CONSTANTS a, b, bad, n, t, m

\* The stored list, one row of it switched off.
MCRows == <<[url |-> a, name |-> n, on |-> TRUE, rank |-> 1],
            [url |-> b, name |-> n, on |-> FALSE, rank |-> 2]>>

Secret(protect, token) == [Defaults EXCEPT !.protect = protect, !.token = token]
Start(rows, set, max, changes) == [rows |-> rows, set |-> set, most |-> max, edits |-> changes]

\* A list to edit, of a first run; a token in the store, without protection,
\* with it, and protection that has none.
FirstRun == {Start(MCRows, Defaults, 3, 2)}
MCStarts ==
    FirstRun \cup
    {Start(<<>>, Secret(FALSE, t), 0, 3), Start(<<>>, Secret(TRUE, t), 0, 3),
     Start(<<>>, Secret(TRUE, NoToken), 1, 2)}
=============================================================================
