----------------------------- MODULE ProbeCall ------------------------------
(***************************************************************************)
(* What one call of probe_candidates promises its callers, the refresh and  *)
(* the ping cycle: verdicts appear for the candidates, each at most once;    *)
(* the call touches nothing of the caller's preemption switch; and it ends   *)
(* only when every candidate has its verdict, when the caller preempted it,  *)
(* or when the target of the stop policy is met.                            *)
(***************************************************************************)
EXTENDS Naturals, FiniteSets

CONSTANTS
    Keys,     \* the candidates of the call, by dedup key
    Entries,  \* the test definitions: [first, aliases], see ProbeEngine
    Calls     \* the arguments a call may have, see ProbeEngine

VARIABLES call, rows, cancel, ended

callVars == <<call, rows, cancel, ended>>

\* A folded candidate has no row: an equivalent one works and stands for it.
Verdicts == {"none", "up", "down", "folded"}

Untested == {k \in Keys : rows[k] = "none"}
UpRows == {k \in Keys : rows[k] = "up"}

\* The half of top_n that may have to come from the previous run's saved list.
Quorum(c) == c.topN - c.topN \div 2

\* Enough working configs are known and, when stability is prioritised, enough
\* of them worked before or all that worked before have been tested again.
TargetMet ==
    /\ call.mode = "active" /\ ~call.scanAll /\ call.topN # 0
    /\ Cardinality(UpRows) + call.prefound >= call.topN
    /\ LET kept == Cardinality(UpRows \cap call.previous) + call.prefoundPrevious
       IN  \/ ~call.stability
           \/ kept >= Quorum(call)
           \/ kept >= Cardinality(call.previous)
           \/ call.previous \cap Untested = {}

Init ==
    /\ call \in Calls
    /\ rows = [k \in Keys |-> "none"]
    /\ cancel = FALSE
    /\ ended = FALSE

\* Some candidates get their verdict, and keep it.
Report ==
    /\ ~ended
    /\ rows' \in [Keys -> Verdicts]
    /\ \A k \in Keys \ Untested : rows'[k] = rows[k]
    /\ \A k \in Keys : rows'[k] = "folded" =>
          \E e \in Entries : k \in e.aliases /\ rows'[e.first] = "up"
    /\ UNCHANGED <<call, cancel, ended>>

\* The caller preempts the call.
Preempt ==
    /\ cancel' = TRUE
    /\ UNCHANGED <<call, rows, ended>>

End ==
    /\ Untested = {} \/ cancel \/ TargetMet
    /\ ended' = TRUE
    /\ UNCHANGED <<call, rows, cancel>>

Next == Report \/ Preempt \/ End

Spec == Init /\ [][Next]_callVars
=============================================================================
