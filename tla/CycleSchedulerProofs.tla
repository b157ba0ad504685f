----------------------- MODULE CycleSchedulerProofs -----------------------
(***************************************************************************)
(* Theorems about CycleScheduler, for every set of keys, every option and   *)
(* every set of faults, and about CycleTimers, for any configurations and   *)
(* any number of edits and triggers.                                        *)
(***************************************************************************)
EXTENDS CycleScheduler, CycleTimers, FiniteSetTheorems, TLAPS

\* The number of working rows of a list is a natural number.
LEMMA WorkingCount ==
    ASSUME NEW list \in RankedLists
    PROVE  /\ IsFiniteSet(Working(list))
           /\ Cardinality(Working(list)) \in Nat
<1>1. Working(list) \subseteq Keys
  BY DEF Working
<1>2. IsFiniteSet(Working(list))
  BY <1>1, KeysFinite, FS_Subset
<1> QED
  BY <1>2, FS_CardinalityType

\* The operators on ranked lists return ranked lists.
LEMMA ListOperators ==
    /\ NoRows \in RankedLists
    /\ \A S : \A list \in RankedLists : Only(list, S) \in RankedLists
    /\ \A first, second \in RankedLists : Merge(first, second) \in RankedLists
  BY DEF NoRows, RankedLists, Verdicts, Only, Merge

\* Whatever a result does to the live list leaves it a ranked list.
LEMMA LiveListsType ==
    ASSUME TypeOK, NEW t \in Tasks, NEW results \in RankedLists
    PROVE  LiveLists(t, results) \subseteq RankedLists
<1>1. \A S : [k \in Keys |-> IF k \in S THEN "up" ELSE "none"] \in RankedLists
  BY DEF RankedLists, Verdicts
<1>2. \A list, new : AsapLists(list, new) \subseteq RankedLists
  BY <1>1 DEF AsapLists
<1>3. \A new : HalfSnapshots(results, new) \subseteq RankedLists
  BY ListOperators DEF HalfSnapshots
<1> QED
  BY <1>2, <1>3 DEF LiveLists, TypeOK

\* What a ping may publish is a ranked list.
LEMMA PingResultsType ==
    ASSUME TypeOK
    PROVE  PingResults \subseteq RankedLists
<1>1. tested["ping"] \in RankedLists /\ prev["ping"] \in RankedLists
  BY DEF TypeOK, Tasks
<1> QED
  BY <1>1, ListOperators DEF PingResults

-----------------------------------------------------------------------------
LEMMA TypeInit == Init => TypeOK
<1> SUFFICES ASSUME Init PROVE TypeOK
  OBVIOUS
<1>1. pc \in [Tasks -> RefreshPlaces \cup PingPlaces]
      /\ pc["refresh"] \in RefreshPlaces /\ pc["ping"] \in PingPlaces
  BY DEF Init, Tasks, RefreshPlaces, PingPlaces
<1>2. /\ prev \in [Tasks -> RankedLists] /\ found \in [Tasks -> RankedLists]
      /\ tested \in [Tasks -> RankedLists]
      /\ carry \in [taken : BOOLEAN, rows : RankedLists, reachable : Nat]
  BY ListOperators DEF Init, NoCarry
<1>3. /\ queue \in [Tasks -> SUBSET Keys] /\ excluded \in [Tasks -> SUBSET Keys]
      /\ half \in [Tasks -> BOOLEAN]
  BY DEF Init
<1> QED
  BY <1>1, <1>2, <1>3, ListOperators DEF Init, TypeOK

\* The locals a pass starts with are well typed.
LEMMA ForgetType ==
    ASSUME TypeOK, NEW t \in Tasks, Forget(t)
    PROVE  /\ prev' \in [Tasks -> RankedLists] /\ found' \in [Tasks -> RankedLists]
           /\ tested' \in [Tasks -> RankedLists]
           /\ queue' \in [Tasks -> SUBSET Keys] /\ excluded' \in [Tasks -> SUBSET Keys]
           /\ half' \in [Tasks -> BOOLEAN]
           /\ carry' \in [taken : BOOLEAN, rows : RankedLists, reachable : Nat]
           /\ fetch' \in [empty : BOOLEAN, errors : BOOLEAN]
           /\ spent' \in Nat /\ seenPinging' \in BOOLEAN
           /\ outcome' \in {"finished", "failed", "preempted"}
<1>1. /\ prev' \in [Tasks -> RankedLists] /\ found' \in [Tasks -> RankedLists]
      /\ tested' \in [Tasks -> RankedLists]
  BY ListOperators DEF TypeOK, Forget
<1>2. /\ queue' \in [Tasks -> SUBSET Keys] /\ excluded' \in [Tasks -> SUBSET Keys]
      /\ half' \in [Tasks -> BOOLEAN]
  BY DEF TypeOK, Forget
<1>3. CASE t = "ping"
  BY <1>1, <1>2, <1>3 DEF TypeOK, Forget
<1>4. CASE t # "ping"
  <2>1. NoCarry \in [taken : BOOLEAN, rows : RankedLists, reachable : Nat]
    BY ListOperators DEF NoCarry
  <2>2. /\ carry' = NoCarry /\ fetch' = [empty |-> TRUE, errors |-> FALSE]
        /\ spent' = 0 /\ seenPinging' = FALSE /\ outcome' = outcome
    BY <1>4 DEF Forget
  <2>3. /\ fetch' \in [empty : BOOLEAN, errors : BOOLEAN] /\ spent' \in Nat
        /\ seenPinging' \in BOOLEAN /\ outcome' \in {"finished", "failed", "preempted"}
    BY <2>2 DEF TypeOK
  <2> QED
    BY <1>1, <1>2, <2>1, <2>2, <2>3
<1> QED
  BY <1>3, <1>4

LEMMA TypeStep == TypeOK /\ [Next]_vars => TypeOK'
<1> SUFFICES ASSUME TypeOK, [Next]_vars PROVE TypeOK'
  OBVIOUS
<1> USE DEF Tasks
<1>1. ASSUME NEW t \in Tasks, NEW k \in Keys, NEW verdict \in {"up", "down"},
             ProbeOne(t, k, verdict)
      PROVE  TypeOK'
  <2>1. found' \in [Tasks -> RankedLists] /\ found'[t] \in RankedLists
    BY <1>1 DEF TypeOK, ProbeOne, RankedLists, Verdicts
  <2>2. ranked' \in RankedLists
    BY <1>1, <2>1, LiveListsType DEF ProbeOne
  <2>3. half' \in [Tasks -> BOOLEAN]
    BY <1>1 DEF TypeOK, ProbeOne, HalfDue
  <2> QED
    BY <1>1, <2>1, <2>2, <2>3 DEF TypeOK, ProbeOne
<1>2. ASSUME NEW t \in Tasks, NEW place, ProbeReturns(t, place),
             place \in IF t = "refresh" THEN RefreshPlaces ELSE PingPlaces
      PROVE  TypeOK'
  <2>1. tested' \in [Tasks -> RankedLists] /\ found' \in [Tasks -> RankedLists]
    BY <1>2, ListOperators DEF TypeOK, ProbeReturns
  <2>2. excluded' \in [Tasks -> SUBSET Keys]
    BY <1>2 DEF TypeOK, ProbeReturns, RowKeys
  <2> QED
    BY <1>2, <2>1, <2>2 DEF TypeOK, ProbeReturns, Goto
<1>3. ASSUME NEW t \in Tasks, Feed(t) PROVE TypeOK'
  BY <1>3, ForgetType DEF TypeOK, Feed, Goto, state, RefreshPlaces, PingPlaces
<1>4. CASE RefreshCycle
  <2>1. CASE RefreshEnters \/ RefreshPreempts \/ RefreshAnnounces
    <3>1. CASE RefreshEnters
      BY <3>1 DEF TypeOK, RefreshEnters, Goto, state, locals, RefreshPlaces
    <3>2. CASE RefreshPreempts
      BY <3>2 DEF TypeOK, RefreshPreempts, Goto, state, locals, RefreshPlaces
    <3>3. CASE RefreshAnnounces
      BY <3>3 DEF TypeOK, RefreshAnnounces, Goto, state, locals, RefreshPlaces
    <3> QED
      BY <2>1, <3>1, <3>2, <3>3
  <2>2. CASE RefreshAcquires
    BY <2>2, ListOperators DEF TypeOK, RefreshAcquires, Goto, state, NoCarry, RefreshPlaces,
                               RefreshInside
  <2>3. CASE RefreshStarts
    BY <2>3, ListOperators DEF TypeOK, RefreshStarts, Goto, locals, RefreshPlaces, RefreshInside
  <2>4. CASE RefreshFetches
    BY <2>4 DEF TypeOK, RefreshFetches, Goto, state, RowKeys, RefreshPlaces, RefreshInside
  <2>5. CASE RefreshBridges
    BY <2>5 DEF TypeOK, RefreshBridges, Goto, state, RefreshPlaces, RefreshInside
  <2>6. CASE RefreshProbes
    BY <2>6, <1>1 DEF RefreshProbes
  <2>7. CASE RefreshProbed
    BY <2>7, <1>2 DEF RefreshProbed, RefreshPlaces, RefreshInside
  <2>8. CASE RefreshFallsBack
    <3>1. PICK batch \in SUBSET (Keys \ excluded["refresh"]) :
             /\ Cardinality(batch) \in 1 .. FallbackBatch
             /\ spent' = spent + Cardinality(batch)
             /\ ProbeMore("refresh", batch)
      BY <2>8 DEF RefreshFallsBack
    <3>2. spent' \in Nat
      BY <3>1, LimitsNatural DEF TypeOK
    <3> QED
      BY <2>8, <3>1, <3>2 DEF TypeOK, RefreshFallsBack, ProbeMore, Goto, state, RefreshPlaces,
                              RefreshInside
  <2>9. CASE RefreshConcludes
    BY <2>9 DEF TypeOK, RefreshConcludes, Goto, state, RefreshPlaces, RefreshInside
  <2>10. CASE RefreshPublishes
    <3>1. ranked' \in RankedLists /\ reachable' \in Nat
      BY <2>10, ListOperators, WorkingCount DEF TypeOK, RefreshPublishes, RefreshResult
    <3> QED
      BY <2>10, <3>1 DEF TypeOK, RefreshPublishes, Goto, locals, RefreshPlaces
  <2>11. CASE RefreshFails
    <3>1. lock' = "free" /\ Goto("refresh", "record") /\ UNCHANGED <<cancel, state, lastUp, locals>>
      BY <2>11 DEF RefreshFails
    <3> QED
      BY <3>1 DEF TypeOK, Goto, state, locals, RefreshPlaces
  <2>13. CASE RefreshRecordsError
    BY <2>13 DEF TypeOK, RefreshRecordsError, Goto, locals, RefreshPlaces
  <2>12. CASE Feed("refresh")
    BY <2>12, <1>3
  <2> QED
    BY <1>4, <2>1, <2>2, <2>3, <2>4, <2>5, <2>6, <2>7, <2>8, <2>9, <2>10, <2>11, <2>12,
       <2>13
    DEF RefreshCycle
<1>5. CASE PingCycle
  <2>1. CASE PingSkips
    BY <2>1 DEF TypeOK, PingSkips, Goto, state, PingPlaces
  <2>11. CASE PingAcquires
    BY <2>11 DEF TypeOK, PingAcquires, Goto, state, RowKeys, PingPlaces, PingInside
  <2>12. CASE PingStarts
    BY <2>12 DEF TypeOK, PingStarts, Goto, locals, PingPlaces, PingInside
  <2>2. CASE PingProbes
    BY <2>2, <1>1 DEF PingProbes
  <2>3. CASE PingProbed
    BY <2>3, <1>2 DEF PingProbed, PingPlaces, PingInside
  <2>4. CASE PingBackfills
    BY <2>4 DEF TypeOK, PingBackfills, ProbeMore, Goto, state, PingPlaces, PingInside
  <2>5. CASE PingBackfilled \/ PingFinishes
    BY <2>5 DEF TypeOK, PingBackfilled, PingFinishes, Goto, state, locals, PingPlaces, PingInside
  <2>6. CASE PingPreempted
    <3>1. ranked' \in RankedLists /\ reachable' \in Nat
      BY <2>6, WorkingCount DEF TypeOK, PingPreempted
    <3> QED
      BY <2>6, <3>1 DEF TypeOK, PingPreempted, PingReturns, Goto, PingPlaces
  <2>7. CASE PingPublishes
    <3>1. ranked' \in RankedLists /\ reachable' \in Nat
      BY <2>7, WorkingCount, PingResultsType DEF PingPublishes
    <3> QED
      BY <2>7, <3>1 DEF TypeOK, PingPublishes, PingReturns, Goto, PingPlaces
  <2>8. CASE PingFails
    BY <2>8 DEF TypeOK, PingFails, PingReturns, Goto, PingPlaces
  <2>9. CASE PingClears
    <3>1. CASE outcome = "preempted"
      <4>1. Forget("ping") /\ Goto("ping", "idle") /\ pinging' = FALSE
            /\ UNCHANGED <<lock, cancel, refreshing, ranked, reachable, lastUp>>
        BY <2>9, <3>1 DEF PingClears
      <4> QED
        BY <4>1, ForgetType DEF TypeOK, Goto, PingPlaces
    <3>2. CASE outcome # "preempted"
      <4>1. /\ UNCHANGED <<lock, cancel, refreshing, ranked, reachable, lastUp>>
            /\ UNCHANGED <<prev, queue, found, tested, half, excluded, carry, fetch>>
            /\ UNCHANGED <<spent, seenPinging, outcome>>
            /\ pinging' = FALSE
        BY <2>9, <3>2 DEF PingClears, locals
      <4>2. /\ pc' \in [Tasks -> RefreshPlaces \cup PingPlaces]
            /\ pc'["refresh"] \in RefreshPlaces /\ pc'["ping"] \in PingPlaces
        BY <2>9, <3>2 DEF TypeOK, PingClears, Goto, PingPlaces, Tasks
      <4> QED
        BY <4>1, <4>2 DEF TypeOK
    <3> QED
      BY <3>1, <3>2
  <2>10. CASE Feed("ping")
    BY <2>10, <1>3
  <2> QED
    BY <1>5, <2>1, <2>2, <2>3, <2>4, <2>5, <2>6, <2>7, <2>8, <2>9, <2>10, <2>11,
       <2>12 DEF PingCycle
<1>6. CASE RefreshBegins \/ ConfigEdited \/ PingTimerFires \/ PingTriggered
  BY <1>6 DEF TypeOK, RefreshBegins, ConfigEdited, PingTimerFires, PingTriggered, Goto, state,
              locals, RefreshPlaces, PingPlaces
<1>7. CASE UNCHANGED vars
  BY <1>7 DEF TypeOK, vars
<1> QED
  BY <1>4, <1>5, <1>6, <1>7 DEF Next

\* Every state of every behaviour is well typed.
THEOREM TypeCorrect == Spec => []TypeOK
<1>1. Init => TypeOK
  BY TypeInit
<1>2. TypeOK /\ [Next]_vars => TypeOK'
  BY TypeStep
<1> QED
  BY <1>1, <1>2, PTL DEF Spec

-----------------------------------------------------------------------------
(* The mutex, the cancel flag and the refreshing flag.                       *)

LEMMA SchedulingInit == Init => CyclesInTurn
  BY DEF Init, CyclesInTurn, CyclesSerialised, CancelHasRefreshBehind, RefreshingHasOwner, Tasks,
         RefreshInside, PingInside

LEMMA SchedulingStep == TypeOK /\ CyclesInTurn /\ [Next]_vars => CyclesInTurn'
<1> SUFFICES ASSUME TypeOK, CyclesInTurn, [Next]_vars PROVE CyclesInTurn'
  OBVIOUS
<1>0. pc \in [Tasks -> RefreshPlaces \cup PingPlaces] /\ "refresh" \in Tasks /\ "ping" \in Tasks
  BY DEF TypeOK, Tasks
<1> USE DEF CyclesInTurn, CyclesSerialised, CancelHasRefreshBehind, RefreshingHasOwner,
            RefreshInside, PingInside, Goto
<1>1. CASE RefreshCycle
  <2>1. CASE RefreshEnters \/ RefreshPreempts \/ RefreshAnnounces
    BY <2>1, <1>0 DEF RefreshEnters, RefreshPreempts, RefreshAnnounces, state, locals
  <2>2. CASE RefreshAcquires
    BY <2>2, <1>0 DEF RefreshAcquires, state
  <2>3. CASE RefreshStarts
    BY <2>3, <1>0 DEF RefreshStarts
  <2>4. CASE RefreshFetches \/ RefreshBridges
    BY <2>4, <1>0 DEF RefreshFetches, RefreshBridges, state
  <2>5. CASE RefreshProbes
    BY <2>5, <1>0 DEF RefreshProbes, ProbeOne
  <2>6. CASE RefreshProbed
    BY <2>6, <1>0 DEF RefreshProbed, ProbeReturns
  <2>7. CASE RefreshFallsBack
    BY <2>7, <1>0 DEF RefreshFallsBack, ProbeMore, state
  <2>8. CASE RefreshConcludes
    BY <2>8, <1>0 DEF RefreshConcludes, state
  <2>9. CASE RefreshPublishes
    <3>1. /\ pc["refresh"] = "publish" /\ lock' = "free" /\ refreshing' = FALSE
          /\ cancel' = cancel /\ pc' = [pc EXCEPT !["refresh"] = "feed"]
      BY <2>9 DEF RefreshPublishes
    <3> QED
      BY <3>1, <1>0
  <2>10. CASE RefreshFails
    <3>1. /\ pc["refresh"] \in RefreshInside /\ lock' = "free" /\ refreshing' = refreshing
          /\ cancel' = cancel /\ pc' = [pc EXCEPT !["refresh"] = "record"]
      BY <2>10 DEF RefreshFails, state
    <3> QED
      BY <3>1, <1>0
  <2>11. CASE RefreshRecordsError
    BY <2>11, <1>0 DEF RefreshRecordsError
  <2>12. CASE Feed("refresh")
    BY <2>12, <1>0 DEF Feed, state
  <2> QED
    BY <1>1, <2>1, <2>2, <2>3, <2>4, <2>5, <2>6, <2>7, <2>8, <2>9, <2>10, <2>11, <2>12
    DEF RefreshCycle
<1>2. CASE PingCycle
  <2>1. CASE PingSkips
    BY <2>1, <1>0 DEF PingSkips, state
  <2>2. CASE PingAcquires
    BY <2>2, <1>0 DEF PingAcquires, LockAvailable, state
  <2>3. CASE PingStarts
    BY <2>3, <1>0 DEF PingStarts
  <2>4. CASE PingProbes
    BY <2>4, <1>0 DEF PingProbes, ProbeOne
  <2>5. CASE PingProbed
    BY <2>5, <1>0 DEF PingProbed, ProbeReturns
  <2>6. CASE PingBackfills
    BY <2>6, <1>0 DEF PingBackfills, ProbeMore, state
  <2>7. CASE PingBackfilled \/ PingFinishes
    BY <2>7, <1>0 DEF PingBackfilled, PingFinishes, state
  <2>8. CASE PingPreempted \/ PingPublishes \/ PingFails
    <3>1. /\ pc["ping"] \in PingInside /\ lock' = "free" /\ refreshing' = refreshing
          /\ cancel' = cancel /\ pc' = [pc EXCEPT !["ping"] = "clear"]
      BY <2>8 DEF PingPreempted, PingPublishes, PingFails, PingReturns
    <3> QED
      BY <3>1, <1>0
  <2>9. CASE PingClears
    <3>1. /\ pc["ping"] = "clear" /\ UNCHANGED <<lock, cancel, refreshing>>
          /\ \/ pc' = [pc EXCEPT !["ping"] = "idle"]
             \/ pc' = [pc EXCEPT !["ping"] = "feed"]
      BY <2>9 DEF PingClears
    <3> QED
      BY <3>1, <1>0
  <2>10. CASE Feed("ping")
    BY <2>10, <1>0 DEF Feed, state
  <2> QED
    BY <1>2, <2>1, <2>2, <2>3, <2>4, <2>5, <2>6, <2>7, <2>8, <2>9, <2>10 DEF PingCycle
<1>3. CASE RefreshBegins \/ ConfigEdited \/ PingTimerFires \/ PingTriggered
  BY <1>3, <1>0 DEF RefreshBegins, ConfigEdited, PingTimerFires, PingTriggered, state
<1>4. CASE UNCHANGED vars
  BY <1>4 DEF vars
<1> QED
  BY <1>1, <1>2, <1>3, <1>4 DEF Next

\* The cycle mutex serialises the cycles; a set cancel flag has a refresh
\* behind it; `refreshing` is set only by a refresh under way.
THEOREM SchedulingCorrect == Spec => []CyclesInTurn
<1>1. Init => TypeOK /\ CyclesInTurn
  BY TypeInit, SchedulingInit
<1>2. TypeOK /\ CyclesInTurn /\ [Next]_vars => (TypeOK /\ CyclesInTurn)'
  BY TypeStep, SchedulingStep
<1> QED
  BY <1>1, <1>2, PTL DEF Spec

-----------------------------------------------------------------------------
(* Refinement of the abstract mutex.                                         *)

\* A step that leaves the holder alone and keeps the refresh queued, or not
\* queued, as it was is a stutter of the abstract mutex.
LEMMA MutexStutter ==
    ASSUME lock' = lock, pc'["refresh"] = "queued" <=> pc["refresh"] = "queued"
    PROVE  UNCHANGED Mutex!abstractVars
  BY DEF Mutex!abstractVars

LEMMA MutexStep ==
    TypeOK /\ CyclesInTurn /\ [Next]_vars => Mutex!MutexNext \/ UNCHANGED Mutex!abstractVars
<1> SUFFICES ASSUME TypeOK, CyclesInTurn, [Next]_vars
             PROVE  Mutex!MutexNext \/ UNCHANGED Mutex!abstractVars
  OBVIOUS
<1>0. /\ pc \in [Tasks -> RefreshPlaces \cup PingPlaces] /\ Tasks = {"refresh", "ping"}
      /\ pc["refresh"] \in RefreshInside <=> lock = "refresh"
      /\ pc["ping"] \in PingInside <=> lock = "ping"
  BY DEF TypeOK, Tasks, CyclesInTurn, CyclesSerialised
<1> USE DEF Goto, RefreshInside, PingInside
<1>1. CASE RefreshCycle
  <2>1. CASE RefreshEnters
    <3>1. CASE pc'["refresh"] = "queued"
      <4>1. Mutex!RefreshWaits
        BY <2>1, <3>1, <1>0 DEF RefreshEnters, Mutex!RefreshWaits
      <4> QED
        BY <4>1 DEF Mutex!MutexNext
    <3>2. CASE pc'["refresh"] # "queued"
      BY <2>1, <3>2, <1>0, MutexStutter DEF RefreshEnters
    <3> QED
      BY <3>1, <3>2
  <2>2. CASE RefreshAnnounces
    <3>1. Mutex!RefreshWaits
      BY <2>2, <1>0 DEF RefreshAnnounces, Mutex!RefreshWaits
    <3> QED
      BY <3>1 DEF Mutex!MutexNext
  <2>3. CASE RefreshAcquires
    <3>1. Mutex!RefreshEntersCycle
      BY <2>3, <1>0 DEF RefreshAcquires, Mutex!RefreshEntersCycle
    <3> QED
      BY <3>1 DEF Mutex!MutexNext
  <2>4. CASE RefreshPublishes \/ RefreshFails
    <3>1. lock = "refresh" /\ lock' = "free" /\ pc["refresh"] # "queued" /\ pc'["refresh"] # "queued"
      BY <2>4, <1>0 DEF RefreshPublishes, RefreshFails
    <3>2. Mutex!CycleLeft
      BY <3>1 DEF Mutex!CycleLeft
    <3> QED
      BY <3>2 DEF Mutex!MutexNext
  <2>5. CASE RefreshPreempts \/ RefreshStarts \/ RefreshFetches \/ RefreshBridges
    BY <2>5, <1>0, MutexStutter
    DEF RefreshPreempts, RefreshStarts, RefreshFetches, RefreshBridges
  <2>6. CASE RefreshProbes \/ RefreshProbed
    BY <2>6, <1>0, MutexStutter DEF RefreshProbes, ProbeOne, RefreshProbed, ProbeReturns
  <2>7. CASE RefreshFallsBack \/ RefreshConcludes
    BY <2>7, <1>0, MutexStutter DEF RefreshFallsBack, ProbeMore, RefreshConcludes
  <2>8. CASE RefreshRecordsError \/ Feed("refresh")
    BY <2>8, <1>0, MutexStutter DEF RefreshRecordsError, Feed
  <2> QED
    BY <1>1, <2>1, <2>2, <2>3, <2>4, <2>5, <2>6, <2>7, <2>8 DEF RefreshCycle
<1>2. CASE PingCycle
  <2>1. CASE PingAcquires
    <3>1. Mutex!PingEntersCycle
      BY <2>1, <1>0 DEF PingAcquires, LockAvailable, Mutex!PingEntersCycle
    <3> QED
      BY <3>1 DEF Mutex!MutexNext
  <2>2. CASE PingPreempted \/ PingPublishes \/ PingFails
    <3>1. lock = "ping" /\ lock' = "free" /\ pc'["refresh"] = pc["refresh"]
      BY <2>2, <1>0 DEF PingPreempted, PingPublishes, PingFails, PingReturns
    <3>2. Mutex!CycleLeft
      BY <3>1 DEF Mutex!CycleLeft
    <3> QED
      BY <3>2 DEF Mutex!MutexNext
  <2>3. CASE PingSkips \/ PingStarts \/ PingProbes \/ PingProbed
    BY <2>3, <1>0, MutexStutter DEF PingSkips, PingStarts, PingProbes, ProbeOne, PingProbed,
                                    ProbeReturns
  <2>4. CASE PingBackfills \/ PingBackfilled \/ PingFinishes
    BY <2>4, <1>0, MutexStutter DEF PingBackfills, ProbeMore, PingBackfilled, PingFinishes
  <2>5. CASE PingClears \/ Feed("ping")
    BY <2>5, <1>0, MutexStutter DEF PingClears, Feed
  <2> QED
    BY <1>2, <2>1, <2>2, <2>3, <2>4, <2>5 DEF PingCycle
<1>3. CASE RefreshBegins \/ ConfigEdited \/ PingTimerFires \/ PingTriggered
  BY <1>3, <1>0, MutexStutter DEF RefreshBegins, ConfigEdited, PingTimerFires, PingTriggered
<1>4. CASE UNCHANGED vars
  BY <1>4, MutexStutter DEF vars
<1> QED
  BY <1>1, <1>2, <1>3, <1>4 DEF Next

\* The scheduler's lock and queue behave as the abstract mutex: a ping never
\* overtakes a refresh that waits, and nobody leaves a cycle it is not in.
THEOREM MutexImplemented == Spec => ImplementsMutex
<1>1. Init => Mutex!MutexInit
  BY DEF Init, Mutex!MutexInit, Tasks
<1>2. TypeOK /\ CyclesInTurn /\ [Next]_vars => [Mutex!MutexNext]_(Mutex!abstractVars)
  BY MutexStep
<1>3. Init => TypeOK /\ CyclesInTurn
  BY TypeInit, SchedulingInit
<1>4. TypeOK /\ CyclesInTurn /\ [Next]_vars => (TypeOK /\ CyclesInTurn)'
  BY TypeStep, SchedulingStep
<1> QED
  BY <1>1, <1>2, <1>3, <1>4, PTL DEF Spec, ImplementsMutex, Mutex!MutexSpec

-----------------------------------------------------------------------------
(* No key is probed twice in a cycle, and what is published was verified.    *)

\* Where a loop's result lists are still empty, where no probe call runs, and
\* where a further batch can still be drawn.
Unprobed(t) == IF t = "refresh"
               THEN {"idle", "enter", "preempt", "announce", "queued", "start", "fetch", "bridge"}
               ELSE {"idle", "try", "start"}
Between(t) == IF t = "refresh"
              THEN {"idle", "enter", "preempt", "announce", "queued", "start", "fetch", "fallback",
                    "publish"}
              ELSE {"idle", "try", "backfill", "finish", "publish"}
Drawing(t) == IF t = "refresh" THEN {"bridge", "probe", "fallback"}
              ELSE {"start", "probe", "backfill"}
Inside(t) == IF t = "refresh" THEN RefreshInside ELSE PingInside

CarriedKeys(t) == IF t = "refresh" THEN RowKeys(carry.rows) ELSE {}

\* What is known of one loop's probing.
ProbingOf(t) ==
    /\ pc[t] \in Unprobed(t) => found[t] = NoRows /\ tested[t] = NoRows
    /\ pc[t] \in Between(t) => queue[t] = {} /\ found[t] = NoRows
    /\ pc[t] \in Drawing(t) => RowKeys(tested[t]) \cup CarriedKeys(t) \subseteq excluded[t]
    /\ pc[t] \in Inside(t) => Working(found[t]) \cup Working(tested[t]) \subseteq lastUp
    /\ queue[t] \cap (RowKeys(found[t]) \cup RowKeys(tested[t]) \cup CarriedKeys(t)) = {}
    /\ RowKeys(found[t]) \cap RowKeys(tested[t]) = {}

Probing == \A t \in Tasks : ProbingOf(t)

LEMMA ListKeys ==
    /\ RowKeys(NoRows) = {} /\ Working(NoRows) = {}
    /\ \A list : Working(list) \subseteq RowKeys(list)
    /\ \A first, second \in RankedLists :
          /\ RowKeys(Merge(first, second)) = RowKeys(first) \cup RowKeys(second)
          /\ Working(Merge(first, second)) \subseteq Working(first) \cup Working(second)
    /\ \A list \in RankedLists : \A S : Working(Only(list, S)) \subseteq Working(list)
  BY DEF RowKeys, Working, NoRows, Merge, Only, RankedLists

LEMMA ProbingInit == Init => Probing
  BY ListKeys DEF Init, Probing, ProbingOf, Tasks, NoCarry, CarriedKeys, Drawing, Inside,
                  RefreshInside, PingInside

\* A loop whose probing is not touched, and which only moves to places where
\* no more is claimed, keeps what is known of it.
LEMMA ProbingKept ==
    ASSUME NEW t \in Tasks, ProbingOf(t),
           UNCHANGED <<queue[t], found[t], tested[t], excluded[t], CarriedKeys(t)>>,
           pc'[t] \in Unprobed(t) => pc[t] \in Unprobed(t),
           pc'[t] \in Between(t) => pc[t] \in Between(t),
           pc'[t] \in Drawing(t) => pc[t] \in Drawing(t),
           pc'[t] \in Inside(t) => pc[t] \in Inside(t) /\ lastUp' = lastUp
    PROVE  ProbingOf(t)'
  BY DEF ProbingOf, Unprobed, Between, Drawing, Inside

\* One result: the key leaves the queue and joins the results, and the result
\* is the key's most recent one.  The other loop is not inside a cycle.
LEMMA ProbingOne ==
    ASSUME TypeOK, CyclesInTurn, Probing, NEW t \in Tasks, NEW k \in Keys,
           NEW verdict \in {"up", "down"}, ProbeOne(t, k, verdict),
           t = "refresh" => lock = "refresh", t = "ping" => lock = "ping"
    PROVE  Probing'
<1>1. ProbingOf(t)'
  <2>1. /\ queue'[t] = queue[t] \ {k}
        /\ RowKeys(found'[t]) \subseteq RowKeys(found[t]) \cup {k}
        /\ UNCHANGED <<tested, excluded, carry, pc>>
    BY DEF ProbeOne, TypeOK, RankedLists, RowKeys
  <2>2. Working(found'[t]) \subseteq (Working(found[t]) \ {k}) \cup IF verdict = "up" THEN {k} ELSE {}
    BY DEF ProbeOne, TypeOK, RankedLists, Working
  <2>3. k \in queue[t] /\ k \notin Working(tested[t])
    BY ListKeys DEF ProbeOne, Probing, ProbingOf
  <2>4. Working(found'[t]) \cup Working(tested'[t]) \subseteq lastUp'
    <3>1. Working(found[t]) \cup Working(tested[t]) \subseteq lastUp
      BY DEF ProbeOne, Probing, ProbingOf, Inside, RefreshInside, PingInside, Tasks
    <3> QED
      BY <2>1, <2>2, <2>3, <3>1 DEF ProbeOne
  <2>5. pc[t] = "probe"
    BY DEF ProbeOne
  <2> QED
    BY <2>1, <2>3, <2>4, <2>5 DEF Probing, ProbingOf, CarriedKeys, Unprobed, Between
<1>2. ASSUME NEW u \in Tasks, u # t PROVE ProbingOf(u)'
  <2>1. UNCHANGED <<queue[u], found[u], tested[u], excluded[u], CarriedKeys(u), pc[u]>>
    BY <1>2 DEF ProbeOne, TypeOK, CarriedKeys
  <2>2. pc[u] \notin Inside(u)
    BY <1>2 DEF CyclesInTurn, CyclesSerialised, Inside, Tasks
  <2> QED
    BY <2>1, <2>2, ProbingKept DEF Probing
<1> QED
  BY <1>1, <1>2 DEF Probing

\* A probe call returns its results to the cycle.
LEMMA ProbingReturns ==
    ASSUME TypeOK, Probing, NEW t \in Tasks, NEW place, ProbeReturns(t, place),
           place = IF t = "refresh" THEN "fallback" ELSE "backfill"
    PROVE  Probing'
<1>1. ProbingOf(t)'
  <2>1. /\ tested'[t] = Merge(tested[t], found[t]) /\ found'[t] = NoRows /\ queue'[t] = {}
        /\ excluded'[t] = excluded[t] \cup RowKeys(found[t])
        /\ lastUp' = lastUp /\ carry' = carry /\ pc[t] = "probe" /\ pc'[t] = place
    BY DEF ProbeReturns, TypeOK, Goto
  <2>2. /\ RowKeys(tested'[t]) \subseteq RowKeys(tested[t]) \cup RowKeys(found[t])
        /\ Working(tested'[t]) \subseteq Working(tested[t]) \cup Working(found[t])
    BY <2>1, ListKeys DEF TypeOK
  <2>3. /\ RowKeys(tested[t]) \cup CarriedKeys(t) \subseteq excluded[t]
        /\ Working(found[t]) \cup Working(tested[t]) \subseteq lastUp
    BY <2>1 DEF Probing, ProbingOf, Drawing, Inside, RefreshInside, PingInside
  <2> QED
    BY <2>1, <2>2, <2>3, ListKeys DEF ProbingOf, CarriedKeys, Unprobed
<1>2. ASSUME NEW u \in Tasks, u # t PROVE ProbingOf(u)'
  <2>1. UNCHANGED <<queue[u], found[u], tested[u], excluded[u], CarriedKeys(u), pc[u], lastUp>>
    BY <1>2 DEF ProbeReturns, TypeOK, CarriedKeys, Goto
  <2> QED
    BY <2>1, ProbingKept DEF Probing
<1> QED
  BY <1>1, <1>2 DEF Probing

\* The locals are dropped: the loop is where it began.
LEMMA ProbingForgotten ==
    ASSUME TypeOK, Probing, NEW t \in Tasks, Forget(t), Goto(t, "idle"), lastUp' = lastUp
    PROVE  Probing'
<1>1. ProbingOf(t)'
  <2>1. /\ tested'[t] = NoRows /\ found'[t] = NoRows /\ queue'[t] = {} /\ pc'[t] = "idle"
    BY DEF Forget, TypeOK, Goto
  <2> QED
    BY <2>1, ListKeys DEF ProbingOf, Drawing, Inside, RefreshInside, PingInside
<1>2. ASSUME NEW u \in Tasks, u # t PROVE ProbingOf(u)'
  <2>1. UNCHANGED <<queue[u], found[u], tested[u], excluded[u], pc[u]>>
    BY <1>2 DEF Forget, TypeOK, Goto
  <2>2. UNCHANGED CarriedKeys(u)
    BY <1>2 DEF Forget, CarriedKeys, Tasks
  <2> QED
    BY <2>1, <2>2, ProbingKept DEF Probing
<1> QED
  BY <1>1, <1>2 DEF Probing

LEMMA ProbingStep == TypeOK /\ CyclesInTurn /\ Probing /\ [Next]_vars => Probing'
<1> SUFFICES ASSUME TypeOK, CyclesInTurn, Probing, [Next]_vars PROVE Probing'
  OBVIOUS
<1>0. /\ pc \in [Tasks -> RefreshPlaces \cup PingPlaces] /\ Tasks = {"refresh", "ping"}
      /\ ProbingOf("refresh") /\ ProbingOf("ping")
      /\ pc["refresh"] \in RefreshInside <=> lock = "refresh"
      /\ pc["ping"] \in PingInside <=> lock = "ping"
  BY DEF TypeOK, Tasks, Probing, CyclesInTurn, CyclesSerialised
<1>1. ASSUME UNCHANGED <<queue, found, tested, excluded, carry, lastUp>>,
             \A t \in Tasks :
                /\ pc'[t] \in Unprobed(t) => pc[t] \in Unprobed(t)
                /\ pc'[t] \in Between(t) => pc[t] \in Between(t)
                /\ pc'[t] \in Drawing(t) => pc[t] \in Drawing(t)
                /\ pc'[t] \in Inside(t) => pc[t] \in Inside(t)
      PROVE  Probing'
  <2> SUFFICES ASSUME NEW t \in Tasks PROVE ProbingOf(t)'
    BY DEF Probing
  <2>1. UNCHANGED <<queue[t], found[t], tested[t], excluded[t], CarriedKeys(t)>>
    BY <1>1 DEF CarriedKeys
  <2> QED
    BY <1>1, <2>1, ProbingKept DEF Probing
<1> USE DEF Unprobed, Between, Drawing, Inside, RefreshInside, PingInside
<1>3. CASE RefreshCycle
  <2>1. CASE RefreshEnters \/ RefreshPreempts \/ RefreshAnnounces
    BY <2>1, <1>0, <1>1 DEF RefreshEnters, RefreshPreempts, RefreshAnnounces, Goto, locals
  <2>2. CASE RefreshAcquires
    <3>1. ProbingOf("refresh")'
      BY <2>2, <1>0, ListKeys DEF RefreshAcquires, ProbingOf, Goto
    <3>2. ProbingOf("ping")'
      BY <2>2, <1>0, ProbingKept DEF RefreshAcquires, Goto, CarriedKeys
    <3> QED
      BY <1>0, <3>1, <3>2 DEF Probing
  <2>3. CASE RefreshStarts
    BY <2>3, <1>0, <1>1 DEF RefreshStarts, Goto, locals
  <2>4. CASE RefreshFetches
    <3>1. ProbingOf("refresh")'
      <4>1. /\ queue'["refresh"] \cap RowKeys(carry.rows) = {}
            /\ excluded'["refresh"] = RowKeys(carry.rows)
            /\ UNCHANGED <<found, tested, carry>> /\ pc["refresh"] = "fetch"
            /\ pc'["refresh"] \in {"bridge", "probe"}
        BY <2>4, <1>0 DEF RefreshFetches, TypeOK, Goto
      <4> QED
        BY <4>1, <1>0, ListKeys DEF ProbingOf, CarriedKeys
    <3>2. ProbingOf("ping")'
      BY <2>4, <1>0, ProbingKept DEF RefreshFetches, Goto, CarriedKeys, TypeOK
    <3> QED
      BY <1>0, <3>1, <3>2 DEF Probing
  <2>5. CASE RefreshBridges
    <3>1. ProbingOf("refresh")'
      <4>1. /\ \E R \in SUBSET (Keys \ (queue["refresh"] \cup RowKeys(carry.rows))) :
                  queue'["refresh"] = queue["refresh"] \cup R
            /\ UNCHANGED <<found, tested, carry, excluded, lastUp>> /\ pc["refresh"] = "bridge"
            /\ pc'["refresh"] = "probe"
        BY <2>5, <1>0 DEF RefreshBridges, TypeOK, Goto
      <4> QED
        BY <4>1, <1>0, ListKeys DEF ProbingOf, CarriedKeys
    <3>2. ProbingOf("ping")'
      BY <2>5, <1>0, ProbingKept DEF RefreshBridges, Goto, CarriedKeys, TypeOK
    <3> QED
      BY <1>0, <3>1, <3>2 DEF Probing
  <2>6. CASE RefreshProbes
    BY <2>6, <1>0, ProbingOne DEF RefreshProbes, ProbeOne
  <2>7. CASE RefreshProbed
    BY <2>7, <1>0, ProbingReturns DEF RefreshProbed
  <2>8. CASE RefreshFallsBack
    <3>1. PICK batch \in SUBSET (Keys \ excluded["refresh"]) : ProbeMore("refresh", batch)
      BY <2>8 DEF RefreshFallsBack
    <3>2. ProbingOf("refresh")'
      <4>1. /\ queue'["refresh"] = batch /\ excluded'["refresh"] = excluded["refresh"] \cup batch
            /\ UNCHANGED <<found, tested, carry, lastUp>> /\ pc["refresh"] = "fallback"
            /\ pc'["refresh"] = "probe"
        BY <2>8, <3>1, <1>0 DEF RefreshFallsBack, ProbeMore, TypeOK, Goto
      <4> QED
        BY <4>1, <1>0, ListKeys DEF ProbingOf, CarriedKeys
    <3>3. ProbingOf("ping")'
      BY <2>8, <3>1, <1>0, ProbingKept DEF RefreshFallsBack, ProbeMore, Goto, CarriedKeys, TypeOK
    <3> QED
      BY <1>0, <3>2, <3>3 DEF Probing
  <2>9. CASE RefreshConcludes
    BY <2>9, <1>0, <1>1 DEF RefreshConcludes, Goto
  <2>10. CASE RefreshPublishes
    BY <2>10, <1>0, <1>1 DEF RefreshPublishes, Goto, locals
  <2>11. CASE RefreshFails
    <3>1. /\ pc' = [pc EXCEPT !["refresh"] = "record"]
          /\ UNCHANGED <<queue, found, tested, excluded, carry, lastUp>>
      BY <2>11 DEF RefreshFails, Goto, locals
    <3> QED
      BY <3>1, <1>0, <1>1
  <2>12. CASE RefreshRecordsError
    BY <2>12, <1>0, <1>1 DEF RefreshRecordsError, Goto, locals
  <2>13. CASE Feed("refresh")
    BY <2>13, <1>0, ProbingForgotten DEF Feed
  <2> QED
    BY <1>3, <2>1, <2>2, <2>3, <2>4, <2>5, <2>6, <2>7, <2>8, <2>9, <2>10, <2>11, <2>12, <2>13
    DEF RefreshCycle
<1>4. CASE PingCycle
  <2>1. CASE PingSkips \/ PingStarts \/ PingBackfilled \/ PingFinishes
    BY <2>1, <1>0, <1>1 DEF PingSkips, PingStarts, PingBackfilled, PingFinishes, Goto, locals
  <2>2. CASE PingAcquires
    <3>1. ProbingOf("ping")'
      BY <2>2, <1>0, ListKeys DEF PingAcquires, ProbingOf, Goto, TypeOK, CarriedKeys
    <3>2. ProbingOf("refresh")'
      BY <2>2, <1>0, ProbingKept DEF PingAcquires, Goto, CarriedKeys, TypeOK
    <3> QED
      BY <1>0, <3>1, <3>2 DEF Probing
  <2>3. CASE PingProbes
    BY <2>3, <1>0, ProbingOne DEF PingProbes, ProbeOne
  <2>4. CASE PingProbed
    BY <2>4, <1>0, ProbingReturns DEF PingProbed
  <2>5. CASE PingBackfills
    <3>1. PICK batch \in SUBSET (Keys \ excluded["ping"]) : ProbeMore("ping", batch)
      BY <2>5 DEF PingBackfills
    <3>2. ProbingOf("ping")'
      <4>1. /\ queue'["ping"] = batch /\ excluded'["ping"] = excluded["ping"] \cup batch
            /\ UNCHANGED <<found, tested, carry, lastUp>> /\ pc["ping"] = "backfill"
            /\ pc'["ping"] = "probe"
        BY <2>5, <3>1, <1>0 DEF PingBackfills, ProbeMore, TypeOK, Goto
      <4> QED
        BY <4>1, <1>0, ListKeys DEF ProbingOf, CarriedKeys
    <3>3. ProbingOf("refresh")'
      BY <2>5, <3>1, <1>0, ProbingKept DEF PingBackfills, ProbeMore, Goto, CarriedKeys, TypeOK
    <3> QED
      BY <1>0, <3>2, <3>3 DEF Probing
  <2>6. CASE PingPreempted \/ PingPublishes \/ PingFails
    <3>1. /\ pc' = [pc EXCEPT !["ping"] = "clear"]
          /\ UNCHANGED <<queue, found, tested, excluded, carry, lastUp>>
      BY <2>6 DEF PingPreempted, PingPublishes, PingFails, PingReturns, Goto
    <3> QED
      BY <3>1, <1>0, <1>1
  <2>7. CASE PingClears
    <3>1. CASE outcome = "preempted"
      BY <2>7, <3>1, <1>0, ProbingForgotten DEF PingClears
    <3>2. CASE outcome # "preempted"
      BY <2>7, <3>2, <1>0, <1>1 DEF PingClears, Goto, locals
    <3> QED
      BY <3>1, <3>2
  <2>8. CASE Feed("ping")
    BY <2>8, <1>0, ProbingForgotten DEF Feed
  <2> QED
    BY <1>4, <2>1, <2>2, <2>3, <2>4, <2>5, <2>6, <2>7, <2>8 DEF PingCycle
<1>5. CASE RefreshBegins \/ ConfigEdited \/ PingTimerFires \/ PingTriggered
  BY <1>5, <1>0, <1>1 DEF RefreshBegins, ConfigEdited, PingTimerFires, PingTriggered, Goto, locals
<1>6. CASE UNCHANGED vars
  BY <1>6, <1>1 DEF vars
<1> QED
  BY <1>3, <1>4, <1>5, <1>6 DEF Next

\* No config is probed twice in one cycle, wherever it came from.
THEOREM ProbedOnce == Spec => []NeverProbedTwice
<1>1. Init => TypeOK /\ CyclesInTurn /\ Probing
  BY TypeInit, SchedulingInit, ProbingInit
<1>2. TypeOK /\ CyclesInTurn /\ Probing /\ [Next]_vars => (TypeOK /\ CyclesInTurn /\ Probing)'
  BY TypeStep, SchedulingStep, ProbingStep
<1>3. Probing => NeverProbedTwice
  BY DEF Probing, ProbingOf, NeverProbedTwice, CarriedKeys
<1> QED
  BY <1>1, <1>2, <1>3, PTL DEF Spec

\* What one step may publish.
LEMMA PublicationStep ==
    ASSUME TypeOK, CyclesInTurn, Probing, [Next]_vars, NEW t \in Tasks,
           pc[t] = "publish", pc'[t] # "publish", ranked' # ranked, ranked' # prev[t]
    PROVE  Working(ranked') \subseteq lastUp \cup Working(carry.rows)
<1>0. /\ pc \in [Tasks -> RefreshPlaces \cup PingPlaces] /\ Tasks = {"refresh", "ping"}
      /\ tested[t] \in RankedLists /\ prev[t] \in RankedLists /\ carry.rows \in RankedLists
  BY DEF TypeOK, Tasks
<1>1. Working(tested[t]) \subseteq lastUp
  BY <1>0 DEF Probing, ProbingOf, Inside, RefreshInside, PingInside
<1>2. CASE t = "refresh"
  <2>1. RefreshPublishes
    BY <1>0, <1>2 DEF Next, RefreshCycle, PingCycle, RefreshBegins, ConfigEdited, PingTimerFires,
       PingTriggered, RefreshEnters, RefreshPreempts, RefreshAnnounces, RefreshAcquires,
       RefreshStarts, RefreshFetches, RefreshBridges, RefreshProbes, RefreshProbed,
       RefreshFallsBack, RefreshConcludes, RefreshFails, RefreshRecordsError, ProbeOne,
       ProbeReturns, Feed, PingSkips, PingAcquires, PingStarts, PingProbes, PingProbed,
       PingBackfills, PingBackfilled, PingPreempted, PingFinishes, PingPublishes, PingFails,
       PingReturns, PingClears, ProbeMore, Goto, state, vars
  <2>2. ranked' = Merge(tested[t], carry.rows)
    BY <2>1, <1>2 DEF RefreshPublishes, RefreshResult
  <2> QED
    BY <2>2, <1>0, <1>1, ListKeys
<1>3. CASE t = "ping"
  <2>1. PingPublishes
    BY <1>0, <1>3 DEF Next, RefreshCycle, PingCycle, RefreshBegins, ConfigEdited, PingTimerFires,
       PingTriggered, RefreshEnters, RefreshPreempts, RefreshAnnounces, RefreshAcquires,
       RefreshStarts, RefreshFetches, RefreshBridges, RefreshProbes, RefreshProbed,
       RefreshFallsBack, RefreshConcludes, RefreshPublishes, RefreshFails, RefreshRecordsError,
       ProbeOne, ProbeReturns, Feed, PingSkips, PingAcquires, PingStarts, PingProbes, PingProbed,
       PingBackfills, PingBackfilled, PingPreempted, PingFinishes, PingFails,
       PingReturns, PingClears, ProbeMore, Goto, state, vars
  <2>2. ranked' = tested[t] \/ \E S : ranked' = Only(tested[t], S)
    BY <2>1, <1>3 DEF PingPublishes, PingResults
  <2> QED
    BY <2>2, <1>0, <1>1, ListKeys
<1> QED
  BY <1>0, <1>2, <1>3

\* A finished cycle publishes as working only what its own last probe of it,
\* or the preempted ping it carries, found working.
THEOREM PublicationVerified == Spec => PublishedIsVerified
<1> DEFINE Published ==
       \A t \in Tasks :
          pc[t] = "publish" /\ pc'[t] # "publish" /\ ranked' # ranked /\ ranked' # prev[t]
          => Working(ranked') \subseteq lastUp \cup Working(carry.rows)
<1>1. Init => TypeOK /\ CyclesInTurn /\ Probing
  BY TypeInit, SchedulingInit, ProbingInit
<1>2. TypeOK /\ CyclesInTurn /\ Probing /\ [Next]_vars => (TypeOK /\ CyclesInTurn /\ Probing)'
  BY TypeStep, SchedulingStep, ProbingStep
<1>3. TypeOK /\ CyclesInTurn /\ Probing /\ [Next]_vars => [Published]_vars
  BY PublicationStep
<1> QED
  BY <1>1, <1>2, <1>3, PTL DEF Spec, PublishedIsVerified

-----------------------------------------------------------------------------
(* A working list survives.                                                  *)

\* While a cycle runs with something working on the live list, what it may
\* publish in the end has something working too.
SurvivalOf(t) ==
    pc[t] \in Inside(t) /\ Working(ranked) # {}
    => Working(prev[t]) \cup Working(found[t]) \cup Working(tested[t]) # {}

Survival == Stability /\ ~Asap => \A t \in Tasks : SurvivalOf(t)

\* The early publication of a first half is never blank.
LEMMA HalfSnapshotWorks ==
    ASSUME NEW results \in RankedLists, NEW t \in Tasks, Stability, ~Asap,
           NEW list \in LiveLists(t, results), list # ranked
    PROVE  Working(list) # {} /\ Working(results) # {}
<1>0. TopN \in Nat /\ HalfTarget \in Nat
  BY TopNPositive DEF HalfTarget
<1>1. HalfDue(t, Working(results)) /\ list \in HalfSnapshots(results, Working(results))
  BY DEF LiveLists
<1>2. HalfTarget > 0 /\ Working(results) # {}
  BY <1>1 DEF HalfDue
<1>3. PICK S \in SUBSET Working(results) : list = Only(results, S) /\ S # {}
  <2>1. CASE list = Only(results, Working(results))
    BY <2>1, <1>2
  <2>2. CASE list # Only(results, Working(results))
    <3>1. PICK S \in SUBSET Working(results) :
             list = Only(results, S) /\ Cardinality(S) = HalfTarget
      BY <1>1, <2>2 DEF HalfSnapshots
    <3>2. S # {}
      BY <3>1, <1>0, <1>2, FS_EmptySet
    <3> QED
      BY <3>1, <3>2
  <2> QED
    BY <2>1, <2>2
<1> QED
  BY <1>2, <1>3 DEF Working, Only, RankedLists

LEMMA SurvivalInit == Init => Survival
  BY DEF Init, Survival, SurvivalOf, Inside, RefreshInside, PingInside, Tasks

\* One result: the working results only grow.
LEMMA SurvivalOne ==
    ASSUME TypeOK, CyclesInTurn, Probing, Survival, Stability, ~Asap, NEW t \in Tasks,
           NEW k \in Keys, NEW verdict \in {"up", "down"}, ProbeOne(t, k, verdict),
           t = "refresh" => lock = "refresh", t = "ping" => lock = "ping"
    PROVE  Survival'
<1>1. SurvivalOf(t)'
  <2>1. found'[t] \in RankedLists /\ tested[t] \in RankedLists
    BY DEF ProbeOne, TypeOK, RankedLists, Verdicts
  <2>2. Working(found[t]) \subseteq Working(found'[t])
    <3>1. k \in queue[t] /\ k \notin RowKeys(found[t])
      BY DEF ProbeOne, Probing, ProbingOf
    <3> QED
      BY <3>1 DEF ProbeOne, TypeOK, RankedLists, Working, RowKeys
  <2>3. CASE ranked' = ranked
    BY <2>2, <2>3 DEF ProbeOne, Survival, SurvivalOf
  <2>4. CASE ranked' # ranked
    BY <2>1, <2>4, HalfSnapshotWorks DEF ProbeOne, SurvivalOf
  <2> QED
    BY <2>3, <2>4
<1>2. ASSUME NEW u \in Tasks, u # t PROVE SurvivalOf(u)'
  BY <1>2 DEF ProbeOne, CyclesInTurn, CyclesSerialised, Inside, Tasks, SurvivalOf
<1> QED
  BY <1>1, <1>2 DEF Survival

\* A probe call returns: its working results stay working.
LEMMA SurvivalReturns ==
    ASSUME TypeOK, Probing, Survival, Stability, ~Asap, NEW t \in Tasks, NEW place,
           ProbeReturns(t, place)
    PROVE  Survival'
<1>1. SurvivalOf(t)'
  <2>1. /\ tested'[t] = Merge(tested[t], found[t]) /\ prev' = prev /\ ranked' = ranked
        /\ pc[t] = "probe"
    BY DEF ProbeReturns, TypeOK
  <2>2. Working(tested[t]) \cup Working(found[t]) \subseteq Working(tested'[t])
    BY <2>1 DEF Probing, ProbingOf, TypeOK, RankedLists, Working, RowKeys, Merge
  <2> QED
    BY <2>1, <2>2 DEF Survival, SurvivalOf, Inside, RefreshInside, PingInside
<1>2. ASSUME NEW u \in Tasks, u # t PROVE SurvivalOf(u)'
  BY <1>2 DEF ProbeReturns, TypeOK, Goto, Survival, SurvivalOf
<1> QED
  BY <1>1, <1>2 DEF Survival

\* A finished ping publishes something working if it verified something or
\* something worked before.
LEMMA PingResultWorks ==
    ASSUME TypeOK, Stability, NEW list \in PingResults,
           Working(tested["ping"]) \cup Working(prev["ping"]) # {}
    PROVE  Working(list) # {}
<1> DEFINE new == tested["ping"]
           still == Working(prev["ping"]) \cap Working(new)
           newcomers == Working(new) \ still
           down == RowKeys(new) \ Working(new)
           seats == IF TopN > Cardinality(still) THEN TopN - Cardinality(still) ELSE 0
<1>0. new \in RankedLists /\ TopN \in Nat \ {0}
  BY TopNPositive DEF TypeOK, Tasks
<1>1. CASE KeepPrevious(new, prev["ping"])
  BY <1>1 DEF PingResults, KeepPrevious
<1>2. CASE ~KeepPrevious(new, prev["ping"])
  <2>1. Working(new) # {}
    BY <1>2 DEF KeepPrevious
  <2>2. PICK fill \in SUBSET newcomers :
           /\ Cardinality(fill) = IF Cardinality(newcomers) < seats
                                  THEN Cardinality(newcomers) ELSE seats
           /\ list = Only(new, still \cup fill \cup down)
    BY <1>2 DEF PingResults
  <2>3. still \cup fill # {}
    <3>1. CASE still # {}
      BY <3>1
    <3>2. CASE still = {}
      <4>1. newcomers # {} /\ IsFiniteSet(newcomers)
        BY <3>2, <2>1, <1>0, WorkingCount
      <4>2. Cardinality(newcomers) \in Nat /\ Cardinality(newcomers) # 0
        BY <4>1, FS_CardinalityType, FS_EmptySet
      <4>3. Cardinality(still) = 0
        BY <3>2, FS_EmptySet
      <4>4. Cardinality(fill) # 0
        <5> HIDE DEF newcomers, still
        <5> QED
          BY <2>2, <4>2, <4>3, <1>0 DEF seats
      <4> QED
        BY <4>4, FS_EmptySet
    <3> QED
      BY <3>1, <3>2
  <2> QED
    BY <2>2, <2>3, <1>0 DEF Working, Only, RankedLists
<1> QED
  BY <1>1, <1>2

\* Preempted partials that replace a list with something working have
\* something working.
LEMMA PartialsWork ==
    ASSUME TypeOK, PingPreempted, Working(prev["ping"]) # {}
    PROVE  Working(ranked') # {}
<1>1. prev["ping"] \in RankedLists /\ tested["ping"] \in RankedLists
  BY DEF TypeOK, Tasks
<1>2. /\ Cardinality(Working(prev["ping"])) \in Nat
      /\ Cardinality(Working(prev["ping"])) # 0
      /\ Cardinality(Working(tested["ping"])) \in Nat
  BY <1>1, WorkingCount, FS_EmptySet
<1>3. \/ ranked' = prev["ping"]
      \/ /\ ranked' = tested["ping"]
         /\ ~(Cardinality(Working(tested["ping"])) < Cardinality(Working(prev["ping"])))
  BY DEF PingPreempted
<1>4. CASE ranked' = tested["ping"] /\ ranked' # prev["ping"]
  <2>1. Cardinality(Working(tested["ping"])) # 0
    BY <1>2, <1>3, <1>4
  <2> QED
    BY <2>1, <1>4, FS_EmptySet
<1> QED
  BY <1>3, <1>4

LEMMA SurvivalStep == TypeOK /\ CyclesInTurn /\ Probing /\ Survival /\ [Next]_vars => Survival'
<1> SUFFICES ASSUME TypeOK, CyclesInTurn, Probing, Survival, [Next]_vars, Stability, ~Asap
             PROVE  Survival'
  BY DEF Survival
<1>0. /\ pc \in [Tasks -> RefreshPlaces \cup PingPlaces] /\ Tasks = {"refresh", "ping"}
      /\ pc["refresh"] \in RefreshInside <=> lock = "refresh"
      /\ pc["ping"] \in PingInside <=> lock = "ping"
      /\ SurvivalOf("refresh") /\ SurvivalOf("ping")
  BY DEF TypeOK, Tasks, CyclesInTurn, CyclesSerialised, Survival
<1>1. ASSUME UNCHANGED <<ranked, prev, found, tested>>,
             \A t \in Tasks : pc'[t] \in Inside(t) => pc[t] \in Inside(t)
      PROVE  Survival'
  BY <1>1 DEF Survival, SurvivalOf, Inside
<1>2. ASSUME \A t \in Tasks : pc'[t] \notin Inside(t) PROVE Survival'
  BY <1>2 DEF Survival, SurvivalOf, Inside
<1> USE DEF Inside, RefreshInside, PingInside
<1>3. CASE RefreshCycle
  <2>1. CASE RefreshEnters \/ RefreshPreempts \/ RefreshAnnounces
    BY <2>1, <1>0, <1>1 DEF RefreshEnters, RefreshPreempts, RefreshAnnounces, Goto, locals, state
  <2>2. CASE RefreshAcquires
    <3>1. SurvivalOf("refresh")' /\ SurvivalOf("ping")'
      BY <2>2, <1>0 DEF RefreshAcquires, SurvivalOf, Goto, state, TypeOK
    <3> QED
      BY <1>0, <3>1 DEF Survival
  <2>3. CASE RefreshStarts
    BY <2>3, <1>0, <1>1 DEF RefreshStarts, Goto, locals
  <2>4. CASE RefreshFetches \/ RefreshBridges
    BY <2>4, <1>0, <1>1 DEF RefreshFetches, RefreshBridges, Goto, state
  <2>5. CASE RefreshProbes
    BY <2>5, <1>0, SurvivalOne DEF RefreshProbes, ProbeOne
  <2>6. CASE RefreshProbed
    BY <2>6, <1>0, SurvivalReturns DEF RefreshProbed
  <2>7. CASE RefreshFallsBack \/ RefreshConcludes
    BY <2>7, <1>0, <1>1 DEF RefreshFallsBack, RefreshConcludes, ProbeMore, Goto, state
  <2>8. CASE RefreshPublishes \/ RefreshFails \/ RefreshRecordsError
    <3>1. pc'["refresh"] \notin RefreshInside
      BY <2>8, <1>0 DEF RefreshPublishes, RefreshFails, RefreshRecordsError, Goto
    <3>2. CASE RefreshRecordsError
      BY <3>2, <1>0, <1>1 DEF RefreshRecordsError, Goto, locals
    <3>3. CASE RefreshPublishes \/ RefreshFails
      <4>1. pc'["ping"] = pc["ping"] /\ lock = "refresh"
        BY <3>3, <1>0 DEF RefreshPublishes, RefreshFails, Goto
      <4> QED
        BY <3>1, <4>1, <1>0, <1>2
    <3> QED
      BY <2>8, <3>2, <3>3
  <2>9. CASE Feed("refresh")
    <3>1. SurvivalOf("refresh")'
      BY <2>9, <1>0 DEF Feed, Goto, SurvivalOf
    <3>2. SurvivalOf("ping")'
      BY <2>9, <1>0 DEF Feed, Forget, Goto, state, SurvivalOf
    <3> QED
      BY <1>0, <3>1, <3>2 DEF Survival
  <2> QED
    BY <1>3, <2>1, <2>2, <2>3, <2>4, <2>5, <2>6, <2>7, <2>8, <2>9 DEF RefreshCycle
<1>4. CASE PingCycle
  <2>1. CASE PingSkips \/ PingStarts \/ PingBackfilled \/ PingFinishes
    BY <2>1, <1>0, <1>1 DEF PingSkips, PingStarts, PingBackfilled, PingFinishes, Goto, locals, state
  <2>2. CASE PingAcquires
    <3>1. SurvivalOf("refresh")' /\ SurvivalOf("ping")'
      BY <2>2, <1>0 DEF PingAcquires, SurvivalOf, Goto, state, TypeOK
    <3> QED
      BY <1>0, <3>1 DEF Survival
  <2>3. CASE PingProbes
    BY <2>3, <1>0, SurvivalOne DEF PingProbes, ProbeOne
  <2>4. CASE PingProbed
    BY <2>4, <1>0, SurvivalReturns DEF PingProbed
  <2>5. CASE PingBackfills
    BY <2>5, <1>0, <1>1 DEF PingBackfills, ProbeMore, Goto, state
  <2>6. CASE PingPreempted \/ PingPublishes \/ PingFails
    <3>1. pc'["ping"] = "clear" /\ pc'["refresh"] = pc["refresh"] /\ lock = "ping"
      BY <2>6, <1>0 DEF PingPreempted, PingPublishes, PingFails, PingReturns, Goto
    <3> QED
      BY <3>1, <1>0, <1>2
  <2>7. CASE PingClears \/ Feed("ping")
    <3>1. pc'["ping"] \notin PingInside /\ pc'["refresh"] = pc["refresh"] /\ ranked' = ranked
      BY <2>7, <1>0 DEF PingClears, Feed, Goto, state
    <3>2. UNCHANGED <<prev["refresh"], found["refresh"], tested["refresh"]>>
      <4>1. CASE outcome = "preempted" \/ Feed("ping")
        <5>1. Forget("ping")
          BY <2>7, <4>1 DEF PingClears, Feed
        <5> QED
          BY <5>1, <1>0 DEF Forget, TypeOK
      <4>2. CASE outcome # "preempted" /\ PingClears
        BY <4>2 DEF PingClears, locals
      <4> QED
        BY <2>7, <4>1, <4>2
    <3>3. SurvivalOf("refresh")' /\ SurvivalOf("ping")'
      BY <3>1, <3>2, <1>0 DEF SurvivalOf
    <3> QED
      BY <1>0, <3>3 DEF Survival
  <2> QED
    BY <1>4, <2>1, <2>2, <2>3, <2>4, <2>5, <2>6, <2>7 DEF PingCycle
<1>5. CASE RefreshBegins \/ ConfigEdited \/ PingTimerFires \/ PingTriggered
  BY <1>5, <1>0, <1>1 DEF RefreshBegins, ConfigEdited, PingTimerFires, PingTriggered, Goto, locals,
                          state
<1>6. CASE UNCHANGED vars
  BY <1>6, <1>1 DEF vars
<1> QED
  BY <1>3, <1>4, <1>5, <1>6 DEF Next

\* What one step may blank.
LEMMA BlankingStep ==
    ASSUME TypeOK, Probing, Survival, [Next]_vars,
           Stability, ~Asap, Working(ranked) # {}, Working(ranked') = {}
    PROVE  pc["ping"] = "finish" /\ Working(prev["ping"]) = {}
<1>0. /\ Tasks = {"refresh", "ping"} /\ SurvivalOf("refresh") /\ SurvivalOf("ping")
      /\ ProbingOf("refresh") /\ ProbingOf("ping") /\ ranked' # ranked
  BY DEF Survival, Probing, Tasks
<1>1. CASE RefreshCycle
  <2>1. CASE RefreshProbes
    <3>1. PICK k \in Keys, verdict \in {"up", "down"} : ProbeOne("refresh", k, verdict)
      BY <2>1 DEF RefreshProbes
    <3>2. found'["refresh"] \in RankedLists
      BY <1>0, <3>1 DEF ProbeOne, TypeOK, RankedLists, Verdicts
    <3> QED
      BY <1>0, <3>1, <3>2, HalfSnapshotWorks DEF ProbeOne
  <2>2. CASE RefreshPublishes
    <3>1. found["refresh"] = NoRows /\ tested["refresh"] \in RankedLists /\ carry.rows \in RankedLists
      BY <2>2, <1>0 DEF RefreshPublishes, ProbingOf, Between, TypeOK
    <3>2. Working(prev["refresh"]) \cup Working(tested["refresh"]) # {}
      BY <2>2, <1>0, <3>1, ListKeys DEF RefreshPublishes, SurvivalOf, Inside, RefreshInside
    <3>3. CASE KeepPrevious(RefreshResult, prev["refresh"])
      BY <2>2, <3>3 DEF RefreshPublishes, KeepPrevious
    <3>4. CASE ~KeepPrevious(RefreshResult, prev["refresh"])
      <4>1. Working(tested["refresh"]) \subseteq Working(RefreshResult)
        BY <3>1 DEF RefreshResult, Merge, Working, RankedLists
      <4> QED
        BY <2>2, <3>2, <3>4, <4>1 DEF RefreshPublishes, KeepPrevious
    <3> QED
      BY <3>3, <3>4
  <2>3. CASE RefreshStarts
    BY <2>3, <1>0 DEF RefreshStarts
  <2>4. CASE \/ RefreshEnters \/ RefreshPreempts \/ RefreshAnnounces \/ RefreshAcquires
             \/ RefreshFetches \/ RefreshBridges \/ RefreshProbed \/ RefreshFallsBack
             \/ RefreshConcludes \/ RefreshFails \/ RefreshRecordsError \/ Feed("refresh")
    <3>1. ranked' = ranked
      BY <2>4 DEF RefreshEnters, RefreshPreempts, RefreshAnnounces, RefreshAcquires,
                  RefreshFetches, RefreshBridges, RefreshProbed, ProbeReturns, RefreshFallsBack,
                  RefreshConcludes, RefreshFails, RefreshRecordsError, Feed, state
    <3> QED
      BY <1>0, <3>1
  <2> QED
    BY <1>1, <2>1, <2>2, <2>3, <2>4 DEF RefreshCycle
<1>2. CASE PingCycle
  <2>1. CASE PingProbes
    <3>1. PICK k \in Keys, verdict \in {"up", "down"} : ProbeOne("ping", k, verdict)
      BY <2>1 DEF PingProbes
    <3>2. found'["ping"] \in RankedLists
      BY <1>0, <3>1 DEF ProbeOne, TypeOK, RankedLists, Verdicts
    <3> QED
      BY <1>0, <3>1, <3>2, HalfSnapshotWorks DEF ProbeOne
  <2>2. CASE PingPreempted
    BY <2>2, PartialsWork DEF PingPreempted
  <2>3. CASE PingPublishes
    <3>1. found["ping"] = NoRows
      BY <2>3, <1>0 DEF PingPublishes, ProbingOf, Between
    <3>2. Working(prev["ping"]) \cup Working(tested["ping"]) # {}
      BY <2>3, <1>0, <3>1, ListKeys DEF PingPublishes, SurvivalOf, Inside, PingInside
    <3> QED
      BY <2>3, <3>2, PingResultWorks DEF PingPublishes
  <2>4. CASE \/ PingSkips \/ PingAcquires \/ PingStarts \/ PingProbed \/ PingBackfills
             \/ PingBackfilled \/ PingFinishes \/ PingFails \/ PingClears \/ Feed("ping")
    <3>1. ranked' = ranked
      BY <2>4 DEF PingSkips, PingAcquires, PingStarts, PingProbed, ProbeReturns, PingBackfills,
                  PingBackfilled, PingFinishes, PingFails, PingClears, Feed, state
    <3> QED
      BY <1>0, <3>1
  <2> QED
    BY <1>2, <2>1, <2>2, <2>3, <2>4 DEF PingCycle
<1>3. CASE RefreshBegins \/ ConfigEdited \/ PingTimerFires \/ PingTriggered
  BY <1>3, <1>0 DEF RefreshBegins, ConfigEdited, PingTimerFires, PingTriggered, state
<1>4. CASE UNCHANGED vars
  BY <1>4, <1>0 DEF vars
<1> QED
  BY <1>1, <1>2, <1>3, <1>4 DEF Next

\* With stability on and early publication off, nothing but a preempted ping
\* that began with nothing working blanks a working list: not a failed fetch,
\* not a cycle that verifies nothing, not an early publication, not an error.
THEOREM WorkingSetKept == Spec => WorkingSetSurvives
<1> DEFINE Kept == Stability /\ ~Asap /\ Working(ranked) # {} /\ Working(ranked') = {}
                   => pc["ping"] = "finish" /\ Working(prev["ping"]) = {}
<1>1. Init => TypeOK /\ CyclesInTurn /\ Probing /\ Survival
  BY TypeInit, SchedulingInit, ProbingInit, SurvivalInit
<1>2. TypeOK /\ CyclesInTurn /\ Probing /\ Survival /\ [Next]_vars
      => (TypeOK /\ CyclesInTurn /\ Probing /\ Survival)'
  BY TypeStep, SchedulingStep, ProbingStep, SurvivalStep
<1>3. TypeOK /\ CyclesInTurn /\ Probing /\ Survival /\ [Next]_vars => [Kept]_vars
  BY BlankingStep
<1> QED
  BY <1>1, <1>2, <1>3, PTL DEF Spec, WorkingSetSurvives

-----------------------------------------------------------------------------
(* The timers (CycleTimers): types.                                          *)

LEMMA IntervalsAreDeadlines ==
    /\ \A c \in Configs : c.refresh \in Intervals /\ c.ping \in Intervals
    /\ Intervals \subseteq Nat /\ Intervals \subseteq Deadlines
    /\ Never \in Deadlines
<1>1. Intervals \subseteq Nat
  BY TimersAssumption DEF Intervals
<1>2. \A i \in Nat : i \in 0 .. i
  OBVIOUS
<1> QED
  BY <1>1, <1>2 DEF Intervals, Deadlines

LEMMA AgedIsDeadline == \A d \in Deadlines : Aged(d) \in Deadlines
<1> SUFFICES ASSUME NEW d \in Deadlines PROVE Aged(d) \in Deadlines
  OBVIOUS
<1>1. CASE d \in {Never, 0}
  BY <1>1 DEF Aged
<1>2. CASE d \notin {Never, 0}
  <2>1. PICK i \in Intervals : d \in 0 .. i
    BY <1>2 DEF Deadlines
  <2>2. i \in Nat
    BY <2>1, IntervalsAreDeadlines
  <2>3. d - 1 \in 0 .. i
    BY <1>2, <2>1, <2>2
  <2> QED
    BY <1>2, <2>1, <2>3 DEF Aged, Deadlines
<1> QED
  BY <1>1, <1>2

ConfigsTyped ==
    /\ live \in Configs /\ applied \in Configs /\ takenR \in Configs
    /\ editor \subseteq Configs /\ fingerprint \in Feeds
CountsTyped == edits \in 0 .. MaxEdits /\ requests \in 0 .. MaxRequests
FlagsTyped ==
    /\ unseenR \in BOOLEAN /\ unseenP \in BOOLEAN
    /\ trigR \in BOOLEAN /\ trigP \in BOOLEAN /\ restart \in BOOLEAN /\ announced \in BOOLEAN
PlacesTyped ==
    /\ r \in {"top", "asleep", "waiting", "locked", "writing", "feeding"}
    /\ whyR \in {"timer", "manual", "edit", "feeds"}
    /\ p \in {"top", "asleep", "locked", "feeding"}
    /\ whyP \in {"timer", "manual"}
TimesTyped ==
    /\ leftR \in Deadlines /\ leftP \in Deadlines
    /\ shownP \in Deadlines /\ copyP \in Deadlines
    /\ lastR \in {Never} \cup Intervals /\ lastP \in {Never} \cup Intervals

LEMMA TypeParts ==
    TimersTyped <=> ConfigsTyped /\ CountsTyped /\ FlagsTyped /\ PlacesTyped /\ TimesTyped
  BY DEF TimersTyped, ConfigsTyped, CountsTyped, FlagsTyped, PlacesTyped, TimesTyped

LEMMA TimersTypeInit == TimersInit => ConfigsTyped /\ CountsTyped /\ FlagsTyped /\ PlacesTyped /\ TimesTyped
<1> SUFFICES ASSUME TimersInit PROVE ConfigsTyped /\ CountsTyped /\ FlagsTyped /\ PlacesTyped /\ TimesTyped
  OBVIOUS
<1>1. ConfigsTyped
  BY DEF TimersInit, ConfigsTyped, Feeds
<1>2. CountsTyped
  BY TimersAssumption DEF TimersInit, CountsTyped
<1>3. FlagsTyped /\ PlacesTyped
  BY DEF TimersInit, FlagsTyped, PlacesTyped
<1>4. TimesTyped
  BY IntervalsAreDeadlines DEF TimersInit, TimesTyped
<1> QED
  BY <1>1, <1>2, <1>3, <1>4

LEMMA ConfigsStep == ConfigsTyped /\ [TimersNext]_timersVars => ConfigsTyped'
<1> SUFFICES ASSUME ConfigsTyped, [TimersNext]_timersVars PROVE ConfigsTyped'
  OBVIOUS
<1>1. CASE Tick \/ User \/ TerminalShows \/ UNCHANGED timersVars
  BY <1>1 DEF ConfigsTyped, Tick, User, TerminalEdits, DashboardEdits, Broadcast, RefreshRequested,
              PingRequested, TerminalShows, timersVars, configVars, refreshVars
<1>2. CASE RefreshLoop
  BY <1>2 DEF ConfigsTyped, RefreshLoop, RefreshSleeps, RefreshWakes, RefreshTimerFires, RefreshTriggered,
              RefreshSeesEdit, RefreshLocks, RefreshRuns, RefreshCopies, RefreshWritesBack, RefreshEndsInError,
              RefreshFed, configVars, Feeds
<1>3. CASE PingLoop
  BY <1>3 DEF ConfigsTyped, PingLoop, PingSleeps, PingWakes, PingComesDue, PingAskedFor, PingSeesEdit,
              PingRestarted, CallPing, PingRuns, PingEnds, PingGivesWay, PingFed, configVars, refreshVars
<1> QED
  BY <1>1, <1>2, <1>3 DEF TimersNext

LEMMA CountsStep == CountsTyped /\ [TimersNext]_timersVars => CountsTyped'
<1> SUFFICES ASSUME CountsTyped, [TimersNext]_timersVars PROVE CountsTyped'
  OBVIOUS
<1>1. CASE User
  BY <1>1, TimersAssumption DEF CountsTyped, User, TerminalEdits, DashboardEdits, RefreshRequested,
                                PingRequested, configVars, queueVars
<1>2. CASE Tick \/ TerminalShows \/ RefreshLoop \/ PingLoop \/ UNCHANGED timersVars
  <2>1. UNCHANGED <<edits, requests>>
    BY <1>2 DEF Tick, TerminalShows, timersVars, configVars, queueVars,
                RefreshLoop, RefreshSleeps, RefreshWakes, RefreshTimerFires, RefreshTriggered,
                RefreshSeesEdit, RefreshLocks, RefreshRuns, RefreshCopies, RefreshWritesBack, RefreshEndsInError,
                RefreshFed, PingLoop, PingSleeps, PingWakes, PingComesDue, PingAskedFor, PingSeesEdit,
                PingRestarted, PingRuns, PingEnds, PingGivesWay, PingFed
  <2> QED
    BY <2>1 DEF CountsTyped
<1> QED
  BY <1>1, <1>2 DEF TimersNext

LEMMA FlagsStep == FlagsTyped /\ [TimersNext]_timersVars => FlagsTyped'
<1> SUFFICES ASSUME FlagsTyped, [TimersNext]_timersVars PROVE FlagsTyped'
  OBVIOUS
<1>1. CASE Tick \/ User \/ TerminalShows \/ UNCHANGED timersVars
  BY <1>1 DEF FlagsTyped, Tick, User, TerminalEdits, DashboardEdits, Broadcast, RefreshRequested,
              PingRequested, TerminalShows, timersVars, configVars, queueVars, refreshVars
<1>2. CASE RefreshSleeps \/ RefreshLocks \/ RefreshRuns
  BY <1>2 DEF FlagsTyped, RefreshSleeps, RefreshLocks, RefreshRuns, RefreshCopies, RefreshWritesBack,
              RefreshEndsInError, RefreshFed, configVars, queueVars
<1>3. CASE RefreshWakes
  BY <1>3 DEF FlagsTyped, RefreshWakes, RefreshTimerFires, RefreshTriggered, RefreshSeesEdit, CallRefresh,
              Pinging, configVars, queueVars
<1>4. CASE PingLoop
  BY <1>4 DEF FlagsTyped, PingLoop, PingSleeps, PingWakes, PingComesDue, PingAskedFor, PingSeesEdit,
              PingRestarted, PingRuns, PingEnds, PingGivesWay, PingFed, PingDone, configVars, queueVars,
              refreshVars
<1> QED
  BY <1>1, <1>2, <1>3, <1>4 DEF TimersNext, RefreshLoop

LEMMA PlacesStep == PlacesTyped /\ [TimersNext]_timersVars => PlacesTyped'
<1> SUFFICES ASSUME PlacesTyped, [TimersNext]_timersVars PROVE PlacesTyped'
  OBVIOUS
<1>1. CASE Tick \/ User \/ TerminalShows \/ UNCHANGED timersVars
  BY <1>1 DEF PlacesTyped, Tick, User, TerminalEdits, DashboardEdits, RefreshRequested,
              PingRequested, TerminalShows, timersVars, refreshVars, pingVars
<1>2. CASE RefreshLoop
  BY <1>2 DEF PlacesTyped, RefreshLoop, RefreshSleeps, RefreshWakes, RefreshTimerFires, RefreshTriggered,
              RefreshSeesEdit, CallRefresh, RefreshLocks, RefreshRuns, RefreshCopies, RefreshWritesBack,
              RefreshEndsInError, RefreshFed, pingVars
<1>3. CASE PingLoop
  BY <1>3 DEF PlacesTyped, PingLoop, PingSleeps, PingWakes, PingComesDue, PingAskedFor, PingSeesEdit,
              PingRestarted, CallPing, PingRuns, PingEnds, PingGivesWay, PingFed, PingDone, refreshVars
<1> QED
  BY <1>1, <1>2, <1>3 DEF TimersNext

LEMMA TimesStep == ConfigsTyped /\ TimesTyped /\ [TimersNext]_timersVars => TimesTyped'
<1> SUFFICES ASSUME ConfigsTyped, TimesTyped, [TimersNext]_timersVars PROVE TimesTyped'
  OBVIOUS
<1>0. /\ live.refresh \in Intervals /\ live.refresh \in Deadlines
      /\ live.ping \in Intervals /\ live.ping \in Deadlines
      /\ lastR \in Deadlines /\ lastP \in Deadlines /\ Never \in Deadlines
  BY IntervalsAreDeadlines DEF ConfigsTyped, TimesTyped
<1>1. CASE Tick
  BY <1>1, AgedIsDeadline DEF TimesTyped, Tick
<1>2. CASE User \/ TerminalShows \/ UNCHANGED timersVars
  BY <1>2 DEF TimesTyped, User, TerminalEdits, DashboardEdits, RefreshRequested,
              PingRequested, TerminalShows, timersVars, refreshVars, pingVars
<1>3. CASE RefreshLoop
  BY <1>0, <1>3 DEF TimesTyped, RefreshLoop, RefreshSleeps, RefreshWakes, RefreshTimerFires,
              RefreshTriggered, RefreshSeesEdit, RefreshLocks, RefreshRuns, RefreshCopies,
              RefreshWritesBack, RefreshEndsInError, RefreshFed, ArmBeforeFeeding, pingVars
<1>4. CASE PingLoop
  BY <1>0, <1>4 DEF TimesTyped, PingLoop, PingSleeps, PingWakes, PingComesDue, PingAskedFor,
              PingSeesEdit, PingRestarted, PingRuns, PingEnds, PingGivesWay, PingFed, PingDone, ArmP,
              refreshVars
<1> QED
  BY <1>1, <1>2, <1>3, <1>4 DEF TimersNext

\* Every variable keeps its type; no deadline is further away than the longest
\* interval of a configuration.
THEOREM TimersTypeCorrect == TimersSpec => []TimersTyped
  BY TimersTypeInit, TypeParts, ConfigsStep, CountsStep, FlagsStep, PlacesStep, TimesStep, PTL DEF TimersSpec
-----------------------------------------------------------------------------
(* The timers: feed edits.                                                   *)

\* The fingerprint is that of the list the last refresh was called with, and of
\* the live one unless a broadcast is still to be seen.
Marked == takenR.feeds = fingerprint /\ (~unseenR => fingerprint = live.feeds)

\* A feed edit is never swallowed, for any configurations and any number of
\* edits, failures and triggers (RefreshFingerprint, should_refresh_now).
THEOREM NoFeedEditSwallowed == TimersSpec => []FeedEditsFetched
<1>1. TimersInit => Marked
  BY DEF TimersInit, Marked
<1>2. Marked /\ [TimersNext]_timersVars => Marked'
  <2> SUFFICES ASSUME Marked, [TimersNext]_timersVars PROVE Marked'
    OBVIOUS
  <2>1. CASE Tick \/ TerminalShows \/ UNCHANGED timersVars
    BY <2>1 DEF Marked, Tick, TerminalShows, timersVars, configVars, refreshVars
  <2>2. CASE User
    BY <2>2 DEF Marked, User, TerminalEdits, DashboardEdits, Broadcast, RefreshRequested, PingRequested,
                configVars, refreshVars
  <2>3. CASE RefreshSleeps \/ RefreshLocks \/ RefreshRuns
    BY <2>3 DEF Marked, RefreshSleeps, RefreshLocks, RefreshRuns, RefreshCopies, RefreshWritesBack,
                RefreshEndsInError, RefreshFed, configVars
  <2>4. CASE RefreshWakes
    BY <2>4 DEF Marked, RefreshWakes, RefreshTimerFires, RefreshTriggered, RefreshSeesEdit,
                ShouldRefreshNow, configVars
  <2>5. CASE PingLoop
    BY <2>5 DEF Marked, PingLoop, PingSleeps, PingWakes, PingComesDue, PingAskedFor, PingSeesEdit,
                PingRestarted, PingRuns, PingEnds, PingGivesWay, PingFed, configVars, refreshVars
  <2> QED
    BY <2>1, <2>2, <2>3, <2>4, <2>5 DEF TimersNext, RefreshLoop
<1>3. Marked => FeedEditsFetched
  BY DEF Marked, FeedEditsFetched
<1> QED
  BY <1>1, <1>2, <1>3, PTL DEF TimersSpec
-----------------------------------------------------------------------------
(* The timers: countdowns.                                                   *)

\* Where the countdown shown is not the deadline a restart is on its way, or
\* the ping loop is about to set both again.
Repaired == restart \/ shownP = leftP \/ (p = "top" /\ leftP = Never)

\* The countdown on the screen is the one slept until, whatever old copies
\* refreshes write back over it (set_next_ping_deadline, ping_restart_tx).
THEOREM CountdownsCorrect == TimersSpec => []CountdownsAgree
<1>1. TimersInit => Repaired
  BY DEF TimersInit, Repaired
<1>2. Repaired /\ [TimersNext]_timersVars => Repaired'
  <2> SUFFICES ASSUME Repaired, [TimersNext]_timersVars PROVE Repaired'
    OBVIOUS
  <2>1. CASE Tick
    BY <2>1 DEF Repaired, Tick, Aged, queueVars
  <2>2. CASE User \/ TerminalShows \/ UNCHANGED timersVars
    BY <2>2 DEF Repaired, User, TerminalEdits, DashboardEdits, RefreshRequested, PingRequested,
                TerminalShows, timersVars, queueVars, pingVars
  <2>3. CASE RefreshLoop
    BY <2>3 DEF Repaired, RefreshLoop, RefreshSleeps, RefreshWakes, RefreshTimerFires, RefreshTriggered,
                RefreshSeesEdit, RefreshLocks, RefreshRuns, RefreshCopies, RefreshWritesBack, RefreshEndsInError,
                RefreshFed, queueVars, pingVars
  <2>4. CASE PingSleeps
    BY <2>4 DEF Repaired, PingSleeps, ArmP, Rearms, queueVars
  <2>5. CASE PingWakes
    BY <2>5 DEF Repaired, PingWakes, PingComesDue, PingAskedFor, PingSeesEdit, PingRestarted, ArmP,
                queueVars
  <2>6. CASE PingRuns
    BY <2>6 DEF Repaired, PingRuns, PingEnds, PingGivesWay, PingFed, PingDone, ArmP, queueVars
  <2> QED
    BY <2>1, <2>2, <2>3, <2>4, <2>5, <2>6 DEF TimersNext, PingLoop
<1>3. Repaired => CountdownsAgree
  BY DEF Repaired, CountdownsAgree
<1> QED
  BY <1>1, <1>2, <1>3, PTL DEF TimersSpec
=============================================================================
