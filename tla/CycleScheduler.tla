--------------------------- MODULE CycleScheduler ---------------------------
(***************************************************************************)
(* The two background loops of V2RayDAR (src/main.rs): the REFRESH loop     *)
(* fetches the subscriptions and probes what it fetched, the PING loop      *)
(* re-probes what is already cached.  They share RuntimeState behind a      *)
(* read-write lock, the cycle mutex that serialises their cycles, and the   *)
(* ping_cancel flag by which a refresh preempts a running ping and carries  *)
(* its partial results over.                                                *)
(*                                                                         *)
(* A ranked list is abstracted to a function from keys to "none" (no row),  *)
(* "up" (a reachable row) or "down": the order of the rows, and with it     *)
(* which rows a truncation keeps, is a nondeterministic choice.             *)
(***************************************************************************)
EXTENDS Naturals, FiniteSets

CONSTANTS
    Keys,           \* the dedup keys of the configs there are
    TopN,           \* config.top_n
    Stability,      \* config.prioritize_stability
    Asap,           \* config.return_configs_asap
    ScanAll,        \* config.scan_all_configs
    Active,         \* config.probe.mode is Active (early stop exists)
    AutoPing,       \* the ping timer is armed
    FallbackBatch,  \* DATABASE_FALLBACK_MAX_CANDIDATES
    FallbackBudget, \* DATABASE_FALLBACK_TOTAL_CANDIDATES
    BackfillBatch,  \* PING_BACKFILL_MAX_CANDIDATES
    Faults          \* which awaited steps may fail

ASSUME KeysFinite == IsFiniteSet(Keys)
ASSUME TopNPositive == TopN \in Nat \ {0}
ASSUME OptionsBoolean == {Stability, Asap, ScanAll, Active, AutoPing} \subseteq BOOLEAN
ASSUME LimitsNatural == {FallbackBatch, FallbackBudget, BackfillBatch} \subseteq Nat
ASSUME FaultsKnown == Faults \subseteq {"load", "fetch", "persist"}

Tasks == {"refresh", "ping"}
Verdicts == {"none", "up", "down"}
RankedLists == [Keys -> Verdicts]

NoRows == [k \in Keys |-> "none"]
RowKeys(list) == {k \in Keys : list[k] # "none"}
Working(list) == {k \in Keys : list[k] = "up"}
Only(list, S) == [k \in Keys |-> IF k \in S THEN list[k] ELSE "none"]
\* deduplicate_ranked_configs(first ++ second): the first row of a key stays.
Merge(first, second) ==
    [k \in Keys |-> IF first[k] # "none" THEN first[k] ELSE second[k]]

NoCarry == [taken |-> FALSE, rows |-> NoRows, reachable |-> 0]

VARIABLES
    lock,        \* the holder of the cycle mutex, or "free"
    cancel,      \* ping_cancel
    refreshing,  \* RuntimeState.refreshing
    pinging,     \* RuntimeState.pinging
    ranked,      \* RuntimeState.ranked
    reachable,   \* RuntimeState.reachable_candidates
    lastUp,      \* history: the keys whose most recent probe succeeded
    pc,          \* where each loop is in its cycle
    prev,        \* previous_before_refresh.ranked, previous_before_ping.ranked
    queue,       \* the candidates the running probe call has not tested yet
    found,       \* the results of the running probe call
    tested,      \* `ranked` in refresh_once and ping_once: earlier calls' results
    half,        \* ProbeStopState.half_snapshot_sent of the running probe call
    excluded,    \* what the fallback and backfill pools leave out
    carry,       \* the refresh's PingCarry
    fetch,       \* fetched_count = 0 and fetch_errors # [] of the refresh
    spent,       \* total_tested of the database fallback
    seenPinging, \* progress_state.pinging of the refresh
    outcome      \* the result of ping_once

state == <<refreshing, pinging, ranked, reachable>>
locals == <<prev, queue, found, tested, half, excluded, carry, fetch, spent,
            seenPinging, outcome>>
vars == <<lock, cancel, refreshing, pinging, ranked, reachable, lastUp, pc,
          prev, queue, found, tested, half, excluded, carry, fetch, spent,
          seenPinging, outcome>>
-----------------------------------------------------------------------------
RefreshInside == {"start", "fetch", "bridge", "probe", "fallback", "publish"}
PingInside == {"start", "probe", "backfill", "finish", "publish"}
RefreshPlaces == {"idle", "enter", "preempt", "announce", "queued", "record", "feed"}
                    \cup RefreshInside
PingPlaces == {"idle", "try", "clear", "feed"} \cup PingInside

TypeOK ==
    /\ lock \in Tasks \cup {"free"}
    /\ cancel \in BOOLEAN /\ refreshing \in BOOLEAN /\ pinging \in BOOLEAN
    /\ seenPinging \in BOOLEAN
    /\ ranked \in RankedLists
    /\ reachable \in Nat /\ spent \in Nat
    /\ lastUp \subseteq Keys
    /\ pc \in [Tasks -> RefreshPlaces \cup PingPlaces]
    /\ pc["refresh"] \in RefreshPlaces /\ pc["ping"] \in PingPlaces
    /\ prev \in [Tasks -> RankedLists] /\ found \in [Tasks -> RankedLists]
    /\ tested \in [Tasks -> RankedLists]
    /\ queue \in [Tasks -> SUBSET Keys] /\ excluded \in [Tasks -> SUBSET Keys]
    /\ half \in [Tasks -> BOOLEAN]
    /\ carry \in [taken : BOOLEAN, rows : RankedLists, reachable : Nat]
    /\ fetch \in [empty : BOOLEAN, errors : BOOLEAN]
    /\ outcome \in {"finished", "failed", "preempted"}

Init ==
    /\ lock = "free" /\ cancel = FALSE
    /\ refreshing = FALSE /\ pinging = FALSE
    /\ ranked = NoRows /\ reachable = 0
    /\ lastUp = {}
    /\ pc = [t \in Tasks |-> "idle"]
    /\ prev = [t \in Tasks |-> NoRows]
    /\ queue = [t \in Tasks |-> {}]
    /\ found = [t \in Tasks |-> NoRows]
    /\ tested = [t \in Tasks |-> NoRows]
    /\ half = [t \in Tasks |-> FALSE]
    /\ excluded = [t \in Tasks |-> {}]
    /\ carry = NoCarry
    /\ fetch = [empty |-> TRUE, errors |-> FALSE]
    /\ spent = 0 /\ seenPinging = FALSE /\ outcome = "finished"

Goto(t, place) == pc' = [pc EXCEPT ![t] = place]
-----------------------------------------------------------------------------
(* What both loops share: probing, and feeding the proxy.                    *)

\* The working configs that count toward top_n before the probe call starts.
Prefound(t) == IF t = "refresh" THEN carry.reachable + Cardinality(Working(tested[t])) ELSE 0

\* probe_stop_reason may end the call: the target is met.  Which previously
\* stable keys are among the found (the stability quorum) is left open.
TargetMet(t) ==
    /\ Active /\ ~ScanAll
    /\ RowKeys(found[t]) # {}
    /\ Cardinality(Working(found[t])) + Prefound(t) >= TopN

\* append_asap_working_configs: the reachable rows of the live list and then
\* the newly found ones, truncated to top_n.
AsapLists(list, new) ==
    LET live == Working(list)
        all == live \cup new
        up(S) == [k \in Keys |-> IF k \in S THEN "up" ELSE "none"]
    IN  IF Cardinality(all) <= TopN THEN {up(all)}
        ELSE {up(S) : S \in {T \in SUBSET all :
                /\ Cardinality(T) = TopN
                /\ IF Cardinality(live) >= TopN THEN T \subseteq live ELSE live \subseteq T}}

HalfTarget == TopN \div 2

\* The early publication of the first half of top_n, once per probe call.
HalfDue(t, new) ==
    /\ Active /\ ~ScanAll /\ Stability /\ ~Asap
    /\ HalfTarget > 0 /\ ~half[t]
    /\ new # {}
    /\ Cardinality(new) + Prefound(t) >= HalfTarget

\* stability_snapshot: the first half of top_n, from what this call found.
HalfSnapshots(list, new) ==
    IF Cardinality(new) <= HalfTarget THEN {Only(list, new)}
    ELSE {Only(list, S) : S \in {T \in SUBSET new : Cardinality(T) = HalfTarget}}

\* The live lists one more result leads to.
LiveLists(t, results) ==
    LET new == Working(results)
    IN  IF Asap /\ new # {} THEN AsapLists(ranked, new)
        ELSE IF HalfDue(t, new) THEN HalfSnapshots(results, new)
        ELSE {ranked}

\* One candidate's result: the shared result list, the progress counters and
\* the live list.  The forwarder applies events in order and is drained
\* before the loop reads the state again, so the events take effect here.
ProbeOne(t, k, verdict) ==
    /\ pc[t] = "probe"
    /\ k \in queue[t]
    /\ queue' = [queue EXCEPT ![t] = @ \ {k}]
    /\ found' = [found EXCEPT ![t][k] = verdict]
    /\ lastUp' = IF verdict = "up" THEN lastUp \cup {k} ELSE lastUp \ {k}
    /\ reachable' = IF verdict = "up" THEN reachable + 1 ELSE reachable
    /\ ranked' \in LiveLists(t, found'[t])
    /\ half' = [half EXCEPT ![t] = @ \/ HalfDue(t, Working(found'[t]))]
    /\ UNCHANGED <<lock, cancel, refreshing, pinging, pc, prev, tested, excluded,
                   carry, fetch, spent, seenPinging, outcome>>

\* probe_candidates returns: its rows join the cycle's list.
ProbeReturns(t, place) ==
    /\ pc[t] = "probe"
    /\ tested' = [tested EXCEPT ![t] = Merge(@, found[t])]
    /\ found' = [found EXCEPT ![t] = NoRows]
    /\ queue' = [queue EXCEPT ![t] = {}]
    /\ half' = [half EXCEPT ![t] = FALSE]
    /\ excluded' = [excluded EXCEPT ![t] = @ \cup RowKeys(found[t])]
    /\ Goto(t, place)
    /\ UNCHANGED <<lock, cancel, refreshing, pinging, ranked, reachable, lastUp,
                   prev, carry, fetch, spent, seenPinging, outcome>>

\* A batch of database rows outside the exclusion set becomes the next queue.
ProbeMore(t, batch) ==
    /\ queue' = [queue EXCEPT ![t] = batch]
    /\ excluded' = [excluded EXCEPT ![t] = @ \cup batch]
    /\ Goto(t, "probe")

\* The locals of a loop's pass go out of scope.
Forget(t) ==
    /\ prev' = [prev EXCEPT ![t] = NoRows]
    /\ queue' = [queue EXCEPT ![t] = {}]
    /\ found' = [found EXCEPT ![t] = NoRows]
    /\ tested' = [tested EXCEPT ![t] = NoRows]
    /\ half' = [half EXCEPT ![t] = FALSE]
    /\ excluded' = [excluded EXCEPT ![t] = {}]
    /\ IF t = "ping"
       THEN outcome' = "finished" /\ UNCHANGED <<carry, fetch, spent, seenPinging>>
       ELSE /\ carry' = NoCarry
            /\ fetch' = [empty |-> TRUE, errors |-> FALSE]
            /\ spent' = 0 /\ seenPinging' = FALSE
            /\ UNCHANGED outcome

\* update_proxy_and_ranked reads the live list and hands it to the proxy and
\* to its failover loop (both outside this module).
Feed(t) ==
    /\ pc[t] = "feed"
    /\ Goto(t, "idle")
    /\ Forget(t)
    /\ UNCHANGED <<lock, cancel, state, lastUp>>
-----------------------------------------------------------------------------
(* The refresh loop and refresh_once.                                        *)

\* The timer, a manual trigger, the start or a subscription edit.
RefreshBegins ==
    /\ pc["refresh"] = "idle"
    /\ Goto("refresh", "enter")
    /\ UNCHANGED <<lock, cancel, state, lastUp, locals>>

\* A config edit that leaves the subscriptions alone only feeds the proxy.
ConfigEdited ==
    /\ pc["refresh"] = "idle"
    /\ Goto("refresh", "feed")
    /\ UNCHANGED <<lock, cancel, state, lastUp, locals>>

\* A running ping is seen only if the state's read lock is free right now.
RefreshEnters ==
    /\ pc["refresh"] = "enter"
    /\ \E readable \in BOOLEAN :
          Goto("refresh", IF cancel \/ (readable /\ pinging) THEN "preempt" ELSE "queued")
    /\ UNCHANGED <<lock, cancel, state, lastUp, locals>>

RefreshPreempts ==
    /\ pc["refresh"] = "preempt"
    /\ cancel' = TRUE
    /\ Goto("refresh", "announce")
    /\ UNCHANGED <<lock, state, lastUp, locals>>

RefreshAnnounces ==
    /\ pc["refresh"] = "announce"
    /\ refreshing' = TRUE
    /\ Goto("refresh", "queued")
    /\ UNCHANGED <<lock, cancel, pinging, ranked, reachable, lastUp, locals>>

\* Mutant: the cancel flag is read, not swapped.
RefreshAcquiresKeepingCancel ==
    /\ pc["refresh"] = "queued" /\ lock = "free"
    /\ lock' = "refresh"
    /\ carry' = IF cancel THEN [taken |-> TRUE, rows |-> ranked, reachable |-> reachable]
                ELSE NoCarry
    /\ prev' = [prev EXCEPT !["refresh"] = ranked]
    /\ Goto("refresh", "start")
    /\ UNCHANGED <<cancel, state, lastUp, queue, found, tested, half, excluded, fetch,
                   spent, seenPinging, outcome>>

\* The mutex is granted; a set cancel flag is consumed and the list the ping
\* left is carried.  Only the lock's holder writes the list, so the carry and
\* the baseline are read in the same step.
RefreshAcquires ==
    /\ pc["refresh"] = "queued" /\ lock = "free"
    /\ lock' = "refresh"
    /\ cancel' = FALSE
    /\ carry' = IF cancel THEN [taken |-> TRUE, rows |-> ranked, reachable |-> reachable]
                ELSE NoCarry
    /\ prev' = [prev EXCEPT !["refresh"] = ranked]
    /\ Goto("refresh", "start")
    /\ UNCHANGED <<state, lastUp, queue, found, tested, half, excluded, fetch,
                   spent, seenPinging, outcome>>

RefreshStarts ==
    /\ pc["refresh"] = "start"
    /\ refreshing' = TRUE
    /\ reachable' = carry.reachable
    /\ ranked' = IF Asap /\ ~carry.taken THEN NoRows ELSE ranked
    /\ Goto("refresh", "fetch")
    /\ UNCHANGED <<lock, cancel, pinging, lastUp, locals>>

\* load_candidates_with_cache: any configs, with or without failed sources.
\* The rows the preempted ping tested are filtered out.
RefreshFetches ==
    /\ pc["refresh"] = "fetch"
    /\ \E F \in SUBSET Keys, errors \in BOOLEAN :
          /\ queue' = [queue EXCEPT !["refresh"] = F \ RowKeys(carry.rows)]
          /\ fetch' = [empty |-> F = {}, errors |-> errors]
          /\ Goto("refresh", IF errors THEN "bridge" ELSE "probe")
    /\ excluded' = [excluded EXCEPT !["refresh"] = RowKeys(carry.rows)]
    /\ UNCHANGED <<lock, cancel, state, lastUp, prev, found, tested, half, carry,
                   spent, seenPinging, outcome>>

\* Mutant: the carried keys are missing from the seen-set.
RefreshBridgesCarried ==
    /\ pc["refresh"] = "bridge"
    /\ \E R \in SUBSET (Keys \ queue["refresh"]), errors \in BOOLEAN :
          /\ queue' = [queue EXCEPT !["refresh"] = @ \cup R]
          /\ fetch' = [empty |-> fetch.empty /\ R = {}, errors |-> errors]
    /\ Goto("refresh", "probe")
    /\ UNCHANGED <<lock, cancel, state, lastUp, prev, found, tested, half, excluded,
                   carry, spent, seenPinging, outcome>>

\* fetch_through_bridge: the failed sources again, through a working config;
\* only keys that were not seen yet join.  R = {} covers the skipped retry.
RefreshBridges ==
    /\ pc["refresh"] = "bridge"
    /\ \E R \in SUBSET (Keys \ (queue["refresh"] \cup RowKeys(carry.rows))), errors \in BOOLEAN :
          /\ queue' = [queue EXCEPT !["refresh"] = @ \cup R]
          /\ fetch' = [empty |-> fetch.empty /\ R = {}, errors |-> errors]
    /\ Goto("refresh", "probe")
    /\ UNCHANGED <<lock, cancel, state, lastUp, prev, found, tested, half, excluded,
                   carry, spent, seenPinging, outcome>>

RefreshProbes == \E k \in Keys, verdict \in {"up", "down"} : ProbeOne("refresh", k, verdict)

RefreshProbed ==
    /\ queue["refresh"] = {} \/ TargetMet("refresh")
    /\ ProbeReturns("refresh", "fallback")

\* probe_database_fallback: one more batch while the target is not met.
RefreshFallsBack ==
    /\ pc["refresh"] = "fallback"
    /\ Prefound("refresh") < TopN
    /\ \E batch \in SUBSET (Keys \ excluded["refresh"]) :
          /\ Cardinality(batch) \in 1 .. FallbackBatch
          /\ spent + Cardinality(batch) <= FallbackBudget
          /\ spent' = spent + Cardinality(batch)
          /\ ProbeMore("refresh", batch)
    /\ UNCHANGED <<lock, cancel, state, lastUp, prev, found, tested, half, carry,
                   fetch, seenPinging, outcome>>

\* The target is met, the budget is spent, or the pool is empty or unreadable;
\* a cycle with nothing to show for its errors fails.
RefreshConcludes ==
    /\ pc["refresh"] = "fallback"
    /\ ~(fetch.empty /\ fetch.errors /\ tested["refresh"] = NoRows)
    /\ seenPinging' = pinging
    /\ Goto("refresh", "publish")
    /\ UNCHANGED <<lock, cancel, state, lastUp, prev, queue, found, tested, half,
                   excluded, carry, fetch, spent, outcome>>

RefreshResult == Merge(tested["refresh"], carry.rows)

\* Mutant: the stability fallback is gone.
KeepPreviousNever(new, old) == FALSE

\* keep_previous_working_set
KeepPrevious(new, old) == Stability /\ Working(new) = {} /\ Working(old) # {}

RefreshPublishes ==
    /\ pc["refresh"] = "publish"
    /\ IF KeepPrevious(RefreshResult, prev["refresh"])
       THEN /\ ranked' = prev["refresh"]
            /\ reachable' = Cardinality(Working(prev["refresh"]))
       ELSE /\ ranked' = RefreshResult
            /\ UNCHANGED reachable
    /\ refreshing' = FALSE
    /\ pinging' = seenPinging
    /\ lock' = "free"
    /\ Goto("refresh", "feed")
    /\ UNCHANGED <<cancel, lastUp, locals>>

\* An error return drops the cycle guard before the loop records the error.
RefreshFails ==
    /\ \/ pc["refresh"] = "start" /\ "load" \in Faults
       \/ pc["refresh"] = "fetch" /\ "fetch" \in Faults
       \/ pc["refresh"] = "fallback" /\ fetch.empty /\ fetch.errors /\ tested["refresh"] = NoRows
       \/ /\ pc["refresh"] = "publish" /\ "persist" \in Faults
          /\ ~KeepPrevious(RefreshResult, prev["refresh"])
    /\ lock' = "free"
    /\ Goto("refresh", "record")
    /\ UNCHANGED <<cancel, state, lastUp, locals>>

RefreshRecordsError ==
    /\ pc["refresh"] = "record"
    /\ refreshing' = FALSE
    /\ reachable' = 0
    /\ Goto("refresh", "feed")
    /\ UNCHANGED <<lock, cancel, pinging, ranked, lastUp, locals>>

RefreshCycle ==
    \/ RefreshEnters \/ RefreshPreempts \/ RefreshAnnounces \/ RefreshAcquires
    \/ RefreshStarts \/ RefreshFetches \/ RefreshBridges \/ RefreshProbes \/ RefreshProbed
    \/ RefreshFallsBack \/ RefreshConcludes \/ RefreshPublishes
    \/ RefreshFails \/ RefreshRecordsError
    \/ Feed("refresh")
-----------------------------------------------------------------------------
(* The ping loop, run_ping_cycle and ping_once.                              *)

PingTimerFires ==
    /\ AutoPing
    /\ pc["ping"] = "idle"
    /\ Goto("ping", "try")
    /\ UNCHANGED <<lock, cancel, state, lastUp, locals>>

\* A manual ping is refused while a cycle is running (cycle_busy).
PingTriggered ==
    /\ pc["ping"] = "idle"
    /\ ~refreshing /\ ~pinging
    /\ Goto("ping", "try")
    /\ UNCHANGED <<lock, cancel, state, lastUp, locals>>

\* Mutant: the mutex is not fair to a refresh that waits.
LockFree == lock = "free"

\* try_lock never overtakes a refresh that already waits for the mutex.
LockAvailable == lock = "free" /\ pc["refresh"] # "queued"

PingSkips ==
    /\ pc["ping"] = "try"
    /\ ~LockAvailable \/ RowKeys(ranked) = {}
    /\ outcome' = "finished"
    /\ Goto("ping", "clear")
    /\ UNCHANGED <<lock, cancel, state, lastUp, prev, queue, found, tested, half,
                   excluded, carry, fetch, spent, seenPinging>>

PingAcquires ==
    /\ pc["ping"] = "try"
    /\ LockAvailable /\ RowKeys(ranked) # {}
    /\ lock' = "ping"
    /\ prev' = [prev EXCEPT !["ping"] = ranked]
    /\ queue' = [queue EXCEPT !["ping"] = RowKeys(ranked)]
    /\ excluded' = [excluded EXCEPT !["ping"] = RowKeys(ranked)]
    /\ Goto("ping", "start")
    /\ UNCHANGED <<cancel, state, lastUp, found, tested, half, carry, fetch,
                   spent, seenPinging, outcome>>

PingStarts ==
    /\ pc["ping"] = "start"
    /\ pinging' = TRUE
    /\ reachable' = 0
    /\ Goto("ping", "probe")
    /\ UNCHANGED <<lock, cancel, refreshing, ranked, lastUp, locals>>

\* Once cancelled, only failures that need no probe are still reported.
PingProbes ==
    \E k \in Keys, verdict \in {"up", "down"} :
        /\ cancel => verdict = "down"
        /\ ProbeOne("ping", k, verdict)

PingProbed ==
    /\ queue["ping"] = {} \/ TargetMet("ping") \/ cancel
    /\ ProbeReturns("ping", "backfill")

\* probe_ping_backfill
PingBackfills ==
    /\ pc["ping"] = "backfill"
    /\ ~cancel
    /\ Cardinality(Working(tested["ping"])) < TopN
    /\ \E batch \in SUBSET (Keys \ excluded["ping"]) :
          /\ Cardinality(batch) \in 1 .. BackfillBatch
          /\ ProbeMore("ping", batch)
    /\ UNCHANGED <<lock, cancel, state, lastUp, prev, found, tested, half, carry,
                   fetch, spent, seenPinging, outcome>>

\* Mutant: an empty pool does not end the backfill.
PingBackfilledOnTarget ==
    /\ pc["ping"] = "backfill"
    /\ cancel \/ Cardinality(Working(tested["ping"])) >= TopN
    /\ Goto("ping", "finish")
    /\ UNCHANGED <<lock, cancel, state, lastUp, locals>>

\* Cancelled, the target met, or the pool empty or unreadable.
PingBackfilled ==
    /\ pc["ping"] = "backfill"
    /\ Goto("ping", "finish")
    /\ UNCHANGED <<lock, cancel, state, lastUp, locals>>

PingReturns(result) ==
    /\ lock' = "free"
    /\ outcome' = result
    /\ Goto("ping", "clear")
    /\ UNCHANGED <<cancel, refreshing, lastUp, prev, queue, found, tested, half,
                   excluded, carry, fetch, spent, seenPinging>>

\* Preempted partials that verify less than was served, or that lack the row
\* of the config the proxy runs, give way to the list served before.
PingPreempted ==
    /\ pc["ping"] = "finish" /\ cancel
    /\ \E activeRow \in SUBSET RowKeys(prev["ping"]) :
          /\ Cardinality(activeRow) <= 1
          /\ LET served == Cardinality(Working(prev["ping"]))
                 fewer == Cardinality(Working(tested["ping"])) < served
                 activeDropped == ~(activeRow \subseteq RowKeys(tested["ping"]))
             IN  IF fewer \/ activeDropped
                 THEN ranked' = prev["ping"] /\ reachable' = served
                 ELSE ranked' = tested["ping"] /\ UNCHANGED reachable
    /\ pinging' = FALSE
    /\ PingReturns("preempted")

PingFinishes ==
    /\ pc["ping"] = "finish" /\ ~cancel
    /\ Goto("ping", "publish")
    /\ UNCHANGED <<lock, cancel, state, lastUp, locals>>

\* Mutant: served configs keep their seats whether or not they still verify.
PingResultsUnverified ==
    IF KeepPrevious(tested["ping"], prev["ping"]) THEN {prev["ping"]}
    ELSE {Merge(Only(prev["ping"], Working(prev["ping"])), tested["ping"])}

\* What a finished ping publishes.  With stability on, the served configs that
\* still verify keep their seats and newcomers only fill up to top_n.
PingResults ==
    LET new == tested["ping"]
        still == Working(prev["ping"]) \cap Working(new)
        newcomers == Working(new) \ still
        down == RowKeys(new) \ Working(new)
        seats == IF TopN > Cardinality(still) THEN TopN - Cardinality(still) ELSE 0
    IN  IF KeepPrevious(new, prev["ping"]) THEN {prev["ping"]}
        ELSE IF ~Stability THEN {new}
        ELSE {Only(new, still \cup fill \cup down) : fill \in {S \in SUBSET newcomers :
                Cardinality(S) = IF Cardinality(newcomers) < seats
                                 THEN Cardinality(newcomers) ELSE seats}}

PingPublishes ==
    /\ pc["ping"] = "publish"
    /\ ranked' \in PingResults
    /\ reachable' = Cardinality(Working(ranked'))
    /\ pinging' = FALSE
    /\ PingReturns("finished")

\* `?` on the stable keys or on the persist: pinging stays set until the loop
\* clears it.
PingFails ==
    /\ \/ pc["ping"] = "start" /\ "load" \in Faults
       \/ /\ pc["ping"] = "publish" /\ "persist" \in Faults
          /\ ~KeepPrevious(tested["ping"], prev["ping"])
    /\ UNCHANGED <<pinging, ranked, reachable>>
    /\ PingReturns("failed")

\* run_ping_cycle after ping_once: a preempted ping does not feed the proxy.
PingClears ==
    /\ pc["ping"] = "clear"
    /\ pinging' = FALSE
    /\ IF outcome = "preempted"
       THEN Goto("ping", "idle") /\ Forget("ping")
       ELSE Goto("ping", "feed") /\ UNCHANGED locals
    /\ UNCHANGED <<lock, cancel, refreshing, ranked, reachable, lastUp>>

PingCycle ==
    \/ PingSkips \/ PingAcquires \/ PingStarts \/ PingProbes \/ PingProbed
    \/ PingBackfills \/ PingBackfilled \/ PingPreempted \/ PingFinishes \/ PingPublishes
    \/ PingFails \/ PingClears \/ Feed("ping")
-----------------------------------------------------------------------------
Next ==
    \/ RefreshBegins \/ ConfigEdited \/ RefreshCycle
    \/ PingTimerFires \/ PingTriggered \/ PingCycle

Spec == Init /\ [][Next]_vars

\* The runtime keeps polling a task whose await is ready, and every await
\* inside a cycle is bounded by a timeout: a cycle that began goes on.
\* Nothing is assumed about timers, triggers and edits.
FairSpec == Spec /\ WF_vars(RefreshCycle) /\ WF_vars(PingCycle)
-----------------------------------------------------------------------------
(* Safety.                                                                   *)

\* The cycle mutex serialises the cycles: a loop is between its first read of
\* the list and its last write exactly while it holds the mutex
\* ("Serializes fetch and ping cycles", src/src/main.rs).
CyclesSerialised ==
    /\ pc["refresh"] \in RefreshInside <=> lock = "refresh"
    /\ pc["ping"] \in PingInside <=> lock = "ping"

\* A set cancel flag belongs to a refresh that has asked and not yet taken
\* over, so a ping that reads it always has a refresh behind it ("a set flag
\* always means stop now", ping_once).
CancelHasRefreshBehind == cancel => pc["refresh"] \in {"announce", "queued"}

\* `refreshing` refuses manual triggers, so it may not outlive the refresh: a
\* failed or preempting refresh must clear it before its loop is idle again.
RefreshingHasOwner ==
    refreshing => pc["refresh"] \in {"queued", "record"} \cup RefreshInside

\* The three together: at most one loop works on the list, and whatever makes
\* the loops wait for or refuse something has a refresh behind it that will
\* take it away.
CyclesInTurn == CyclesSerialised /\ CancelHasRefreshBehind /\ RefreshingHasOwner

\* No config is probed twice in one cycle, whether it was fetched, bridged,
\* drawn from the database or carried from the preempted ping
\* (seen_candidate_keys, carried_keys, fallback_excluded).
NeverProbedTwice ==
    \A t \in Tasks :
        queue[t] \cap (RowKeys(found[t]) \cup RowKeys(tested[t])
                         \cup IF t = "refresh" THEN RowKeys(carry.rows) ELSE {}) = {}

\* What a finished refresh or ping publishes as working was found working by
\* the last probe of it, unless it is a previous set kept on purpose or was
\* carried from a ping: no result of the other loop gets in between.
PublishedIsVerified ==
    [][\A t \in Tasks :
          pc[t] = "publish" /\ pc'[t] # "publish" /\ ranked' # ranked /\ ranked' # prev[t]
          => Working(ranked') \subseteq lastUp \cup Working(carry.rows)]_vars

\* With stability on and early publication off, a working list goes blank in
\* one way only: a preempted ping that started from a list with nothing
\* working puts that list back.
WorkingSetSurvives ==
    [][Stability /\ ~Asap /\ Working(ranked) # {} /\ Working(ranked') = {}
       => pc["ping"] = "finish" /\ Working(prev["ping"]) = {}]_vars
-----------------------------------------------------------------------------
(* What a comment in the source claims and the code does not keep: TLC refutes *)
(* it (README, Divergences), no run checks it.                               *)

\* "The preempted ping verified these seconds ago: keep them": what a refresh
\* publishes as working, when it is not the previous set kept on purpose, was
\* found working by the last probe of it - the carried rows included.
CarriedIsVerified ==
    [][pc["refresh"] = "publish" /\ pc'["refresh"] = "feed"
       /\ ~KeepPrevious(RefreshResult, prev["refresh"])
       => Working(ranked') \subseteq lastUp]_vars
-----------------------------------------------------------------------------
(* Liveness, under FairSpec.                                                 *)

\* Every cycle ends and its loop goes back to waiting - also the refresh that
\* is queued, which a ping cannot starve - and no cancel request outlives the
\* refresh that made it.
CyclesEnd == (\A t \in Tasks : pc[t] # "idle" ~> pc[t] = "idle") /\ (cancel ~> ~cancel)

\* The scheduler implements the abstract mutex: the mutex's holder, and a
\* refresh that is queued for it.
Mutex == INSTANCE CycleMutex WITH holder <- lock, waiting <- pc["refresh"] = "queued"
ImplementsMutex == Mutex!MutexSpec
ImplementsFairMutex == Mutex!MutexFairSpec
=============================================================================
