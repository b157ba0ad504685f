----------------------- MODULE ProxySupervisorProofs ----------------------
(***************************************************************************)
(* Theorems about ProxySupervisor, for every set of configs and listeners,  *)
(* every limit and every choice of tasks and faults.                        *)
(***************************************************************************)
EXTENDS ProxySupervisor, TLAPS

PickPlaces == {"revive", "revived", "tryCheck", "tryTransfer", "tryWorked", "tryFailed"}

\* A loop that is about to start, check, record or mark a config has one.
PickChosen == \A l \in Loops : pc[l] \in PickPlaces => round[l].pick \in Uris

Inv == TypeOK /\ PickChosen /\ RunningHasProcess

\* What select_proxy_config picks is one of the reachable configs.
LEMMA ChoicesReachable ==
    ASSUME NEW config, NEW reach, NEW current, NEW black
    PROVE  Choices(config, reach, current, black) \subseteq reach
  BY DEF Choices, Eligible

\* The type invariant needs PickChosen, and both depend on these facts.
LEMMA RoundTypes ==
    /\ NoRound \in Rounds
    /\ NoProcess \notin Processes
    /\ \A uri \in Uris, listen \in Listeners :
          [uri |-> uri, listen |-> listen, alive |-> TRUE] \in Processes
<1>1. NoRound \in Rounds
  BY DEF NoRound, Rounds
<1>2. NoProcess \notin Processes
  BY UrisFinite DEF NoProcess, Processes
<1>3. \A uri \in Uris, listen \in Listeners :
        [uri |-> uri, listen |-> listen, alive |-> TRUE] \in Processes
  BY DEF Processes
<1> QED
  BY <1>1, <1>2, <1>3

LEMMA InvInit == Init => Inv
<1> SUFFICES ASSUME Init PROVE Inv
  OBVIOUS
<1> USE DEF Init
<1>1. TypeOK
  <2>1. edits \in 0 .. MaxEdits /\ failures \in 0 .. MaxFailures
    BY LimitsNatural
  <2>2. /\ upc \in [Updaters -> {"idle", "cycle", "update"}]
        /\ taken \in [Updaters -> Configs] /\ list \in [Updaters -> SUBSET Uris]
    OBVIOUS
  <2>3. pc \in [Loops -> LoopPlaces] /\ round \in [Loops -> Rounds]
    BY RoundTypes DEF LoopPlaces
  <2> QED
    BY <2>1, <2>2, <2>3 DEF TypeOK
<1>2. PickChosen
  BY DEF PickChosen, PickPlaces
<1>3. RunningHasProcess
  BY DEF RunningHasProcess
<1> QED
  BY <1>1, <1>2, <1>3 DEF Inv

-----------------------------------------------------------------------------
(* One lemma per group of actions.                                           *)

\* Time, the user and the operating system.
LEMMA EnvironmentKeepsInv ==
    ASSUME Inv, UserEdits \/ ProcessCrashes \/ DwellExpires \/ CooldownExpires
    PROVE  Inv'
<1> USE DEF Inv, proxyState, updaterState, loopState, userState
<1>1. CASE UserEdits
  <2>1. edits' \in 0 .. MaxEdits
    BY <1>1, LimitsNatural DEF UserEdits, TypeOK
  <2> QED
    BY <1>1, <2>1 DEF UserEdits, TypeOK, PickChosen, RunningHasProcess
<1>2. CASE ProcessCrashes
  <2>1. process \in Processes
    BY <1>2 DEF ProcessCrashes, Alive, TypeOK
  <2>2. process' \in Processes
    BY <1>2, <2>1 DEF ProcessCrashes, Processes
  <2>3. process' # NoProcess
    BY <2>2, RoundTypes
  <2> QED
    BY <1>2, <2>2, <2>3 DEF ProcessCrashes, TypeOK, PickChosen, RunningHasProcess
<1>3. CASE DwellExpires
  BY <1>3 DEF DwellExpires, TypeOK, PickChosen, RunningHasProcess
<1>4. CASE CooldownExpires
  BY <1>4 DEF CooldownExpires, TypeOK, PickChosen, RunningHasProcess
<1> QED
  BY <1>1, <1>2, <1>3, <1>4

\* Starting and stopping leave a process and a flag that agree.
LEMMA StartedType ==
    ASSUME TypeOK, NEW uri \in Uris, NEW listen \in Listeners, Started(uri, listen)
    PROVE  process' \in Processes \cup {NoProcess} /\ running' \in BOOLEAN
           /\ RunningHasProcess'
  BY RoundTypes DEF Started, TypeOK, RunningHasProcess

LEMMA StartFailsType ==
    ASSUME TypeOK, StartFails
    PROVE  process' \in Processes \cup {NoProcess} /\ running' \in BOOLEAN
           /\ RunningHasProcess'
  BY DEF StartFails, Stopped, TypeOK, RunningHasProcess

LEMMA UpdateServesKeepsInv ==
    ASSUME Inv, NEW u \in Updaters, UpdateServes(u)
    PROVE  Inv'
<1> USE DEF Inv
<1>1. /\ cfg' = taken[u] /\ cfg' \in Configs
      /\ failed' \subseteq Uris
      /\ cooldown' = cooldown
      /\ upc' \in [Updaters -> {"idle", "cycle", "update"}]
      /\ list' \in [Updaters -> SUBSET Uris] /\ taken' \in [Updaters -> Configs]
      /\ UNCHANGED <<userState, shared, loopState>>
  BY DEF UpdateServes, UpdateEnds, TypeOK
<1>2. /\ active' \in Uris \cup {NoUri} /\ dwell' \in BOOLEAN /\ degraded' \in BOOLEAN
      /\ failures' \in 0 .. MaxFailures
      /\ process' \in Processes \cup {NoProcess} /\ running' \in BOOLEAN
      /\ RunningHasProcess'
  <2> DEFINE black == IF taken[u].pin # NoUri THEN {} ELSE IF u = "refresh" THEN {} ELSE failed
             choices == Choices(taken[u], list[u], active, black)
             stale == StaleBlacklist(taken[u], list[u], black)
  <2>1. stale \in BOOLEAN /\ degraded \in BOOLEAN
    BY DEF StaleBlacklist, TypeOK
  <2>2. choices \subseteq Uris
    BY ChoicesReachable DEF TypeOK
  <2>3. CASE UNCHANGED <<active, running, failures, dwell, process>>
             /\ degraded' = (degraded \/ stale)
    BY <2>1, <2>3 DEF TypeOK, RunningHasProcess
  <2>4. CASE StartFails /\ degraded' = (degraded \/ stale) /\ UNCHANGED <<active, failures, dwell>>
    BY <2>1, <2>4, StartFailsType DEF TypeOK
  <2>5. ASSUME NEW best \in choices, Started(best, taken[u].listen),
               active' = best, failures' = 0, dwell' = TRUE,
               degraded' = (active = best /\ (degraded \/ stale))
        PROVE  <1>2!:
    <3>1. taken[u].listen \in Listeners
      BY DEF TypeOK, Configs
    <3> QED
      BY <2>1, <2>2, <2>5, <3>1, StartedType, LimitsNatural
  <2>6. \/ UNCHANGED <<active, running, failures, dwell, process>>
             /\ degraded' = (degraded \/ stale)
        \/ StartFails /\ degraded' = (degraded \/ stale) /\ UNCHANGED <<active, failures, dwell>>
        \/ \E best \in choices :
              /\ Started(best, taken[u].listen)
              /\ active' = best /\ failures' = 0 /\ dwell' = TRUE
              /\ degraded' = (active = best /\ (degraded \/ stale))
    BY Zenon DEF UpdateServes
  <2> QED
    BY <2>3, <2>4, <2>5, <2>6
<1> QED
  BY <1>1, <1>2 DEF TypeOK, PickChosen, userState, loopState

LEMMA UpdaterKeepsInv ==
    ASSUME Inv, NEW u \in Updaters, Updater(u)
    PROVE  Inv'
<1> USE DEF Inv
<1>1. CASE UpdaterBegins(u)
  BY <1>1 DEF UpdaterBegins, TypeOK, PickChosen, RunningHasProcess, proxyState, loopState
<1>2. CASE UpdaterShares(u)
  BY <1>2 DEF UpdaterShares, TypeOK, PickChosen, RunningHasProcess, proxyState, loopState, userState
<1>3. CASE UpdateDisabled(u)
  BY <1>3 DEF UpdateDisabled, UpdateEnds, Stopped, TypeOK, PickChosen, RunningHasProcess,
              userState, loopState
<1>4. CASE UpdateServes(u)
  BY <1>4, UpdateServesKeepsInv
<1> QED
  BY <1>1, <1>2, <1>3, <1>4 DEF Updater, Update

\* The steps of a health check, at any place that does not need a pick the
\* place before did not have.
LEMMA CheckKeepsInv ==
    ASSUME Inv, NEW l \in Loops, NEW from \in LoopPlaces, NEW to \in LoopPlaces,
           to \in PickPlaces => from \in PickPlaces,
           \/ CheckDead(l, from, to) \/ CheckAlive(l, from, to)
           \/ TransferWorks(l, from, to) \/ TransferStalls(l, from, to),
           UNCHANGED <<userState, shared, updaterState, sawRunning, sawPin, round>>
    PROVE  Inv'
<1> USE DEF Inv
<1>1. /\ UNCHANGED <<cfg, active, failed, degraded, dwell, cooldown>>
      /\ pc[l] = from /\ pc' = [pc EXCEPT ![l] = to]
  BY DEF CheckDead, CheckAlive, TransferWorks, TransferStalls, proxyState
<1>2. /\ failures' \in 0 .. MaxFailures
      /\ process' \in Processes \cup {NoProcess} /\ running' \in BOOLEAN
      /\ RunningHasProcess'
  <2>1. CASE CheckDead(l, from, to)
    BY <2>1 DEF CheckDead, Stopped, TypeOK, RunningHasProcess
  <2>2. CASE CheckAlive(l, from, to)
    BY <2>2 DEF CheckAlive, proxyState, TypeOK, RunningHasProcess
  <2>3. CASE TransferWorks(l, from, to)
    BY <2>3, LimitsNatural DEF TransferWorks, TypeOK, RunningHasProcess
  <2>4. CASE TransferStalls(l, from, to)
    <3>1. failures' \in 0 .. MaxFailures
      BY <2>4, LimitsNatural DEF TransferStalls, CountFailure, TypeOK
    <3> QED
      BY <2>4, <3>1 DEF TransferStalls, TypeOK, RunningHasProcess
  <2> QED
    BY <2>1, <2>2, <2>3, <2>4
<1>3. TypeOK'
  BY <1>1, <1>2 DEF TypeOK, userState, updaterState
<1>4. PickChosen'
  BY <1>1 DEF PickChosen, TypeOK
<1> QED
  BY <1>2, <1>3, <1>4

LEMMA HealthLoopKeepsInv == Inv /\ HealthLoop => Inv'
<1> SUFFICES ASSUME Inv, HealthLoop PROVE Inv'
  OBVIOUS
<1> USE DEF Inv
<1>1. CASE HealthSleeps
  BY <1>1 DEF HealthSleeps, TypeOK, PickChosen, PickPlaces, RunningHasProcess, LoopPlaces,
              userState, proxyState, updaterState
<1>2. CASE HealthWakes
  BY <1>2 DEF HealthWakes, TypeOK, PickChosen, PickPlaces, RunningHasProcess, LoopPlaces,
              RevivalPlaces, userState, proxyState, updaterState
<1>3. CASE RevivalSelects
  <2>1. CASE pc' = [pc EXCEPT !["health"] = "top"] /\ UNCHANGED round
    BY <1>3, <2>1 DEF RevivalSelects, TypeOK, PickChosen, PickPlaces, RunningHasProcess,
                      LoopPlaces, userState, proxyState, updaterState
  <2>2. ASSUME NEW best \in shared,
               pc' = [pc EXCEPT !["health"] = "revive"],
               round' = [round EXCEPT !["health"].pick = best]
        PROVE  Inv'
    <3>1. best \in Uris
      BY DEF TypeOK
    <3>2. round' \in [Loops -> Rounds] /\ pc' \in [Loops -> LoopPlaces]
      <4>1. round' \in [Loops -> Rounds]
        BY <2>2, <3>1 DEF TypeOK, Rounds
      <4>2. pc' \in [Loops -> LoopPlaces]
        BY <2>2 DEF TypeOK, LoopPlaces, RevivalPlaces
      <4> QED
        BY <4>1, <4>2
    <3>3. PickChosen'
      BY <2>2, <3>1 DEF PickChosen, TypeOK, Rounds
    <3> QED
      BY <1>3, <3>2, <3>3 DEF RevivalSelects, TypeOK, RunningHasProcess, userState, proxyState,
                              updaterState
  <2> QED
    BY <1>3, <2>1, <2>2, ChoicesReachable DEF RevivalSelects
<1>4. CASE RevivalStarts
  <2>1. round["health"].pick \in Uris /\ cfg.listen \in Listeners
    BY <1>4 DEF RevivalStarts, PickChosen, PickPlaces, TypeOK, Configs
  <2>2. process' \in Processes \cup {NoProcess} /\ running' \in BOOLEAN /\ RunningHasProcess'
    BY <1>4, <2>1, StartedType, StartFailsType DEF RevivalStarts
  <2>3. failures' \in 0 .. MaxFailures
    BY <1>4, LimitsNatural DEF RevivalStarts, TypeOK
  <2>4. pc' \in [Loops -> LoopPlaces] /\ round' \in [Loops -> Rounds] /\ PickChosen'
    BY <1>4, RoundTypes DEF RevivalStarts, TypeOK, PickChosen, PickPlaces, LoopPlaces,
                            RevivalPlaces
  <2> QED
    BY <1>4, <2>2, <2>3, <2>4 DEF RevivalStarts, TypeOK, userState, updaterState
<1>5. CASE RevivalRecords
  <2>1. active' \in Uris /\ failures' \in 0 .. MaxFailures
    BY <1>5, LimitsNatural DEF RevivalRecords, PickChosen, PickPlaces
  <2>2. pc' \in [Loops -> LoopPlaces] /\ round' \in [Loops -> Rounds] /\ PickChosen'
    BY <1>5, RoundTypes DEF RevivalRecords, TypeOK, PickChosen, PickPlaces, LoopPlaces
  <2> QED
    BY <1>5, <2>1, <2>2 DEF RevivalRecords, TypeOK, RunningHasProcess, userState, updaterState
<1> QED
  BY <1>1, <1>2, <1>3, <1>4, <1>5 DEF HealthLoop, Revival

LEMMA StarvationKeepsInv == Inv /\ ConnectionStarves => Inv'
  BY DEF Inv, ConnectionStarves, TypeOK, PickChosen, PickPlaces, RunningHasProcess, LoopPlaces,
         userState, proxyState, updaterState

LEMMA FailoverKeepsInv ==
    ASSUME Inv, NEW l \in Loops, Failover(l)
    PROVE  Inv'
<1> USE DEF Inv
<1>1. CASE FailoverReads(l)
  <2>1. [NoRound EXCEPT !.current = active, !.failed = failed] \in Rounds
    BY DEF NoRound, Rounds, TypeOK
  <2>2. pc' \in [Loops -> LoopPlaces] /\ round' \in [Loops -> Rounds] /\ PickChosen'
    BY <1>1, <2>1 DEF FailoverReads, TypeOK, PickChosen, PickPlaces, LoopPlaces, FailoverPlaces
  <2> QED
    BY <1>1, <2>2 DEF FailoverReads, TypeOK, RunningHasProcess, userState, proxyState, updaterState
<1>2. CASE FailoverCooled(l)
  BY <1>2 DEF FailoverCooled, TypeOK, PickChosen, PickPlaces, LoopPlaces, FailoverPlaces,
              RunningHasProcess, userState, proxyState, updaterState
<1>3. CASE FailoverPools(l)
  <2>1. \A pool \in SUBSET Uris : [round EXCEPT ![l].pool = pool] \in [Loops -> Rounds]
    BY DEF TypeOK, Rounds
  <2>2. \E pool \in SUBSET Uris : round' = [round EXCEPT ![l].pool = pool]
    BY <1>3 DEF FailoverPools, TypeOK
  <2>3. failed' \subseteq Uris /\ degraded' \in BOOLEAN
    BY <1>3 DEF FailoverPools, TypeOK
  <2>4. pc' \in [Loops -> LoopPlaces] /\ round' \in [Loops -> Rounds] /\ PickChosen'
    BY <1>3, <2>1, <2>2 DEF FailoverPools, TypeOK, PickChosen, PickPlaces, LoopPlaces,
                            FailoverPlaces
  <2> QED
    BY <1>3, <2>3, <2>4 DEF FailoverPools, TypeOK, RunningHasProcess, userState, updaterState
<1>4. CASE FailoverTries(l)
  <2>1. PICK uri \in round[l].pool :
           /\ round' = [round EXCEPT ![l].pool = @ \ {uri}, ![l].pick = uri]
           /\ \/ /\ Started(uri, cfg.listen)
                 /\ failures' = 0
                 /\ pc' = [pc EXCEPT ![l] = "tryCheck"]
              \/ /\ StartFails
                 /\ pc' = [pc EXCEPT ![l] = "tryFailed"]
                 /\ UNCHANGED failures
    BY <1>4 DEF FailoverTries
  <2>2. uri \in Uris /\ cfg.listen \in Listeners
    BY DEF TypeOK, Rounds, Configs
  <2>3. process' \in Processes \cup {NoProcess} /\ running' \in BOOLEAN /\ RunningHasProcess'
    BY <2>1, <2>2, StartedType, StartFailsType
  <2>4. failures' \in 0 .. MaxFailures
    BY <2>1, LimitsNatural DEF TypeOK
  <2>5. pc' \in [Loops -> LoopPlaces] /\ round' \in [Loops -> Rounds]
    <3>1. pc' \in [Loops -> LoopPlaces]
      BY <2>1 DEF TypeOK, LoopPlaces, FailoverPlaces
    <3>2. [round[l] EXCEPT !.pool = @ \ {uri}, !.pick = uri] \in Rounds
      BY <2>2 DEF TypeOK, Rounds
    <3>3. round' = [round EXCEPT ![l] = [round[l] EXCEPT !.pool = @ \ {uri}, !.pick = uri]]
      BY <2>1 DEF TypeOK, Rounds
    <3> QED
      BY <3>1, <3>2, <3>3 DEF TypeOK
  <2>6. PickChosen'
    BY <2>1, <2>2 DEF PickChosen, TypeOK, Rounds
  <2> QED
    BY <1>4, <2>3, <2>4, <2>5, <2>6 DEF FailoverTries, TypeOK, userState, updaterState
<1>5. CASE FailoverChecks(l)
  <2>1. {"tryCheck", "tryTransfer", "tryWorked", "tryFailed"} \subseteq LoopPlaces \cap PickPlaces
    BY DEF LoopPlaces, FailoverPlaces, PickPlaces
  <2>2. CASE CheckDead(l, "tryCheck", "tryFailed")
    BY <1>5, <2>1, <2>2, CheckKeepsInv DEF FailoverChecks
  <2>3. CASE CheckAlive(l, "tryCheck", "tryTransfer")
    BY <1>5, <2>1, <2>3, CheckKeepsInv DEF FailoverChecks
  <2>4. CASE TransferWorks(l, "tryTransfer", "tryWorked")
    BY <1>5, <2>1, <2>4, CheckKeepsInv DEF FailoverChecks
  <2>5. CASE TransferStalls(l, "tryTransfer", "tryFailed")
    BY <1>5, <2>1, <2>5, CheckKeepsInv DEF FailoverChecks
  <2> QED
    BY <1>5, <2>2, <2>3, <2>4, <2>5 DEF FailoverChecks
<1>6. CASE FailoverMarks(l)
  <2>1. round[l].pick \in Uris
    BY <1>6 DEF FailoverMarks, PickChosen, PickPlaces
  <2>2. failed' \subseteq Uris
    BY <1>6, <2>1 DEF FailoverMarks, Marked, TypeOK
  <2> QED
    BY <1>6, <2>2 DEF FailoverMarks, TypeOK, PickChosen, PickPlaces, LoopPlaces, FailoverPlaces,
                      RunningHasProcess, userState, updaterState
<1>7. CASE FailoverSucceeds(l)
  <2>1. active' \in Uris /\ failures' \in 0 .. MaxFailures
    BY <1>7, LimitsNatural DEF FailoverSucceeds, PickChosen, PickPlaces
  <2>2. \A k \in Loops : [round[k] EXCEPT !.newest = pc[k] # "cooling"] \in Rounds
    BY DEF TypeOK, Rounds
  <2>3. pc' \in [Loops -> LoopPlaces] /\ round' \in [Loops -> Rounds]
    BY <1>7, <2>2, RoundTypes DEF FailoverSucceeds, TypeOK, LoopPlaces
  <2>4. PickChosen'
    BY <1>7 DEF FailoverSucceeds, TypeOK, PickChosen, PickPlaces, Rounds
  <2> QED
    BY <1>7, <2>1, <2>3, <2>4 DEF FailoverSucceeds, TypeOK, RunningHasProcess, userState,
                                  updaterState
<1>8. CASE FailoverExhausts(l)
  <2>1. pc' \in [Loops -> LoopPlaces] /\ round' \in [Loops -> Rounds] /\ PickChosen'
    BY <1>8, RoundTypes DEF FailoverExhausts, TypeOK, PickChosen, PickPlaces, LoopPlaces
  <2> QED
    BY <1>8, <2>1 DEF FailoverExhausts, TypeOK, RunningHasProcess, userState, updaterState
<1> QED
  BY <1>1, <1>2, <1>3, <1>4, <1>5, <1>6, <1>7, <1>8 DEF Failover

LEMMA SupervisesKeepsInv ==
    ASSUME Inv, NEW l \in Loops, Supervises(l)
    PROVE  Inv'
<1>1. CASE Checks(l)
  <2>1. /\ {"check", "transfer", "judge", "top"} \subseteq LoopPlaces
        /\ {"transfer", "judge", "top"} \cap PickPlaces = {}
    BY DEF LoopPlaces, PickPlaces
  <2>2. CASE CheckDead(l, "check", "judge")
    BY <1>1, <2>1, <2>2, CheckKeepsInv DEF Checks
  <2>3. CASE CheckAlive(l, "check", "transfer")
    BY <1>1, <2>1, <2>3, CheckKeepsInv DEF Checks
  <2>4. CASE TransferWorks(l, "transfer", "top")
    BY <1>1, <2>1, <2>4, CheckKeepsInv DEF Checks
  <2>5. CASE TransferStalls(l, "transfer", "judge")
    BY <1>1, <2>1, <2>5, CheckKeepsInv DEF Checks
  <2> QED
    BY <1>1, <2>2, <2>3, <2>4, <2>5 DEF Checks
<1>2. CASE Judges(l)
  BY <1>2 DEF Inv, Judges, TypeOK, PickChosen, PickPlaces, LoopPlaces, FailoverPlaces,
              RunningHasProcess, userState, proxyState, updaterState
<1> QED
  BY <1>1, <1>2, FailoverKeepsInv DEF Supervises

LEMMA StepKeepsInv == Inv /\ [Next]_vars => Inv'
<1> SUFFICES ASSUME Inv, [Next]_vars PROVE Inv'
  OBVIOUS
<1>1. CASE UNCHANGED vars
  BY <1>1 DEF vars, Inv, TypeOK, PickChosen, RunningHasProcess
<1>2. CASE Next
  BY <1>2, EnvironmentKeepsInv, UpdaterKeepsInv, HealthLoopKeepsInv, StarvationKeepsInv,
     SupervisesKeepsInv DEF Next
<1> QED
  BY <1>1, <1>2

LEMMA InvHolds == Spec => []Inv
  BY InvInit, StepKeepsInv, PTL DEF Spec
-----------------------------------------------------------------------------
(* The theorems.                                                             *)

\* Every variable of the proxy and of its four tasks keeps its type.
THEOREM TypeCorrect == Spec => []TypeOK
  BY InvHolds, PTL DEF Inv

\* The running flag that the user sees never outlives its process, in any
\* interleaving of the updates with both supervisors.
THEOREM RunningCorrect == Spec => []RunningHasProcess
  BY InvHolds, PTL DEF Inv

\* What update() does when it serves, in terms of its own choices: the pick is
\* one of the choices, and nothing but the pick is started.
LEMMA UpdateOutcome ==
    ASSUME NEW u \in Updaters, UpdateServes(u)
    PROVE  LET black == IF taken[u].pin # NoUri THEN {}
                        ELSE IF u = "refresh" THEN {} ELSE failed
               choices == Choices(taken[u], list[u], active, black)
           IN  /\ cfg' = taken[u]
               /\ \/ choices = {} /\ UNCHANGED <<active, running, process>>
                  \/ \E best \in choices :
                       \/ ~MustSwitch(best) /\ UNCHANGED <<active, running, process>>
                       \/ MustSwitch(best) /\ process' = NoProcess /\ running' = FALSE
                          /\ active' = active
                       \/ MustSwitch(best) /\ Started(best, taken[u].listen) /\ active' = best
  BY Zenon DEF UpdateServes, StartFails, Stopped

\* A reachable pin is active after every update that could start it.
THEOREM PinCorrect == Spec => PinHonoured
<1>1. ASSUME NEW u \in Updaters, UpdateServes(u), taken[u].pin \in list[u], TypeOK
      PROVE  active' = taken[u].pin \/ ~running'
  <2>1. taken[u].pin # NoUri /\ list[u] \subseteq Uris
    BY <1>1, UrisFinite DEF TypeOK
  <2>2. Choices(taken[u], list[u], active, {}) = {taken[u].pin}
    BY <1>1, <2>1 DEF Choices
  <2>3. ~MustSwitch(taken[u].pin) => active = taken[u].pin
    BY <1>1, <2>1, UpdateOutcome DEF MustSwitch, DwellAllows
  <2> QED
    BY <1>1, <2>1, <2>2, <2>3, UpdateOutcome
<1>2. TypeOK /\ [Next]_vars
      => [\A u \in Updaters :
            UpdateServes(u) /\ taken[u].pin \in list[u] => active' = taken[u].pin \/ ~running']_vars
  BY <1>1
<1> QED
  BY <1>2, TypeCorrect, PTL DEF Spec, PinHonoured

\* With rotation off no update leaves a reachable config that has not failed.
THEOREM KeptServed == Spec => KeepsServed
<1>1. ASSUME NEW u \in Updaters, UpdateServes(u), ~Rotating, taken[u].pin = NoUri,
             active \in list[u] \ failed
      PROVE  active' = active
  <2> DEFINE black == IF taken[u].pin # NoUri THEN {} ELSE IF u = "refresh" THEN {} ELSE failed
  <2>1. Choices(taken[u], list[u], active, black) = {active}
    BY <1>1 DEF Choices, Eligible
  <2>2. \/ UNCHANGED active
        \/ \E best \in Choices(taken[u], list[u], active, black) : active' = best
    BY <1>1, UpdateOutcome, Zenon
  <2> QED
    BY <2>1, <2>2
<1>2. [Next]_vars
      => [\A u \in Updaters :
            /\ UpdateServes(u) /\ ~Rotating /\ taken[u].pin = NoUri
            /\ active \in list[u] \ failed
            => active' = active]_vars
  BY <1>1
<1> QED
  BY <1>2, PTL DEF Spec, KeepsServed

\* A config that failed is started by an update only if all reachable ones
\* failed.
THEOREM FailedSkipped == Spec => AutoSkipsFailed
<1>1. ASSUME NEW u \in Updaters, UpdateServes(u), taken[u].pin = NoUri, u = "ping",
             Alive', process' # process, ~(list[u] \subseteq failed)
      PROVE  process'.uri \notin failed
  <2>1. Eligible(list[u], failed) # {}
    BY <1>1 DEF Eligible
  <2>2. Choices(taken[u], list[u], active, failed) \subseteq Eligible(list[u], failed)
    BY <1>1, <2>1 DEF Choices
  <2>3. PICK best \in Choices(taken[u], list[u], active, failed) :
           \/ process' = NoProcess
           \/ Started(best, taken[u].listen)
    BY <1>1, UpdateOutcome
  <2>4. process' # NoProcess
    BY <1>1 DEF Alive
  <2>5. process'.uri = best
    BY <2>3, <2>4 DEF Started
  <2> QED
    BY <2>2, <2>5 DEF Eligible
<1>2. [Next]_vars
      => [\A u \in Updaters :
            UpdateServes(u) /\ taken[u].pin = NoUri /\ u = "ping" /\ Alive' /\ process' # process
            => process'.uri \notin failed \/ list[u] \subseteq failed]_vars
  BY <1>1
<1> QED
  BY <1>2, PTL DEF Spec, AutoSkipsFailed

\* Inside the dwell window a healthy process is left alone.
THEOREM HealthyKept == Spec => HealthyUndisturbed
<1>1. ASSUME NEW u \in Updaters, UpdateServes(u), taken[u].pin = NoUri,
             dwell, running, Alive, active # NoUri, failures < MaxFailures, TypeOK
      PROVE  process' = process
  <2>1. cfg'.pin = NoUri
    BY <1>1, UpdateOutcome
  <2>2. ~(failures >= MaxFailures)
    BY <1>1, LimitsNatural DEF TypeOK
  <2>3. \A best : ~MustSwitch(best)
    BY <1>1, <2>1, <2>2 DEF MustSwitch, DwellAllows
  <2> QED
    BY <1>1, <2>3, UpdateOutcome
<1>2. TypeOK /\ [Next]_vars
      => [\A u \in Updaters :
            /\ UpdateServes(u) /\ taken[u].pin = NoUri
            /\ dwell /\ running /\ Alive /\ active # NoUri /\ failures < MaxFailures
            => process' = process]_vars
  BY <1>1
<1> QED
  BY <1>2, TypeCorrect, PTL DEF Spec, HealthyUndisturbed

\* Without supervision the process serves the config recorded as active: the
\* updates are right by themselves, whatever edits, crashes and failing starts
\* they meet, and a door on the wrong config needs a failover or revival.
THEOREM UpdatesAgree == Loops = {} /\ Spec => []ActiveIsServed
<1> DEFINE Agree == Loops = {} /\ (running => process.uri = active)
<1>1. Loops = {} /\ Init => Agree
  BY DEF Init
<1>2. Agree /\ RunningHasProcess /\ TypeOK /\ [Next]_vars => Agree'
  <2> SUFFICES ASSUME Agree, RunningHasProcess, TypeOK, [Next]_vars
               PROVE  running' => process'.uri = active'
    OBVIOUS
  <2>1. CASE UNCHANGED vars
    BY <2>1 DEF vars
  <2>2. CASE UserEdits \/ DwellExpires \/ CooldownExpires
    BY <2>2 DEF UserEdits, DwellExpires, CooldownExpires, proxyState
  <2>3. CASE ProcessCrashes
    <3>1. process'.uri = process.uri
      BY <2>3 DEF ProcessCrashes, Alive, TypeOK, Processes
    <3> QED
      BY <2>3, <3>1 DEF ProcessCrashes
  <2>4. ASSUME NEW u \in Updaters, Updater(u)
        PROVE  running' => process'.uri = active'
    <3>1. CASE UpdaterBegins(u) \/ UpdaterShares(u)
      BY <3>1 DEF UpdaterBegins, UpdaterShares, proxyState
    <3>2. CASE UpdateDisabled(u)
      BY <3>2 DEF UpdateDisabled, Stopped
    <3>3. CASE UpdateServes(u)
      <4>1. \/ UNCHANGED <<active, running, process>>
            \/ running' = FALSE
            \/ \E best : Started(best, taken[u].listen) /\ active' = best
        BY <3>3, UpdateOutcome, Zenon
      <4>2. ASSUME NEW best, Started(best, taken[u].listen), active' = best
            PROVE  process'.uri = active'
        BY <4>2 DEF Started
      <4>3. CASE UNCHANGED <<active, running, process>>
        BY <4>3
      <4> QED
        BY <4>1, <4>2, <4>3, Zenon
    <3> QED
      BY <2>4, <3>1, <3>2, <3>3 DEF Updater, Update
  <2> QED
    BY <2>1, <2>2, <2>3, <2>4 DEF Next, HealthLoop, HealthSleeps, HealthWakes, Revival,
       RevivalSelects, RevivalStarts, RevivalRecords, ConnectionStarves
<1>3. Agree => ActiveIsServed
  BY DEF ActiveIsServed
<1> QED
  BY <1>1, <1>2, <1>3, TypeCorrect, RunningCorrect, PTL DEF Spec
=============================================================================
