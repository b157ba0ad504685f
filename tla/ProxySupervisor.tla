-------------------------- MODULE ProxySupervisor --------------------------
(***************************************************************************)
(* The persistent proxy of V2RayDAR (src/proxy.rs): one sing-box process    *)
(* that serves the best config, supervised by four tasks.                   *)
(*                                                                         *)
(*   updaters   the refresh and the ping loop: each takes the config when    *)
(*              its cycle begins and calls update() when it has ended;       *)
(*   loops      the health loop (checks on a timer, revives, fails over)     *)
(*              and the starvation loop (fails over when a user connection   *)
(*              gets nothing back).                                          *)
(*                                                                         *)
(* Everything about the proxy is read and written under the SharedProxy     *)
(* mutex, so one action is one stretch under that mutex: the whole of       *)
(* update(), but only the single steps of a health check, a revival or a    *)
(* failover, which release the mutex across their network awaits.           *)
(*                                                                         *)
(* A ranked list is abstracted to the set of its reachable configs; which    *)
(* of them ranks first is a nondeterministic choice.  A config stands for    *)
(* its uri and its dedup key.                                               *)
(***************************************************************************)
EXTENDS Naturals, FiniteSets

CONSTANTS
    Uris,           \* the configs
    NoUri,          \* None
    Listeners,      \* the values of (port, discoverable)
    Rotating,       \* proxy.rotating_proxy
    MaxFailures,    \* PROXY_MAX_CONSECUTIVE_FAILURES
    MaxFailedKeys,  \* PROXY_MAX_RECENTLY_FAILED_KEYS
    MaxEdits,       \* bound on the user's config edits
    Updaters,       \* which of the refresh and ping loops run
    Loops,          \* which of the health and starvation loops run
    Faults          \* what may go wrong

ASSUME UrisFinite == IsFiniteSet(Uris) /\ NoUri \notin Uris
ASSUME ListenersExist == Listeners # {}
ASSUME RotatingBoolean == Rotating \in BOOLEAN
ASSUME LimitsNatural == MaxFailures \in Nat \ {0} /\ MaxFailedKeys \in Nat /\ MaxEdits \in Nat
ASSUME TasksKnown == Updaters \subseteq {"refresh", "ping"} /\ Loops \subseteq {"health", "starve"}
ASSUME FaultsKnown == Faults \subseteq {"crash", "start", "transfer"}

Configs == [enabled : BOOLEAN, pin : Uris \cup {NoUri}, listen : Listeners]
Processes == [uri : Uris, listen : Listeners, alive : BOOLEAN]
NoProcess == [uri |-> NoUri]

VARIABLES
    live,      \* the config the user last set (config_tx)
    edits,     \* how many edits there were
    seen,      \* the refresh loop has seen the last edit
    cfg,       \* ProxyState.proxy_config
    active,    \* active_config_uri
    running,   \* running
    failures,  \* consecutive_failures, counted up to MaxFailures
    failed,    \* failed_config_keys
    degraded,  \* degraded
    dwell,     \* last_switch is less than PROXY_MIN_SWITCH_INTERVAL ago
    cooldown,  \* last_failover is less than PROXY_FAILOVER_COOLDOWN ago
    process,   \* the managed sing-box process
    shared,    \* shared_ranked, the failover's copy of the ranked list
    upc,       \* where each updater is
    taken,     \* the config an updater took when its cycle began
    list,      \* the ranked list an updater read when it had ended
    pc,        \* where each loop is
    sawRunning,\* health loop: `running`, read before the sleep
    sawPin,    \* health loop: `manual`, read before the sleep
    round      \* locals of a loop's failover or revival

proxyState == <<cfg, active, running, failures, failed, degraded, dwell, cooldown,
                process>>
updaterState == <<upc, taken, list>>
loopState == <<pc, sawRunning, sawPin, round>>
userState == <<live, edits, seen>>
vars == <<live, edits, seen, cfg, active, running, failures, failed, degraded, dwell,
          cooldown, process, shared, upc, taken, list, pc, sawRunning,
          sawPin, round>>

NoRound == [current |-> NoUri, failed |-> {}, pool |-> {}, pick |-> NoUri, newest |-> TRUE]
Rounds == [current : Uris \cup {NoUri}, failed : SUBSET Uris, pool : SUBSET Uris,
           pick : Uris \cup {NoUri}, newest : BOOLEAN]

RevivalPlaces == {"select", "revive", "revived"}
FailoverPlaces == {"failover", "cooling", "pool", "try", "tryCheck", "tryTransfer", "tryWorked",
                   "tryFailed"}
LoopPlaces == {"top", "wake", "check", "transfer", "judge"} \cup RevivalPlaces \cup FailoverPlaces

TypeOK ==
    /\ live \in Configs /\ cfg \in Configs
    /\ edits \in 0 .. MaxEdits /\ seen \in BOOLEAN
    /\ active \in Uris \cup {NoUri}
    /\ running \in BOOLEAN /\ degraded \in BOOLEAN /\ dwell \in BOOLEAN /\ cooldown \in BOOLEAN
    /\ failures \in 0 .. MaxFailures
    /\ failed \subseteq Uris /\ shared \subseteq Uris
    /\ process \in Processes \cup {NoProcess}
    /\ upc \in [Updaters -> {"idle", "cycle", "update"}]
    /\ taken \in [Updaters -> Configs]
    /\ list \in [Updaters -> SUBSET Uris]
    /\ pc \in [Loops -> LoopPlaces]
    /\ sawRunning \in BOOLEAN /\ sawPin \in BOOLEAN
    /\ round \in [Loops -> Rounds]

Init ==
    /\ live \in Configs /\ cfg = live
    /\ edits = 0 /\ seen = TRUE
    /\ active = NoUri /\ running = FALSE /\ failures = 0 /\ failed = {}
    /\ degraded = FALSE /\ dwell = FALSE /\ cooldown = FALSE
    /\ process = NoProcess
    /\ shared = {}
    /\ upc = [u \in Updaters |-> "idle"]
    /\ taken = [u \in Updaters |-> live]
    /\ list = [u \in Updaters |-> {}]
    /\ pc = [l \in Loops |-> "top"]
    /\ sawRunning = FALSE /\ sawPin = FALSE
    /\ round = [l \in Loops |-> NoRound]

Alive == process # NoProcess /\ process.alive
-----------------------------------------------------------------------------
(* Time, the user and the operating system.                                  *)

\* A config edit, a pin or a proxy mode, live-pushed over config_tx.
UserEdits ==
    /\ edits < MaxEdits
    /\ live' \in Configs \ {live}
    /\ edits' = edits + 1
    /\ seen' = FALSE
    /\ UNCHANGED <<proxyState, shared, updaterState, loopState>>

ProcessCrashes ==
    /\ "crash" \in Faults /\ Alive
    /\ process' = [process EXCEPT !.alive = FALSE]
    /\ UNCHANGED <<userState, cfg, active, running, failures, failed, degraded, dwell,
                   cooldown, shared, updaterState, loopState>>

DwellExpires ==
    /\ dwell /\ dwell' = FALSE
    /\ UNCHANGED <<userState, cfg, active, running, failures, failed, degraded, cooldown,
                   process, shared, updaterState, loopState>>

CooldownExpires ==
    /\ cooldown /\ cooldown' = FALSE
    /\ UNCHANGED <<userState, cfg, active, running, failures, failed, degraded, dwell,
                   process, shared, updaterState, loopState>>
-----------------------------------------------------------------------------
(* Starting and stopping the process, under the mutex.                       *)

Stopped == process' = NoProcess /\ running' = FALSE

\* start_with_config: the old process is stopped first, whatever follows.
Started(uri, listen) ==
    /\ process' = [uri |-> uri, listen |-> listen, alive |-> TRUE]
    /\ running' = TRUE

\* The outbound does not convert, sing-box does not start, or its port does
\* not answer in time.
StartFails ==
    /\ "start" \in Faults
    /\ Stopped

\* select_proxy_config: what it may pick, from a list with these reachable
\* configs.  {} is None; the flag of the pair is the stale blacklist.
Eligible(reach, black) == reach \ black
\* Mutant: An active config is kept although failover moved away from it.
ChoicesKeepFailed(config, reach, current, black) ==
    IF config.pin # NoUri THEN reach \cap {config.pin}
    ELSE IF ~Rotating /\ current \in reach THEN {current}
    ELSE reach

\* Mutant: Rotation is on, whatever the config says.
ChoicesRotate(config, reach, current, black) ==
    IF config.pin # NoUri THEN reach \cap {config.pin}
    ELSE IF Eligible(reach, black) # {} THEN Eligible(reach, black)
    ELSE IF black # {} THEN reach ELSE {}

Choices(config, reach, current, black) ==
    IF config.pin # NoUri THEN reach \cap {config.pin}
    ELSE IF ~Rotating /\ current \in Eligible(reach, black) THEN {current}
    ELSE IF Eligible(reach, black) # {} THEN Eligible(reach, black)
    ELSE IF black # {} THEN reach
    ELSE {}
StaleBlacklist(config, reach, black) ==
    config.pin = NoUri /\ Eligible(reach, black) = {} /\ black # {}
-----------------------------------------------------------------------------
(* The updaters: update_proxy_and_ranked and PersistentProxy::update.        *)

\* A cycle, or for the refresh loop also a config edit, takes the config.
UpdaterBegins(u) ==
    /\ upc[u] = "idle"
    /\ upc' = [upc EXCEPT ![u] = "cycle"]
    /\ taken' = [taken EXCEPT ![u] = live]
    /\ seen' = (seen \/ u = "refresh")
    /\ UNCHANGED <<live, edits, proxyState, shared, list, loopState>>

\* The cycle has ended: its list is read and shared with the failover.
UpdaterShares(u) ==
    /\ upc[u] = "cycle"
    /\ \E reach \in SUBSET Uris :
          /\ list' = [list EXCEPT ![u] = reach]
          /\ shared' = reach
    /\ upc' = [upc EXCEPT ![u] = "update"]
    /\ UNCHANGED <<userState, proxyState, taken, loopState>>

UpdateEnds(u) ==
    /\ upc' = [upc EXCEPT ![u] = "idle"]
    /\ list' = [list EXCEPT ![u] = {}]
    /\ taken' = [taken EXCEPT ![u] = live]
    /\ UNCHANGED <<userState, shared, loopState>>

\* update() of a disabled proxy: stop() if `running` says so or a process is
\* alive; the entry of a dead process is removed.
UpdateDisabled(u) ==
    /\ upc[u] = "update" /\ ~taken[u].enabled
    /\ cfg' = taken[u]
    /\ failed' = IF u = "refresh" THEN {} ELSE failed
    /\ Stopped
    /\ UNCHANGED <<active, failures, degraded, dwell, cooldown>>
    /\ UpdateEnds(u)

\* Whether update() restarts the process for its pick: the dwell window
\* holds a switch, unless the user has pinned.

\* Mutant: A pin waits for the dwell window, too.
DwellIgnoresPin == ~dwell

DwellAllows == ~dwell \/ cfg'.pin # NoUri

\* Mutant: One failed check is enough for a restart.
MustSwitchEarly(best) ==
    \/ active = NoUri
    \/ active # best /\ DwellAllows
    \/ active = best /\ (~running \/ ~Alive \/ failures > 0)

MustSwitch(best) ==
    \/ active = NoUri
    \/ active # best /\ DwellAllows
    \/ active = best /\ (~running \/ ~Alive \/ failures >= MaxFailures)

UpdateServes(u) ==
    /\ upc[u] = "update" /\ taken[u].enabled
    /\ cfg' = taken[u]
    /\ LET cleared == IF u = "refresh" THEN {} ELSE failed
           black == IF taken[u].pin # NoUri THEN {} ELSE cleared
           choices == Choices(taken[u], list[u], active, black)
           stale == StaleBlacklist(taken[u], list[u], black)
       IN  /\ failed' = IF stale THEN {} ELSE cleared
           /\ \/ /\ choices = {}
                 /\ degraded' = (degraded \/ stale)
                 /\ UNCHANGED <<active, running, failures, dwell, process>>
              \/ \E best \in choices :
                 \/ /\ ~MustSwitch(best)
                    /\ degraded' = (degraded \/ stale)
                    /\ UNCHANGED <<active, running, failures, dwell, process>>
                 \/ /\ MustSwitch(best)
                    /\ StartFails
                    /\ degraded' = (degraded \/ stale)
                    /\ UNCHANGED <<active, failures, dwell>>
                 \/ /\ MustSwitch(best)
                    /\ Started(best, taken[u].listen)
                    /\ active' = best /\ failures' = 0 /\ dwell' = TRUE
                    /\ degraded' = (active = best /\ (degraded \/ stale))
    /\ UNCHANGED cooldown
    /\ UpdateEnds(u)

Update(u) == UpdateDisabled(u) \/ UpdateServes(u)
Updater(u) == UpdaterBegins(u) \/ UpdaterShares(u) \/ Update(u)
-----------------------------------------------------------------------------
(* A health check: is_process_alive under the mutex, then the transfer, whose *)
(* verdict is written to whatever config is active by then.                  *)

\* Mutant: A dead process is forgotten, `running` is not.
CheckDeadKeepsFlag(l, from, to) ==
    /\ pc[l] = from /\ ~Alive
    /\ process' = NoProcess /\ UNCHANGED running
    /\ pc' = [pc EXCEPT ![l] = to]
    /\ UNCHANGED <<cfg, active, failures, failed, degraded, dwell, cooldown>>

\* is_process_alive: a dead process is forgotten; its verdict is not counted.
CheckDead(l, from, to) ==
    /\ pc[l] = from /\ ~Alive
    /\ Stopped
    /\ pc' = [pc EXCEPT ![l] = to]
    /\ UNCHANGED <<cfg, active, failures, failed, degraded, dwell, cooldown>>

CheckAlive(l, from, to) ==
    /\ pc[l] = from /\ Alive
    /\ pc' = [pc EXCEPT ![l] = to]
    /\ UNCHANGED proxyState

CountFailure == failures' = IF failures < MaxFailures THEN failures + 1 ELSE failures

TransferWorks(l, from, to) ==
    /\ pc[l] = from
    /\ failures' = 0
    /\ pc' = [pc EXCEPT ![l] = to]
    /\ UNCHANGED <<cfg, active, running, failed, degraded, dwell, cooldown, process>>

TransferStalls(l, from, to) ==
    /\ pc[l] = from
    /\ "transfer" \in Faults \/ (Alive => process.listen # cfg.listen)
    /\ CountFailure
    /\ pc' = [pc EXCEPT ![l] = to]
    /\ UNCHANGED <<cfg, active, running, failed, degraded, dwell, cooldown, process>>
-----------------------------------------------------------------------------
(* The health loop and the starvation loop.                                  *)

\* The top of the health loop reads what it will act on after the sleep.
HealthSleeps ==
    /\ "health" \in Loops /\ pc["health"] = "top"
    /\ sawRunning' = running /\ sawPin' = (cfg.pin # NoUri)
    /\ pc' = [pc EXCEPT !["health"] = "wake"]
    /\ UNCHANGED <<userState, proxyState, shared, updaterState, round>>

\* Mutant: The health loop skips a stopped proxy.
HealthWakesRunning ==
    /\ "health" \in Loops /\ pc["health"] = "wake"
    /\ pc' = [pc EXCEPT !["health"] = IF sawRunning THEN "check" ELSE "top"]
    /\ UNCHANGED <<userState, proxyState, shared, updaterState, sawRunning, sawPin, round>>

HealthWakes ==
    /\ "health" \in Loops /\ pc["health"] = "wake"
    /\ pc' = [pc EXCEPT !["health"] = IF sawRunning THEN "check" ELSE "select"]
    /\ UNCHANGED <<userState, proxyState, shared, updaterState, sawRunning, sawPin, round>>

\* A user connection uploads and gets nothing back.
ConnectionStarves ==
    /\ "starve" \in Loops /\ pc["starve"] = "top"
    /\ running
    /\ pc' = [pc EXCEPT !["starve"] = "check"]
    /\ UNCHANGED <<userState, proxyState, shared, updaterState, sawRunning, sawPin, round>>

Checks(l) ==
    /\ \/ CheckDead(l, "check", "judge") \/ CheckAlive(l, "check", "transfer")
       \/ TransferWorks(l, "transfer", "top") \/ TransferStalls(l, "transfer", "judge")
    /\ UNCHANGED <<userState, shared, updaterState, sawRunning, sawPin, round>>

\* on_health_failure with the pin read before the sleep; on_starved_connection
\* with the pin as it is now.
Pinned(l) == IF l = "health" THEN sawPin ELSE cfg.pin # NoUri
Tripped(l) == l = "starve" \/ failures >= MaxFailures

Judges(l) ==
    /\ pc[l] = "judge"
    /\ pc' = [pc EXCEPT ![l] = IF ~Pinned(l) /\ Tripped(l) THEN "failover" ELSE "top"]
    /\ UNCHANGED <<userState, proxyState, shared, updaterState, sawRunning, sawPin, round>>
-----------------------------------------------------------------------------
(* revive_if_enabled: the choice is made under one lock, used under another.  *)

RevivalSelects ==
    /\ "health" \in Loops /\ pc["health"] = "select"
    /\ LET choices == IF cfg.enabled THEN Choices(cfg, shared, active, failed) ELSE {}
       IN  \/ /\ choices = {}
              /\ pc' = [pc EXCEPT !["health"] = "top"]
              /\ UNCHANGED round
           \/ \E best \in choices :
              /\ pc' = [pc EXCEPT !["health"] = "revive"]
              /\ round' = [round EXCEPT !["health"].pick = best]
    /\ UNCHANGED <<userState, proxyState, shared, updaterState, sawRunning, sawPin>>

RevivalStarts ==
    /\ "health" \in Loops /\ pc["health"] = "revive"
    /\ \/ /\ Started(round["health"].pick, cfg.listen)
          /\ failures' = 0
          /\ pc' = [pc EXCEPT !["health"] = "revived"]
          /\ UNCHANGED round
       \/ /\ StartFails
          /\ pc' = [pc EXCEPT !["health"] = "top"]
          /\ round' = [round EXCEPT !["health"] = NoRound]
          /\ UNCHANGED failures
    /\ UNCHANGED <<userState, cfg, active, failed, degraded, dwell, cooldown, shared,
                   updaterState, sawRunning, sawPin>>

RevivalRecords ==
    /\ "health" \in Loops /\ pc["health"] = "revived"
    /\ active' = round["health"].pick
    /\ failures' = 0 /\ dwell' = TRUE /\ degraded' = FALSE
    /\ pc' = [pc EXCEPT !["health"] = "top"]
    /\ round' = [round EXCEPT !["health"] = NoRound]
    /\ UNCHANGED <<userState, cfg, running, failed, cooldown, process, shared,
                   updaterState, sawRunning, sawPin>>
-----------------------------------------------------------------------------
(* failover                                                                  *)

FailoverReads(l) ==
    /\ pc[l] = "failover"
    /\ round' = [round EXCEPT ![l] = [NoRound EXCEPT !.current = active, !.failed = failed]]
    /\ pc' = [pc EXCEPT ![l] = IF cooldown THEN "cooling" ELSE "pool"]
    /\ UNCHANGED <<userState, proxyState, shared, updaterState, sawRunning, sawPin>>

\* The rest of the cooldown that was read, not of a newer failover's.
FailoverCooled(l) ==
    /\ pc[l] = "cooling"
    /\ round[l].newest => ~cooldown
    /\ pc' = [pc EXCEPT ![l] = "pool"]
    /\ UNCHANGED <<userState, proxyState, shared, updaterState, sawRunning, sawPin, round>>

\* The candidates, or with a cleared blacklist every other reachable config.
FailoverPools(l) ==
    /\ pc[l] = "pool"
    /\ LET others == shared \ {round[l].current}
           fresh == others \ round[l].failed
       IN  IF fresh # {}
           THEN /\ round' = [round EXCEPT ![l].pool = fresh]
                /\ UNCHANGED <<failed, degraded>>
           ELSE /\ round' = [round EXCEPT ![l].pool = others]
                /\ failed' = {} /\ degraded' = TRUE
    /\ pc' = [pc EXCEPT ![l] = "try"]
    /\ UNCHANGED <<userState, cfg, active, running, failures, dwell, cooldown, process,
                   shared, updaterState, sawRunning, sawPin>>

Marked(uri) == IF Cardinality(failed) < MaxFailedKeys THEN failed \cup {uri} ELSE failed

FailoverTries(l) ==
    /\ pc[l] = "try"
    /\ \E uri \in round[l].pool :
          /\ round' = [round EXCEPT ![l].pool = @ \ {uri}, ![l].pick = uri]
          /\ \/ /\ Started(uri, cfg.listen)
                /\ failures' = 0
                /\ pc' = [pc EXCEPT ![l] = "tryCheck"]
             \/ /\ StartFails
                /\ pc' = [pc EXCEPT ![l] = "tryFailed"]
                /\ UNCHANGED failures
    /\ UNCHANGED <<userState, cfg, active, failed, degraded, dwell, cooldown, shared,
                   updaterState, sawRunning, sawPin>>

FailoverChecks(l) ==
    /\ \/ CheckDead(l, "tryCheck", "tryFailed") \/ CheckAlive(l, "tryCheck", "tryTransfer")
       \/ TransferWorks(l, "tryTransfer", "tryWorked") \/ TransferStalls(l, "tryTransfer", "tryFailed")
    /\ UNCHANGED <<userState, shared, updaterState, sawRunning, sawPin, round>>

\* The candidate did not start or carries nothing.
FailoverMarks(l) ==
    /\ pc[l] = "tryFailed"
    /\ failed' = Marked(round[l].pick)
    /\ pc' = [pc EXCEPT ![l] = "try"]
    /\ UNCHANGED <<userState, cfg, active, running, failures, degraded, dwell, cooldown, process, shared, updaterState, sawRunning, sawPin, round>>

FailoverSucceeds(l) ==
    /\ pc[l] = "tryWorked"
    /\ active' = round[l].pick
    /\ failures' = 0 /\ cooldown' = TRUE /\ dwell' = TRUE /\ degraded' = FALSE
    /\ pc' = [pc EXCEPT ![l] = "top"]
    /\ round' = [k \in Loops |-> IF k = l THEN NoRound ELSE [round[k] EXCEPT !.newest = pc[k] # "cooling"]]
    /\ UNCHANGED <<userState, cfg, running, failed, process, shared, updaterState,
                   sawRunning, sawPin>>

\* Every candidate failed; the last one's process may still be there.
FailoverExhausts(l) ==
    /\ pc[l] = "try" /\ round[l].pool = {}
    /\ running' = FALSE
    /\ pc' = [pc EXCEPT ![l] = "top"]
    /\ round' = [round EXCEPT ![l] = NoRound]
    /\ UNCHANGED <<userState, cfg, active, failures, failed, degraded, dwell, cooldown, process, shared, updaterState, sawRunning, sawPin>>

Failover(l) ==
    \/ FailoverReads(l) \/ FailoverCooled(l) \/ FailoverPools(l) \/ FailoverTries(l)
    \/ FailoverChecks(l) \/ FailoverMarks(l) \/ FailoverSucceeds(l) \/ FailoverExhausts(l)

Revival == RevivalSelects \/ RevivalStarts \/ RevivalRecords
HealthLoop == HealthSleeps \/ HealthWakes \/ Revival
Supervises(l) == Checks(l) \/ Judges(l) \/ Failover(l)
-----------------------------------------------------------------------------
Next ==
    \/ UserEdits \/ ProcessCrashes \/ DwellExpires \/ CooldownExpires
    \/ \E u \in Updaters : Updater(u)
    \/ HealthLoop \/ ConnectionStarves
    \/ \E l \in Loops : Supervises(l)

Spec == Init /\ [][Next]_vars

\* Loops keep running and time passes; a cycle that began ends.
FairSpec ==
    /\ Spec
    /\ WF_vars(HealthLoop) /\ WF_vars(CooldownExpires)
    /\ \A l \in Loops : WF_vars(Supervises(l))
    /\ \A u \in Updaters : WF_vars(UpdaterShares(u) \/ Update(u))
-----------------------------------------------------------------------------
(* What the supervision promises.                                            *)

Idle == (\A u \in Updaters : upc[u] = "idle") /\ (\A l \in Loops : pc[l] \in {"top", "wake"})

\* `running`, which the dashboard and the panel show, is never set without a
\* managed process: a process found dead takes the flag with it, on whichever
\* of the four tasks' checks it is found (is_process_alive, stop).
RunningHasProcess == running => process # NoProcess

\* After an update nobody has interrupted, the process serves the config that
\* is recorded as active.  It holds for the updates alone (proved), and not
\* once a failover runs beside them.
ActiveIsServed == Idle /\ running => process.uri = active

\* An update that is not pinned starts a config that recently failed only
\* when every reachable one did (select_proxy_config: keepable and best).
AutoSkipsFailed ==
    [][\A u \in Updaters :
          UpdateServes(u) /\ taken[u].pin = NoUri /\ u = "ping" /\ Alive' /\ process' # process
          => process'.uri \notin failed \/ list[u] \subseteq failed]_vars

\* A pinned config that is reachable is active when the update ends, whatever
\* the dwell window and the blacklist say, unless its process did not start.
PinHonoured ==
    [][\A u \in Updaters :
          UpdateServes(u) /\ taken[u].pin \in list[u] => active' = taken[u].pin \/ ~running']_vars

\* Rotation off: an update leaves the active config while it is reachable and
\* has not failed, however the ranking has changed.
KeepsServed ==
    [][\A u \in Updaters :
          /\ UpdateServes(u) /\ ~Rotating /\ taken[u].pin = NoUri
          /\ active \in list[u] \ failed
          => active' = active]_vars

\* A switch drops the port for seconds: inside the dwell window no update
\* touches a process that lives and has not failed its checks.
HealthyUndisturbed ==
    [][\A u \in Updaters :
          /\ UpdateServes(u) /\ taken[u].pin = NoUri
          /\ dwell /\ running /\ Alive /\ active # NoUri /\ failures < MaxFailures
          => process' = process]_vars

\* A stopped proxy is not a dead end: while it is enabled and there is a
\* config to choose, a process that has gone is replaced, without waiting for
\* a cycle (revive_if_enabled); and no loop is stuck in a failover or a
\* revival, candidate after candidate: it gets back to its timer.
Servable == cfg.enabled /\ Choices(cfg, shared, active, failed) # {}
Recovers ==
    /\ (Servable /\ ~Alive) ~> (Alive \/ ~Servable)
    /\ \A l \in Loops : (pc[l] # "top") ~> (pc[l] = "top")
-----------------------------------------------------------------------------
(* What a comment of the code says and the code does not do: TLC refutes it   *)
(* (README, Divergences), no run checks it.                                  *)

\* proxy.rs:193 "Takes the current ProxyConfig": between cycles, the proxy has
\* the config the user last set, once the refresh loop has seen that edit.
LiveConfigWins == seen /\ (\A u \in Updaters : upc[u] = "idle") => cfg = live
=============================================================================
