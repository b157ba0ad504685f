----------------------------- MODULE CycleTimers -----------------------------
(* When the cycles run: the timers, manual triggers and configuration edits  *)
(* that wake the refresh and the ping loop (spawn_refresh_loop and           *)
(* spawn_ping_loop of main.rs).  CycleScheduler models what a cycle does     *)
(* once it runs; here a cycle is a span of time that holds the lock.         *)
(*                                                                           *)
(* Time is counted in ticks.  A deadline is an Instant in the code and the   *)
(* ticks left until it here, so every copy of a deadline ages with the clock.*)
EXTENDS Integers

CONSTANTS
    Configs,     \* configurations an edit may broadcast: [refresh, ping, feeds]
    MaxEdits,    \* bound on the edits of a behaviour
    MaxRequests, \* bound on its manual triggers
    Never        \* no deadline (None in the code)

ASSUME TimersAssumption ==
    /\ \A c \in Configs : DOMAIN c = {"refresh", "ping", "feeds"}
    /\ \A c \in Configs : c.refresh \in Nat /\ c.ping \in Nat
    /\ MaxEdits \in Nat /\ MaxRequests \in Nat
    /\ Never \notin Nat

VARIABLES
    live,        \* the configuration in the watch channel
    unseenR,     \* the refresh loop has a broadcast it has not seen
    unseenP,     \* the ping loop has a broadcast it has not seen
    applied,     \* the RuntimeConfig the dashboard and the terminal show
    editor,      \* what the terminal has broadcast and not yet shown: {} or {c}
    edits,       \* edits committed so far, at most MaxEdits
    trigR,       \* manual refreshes are queued
    trigP,       \* manual pings are queued
    requests,    \* manual triggers so far, at most MaxRequests
    restart,     \* the ping loop has been told to restart its countdown
    r,           \* what the refresh loop is doing
    whyR,        \* what woke it
    takenR,      \* the configuration its last refresh was called with
    leftR,       \* refresh_deadline
    lastR,       \* last_refresh_seconds, the interval it was armed with
    fingerprint, \* the feed list of last_refresh_fingerprint
    announced,   \* a waiting refresh has announced itself to a running ping
    p,           \* what the ping loop is doing
    whyP,
    leftP,       \* next_deadline
    lastP,       \* last_interval
    shownP,      \* next_ping_instant, the countdown on the screen
    copyP        \* next_ping_instant in the clone a refresh will write back

refreshVars == <<r, whyR, takenR, leftR, lastR, fingerprint, announced, copyP>>
pingVars == <<p, whyP, leftP, lastP>>
configVars == <<live, unseenR, unseenP, applied, editor, edits>>
queueVars == <<trigR, trigP, requests, restart>>
timersVars == <<configVars, queueVars, refreshVars, pingVars, shownP>>

Intervals == {c.refresh : c \in Configs} \cup {c.ping : c \in Configs}
Feeds == {c.feeds : c \in Configs}
Deadlines == {Never} \cup UNION {0 .. i : i \in Intervals}

TimersTyped ==
    /\ live \in Configs /\ applied \in Configs
    /\ takenR \in Configs
    /\ unseenR \in BOOLEAN /\ unseenP \in BOOLEAN
    /\ editor \subseteq Configs
    /\ edits \in 0 .. MaxEdits
    /\ trigR \in BOOLEAN /\ trigP \in BOOLEAN /\ restart \in BOOLEAN
    /\ requests \in 0 .. MaxRequests
    /\ r \in {"top", "asleep", "waiting", "locked", "writing", "feeding"}
    /\ whyR \in {"timer", "manual", "edit", "feeds"}
    /\ p \in {"top", "asleep", "locked", "feeding"}
    /\ whyP \in {"timer", "manual"}
    /\ leftR \in Deadlines /\ leftP \in Deadlines
    /\ shownP \in Deadlines /\ copyP \in Deadlines
    /\ lastR \in {Never} \cup Intervals /\ lastP \in {Never} \cup Intervals
    /\ fingerprint \in Feeds /\ announced \in BOOLEAN

\* Both loops at the head of their first round.  The refresh loop starts with
\* refresh_now, so its first round is a refresh over the start-up list.
TimersInit ==
    /\ live \in Configs
    /\ unseenR = FALSE /\ unseenP = FALSE
    /\ applied = live /\ editor = {} /\ edits = 0
    /\ trigR = FALSE /\ trigP = FALSE /\ requests = 0 /\ restart = FALSE
    /\ r = "waiting" /\ whyR = "timer" /\ takenR = live
    /\ leftR = Never /\ lastR = live.refresh
    /\ fingerprint = live.feeds /\ announced = FALSE
    /\ p = "top" /\ whyP = "timer"
    /\ leftP = Never /\ lastP = Never /\ shownP = Never /\ copyP = Never

(***************************************************************************)
(* Time.                                                                   *)
(***************************************************************************)

Aged(d) == IF d \in {Never, 0} THEN d ELSE d - 1

Tick ==
    /\ \E d \in {leftR, leftP, shownP, copyP} : d \notin {Never, 0}
    /\ leftR' = Aged(leftR)
    /\ leftP' = Aged(leftP) /\ shownP' = Aged(shownP)
    /\ copyP' = Aged(copyP)
    /\ UNCHANGED <<configVars, queueVars, r, whyR, takenR, lastR, fingerprint,
                   announced, p, whyP, lastP>>

(***************************************************************************)
(* Edits and triggers of the terminal and the dashboard.                   *)
(***************************************************************************)
Broadcast(c) ==
    /\ live' = c
    /\ unseenR' = TRUE /\ unseenP' = TRUE

\* persist_and_broadcast of the dashboard: the live snapshot, then the broadcast.
DashboardEdits(c) ==
    /\ edits < MaxEdits
    /\ edits' = edits + 1
    /\ applied' = c
    /\ Broadcast(c)
    /\ UNCHANGED <<editor, queueVars, refreshVars, pingVars, shownP>>

\* finish_edit of the terminal: the broadcast, then the live snapshot.
TerminalEdits(c) ==
    /\ editor = {} /\ edits < MaxEdits
    /\ edits' = edits + 1
    /\ Broadcast(c)
    /\ editor' = {c}
    /\ UNCHANGED <<applied, queueVars, refreshVars, pingVars, shownP>>

TerminalShows ==
    /\ applied' \in editor
    /\ editor' = {}
    /\ UNCHANGED <<live, unseenR, unseenP, edits, queueVars, refreshVars, pingVars, shownP>>

\* What RuntimeState says of the cycles: `refreshing` and `pinging`.
Refreshing == r \in {"locked", "writing"} \/ announced
Pinging == p = "locked"
CycleBusy == Refreshing \/ Pinging
LockTaken == r \in {"locked", "writing"} \/ p = "locked"

RefreshRequested ==
    /\ ~Refreshing /\ requests < MaxRequests
    /\ requests' = requests + 1
    /\ trigR' = TRUE
    /\ UNCHANGED <<configVars, trigP, restart, refreshVars, pingVars, shownP>>

PingRequested ==
    /\ ~CycleBusy /\ requests < MaxRequests
    /\ requests' = requests + 1
    /\ trigP' = TRUE
    /\ UNCHANGED <<configVars, trigR, restart, refreshVars, pingVars, shownP>>

(***************************************************************************)
(* The refresh loop.  Its rounds: arm and sleep, wake up, then a refresh   *)
(* or nothing, then the proxy is fed.                                      *)
(***************************************************************************)
\* The head of both loops arms the countdown full when the interval changed,
\* no deadline is set or the last one has passed.
Rearms(last, left, secs) == last # secs \/ left \in {Never, 0}

RefreshSleeps ==
    LET secs == live.refresh IN
    /\ r = "top" /\ r' = "asleep"
    /\ lastR' = secs
    /\ IF secs = 0 THEN leftR' = Never
       ELSE IF Rearms(lastR, leftR, secs) THEN leftR' = secs
       ELSE UNCHANGED leftR
    /\ UNCHANGED <<configVars, queueVars, pingVars, shownP, whyR, takenR,
                   fingerprint, announced, copyP>>

\* refresh_once: a running ping is told to stop, if the state can be read.
CallRefresh == r' = "waiting" /\ announced' \in {FALSE, Pinging}

RefreshTimerFires ==
    /\ r = "asleep" /\ leftR = 0
    /\ trigR' = FALSE
    /\ takenR' = live /\ fingerprint' = live.feeds
    /\ whyR' = "timer" /\ CallRefresh
    /\ UNCHANGED <<configVars, trigP, requests, restart, pingVars, shownP, leftR, lastR,
                   copyP>>

\* While the automatic refresh is off the loop shows the configuration at once.
RefreshTriggered ==
    /\ r = "asleep" /\ trigR
    /\ trigR' = FALSE
    /\ IF Refreshing
       THEN r' = "top" /\ UNCHANGED <<applied, whyR, takenR, fingerprint, announced>>
       ELSE /\ takenR' = live /\ fingerprint' = live.feeds
            /\ applied' = IF lastR = 0 THEN live ELSE applied
            /\ whyR' = "manual" /\ CallRefresh
    /\ UNCHANGED <<live, unseenR, unseenP, editor, edits, trigP, requests, restart, pingVars,
                   shownP, leftR, lastR, copyP>>

\* Only an edit of the feed list refreshes at once; the others feed the proxy.
ShouldRefreshNow(old, new) == old # new

\* Mutant: the broadcast is read and not marked as seen.
RefreshPeeksEdit ==
    /\ r = "asleep" /\ unseenR
    /\ applied' = live
    /\ fingerprint' = live.feeds
    /\ IF ShouldRefreshNow(fingerprint, live.feeds)
       THEN whyR' = "feeds" /\ takenR' = live /\ CallRefresh
       ELSE whyR' = "edit" /\ r' = "feeding" /\ UNCHANGED <<takenR, announced>>
    /\ UNCHANGED <<live, unseenR, unseenP, editor, edits, queueVars, pingVars, shownP,
                   leftR, lastR, copyP>>

RefreshSeesEdit ==
    /\ r = "asleep" /\ unseenR
    /\ unseenR' = FALSE
    /\ applied' = live
    /\ fingerprint' = live.feeds
    /\ IF ShouldRefreshNow(fingerprint, live.feeds)
       THEN whyR' = "feeds" /\ takenR' = live /\ CallRefresh
       ELSE whyR' = "edit" /\ r' = "feeding" /\ UNCHANGED <<takenR, announced>>
    /\ UNCHANGED <<live, unseenP, editor, edits, queueVars, pingVars, shownP,
                   leftR, lastR, copyP>>

\* Mutant: a refresh that leaves the live snapshot to the edits.
RefreshLocksOnly ==
    /\ r = "waiting" /\ ~LockTaken
    /\ r' = "locked"
    /\ announced' = FALSE
    /\ UNCHANGED <<live, unseenR, unseenP, applied, editor, edits, queueVars, pingVars,
                   shownP, whyR, takenR, leftR, lastR, fingerprint, copyP>>

RefreshLocks ==
    /\ r = "waiting" /\ ~LockTaken
    /\ r' = "locked"
    /\ applied' = takenR
    /\ announced' = FALSE
    /\ UNCHANGED <<live, unseenR, unseenP, editor, edits, queueVars, pingVars,
                   shownP, whyR, takenR, leftR, lastR, fingerprint, copyP>>

\* refresh_once clones the runtime state, and later writes the clone back.
RefreshCopies ==
    /\ r = "locked" /\ r' = "writing"
    /\ copyP' = shownP
    /\ UNCHANGED <<configVars, queueVars, pingVars, shownP, whyR, takenR, leftR,
                   lastR, fingerprint, announced>>

\* Only the refresh of a feed-list edit arms the countdown before feeding.
ArmBeforeFeeding ==
    IF whyR = "feeds" /\ lastR # 0 THEN leftR' = lastR
    ELSE UNCHANGED leftR

\* Mutant: the ping loop is not told to restart its countdown.
RefreshWritesBackQuietly ==
    /\ r = "writing" /\ r' = "feeding"
    /\ shownP' = copyP
    /\ copyP' = Never
    /\ ArmBeforeFeeding
    /\ UNCHANGED <<configVars, trigR, trigP, requests, restart, pingVars, whyR, takenR, lastR,
                   fingerprint, announced>>

RefreshWritesBack ==
    /\ r = "writing" /\ r' = "feeding"
    /\ shownP' = copyP
    /\ restart' = TRUE
    /\ copyP' = Never
    /\ ArmBeforeFeeding
    /\ UNCHANGED <<configVars, trigR, trigP, requests, pingVars, whyR, takenR, lastR,
                   fingerprint, announced>>

RefreshEndsInError ==
    /\ r \in {"locked", "writing"} /\ r' = "feeding"
    /\ copyP' = Never
    /\ ArmBeforeFeeding
    /\ UNCHANGED <<configVars, queueVars, pingVars, shownP, whyR, takenR, lastR,
                   fingerprint, announced>>

\* Mutant: the fingerprint is taken when the refresh is over.
RefreshFedAndMarks ==
    /\ r = "feeding" /\ r' = "top"
    /\ trigR' = (trigR /\ whyR # "manual")
    /\ IF whyR \in {"timer", "manual"} /\ lastR # 0
       THEN leftR' = lastR ELSE UNCHANGED leftR
    /\ fingerprint' = live.feeds
    /\ UNCHANGED <<configVars, trigP, requests, restart, pingVars, shownP, whyR, takenR,
                   lastR, announced, copyP>>

RefreshFed ==
    /\ r = "feeding" /\ r' = "top"
    /\ trigR' = (trigR /\ whyR # "manual")
    /\ IF whyR \in {"timer", "manual"} /\ lastR # 0
       THEN leftR' = lastR ELSE UNCHANGED leftR
    /\ UNCHANGED <<configVars, trigP, requests, restart, pingVars, shownP, whyR, takenR,
                   lastR, fingerprint, announced, copyP>>

RefreshWakes == RefreshTimerFires \/ RefreshTriggered \/ RefreshSeesEdit
RefreshRuns == RefreshCopies \/ RefreshWritesBack \/ RefreshEndsInError \/ RefreshFed
RefreshLoop == RefreshSleeps \/ RefreshWakes \/ RefreshLocks \/ RefreshRuns

(***************************************************************************)
(* The ping loop.                                                          *)
(***************************************************************************)
\* A ping on the cadence of the refreshes is left to the refreshes.
AutoPingOn(c) == c.ping # 0 /\ (c.refresh = 0 \/ c.ping # c.refresh)

ArmP(secs) == leftP' = secs /\ shownP' = secs

PingSleeps ==
    LET secs == live.ping IN
    /\ p = "top" /\ p' = "asleep"
    /\ lastP' = secs
    /\ IF ~AutoPingOn(live) THEN ArmP(Never)
       ELSE IF Rearms(lastP, leftP, secs) THEN ArmP(secs)
       ELSE UNCHANGED <<leftP, shownP>>
    /\ UNCHANGED <<configVars, queueVars, refreshVars, whyP>>

\* ping_once: skipped while a refresh holds the lock or nothing is cached.
CallPing(skipped) ==
    \/ p' = "feeding" /\ applied' = skipped
    \/ ~LockTaken /\ p' = "locked" /\ applied' = live

PingComesDue ==
    /\ p = "asleep" /\ leftP = 0
    /\ trigP' = FALSE
    /\ whyP' = "timer"
    /\ CallPing(applied)
    /\ UNCHANGED <<live, unseenR, unseenP, editor, edits, trigR, requests, restart,
                   refreshVars, leftP, lastP, shownP>>

\* While the automatic ping is off the loop shows the configuration at once.
PingAskedFor ==
    /\ p = "asleep" /\ trigP
    /\ trigP' = FALSE
    /\ IF CycleBusy THEN p' = "top" /\ UNCHANGED <<applied, whyP>>
       ELSE /\ whyP' = "manual"
            /\ CallPing(IF leftP = Never THEN live ELSE applied)
    /\ UNCHANGED <<live, unseenR, unseenP, editor, edits, trigR, requests, restart,
                   refreshVars, leftP, lastP, shownP>>

PingSeesEdit ==
    /\ p = "asleep" /\ unseenP
    /\ unseenP' = FALSE
    /\ applied' = live
    /\ p' = "top"
    /\ UNCHANGED <<live, unseenR, editor, edits, queueVars, refreshVars,
                   whyP, leftP, lastP, shownP>>

\* A finished cycle arms the countdown full, if the automatic ping is on.
PingDone ==
    /\ p' = "top"
    /\ trigP' = (trigP /\ whyP # "manual")
    /\ IF leftP = Never THEN UNCHANGED <<leftP, shownP>> ELSE ArmP(lastP)

PingEnds ==
    /\ p = "locked" /\ p' = "feeding"
    /\ UNCHANGED <<configVars, queueVars, refreshVars, whyP, leftP, lastP, shownP>>

\* A preempted ping leaves the proxy to the refresh.
PingGivesWay ==
    /\ p = "locked" /\ announced
    /\ PingDone
    /\ UNCHANGED <<configVars, trigR, requests, restart, refreshVars, whyP, lastP>>

PingFed ==
    /\ p = "feeding"
    /\ PingDone
    /\ UNCHANGED <<configVars, trigR, requests, restart, refreshVars, whyP, lastP>>

PingRestarted ==
    /\ p = "asleep" /\ restart
    /\ restart' = FALSE
    /\ p' = "top"
    /\ IF leftP = Never THEN UNCHANGED <<leftP, shownP>> ELSE ArmP(lastP)
    /\ UNCHANGED <<configVars, trigR, trigP, requests, refreshVars, whyP, lastP>>

PingWakes == PingComesDue \/ PingAskedFor \/ PingSeesEdit \/ PingRestarted
PingRuns == PingEnds \/ PingGivesWay \/ PingFed
PingLoop == PingSleeps \/ PingWakes \/ PingRuns

(***************************************************************************)
(* The specification.                                                      *)
(***************************************************************************)
User == \/ \E c \in Configs : TerminalEdits(c) \/ DashboardEdits(c)
        \/ RefreshRequested \/ PingRequested

TimersNext == Tick \/ User \/ TerminalShows \/ RefreshLoop \/ PingLoop

TimersSpec == TimersInit /\ [][TimersNext]_timersVars

\* Time passes, the tasks are scheduled, an edit that began ends, and the
\* lock is handed to the waiting refresh (tokio's mutex queues its waiters).
FairTimersSpec ==
    /\ TimersSpec
    /\ WF_timersVars(Tick) /\ WF_timersVars(TerminalShows)
    /\ WF_timersVars(RefreshLoop) /\ WF_timersVars(PingLoop)
    /\ SF_timersVars(RefreshLocks)

(***************************************************************************)
(* Properties.                                                             *)
(***************************************************************************)
\* Once both loops sleep and no restart is on its way, the countdowns on the
\* screen are the deadlines the loops sleep until.  A refresh writes a clone
\* of the whole state back over whatever the ping loop showed meanwhile; the
\* restart it sends afterwards is what puts this right.
CountdownsAgree ==
    r = "asleep" /\ p = "asleep" /\ ~restart => shownP = leftP

\* An edit of the feed list is never swallowed: when the refresh loop sleeps
\* with nothing left to see, the last refresh ran over the live feed list,
\* whatever was edited while it waited, ran, failed or fed the proxy.
FeedEditsFetched == r = "asleep" /\ ~unseenR => takenR.feeds = live.feeds

\* With the automatic refresh on, what the screens show settles on the live
\* configuration, although the two loops, the cycles and both editors
\* overwrite it from copies taken earlier.
ConfigSettles == <>[](live.refresh # 0) => <>[](applied = live)

\* A timer that is switched on gets its cycle, or is switched off: edits,
\* triggers and restarts do not postpone it for ever.
TimersFire ==
    /\ live.refresh # 0 ~> (r = "locked" \/ live.refresh = 0)
    /\ AutoPingOn(live) ~> (p \in {"locked", "feeding"} \/ r = "locked" \/ ~AutoPingOn(live))
=============================================================================
