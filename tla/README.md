# V2RayDAR: formal models

V2RayDAR fetches public proxy configurations ("configs") from subscriptions,
probes them through sing-box, ranks those that work, serves the ranked list
over HTTP and keeps one local proxy running on the best of them. A dashboard in
the browser and a terminal interface show and change all of it.

This directory holds TLA+ modules that model the parts of it that keep state and
the conversions its results depend on, TLC configurations that check them on
small instances, and proofs of the most important results for every value of
the constants. Paths of the program are written from the directory above:
`src/src/main.rs` is the file `src/main.rs` of the repository, `src/docs/guide.md`
its guide.

To check: `tlc -config X.cfg M` for the runs below, `tlapm M.tla` for the modules
whose name ends in `Proofs`.

Contents: 1 the system, 2 the modules, 3 the runs, 4 fairness, 5 the proofs,
6 findings and divergences, 7 what is not modelled, 8 what is left.

## 1. The system

### Parts

One process, one tokio runtime. The parts that keep state:

| Part | State | Operations |
| --- | --- | --- |
| **Cycle scheduler** (`main.rs` 786–2616) | `RuntimeState` behind a read-write lock (`ranked`, `refreshing`, `pinging`, counters), the cycle mutex, the flag `ping_cancel` | the refresh cycle: preempt a ping, wait for the mutex, fetch, bridge, probe, fall back on the database, publish; the ping cycle: try the mutex, re-probe what is cached, backfill, publish |
| **Cycle timers** (`main.rs` 2618–3250) | a deadline per loop, trigger and restart channels, the `watch` channel of the configuration, a fingerprint of the feed list, the configuration and countdown that are shown | start a cycle on time, on request, or at once after an edit of the feeds; re-arm |
| **Subscription fetcher** (`subscription.rs`, loading part of `refresh_once`) | per refresh: requests in flight, attempts, candidates, errors, bridge configs still to try | concurrent downloads, retries, merge, a second pass through a config that worked |
| **Probe engine** (`probe.rs`) | per call: queue of test definitions, the shared list of results, a stop signal, the batch size | take a wave of concurrent batches, start a sing-box per batch, split or reduce a batch that does not start, probe, stop early |
| **Proxy supervisor** (`proxy.rs`) | `ProxyState` behind a mutex: the config, the active key, `running`, failures, blacklist, timestamps, the child process | update after a cycle, health checks, revival, failover, starvation check |
| **Preferences** (`settings.rs`, `config.rs`, part of `main.rs`, `web.rs` and `tui/`) | five copies of the settings and the subscription list | migrate the legacy file, seed, reconcile with new defaults, edit, save, publish |
| **Database** (`db.rs`) | SQLite tables behind one lock: settings, subscriptions, snapshot of the defaults, probe results | load, save in a transaction; upsert, prune and rank results |
| **Web API** (`web.rs`, `server.rs`) | the list of subscriptions it shows | edits (requests), events, the served lists |
| **Terminal interface** (`tui.rs`, `tui/`) | the preferences it started with, the copy it edits, whether that is saved, views and input modes | edit, push to the loops, save, reset, pin, leave |
| **Sharing** (`network.rs`, `qr.rs`, `tui/firewall.rs`, parts of `web.rs`, `server.rs`, `main.rs`) | listeners, the firewall's rules and the program's record of its own, the sheet of QR cards | switch sharing and the LAN proxy, hand out links and cards |
| **Uninstaller** (`main.rs` 500–785) | files | name the targets, remove rules and record, remove the targets |
| **Runtime state and logs** (`model.rs`, `applog.rs`, `terminal.rs`) | progress, counters, log rings | display |

Without state that outlives a call: parsers and converters (`parser/`,
`convert.rs`, `clash.rs`), the sing-box helper, GeoIP look-ups, paths and the
command line. The front end (`src/src/frontend`) runs in the browser; installers
and `build.rs` run outside the program.

### How they interact

- The **refresh loop** and the **ping loop** are two tasks. They share
  `RuntimeState` behind a read-write lock that is released at every await; only
  the cycle mutex keeps a whole cycle together. A refresh that finds a ping
  running sets `ping_cancel`, queues for the mutex, and takes over ("carries")
  what the ping had verified. A ping only ever *tries* the mutex. After each
  refresh the ping loop is told to restart its countdown.
- A refresh loads its candidates with the **fetcher**, whose documents go through
  the **parsers**: every server becomes a share link with a key that identifies
  it. Both cycles call `probe_candidates` of the **probe engine**, which converts
  the link to a sing-box outbound, with a stop policy and, for the ping, the
  flag by which it is preempted.
- After its cycle each loop hands the **proxy** the ranked list and the config it
  took when its cycle began: `update()`. Two more tasks, the **health loop** and
  the **starvation loop**, act on the same `ProxyState` and release its mutex
  across each network await.
- Dashboard requests and the terminal interface change the **preferences**, store
  them in the **database** and send the new config through the `watch` channel,
  which both loops wait on and read when a cycle begins.
- Switching **sharing** or the LAN proxy, from either side or at the start, runs
  commands of the firewall and keeps a record of the rules they made. Links and
  QR cards are made from the config, the network and the firewall of the moment;
  what answers them are the listeners bound earlier. The export in Clash format
  **converts** each served link once more.

### What is hard

- *Interleaving*: every await of a cycle lets the other loop, an edit, a
  supervisor or a request run. State is often read before an await and used
  after it.
- *Preemption*: a ping may be cancelled while it probes, after it found its
  target, before it started, or never have run.
- *Partial failure*: a fetch, a database write, a sing-box start, a firewall
  command or a validation may fail at any point of a cycle, a batch, a failover,
  a switch or a start-up.
- *Crash and upgrade*: the preferences are migrated, seeded and reconciled in
  several committed steps, and a start may break off after any of them; a rule
  of the firewall and its record are written one after the other.
- *Many copies*: the preferences exist five times, the countdown of a loop three
  times, the firewall's rules twice; nothing but the order of the writes keeps
  the copies together.
- *Retries*: transient failures, blocked sources, batches that do not start and
  candidates of a failover are all tried again and must run out.
- *Liveness*: a refresh must get its turn although the ping tries the mutex again
  and again; edits must not postpone a timer for ever; a proxy that stopped must
  be served again.
- *Several readings of one text*: the probe, the export and the duplicate key
  each read a share link with code of their own, and every feed format is
  translated to share links first.

### What makes each part correct

- **Scheduler**: cycles never interleave; the cancel flag and `refreshing` do not
  outlive the refresh they belong to; nothing is probed twice in a cycle; what
  is published as working was verified; with stability on, a working list does
  not go blank; every cycle ends.
- **Timers**: the countdown shown is the real one; an edit of the feeds is always
  fetched; what is shown settles on what is in force; each timer fires.
- **Fetcher**: what is probed is what was delivered, once, and credited
  independently of timing; each source delivers or shows one error; loading ends.
- **Probe engine**: no candidate is lost or reported twice; the call ends only
  when all is tested, the caller preempted it or the target is really met, and
  it always ends; after a stop all batches wind down.
- **Proxy**: `running` has a process behind it; selection honours the pin, the
  dwell window, the blacklist and the rotation switch; a dead proxy is served
  again.
- **Preferences and database**: no choice of the user is overridden by an
  upgrade; a deleted subscription stays deleted; a crash loses nothing; the
  copies agree once edits settle; no URL twice.
- **Terminal**: nothing unsaved goes unmarked; what it shows is what the loops
  run on; the list is in order; protection comes with a token, in the store too,
  but for one way that is known.
- **Sharing**: the program knows its own firewall rules and removes only those;
  what it hands out is answered; the codes can be scanned.
- **Uninstaller**: it takes what is the program's and nothing else.
- **Parsers and converters**: every reading of a link gives the same connection
  and the same account; a feed loses no server and repeats none; the export lists what is served.

## 2. The modules

| Module | What it is | Extends / instantiates |
| --- | --- | --- |
| `CycleScheduler` | the refresh and the ping loop | refines `CycleMutex` |
| `CycleMutex` | abstract: a mutex with one waiter and one that only tries | |
| `CycleTimers` | when the cycles run, and what the screens show of it | |
| `SubscriptionFetch` | one load of the candidates | |
| `ProbeEngine` | one call of `probe_candidates` | refines `ProbeCall` |
| `ProbeCall` | abstract: what a call promises its caller | |
| `ProxySupervisor` | the proxy, two updaters and two supervisor loops | |
| `Preferences` | the five copies of the preferences, start-up, edits, crashes, upgrades | |
| `Terminal` | the terminal interface, event by event | |
| `Firewall` | the firewall, its rules, the record and the calls that change them | |
| `LanHosts` | the address that is handed out, for a network | |
| `QrSheet` | the geometry of the sheet of QR cards | |
| `Sharing` | starts, switches, listeners, links and cards, the uninstaller | composes the three above |
| `LinkConversion` | share link → sing-box outbound, Clash entry, duplicate key | |
| `FeedConversion` | Clash entry and Xray outbound → share link | extends `LinkConversion` |
| `Filtering` | `Iterator::filter` over a sequence | |
| `FeedParsing` | the stages of the parser over a document | extends `Filtering` |
| `ClashConfig` | the exported Clash configuration | extends `FeedConversion`, `Filtering` |
| `Conversions` | the paths of a server through the program | composes the four above |
| `MC…` | values of the constants for TLC | the module of that name |
| `…Proofs` | theorems and proofs (those of `CycleTimers` are in `CycleSchedulerProofs`; two of `Conversions`, which need the induction over a merge, in `SubscriptionFetchProofs`) | the module of that name |

Where a component meets another, its module has as environment exactly what the
other can do to it, which keeps every instance within reach of TLC.
`CycleScheduler` contains the probe call as the abstract promise lets it be seen:
one candidate at a time gets a verdict, until none is left, the target is met or
the flag is set. What `ProbeEngine` proves against `ProbeCall` is what justifies
that. It takes any set of configs, or a failure, as the outcome of
`SubscriptionFetch`, and lets a cycle come due at any time, which includes every
timing of `CycleTimers`; that module, in turn, sees a cycle as a span that holds
the lock. The ranked lists that reach `ProxySupervisor` are arbitrary sets of
configs, and the edits that reach it and the timers come at any time, as
`Preferences` and `Terminal` send them. `Sharing` assumes of a configuration that
what is protected has a token: `Terminal` keeps it of what it edits and hands to the
loops (`ProtectedHasToken`), and a load puts right what is stored otherwise
(`config.rs` 392–394).

One convention everywhere: an action is one stretch of the code between two
points at which another task can run (an await, the release of a lock, a use of
the database or of a command), with everything the stretch changes.

### CycleScheduler

| State | Code |
| --- | --- |
| `lock` | `cycle`, a tokio mutex, whose queue is first in, first out (`main.rs` 397) |
| `cancel` | `ping_cancel` |
| `refreshing`, `pinging`, `ranked`, `reachable` | the fields of `RuntimeState` |
| `pc` | where each loop is: `idle`, then the places named after the phases of `refresh_once` and `ping_once` |
| `prev` | `previous_before_refresh`, `previous_before_ping` |
| `queue`, `found`, `tested`, `half` | the running probe call: candidates left, its results, those of earlier calls, the half-time snapshot |
| `excluded`, `carry`, `fetch`, `spent`, `seenPinging`, `outcome` | locals of the two functions |
| `lastUp` | history: the configs whose most recent probe succeeded |

A ranked list is a function from configs to "no row", "up" or "down". Its order is
left out: which of the working rows a truncation keeps is a free choice.
Refresh: `RefreshBegins`, `RefreshEnters` (looks at `pinging`),
`RefreshPreempts`, `RefreshAnnounces`, `RefreshAcquires` (takes the mutex and the
carry), `RefreshStarts`, `RefreshFetches`, `RefreshBridges` (retry of failed sources
through the proxy), `RefreshProbes`, `RefreshProbed`, `RefreshFallsBack`,
`RefreshConcludes`, `RefreshPublishes` or `RefreshFails` and `RefreshRecordsError`,
`Feed`. Ping: `PingTimerFires` or `PingTriggered`, `PingSkips` or `PingAcquires`,
`PingStarts`, `PingProbes`, `PingProbed`, `PingBackfills`, `PingBackfilled`,
`PingFinishes`, `PingPreempted`, `PingPublishes`, `PingFails`, `PingClears`, `Feed`.
Each verdict of a probe is one action (`ProbeOne`), because every verdict may
rewrite the live list (early publication, half-time snapshot).

### CycleTimers

| State | Code |
| --- | --- |
| `live`, `unseenR`, `unseenP` | the `watch` channel and the "changed" mark of each receiver |
| `applied` | `RuntimeConfig`, which the dashboard and the panel show |
| `editor` | an edit of the terminal between its broadcast and its snapshot (`finish_edit`) |
| `trigR`, `trigP`, `restart` | the trigger channels and the notification that restarts the ping's countdown |
| `leftR`, `lastR`, `fingerprint`, `takenR` | `refresh_deadline`, `last_refresh_seconds`, `last_refresh_fingerprint`, the config of the last `refresh_once` |
| `leftP`, `lastP`, `shownP`, `copyP` | `next_deadline`, `last_interval`, `next_ping_instant` in the state and in the clone a refresh writes back |
| `r`, `p`, `whyR`, `whyP`, `announced` | where the loops are, what woke them, whether a waiting refresh told a ping |

Time is counted in ticks; a deadline is the number of ticks left. A round of the
refresh loop: `RefreshSleeps` (arm), one of `RefreshTimerFires`,
`RefreshTriggered`, `RefreshSeesEdit`, then `RefreshLocks`, `RefreshCopies`,
`RefreshWritesBack` or `RefreshEndsInError`, `RefreshFed`. The ping loop likewise
(`PingSleeps`; `PingComesDue`, `PingAskedFor`, `PingSeesEdit` or `PingRestarted`;
`PingEnds` or `PingGivesWay`; `PingFed`). The specification is `TimersSpec`.

### SubscriptionFetch

`at` and `attempt` say where the request of each source is; `arrived` is the order in
which documents came, `pool` the candidates with the source each is credited to,
`successes` and `errors` the lists the dashboard shows, `bridges` the configs still
to be tried as a tunnel, `deltas` the counts on their way to the display. Content of
a source is the set of keys its document holds. A request fails with any
combination of "worth another attempt" and "worth a tunnel". The load ends
(`LoadEnds`) with the merge in the configured order; `TunnelOpens`,
`TunnelDelivers`, `TunnelUseless` and `TunnelRefused` are the second pass.

### ProbeEngine

`phase` is where `probe_candidates` is; `at`, `pending`, `current` and `stats` are
where each batch of a wave is and what it still has to test; `rows` is the
shared list of results; `reached` and `external` are the two sources of a stop
(`ProbeStopSignal`), `half`, `remaining` and `exhausted` the state behind the stop
decision, `sizer` the adaptive batch size. A definition (`Entries`) is a config that
is tested and the equivalent ones ("aliases") that share its result. Lists of
definitions are sets; of the order only "configs that worked before come first" is
kept, since the stop depends on it.

### ProxySupervisor

The variables are the fields of `ProxyState`; `process` is the child process with
the config and the listener it was started with, and whether it still lives.
`shared` is the ranked list failovers read, `taken` and `list` what an updater
carries from the start of its cycle to `update()`, and `sawRunning`, `sawPin` and
`round` what a loop keeps across the release of the mutex. `UpdateServes` is the
whole of `update()` for an enabled proxy, because `update()` never releases the
mutex; a failover is eight actions, because it does.

### Preferences

| Copy | Code |
| --- | --- |
| `store` | the tables `settings` and `subscriptions` |
| `live` | the `watch` channel the loops read |
| `shown` | `HttpState::subscriptions`, by whose positions the dashboard names rows |
| `tui.edit` (with `tui.startup`) | the terminal's copy, and the values it started with |
| `requests[r].config` | what one request loaded and edits |

`file` is the legacy config file, `baseline` the release whose defaults were last
reconciled, `phase` where the start is: load (migrate, seed or load), neuter the
legacy file, reconcile, save, serve. A setting is one of three kinds: plain, a
switch that is saved on its own, and optional ones that a reset keeps. A release
is the defaults it ships. The program may stop at every step
(`ProgramStops`), and when it starts again a newer release may be installed.

### Terminal

`edit`, `dirty` and `proxy_pending_uri` (`pending`) are the terminal's copy, `saved`
what the store has, `live` what the loops have, `shownPin` and `active` what
requests of the dashboard and the proxy change beside it. `view`, `mode`, `draft`,
`row`, `found` and `drawn` are where the user is and what the last frame made
clickable. An action is one handler: a key in a menu (`RowMoves`, `Opens`, `Toggles`,
`Deletes`, `Saves`, `Switches`, `PinsFound`), Enter at the input line (`Commits…`,
`WizardGoesOn`, `WizardAdds`, `ResetWorks`, `ResetFails`), a click in whatever mode
(`Clicks`), leaving (`RequestsQuit`, `ConfirmsQuit`, `Killed`, `LoopFails`) or a frame,
which adopts a pin from the dashboard. Rows have their URL, name, switch and
rank; of the settings those are told apart that depend on each other. `startup` is
the configuration this start has loaded, with which a save compares: any of
`Starts`, which says what was stored, healed as a load heals it (a token is made,
`Minted`, for protection that has none). It is what `startup_editable` is in
`tui/util.rs`, and it stays while the terminal runs.
`Preferences` has the other side of a save, several writers of one store, at the
price of a coarser terminal.

### Sharing

`Firewall` has `rules` (the firewall's), `users` (those the user made), `record` (the
program's file) and `jobs`: each call that opens or closes a port is a sequence of
commands and file accesses of the terminal, the dashboard or the start-up, each of
which may fail, with `ufw`, `firewalld`, `netsh` or no tool behind it. `LanHosts`
chooses an address from routes and interfaces, which are small sets of kinds, with
the `hostname -I` that is asked when no interface is left; `listed` is the cache of
the interfaces, renewed by `ListsInterfaces`.
`QrSheet` computes where the codes and captions stand, in pixels as the code does.
`Sharing` adds the process: what it bound at its start (`listen`), the LAN listener
that follows the config every second (`lan`, `LanTick`), edits of settings, the
switches among them, which call no firewall (`Edits`), crashes, changes of the
network, the cards drawn (`Draws`) and links copied (`Copies`) since the last
change, and the uninstaller (`UninstallTargets`, `UninstallsRules`,
`UninstallsFiles`) over data directories with the program's and foreign files.

### Conversions

A server has a form: a scheme or type, a partial function from option names to
values, and an account (the server and the id or the password there).
`SingBoxOutbound` reads a link as `probe.rs` does,
`UriToClash` as the export does, `ConfigDedupKey` as the identity does;
`FeedConversion` writes a link from an entry of Clash or Xray. Options and account
are converted apart (`OutboundOptions` and `OutboundAccount`, `ClashLink` and
`ClashAccount`, and so on), and a conversion is the product of the two. An id or a
password is a text of which only the characters count that a writer and a reader treat
apart (`CharsOf`): `RawUser` is what a URL parser finds of one that is written as it
is, `CodedUser` of one that is coded but for `/`. Of the options what counts is the
connection they describe: the kind of TLS, server name, ALPN, transport, host, path
and service, and whether certificates are checked. `FeedParsing` has documents of
servers at eight kinds of places, and the stages that go over them;
`ClashConfig` the names, groups and rules of the export. Loops over a sequence are
recursive functions of the number of elements gone over, which can be proved about.

## 3. The runs

Passing runs (times with two workers):

| Run | Instance | States | Shows |
| --- | --- | --- | --- |
| `CycleStability` | 2 configs, `top_n` 2, stability on, database writes may fail, manual pings | 603,090 | `CyclesInTurn`, `NeverProbedTwice`, `PublishedIsVerified`, `WorkingSetSurvives` |
| `CycleLiveness` | 1 config, early publication, every fault, timer and manual pings, fair | 23,336 | `CyclesEnd`; `ImplementsFairMutex`: the scheduler refines `CycleMutex` |
| `CycleTimers` | 2 configurations (both timers on; both off with another feed list), 2 edits, 1 manual trigger, fair | 340,347 | `CountdownsAgree`, `FeedEditsFetched`, `ConfigSettles`, `TimersFire` |
| `SubscriptionFetch` | 3 sources, 2 keys, 2 at a time, 2 attempts, 2 bridges, fair | 176,544 | `PoolIsExact`, `SourcesAccounted`, `LoadingEnds` |
| `ProbeEngine` | 6 candidates, 9 kinds of call, 2 concurrent batches, batch size 1 to 3, fair | 184,698 | `Accounted`, `QuitsAfterStop`, `Returns`; `KeepsPromise`: the engine refines `ProbeCall` |
| `ProxySupervision` | 2 configs, rotation off, ping updates and the starvation loop, one edit, crashes, failing starts, stalled transfers | 208,728 | `RunningHasProcess`, `AutoSkipsFailed`, `KeepsServed`, `PinHonoured`, `HealthyUndisturbed` |
| `ProxyRecovery` | 2 configs, rotation on, refresh updates and the health loop, one edit, fair | 780,742 | `Recovers` |
| `Preferences` | 3 settings, 3 URLs, 3 releases, a legacy file, 2 requests and the terminal, 2 edits and 3 starts, 4 of them in all | 3.20 M | `UrlsUnique`, `MigrationSafe`, `BootKeepsSettings`, `BootKeepsRows`, `LoneEditSyncs` |
| `Terminal` | 4 starts: a first run with 2 subscriptions, at most 3, one URL the validation refuses, ranks 0 to 2 and 2 changes; a stored token without and with protection and 3 changes to the settings; protection without a token, 1 subscription and 2 changes | 2.15 M | `CleanMeansSaved`, `LoopsSeeEdits`, `RowsInOrder`, `ProtectedHasToken` |
| `Sharing` | 3 firewalls, 5 networks, 3 ways to listen, 4 data directories; up to 2 changes, 2 starts, 1 crash | 393,481 | `RulesAccounted`, `CardsAnswer`, `SheetFits`, `UninstallIsExact` |
| `Conversions` | every combination of the options of a link, an entry and an outbound, 12 ids and passwords with 2 servers (below), documents and served lists of up to 3 items | 283,927 | `ReadingsAgree`, `FeedKeepsServer`, `NothingLost`, `ExportListsServed` |

One run is violated: `SavedAsShown` (section 6).

`TypeOK` (`TimersTyped`) is a theorem for `CycleScheduler`, `CycleTimers`, `SubscriptionFetch`,
`ProbeEngine`, `ProxySupervisor`, `Preferences` and `Terminal`; no run lists it. It
says more than types where the code counts: the batch size stays between its floor
and its cap, the failure count saturates, no source is requested more often and no
more bridges are tried than the limits say, no request and no terminal outlives the
program, and the wizard's view, input line and draft come and go together.

What the properties say, and why they could fail:

Cycles

- `CyclesInTurn`: a loop is between its first read and its last write of the list
  exactly while it holds the mutex; a set cancel flag has a refresh behind it that
  has not taken over yet; `refreshing`, which refuses manual triggers, has a
  refresh behind it. The ping decides with a `try_lock`, the refresh queues, both
  look at flags outside the mutex, and every error path has to clear them.
- `NeverProbedTwice`: five sources of candidates (fetch, bridge, database,
  backfill, carry) are kept apart by exclusion sets that are maintained by hand.
- `PublishedIsVerified`: what a finished cycle publishes as working was found
  working by the last probe of it, or was carried, or is the previous list kept
  on purpose.
- `WorkingSetSurvives`: with stability on and early publication off no step
  replaces a list with working configs by one without, with one exception that
  the formula names (see 6).
- `CyclesEnd`: a begun cycle ends (a refresh that is queued is not starved by pings
  that try again and again; the backfill runs out) and a cancel request is
  consumed. It rests on the fairness of the mutex: a ping's `try_lock` fails while
  a refresh is queued (`LockAvailable`).
- `CountdownsAgree`: a refresh writes a clone of the whole state back, with the
  ping's countdown as it was when the clone was made. Only the restart the
  refresh sends afterwards puts the display right.
- `FeedEditsFetched`: an edit is compared with a fingerprint that is renewed at
  several places; renewed at a wrong one, an edit made during a refresh is
  never fetched.
- `ConfigSettles`: both loops and both editors write the shown configuration from
  copies taken earlier; with the automatic refresh on, the last word is the live
  configuration. With it off it is not: a ping then is the only one to repair it,
  and the formula leaves that out.
- `TimersFire`: a timer that is on fires or is switched off, whatever edits,
  triggers and restarts re-arm it.

Loading and probing

- `PoolIsExact`: the candidates are what was delivered, each key once, without what
  the preempted ping tested, credited to the first source in the configured order;
  the order of answers, retries and bridges leaves no trace.
- `SourcesAccounted`: the errors of two passes are merged by source; a recovered one
  shows none, the others exactly one.
- `LoadingEnds`: attempts and bridges run out.
- `Accounted`: as long as nothing stopped the call every candidate without a
  verdict is in exactly one place, however batches split and are retried.
- `QuitsAfterStop`: after a stop no wave and no batch begins to probe.
- `KeepsPromise`: the call ends only when everything is tested, when the caller
  preempted it, or when the target is really met, stability quorum included, and
  it never touches the caller's flag. `Returns`: it ends.

Proxy

- `RunningHasProcess`: whichever of four tasks finds a process dead takes the
  flag with it.
- `AutoSkipsFailed`, `KeepsServed`, `PinHonoured`, `HealthyUndisturbed`: blacklist,
  kept config, pin and dwell window each win where the code's comments say so,
  in every history of failovers, clears and edits.
- `Recovers`: an exhausted failover stops the proxy, and the loops skip a stopped
  proxy; only the revival makes it come back without a cycle. And each loop gets
  out of its failover, candidate after candidate.

Preferences and terminal

- `MigrationSafe`, `BootKeepsSettings`, `BootKeepsRows`: wherever a start breaks off,
  the next one neither loses nor overrides a choice, and a deleted subscription
  does not return. The snapshot of the defaults is stored before the merged
  settings, so a crash between the two is the interesting case; it loses new
  defaults (see 6) and no choice. A deleted subscription stays away for as long as
  every release since has shipped it: the snapshot is all the program remembers
  of a deletion, so a release that drops it and a later one that ships it again
  bring it back (`Dropped`).
- `UrlsUnique`: a duplicate is checked on the one copy an edit works on, and the
  copies replace each other in any order.
- `LoneEditSyncs`: an edit that nobody disturbs leaves store, dashboard and loops
  equal, whatever disagreement earlier crashes, failed saves and interleaved
  edits left.
- `CleanMeansSaved`: every handler, in every view and mode, marks what it changed or
  stores it: a copy that is not marked can be left without a word. Two exceptions
  are in the formula: a setting that is back at its value of the start
  (`SavedAsShown`), and what a failed reset leaves (`broken`).
- `LoopsSeeEdits`: what the terminal shows is what the loops run on.
- `RowsInOrder`: the list is in the order of its ranks, no URL twice, whatever
  number is typed and whichever row is clicked while it is typed.
- `ProtectedHasToken`: protection and token are edited, reset and merged apart. What
  the terminal shows and what the loops run on never has one without the other. A
  store that has is healed by each load with another token, made at random and
  kept in memory, than the one that was shown and handed out when it was saved
  (`config.rs` 392–394); a save stores it only where the start had a token and no
  protection, and then the token shown is that token or none. Section 6 has the two
  ways this happens.

Sharing and uninstalling

- `RulesAccounted`: no rule of the user's is ever removed, and between the calls
  all rules the program made are on its record. `upset` and a ufw that is switched
  off are the exceptions; section 6 says what they stand for.
- `CardsAnswer`: a link or card that was handed out finds the machine, an open port, a
  listener and the right token, until something changes. Exceptions: the main
  listener is bound once (`Anchored`), a tunnel's or a virtual interface's address is
  handed out (`Virtual`), one of an interface that was there five seconds ago
  (`fresh`), a record without a rule (`Backed`), a token with characters a query
  does not keep (`Received`). Without any one of them TLC refutes it.
- `SheetFits`: one integer division fixes the size of all codes; no code or caption
  leaves its card.
- `UninstallIsExact`: beside foreign files, after a crash or when a rule cannot be
  removed, no more and no less than what is the program's; the files it leaves on
  purpose or by oversight are listed in the formula.

Formats

- `ReadingsAgree`: the probe, the export and the duplicate key understand a link
  alike. `FeedKeepsServer`: what a Clash entry or an Xray outbound says reaches
  sing-box through the link it is kept as, the id or the password with it. Each has a
  list of exceptions by input and field (`ExportGaps`, `KeyGap`, `EntryGaps`,
  `XrayGaps`), by the characters of the account (`AccountExportGap`, `AccountGap`) and
  by what costs the server (`Refusable`, `Lost`), so that any other disagreement is
  an error. Without any clause of the exceptions for the account TLC refutes them.
- `NothingLost`: a server a stage of the parser can read (`Readable`) is found exactly
  once, whatever the other stages found.
- `ExportListsServed`: every served server that Clash can take, once, in order, under
  a name of its own, and groups that name only what is defined.

### Bounds, and why they are enough

- *Two configs* in the scheduler: the exclusion sets, the carry and the backfill
  relate one config that one source has and another one has not. The proofs lift
  the safety results to any number, and to every `top_n`, option and fault.
- *One config* for the liveness of the cycles: with a second one the fair state
  space is too large. What delays a cycle is the other loop and the faults, all
  of which are there.
- *Two configurations* of the timers: from each interval and feed list to another
  one, and from on to off and back. With two edits one is in flight when the next
  comes; the bound also keeps out an endless row of edits each of which is seen at
  the very moment a deadline passes (see 6). The safety properties are proved for
  any number.
- *Three sources, two at a time*: one waits for a free place, documents overlap
  both ways; two bridges out of three candidates for one; two attempts for the
  three of the code, one that is retried and one that is the last.
- *Six candidates* in the probe call: enough for one alias pair, one candidate
  that has no definition, a wave of two batches with a second wave behind it,
  and a batch that is split twice. The nine calls vary early stop, stability,
  results found before, early publication, scan-all, missing sing-box and TCP
  mode.
- *Two configs, one listener* for the proxy: one to fail and one to move to;
  `MaxFailures` and `MaxFailedKeys` of 2 stand for 3 and 50 of the code and
  make "at the limit" happen. `MaxEdits` bounds the edits of the user. A run with
  both supervisors and both updaters has too many states for TLC; the theorems
  cover it.
- *Two edits and three starts* of the preferences, four events in all: one edit to
  be disturbed and one to disturb it; a start that may break off at any step, one
  that finds what it left, and a third, each of the same release or a newer one.
  The three releases ship a subscription, drop it and ship it again. The values of
  a setting stand for "the default of release 1", "of release 2", "something else".
  All five properties of the run are theorems for any number of starts, edits,
  requests and releases.
- *Two changes* in the terminal: the moves and saves between them are unbounded. One
  change to be saved, forgotten or reset and one to follow it. Where a token is
  stored there are three and no rows: to clear it, to type it again and to switch
  protection on, with a save wherever one fits. The theorems hold for any start and
  without the bounds.
- *Worlds* of `Sharing` (in `MCSharing`): the product of everything is too large, so
  each world varies one thing with the others fixed: two changes or a restart with both
  firewalls, each network with each way to listen, each data directory with both
  firewalls. All four properties are theorems for any
  world. Code sizes: the smallest, the largest that fits, and the first that is
  refused.
- *Options* of `Conversions` (in `MCConversions`): all combinations for Clash entries, Xray
  outbounds and vmess links. Of the other links those that decide the security come
  in every combination with one transport, and the other way round; the code never
  lets one decide the other. Each account meets each type with one set of options: the
  two halves of a form are converted apart. Up to three items in a document or list: one to be
  found, one that another stage finds before it, one that separates them. All four
  properties of the run are theorems for any options and any length.
- `CHECK_DEADLOCK FALSE` where the system really may stop: a load, a conversion and
  the terminal end; the program may be down for good (`Preferences`, `Sharing`); and
  with both timers off and nobody at the keyboard no loop has anything to do
  (`CycleTimers`).

## 4. Fairness

Fairness is assumed of the program's own steps only, never of timers, triggers,
edits, crashes or failures.

- `CycleScheduler`: weak fairness of `RefreshCycle` and of `PingCycle`, which leave
  out the beginning of a cycle. The runtime keeps polling a task whose await is
  ready; every await inside a cycle is a database call, a probe or a download
  with a timeout, or the mutex, whose holder is one of these two cycles.
- `CycleTimers`: weak fairness of `Tick` (time passes), of `TerminalShows` (a handler
  that began goes on) and of both loops, whose cycles end by `CyclesEnd`; strong
  fairness of `RefreshLocks`, because tokio's mutex queues its waiters and the ping
  only tries: `ImplementsFairMutex` is the detailed result.
- `SubscriptionFetch`: weak fairness of `Fetching`. The client has a timeout for each
  request, the backoff is a timer, and sing-box has a start deadline. `DeltaShown` needs
  none: no promise depends on it.
- `ProxySupervisor`: weak fairness of the health loop, of each supervisor's steps
  and of an update that has begun, for the same reason (health checks have a
  timeout), and of `CooldownExpires`, because time passes. The dwell window needs no
  fairness. `Recovers` assumes nothing about new cycles: the loop has to do it.
- `ProbeEngine`: weak fairness of the engine and of each batch. They are futures in
  one `select` loop: sing-box has a start deadline, each probe a timeout.
- `Preferences`, `Terminal`, `Sharing` and `Conversions` have no liveness property: what a
  start, a request or a handler does once it is interrupted is the question there,
  not whether it ends.

## 5. The proofs

The theorems hold for any finite set of configs, candidates, sources or listeners,
any limits, options, intervals, tasks and faults that satisfy the named `ASSUME`s of
the modules. Those only give the constants their types and say that sets are
finite, that definitions partition candidates, that the batch sizes are ordered,
that the sources are numbered and their documents finite, that stored subscriptions
are in order and unique, that the defaults a release ships are valid and name a subscription once, that a
QR code has 21 to 177 modules (what the format allows), that the ports of a
configuration differ and what is protected has a token, that the rows of a start are
in order and unique, that the local
address of a route is one of a listed interface, or a tunnel's, that only a page has
the places of a page, and that a name begins with a text. For the conversions `LowerWords`
says that the words the code compares with are in lower case, and `FormsFit` that an
option which is there has a text and that the TLS switch of a Clash entry is a YAML
truth value; an option that is there and empty is left out of the model. `AccountFits`
says that only tuic has a second secret.

| Module | Theorem | Result |
| --- | --- | --- |
| `CycleSchedulerProofs` | `TypeCorrect` | `[]TypeOK` |
| | `SchedulingCorrect` | `[]CyclesInTurn` |
| | `ProbedOnce` | `[]NeverProbedTwice` |
| | `PublicationVerified` | `PublishedIsVerified` |
| | `WorkingSetKept` | `WorkingSetSurvives` |
| | `MutexImplemented` | the scheduler implements `CycleMutex` without its fairness |
| | `TimersTypeCorrect` | `[]TimersTyped` of `CycleTimers` |
| | `NoFeedEditSwallowed` | `[]FeedEditsFetched` |
| | `CountdownsCorrect` | `[]CountdownsAgree` |
| `SubscriptionFetchProofs` | `AllSourcesAccounted` | `[]SourcesAccounted` |
| | `ThePoolIsExact` | `[]PoolIsExact` |
| | `TypeCorrect` | `[]TypeOK`: no more than `Attempts` requests of a source in a pass, no more than `BridgeLimit` bridges |
| | `NoServerIsLost` | `[]NothingLost` of `Conversions`, for documents of any length |
| | `ExportIsComplete` | `[]ExportListsServed` of `Conversions`, for served lists of any length |
| `ConversionsProofs` | `TheReadingsAgree` | `[]ReadingsAgree`, for any options and any account of a link |
| | `TheFeedKeepsServer` | `[]FeedKeepsServer`, for any options and any account of a Clash entry and an Xray outbound |
| `ProbeEngineProofs` | `TypeCorrect` | `[]TypeOK` |
| | `AllAccounted` | `[]Accounted` |
| | `StopIsQuick`, `TroubleShrinks` | `QuitsAfterStop`; a batch in trouble never grows (`TroubleNeverGrows`) |
| | `PromiseKept` | `KeepsPromise`: the engine implements `ProbeCall` |
| `ProxySupervisorProofs` | `TypeCorrect`, `RunningCorrect` | `[]TypeOK`, `[]RunningHasProcess`, with all four tasks at once |
| | `PinCorrect`, `KeptServed`, `FailedSkipped`, `HealthyKept` | `PinHonoured`, `KeepsServed`, `AutoSkipsFailed`, `HealthyUndisturbed` |
| | `UpdatesAgree` | without supervisors the process serves the active config |
| `PreferencesProofs` | `TypeCorrect` | `[]TypeOK` |
| | `MigrationIsSafe` | `[]MigrationSafe` |
| | `UpgradeKeepsSettings` | `BootKeepsSettings` |
| | `ListsHaveNoTwins` | `[]UrlsUnique` |
| | `StartsKeepRows` | `BootKeepsRows` |
| | `LoneEditsSync` | `LoneEditSyncs` |
| `TerminalProofs` | `LeavingLosesNothing`, `LoopsRunTheShown` | `[]CleanMeansSaved`, `[]LoopsSeeEdits` |
| | `ProtectionHasToken` | `ProtectedHasToken`, for any start |
| | `ListStaysInOrder` | `[]RowsInOrder` |
| | `TypeCorrect` | `[]TypeOK` |
| `SharingProofs` | `RulesAreKnown` | `[]RulesAccounted` |
| | `CardsAreAnswered` | `[]CardsAnswer` |
| | `CodesFitTheSheet` | `[]SheetFits` |
| | `UninstallTakesItsOwn` | `[]UninstallIsExact` |

### The arguments

*CycleScheduler.* The invariant is `TypeOK /\ Scheduling /\ Probing /\ Survival`, each
part inductive given those before it. `Scheduling` is already inductive: whoever
holds the mutex is at an inside place, and only the mutex's steps change either.
`NeverProbedTwice` is not: that the queue of a probe call is disjoint from earlier
results holds because every draw leaves out `excluded`, and `excluded` covers what
was tested and carried. `Probing` says so for the places where a draw may still
come, and also that what was found working is in `lastUp`: no step of the other
loop can take it out, because by `CyclesSerialised` the other loop is not probing.
`PublishedIsVerified` follows for each publishing step. `Survival` adds where a list
with working configs can come from (a half-time snapshot, a merged partial
result, the kept previous list), so that each step which writes `ranked` either
writes something working or replaces nothing working.

*CycleTimers.* `FeedEditsFetched` is not inductive: between a wake-up and the end of
a round the loop does not sleep. `Marked` says what holds everywhere: the last
refresh ran over the feeds of the fingerprint, and the fingerprint is the live
feed list unless there is a broadcast to be seen. For the countdown, `Repaired`: a
restart is on its way, or the countdowns agree, or the loop is about to clear the
one on the screen; a refresh that writes an old copy back sets `restart` in the
same step.

*SubscriptionFetch.* `Arrivals` (in a pass, those on the list of arrivals are those
that answered), `Enrolled` (each source is in the first pass, each blocked one in a
tunnel's, and a blocked one failed) and `Accounting` (from the end of the load on, a
source has delivered and has no error, or has one, and only those without success
are blocked) are inductive together. The merge of the errors at `TunnelDelivers` is
the step where it could go wrong: it needs that whoever is in the tunnel has not
delivered before. `PoolIsExact` rests on what the merge computes: it goes over the
sources in the configured order and keeps what is new, written as a recursive
function of the number of sources gone over. `MergeCredits` says what it has kept after
any number of them (each key once, credited to the first that has it); that it
holds for every number is an induction, which `SetInduction` makes possible without
an operator as a parameter: the numbers at which a claim fails are a set, and a set
of numbers has a least one. `Pooled` carries the result from the end of the first
pass through the second, which may add only keys nobody had. For the limits in
`TypeOK`, `Budget` says that the bridges tried and those left together stay within
the limit, and that a source which waits to be asked again has an attempt left; the
list of bridges is a recursive function as well, which `PushingRuns` and `PushKeeps`
bound.

*Conversions: lengths.* A document and a ranked list take one step, so that `Answer` (the answer
is the function's result for the input) is all the invariant there is: the theorems
are about what the loops of the parser and the export compute, for sequences of any
length. Each loop is a recursive function of the number of elements gone over.
`LoopInSet` and `LoopStays` say, by `SetInduction`, that such a function exists and
never leaves a set its step does not leave; what is proved of a loop is thus the
choice of that set. For a stage of the parser it is `Collected`: the list has the
texts that were seen and are accepted, each once. Then `StagesReach` goes through
the places of a document and finds, for every readable server, the stage whose
texts have it in its own form. For the export it is `Exported`: after *n* items the
endpoints listed are those of the first *n* that Clash takes, they ascend in the
rank of their first occurrence, and every name listed is a known name with a number
no greater than its count, which is why the next number is new (`GivenApart`). What
`UriToClash` makes of a link is left open: the theorem holds whatever it refuses.
The hypotheses `DocumentsFit` and `RankingsFit` are parts of the `ASSUME` that TLC
evaluates for its own inputs.

*Conversions: options.* The invariant is `Carried`: at each stage the link, the outbound
and the entry are what the conversions make of the input, and a server is probed only
if sing-box could be started with it. TLC checked it on the inputs of the run. The rest is
about the conversions, each a join of a dozen partial functions, for options of any
value. `Val(o, k, d)` reads the option `k` of `o` with the default `d`, and a constructor is
known by what every `k` and `d` read of its result: of a join what the first part says
and else the second (`ValJoin`), of a renamed form the first of the alternatives that is
there (`ValRenamed`, `AltTwo`, `AltThree`). With these a conversion is a list of readings
(`TlsConfigReads`, `StandardEntryReads`, `ClashVlessReads`, `XrayTransportReads`). Both sides of
a property become wires whose eight fields are such readings, a difference is the
difference of one field (`ByField`), and each field is equal or its gap is listed. Lemmas
per scheme (`VmessAgrees`, `QuicAgrees`), per Clash type (`ClashVlessKept`) and per Xray
protocol (`XrayTrojanKept`) meet in `LinkAgrees`, `ClashKept` and `XrayKept`. That nothing is
refused without a reason is the other half: `LinkServed`, `ClashTaken`, `XrayTaken`.
The account is a case of its own: `LinkHalves`, `OutboundHalves` and `EntryHalves` take
a form apart, `ClashScheme` and `XrayScheme` say which reader a link gets,
`ClashAccountKept` and `ClashAccountTaken` (and those of Xray) what it finds of the
account, whatever cutting, decoding and trimming make of a text that has the characters
for it; `ClashServerKept` and `ClashServerTaken` put the halves together again.

The attempt corrected the model and its exceptions where no input of the run had gone:
an entry of Shadowsocks without a cipher is no link at all (`convert.rs` 568–600,
`xray.rs` 421–439); a vmess entry with a Reality key, and an Xray outbound whose
security is `reality` and which has no key, reach sing-box with other TLS settings than
they state; and what may be refused depends on the type: a key that does not decode
counts for vless only, a cipher for Shadowsocks only. The inputs of the run now have
these cases.

*ProbeEngine.* The invariant is built in layers. `Shape` says which batches hold
anything at which place. `OnePlace` says that queue, attempts and running attempts
are disjoint and without verdicts, and `NothingLost` that without a stop they cover
every candidate without a verdict. The refinement needs more: `FoldedOK` (an alias
that has no row has a working representative), `Search` (the running count of saved configs
that still wait is exact until the search is declared exhausted, and then all of
them have a verdict) and `Justified` (a set `reached` still has the target met behind it,
which holds because working rows only grow). With them, the end of the call maps to
`End` of `ProbeCall`, every verdict to `Report`, a preemption to `Preempt`, and all
else to a stutter.

*ProxySupervisor.* The invariant is `TypeOK /\ PickChosen /\ RunningHasProcess`.
`PickChosen` (a loop about to start, check, record or mark a config has a real one)
is needed because the pick survives the release of the mutex. The four
properties of updates are then facts about one step in any typed state.

*Preferences.* `MigrationInv` adds to `MigrationSafe` that the file is no legacy file
any more once the start is past the step that neuters it, and that this step finds
the store filled. `UpgradeInv` says that between load and merge the live config is
what is stored, that the snapshot is not newer than the installed release, and that
after the merge each setting that differs from what is stored does so for the
allowed reason; the crash between snapshot and save is a step like any other.
`PrefsInv` is the type invariant with what a request holds at each of its steps.
For `UrlsUnique` that every copy is free of twins is almost inductive (`UniqueInv`
says it of requests at all their steps): the work is in the operations on lists,
each of which keeps a list free of twins provided that the check it went through
was made on this very list, and in the merge of the shipped list, an induction
over its rows. `RowsInv` is what `BootKeepsRows` needs of the states between: each
deletion was made under a release not newer than the snapshot, and a deleted
subscription that is stored, or about to be, has been dropped in between. The proof
failed on the statement without `Dropped`: with a release that drops a
subscription and one that ships it again it is false, and TLC showed the behaviour
once the instance had three releases. `LoneInv` says, step by step, which of
the copies a request that has the program to itself has made equal already.

*Terminal.* `Copies` carries three of the properties: each copy of the preferences
has its parts, each is safe (protection has a token), the loops' copy agrees with
the terminal's, and an unmarked copy is in the store. The store is another matter:
a save takes each setting either from the terminal or from the healed store
(`MergeIsEither`), so protection and token may come from different sides. That is
the only way to a store with protection and no token (`StoredHas`), and it needs a
start with a token and without protection (`Started`): the exception that
`ProtectedHasToken` states. `RowsInOrder` rests on lemmas
about the operations on lists (a row removed, inserted, a list renumbered): moving a
row leaves ranks that ascend because the whole list is renumbered, and deleting
one leaves a subsequence of ascending ranks. `TypeOK` follows from two more
invariants: `Held`, that every copy has complete rows and known pins, and `Placed`,
where the user is. The wizard needs the steps it has been through in the invariant
(what a step has asked for is in the draft in the next one), and the selection after
a move needs that the moved row is still in the list.

*Sharing.* The difficulty of `RulesAccounted` is that rules and record change in
different steps of a call, and that up to three calls run at once. `Account` holds
at all times while nothing happened that `upset` stands for: every rule that is not
the user's has an entry, or a call that is about to write it; no two entries and no
two running calls have one port (`Apart`); on a ufw every entry has its rule, or a
call that has deleted the rule and is about to erase the entry (`Backing`); and what
a call has read is still so at each of its later steps (`Certain`). Each command of a
firewall is one case, with one step per firewall. `DiskInv` says what the uninstaller
has picked and what may stay behind, and needs `Account` for the rules. `SheetInv`
says that what was handed out with a list of interfaces that is still true is what the
plan of now would hand out, so that `CardsAnswer` is a fact about one state: which address is chosen, that the listeners
are on it, and that a port counts as allowed only if it is open. `SheetFits` is
arithmetic: the size of the codes is the least of two divisions, and the product of
the size of a code and its module is bounded through them.

### Only model-checked

- Liveness (`CyclesEnd`, `ConfigSettles`, `TimersFire`, `LoadingEnds`, `Recovers`,
  `Returns`) and the fairness part of `ImplementsFairMutex`: the prover does not reason
  about weak fairness of compound actions.

Every safety property and every action property of a passing run is a theorem.

## 6. Findings and divergences

### Found by a run

| Run | The code | The source says |
| --- | --- | --- |
| `SavedAsShown` | a switch of the terminal's main menu that is turned on and off again is stored as on: `merge_for_save` keeps the stored value of every setting that has its value of the start, and the start's values are never renewed by a save (`tui/util.rs` 26–80). The next start shares again and opens the port. | "dashboard and TUI edits save straight into `data.db`" (`docs/guide.md` 757) |

### Stated in a module, refuted by TLC, checked by no run

Each of these definitions states a sentence of the source. Added to a cfg of the
module's runs, TLC finds a behaviour that breaks it.

| Definition | The code | The source says |
| --- | --- | --- |
| `CarriedIsVerified` (`CycleScheduler`) | a preempted ping that verified less than was served puts the previous list back (`main.rs` 2331); the refresh carries that list and publishes its rows as working without probing them | "The preempted ping verified these seconds ago: keep them" (`main.rs` 1385; also 779) |
| `LiveConfigWins` (`ProxySupervisor`) | the ping loop hands `update()` the config it took before it began (`main.rs` 2730, 2775, 2609), so a ping that outlives an edit undoes it in the proxy (`proxy.rs` 210) | "Takes the current `ProxyConfig` so it reacts to TUI config changes" (`proxy.rs` 193–194) |
| `StoreLoads` (`Preferences`) | `persist_config` saves without `validate_config`; a proxy that is switched on while its port is the bind port is stored, and no load accepts it (`web.rs` 1363, 1988, 2245; `config.rs` 401) | "bricking the app after a restart" and "storing the trap" is what a setting must avoid (`config.rs` 473–476, itself out of date for the token: a load mints one, 392–394); a load is "running the same validation" (`settings.rs` 109–111) |
| `DashboardEditsSurvive` (`Preferences`) | `save_merged` loads and saves under two locks (`tui/util.rs` 15, 19): an edit of the dashboard in between is overwritten | "dashboard mutations made meanwhile are never overwritten" (`tui/util.rs` 12–13) |
| `FetchedIsFinal` (`SubscriptionFetch`) | the counts travel through a queue, and one that is written late overwrites the final number | "the "Fetched" count is final when the probe starts" (`main.rs` 1410–1411) |

### Seen while modelling

The models contain this behaviour unless noted; no property claims the contrary.

Scheduler:

- A refresh looks at `pinging` without the mutex, and only if the state's lock is
  free at that moment (`main.rs` 1174–1175). A ping that has the mutex and has
  not set `pinging` yet is not stopped: the refresh waits for the whole of it
  (against 1171, "stop the ping").
- The error of a failed refresh resets the counters after the mutex is released,
  possibly those of a ping that has begun (`main.rs` 2892–2894, 3234–3236 against
  396, "never interleave").
- `refresh_once` clones the whole runtime state, awaits the database and writes the
  clone back (`main.rs` 1608, 1695, 1774). What the ping loop wrote in between,
  such as the `pinging = false` of 2606, is undone ("`pinging` must never stick", 2602).
- A ping that was skipped because a refresh holds the mutex still feeds the proxy
  the list that refresh is rewriting (`main.rs` 2195, 2609 against 2575–2577).
- The exception in `WorkingSetSurvives`: a ping that started with nothing working
  and is preempted after an early publication puts the empty list back.

Timers:

- An edit that is seen at the very moment a deadline passes re-arms the countdown
  full, because a deadline that has passed counts as "a cycle just ran": that
  cycle is skipped once (`main.rs` 2703–2709, 2998–3003 against "a `changed` wake-up
  keeps the existing deadline").
- `finish_edit` of the terminal broadcasts before it writes the snapshot
  (`tui/input_handlers.rs` 371–372), the dashboard the other way round. With the
  automatic refresh off, a loop that answers the broadcast first is overwritten
  by an older snapshot, for good.
- No trigger finds `refreshing` set at `main.rs` 2930 and 3045: the loop that reads the
  trigger is the one that refreshes.

Fetcher:

- The delays before a retry are 1 s and 2 s (`subscription.rs` 563, `constants.rs` 51);
  the comment says "500ms, then 1s" (562).
- Bytes of an attempt that failed and was retried are not counted.

Proxy (`proxy.rs`):

- A failover records its pick after it has released the mutex (776–782, 790). An
  update in between leaves `active` and the process apart (against 1048–1050).
  Without the supervisors the two agree: theorem `UpdatesAgree`.
- A failover or revival acts on the pin, on `enabled`, on the cooldown and on
  `running` as it read them before an await (686, 718–736, 776, 1074–1087, 1143,
  1344): the proxy may be started after it was disabled (test at 2321), a pinned
  config may be left (1113–1115), two failovers may follow without the cooldown
  between them (727).
- A revival ignores that the whole pool is blacklisted (676): it serves a blacklisted
  config and leaves the blacklist as it is, which "the caller clears" (866–868).
- An update with a new port or a new `discoverable` stores it and restarts the
  process only if something else makes it switch; until then the process listens
  as before (272–305 against 193–194).
- Inside the dwell window an update that would choose another config leaves a dead
  or failing process alone (275–290 against 280–281 and 1017, "restarts and
  failovers bypass").
- A failover blacklists the candidates that failed and not the config it leaves
  (804–810), so an update may go back to that config (against 230–231).
- A start that fails after the config file is written and before the process is
  recorded leaves the file behind (464 against 451–452).
- A revival is not mirrored to the dashboard (1104). The verdict of a transfer check
  that began before a switch is counted on the config switched to (591).

Probe engine (`probe.rs`):

- A probe that finishes after the stop is dropped (1586–1589), against "finished
  work is never lost" (577, 1598).
- Batches that are dropped at a stop leave their temporary config files (728; they
  are removed in `cleanup_sing_box_child` only, 2211).
- The aliases of a working definition get no row (1724–1735), while the count of
  previously working configs counts them (1245–1257).
- The wave loop queues another wave although the target was met by the last
  result of the wave before (738 against 717–719).

Preferences:

- `HttpState::subscriptions` is written by dashboard edits only (`web.rs` 1395):
  after a terminal save a position in the dashboard names another row, the case
  `config.rs` 101–108 wants to exclude.
- Two requests, or a request and a terminal save, load, edit and save the whole
  config (`web.rs` 1332, 1363): the later save undoes the earlier one, and the config
  published last need not be the one saved last.
- Settings, subscription and reset requests rebuild the live config from the
  database and so drop a live pin, which the toggles take care to keep
  (`web.rs` 2242, 2335).
- The terminal pushes its whole copy to the loops. A later proxy or sharing toggle
  of the dashboard, which is based on the live config, stores that copy and so
  reverts settings the dashboard had saved (against `docs/guide.md` 1179). A
  terminal save takes the terminal's subscriptions unconditionally
  (`tui/util.rs` 32).
- A crash between the snapshot of the defaults (`settings.rs` 241) and the save of
  the merge (`main.rs` 227) loses the new defaults for good. No choice is lost:
  `BootKeepsSettings`, `BootKeepsRows`.
- A merge that `validate_config` refuses has already emptied the subscription list
  in memory (`settings.rs` 237); the program goes on with it (`main.rs` 235), and a
  save that is based on the live config stores it. A reset whose result is refused,
  because of a URL scheme the terminal accepts, does the same to the terminal's
  list (`settings.rs` 312–327, `tui/input_handlers.rs` 331).
- The cycles write `runtime_config`, which is displayed, from the config they began
  with (`main.rs` 1242, 2238): `ConfigSettles` says when this is put right.

Terminal:

- A click or the wheel moves the selection while an input line is open, so Enter
  commits the typed value to another row (`Clicks`, `RowMoves`).
- A save may store protection without a token, after a start that had a token T0 and
  no protection: the token is cleared and saved, T0 typed again and protection
  switched on, and saved; or protection is switched on and saved, then switched off,
  the token cleared, and saved. A value that is back at that of the start counts as
  untouched and stays as stored (`tui/util.rs` 36–80), and a save does not heal
  (`settings.rs` 101). Each later load makes another random token in memory only
  (`config.rs` 392–394), so links handed out before a restart stop working: the
  exception in `ProtectedHasToken`.
- Enter pins the selected row of the found panel from every menu, also where it
  would open something.
- `q` asks when something is unsaved; `docs/guide.md` 814 says it quits. Changes of the
  Configurations screen are stored by `s`; `README.md` 174 says "changes save
  immediately".
- Deleting a row leaves a gap in the ranks until the next load
  (`config.rs` 101–108 says every mutation renumbers); any URL scheme is accepted
  (`Unfit`).
- A pin adopted from the dashboard is cleared by Enter although the proxy has not
  confirmed it (`tui/events.rs` 543–549), and two sides that pin at once may each
  adopt the other's (`tui/state.rs` 214–219: "never fight").
- An error while events are read leaves by `?` past `restore_terminal`: the shell is
  left in raw mode (`LoopFails`; `tui.rs` restores it after a panic).

Sharing and firewall. The first five are what `upset` stands for in
`RulesAccounted`:

- The record is read and written without a lock: of two calls at once one entry is
  lost, and of two calls for one port the later reads the earlier's rule as
  the user's.
- A crash, or a record that cannot be written, between the rule and its entry
  leaves a rule nobody owns; a later switch takes it for the user's.
- A port the user opens while a call for it runs is taken for the program's, and
  removed with it.
- On Windows a port that goes from sharing to the proxy, or back, gets no new entry.
- A ufw that is switched off lists no rules: the user's are recorded as the
  program's and deleted later. `ufw limit` is not seen as "allow".
- A change of the port while sharing is on leaves the old port open and recorded
  (against `main.rs` 352–357, "never drift"); the uninstaller removes both.
- On Windows rules are deleted by name, so an entry for the old port stays, and
  `allows_port` trusts it. On Linux without a firewall tool it denies every port
  although nothing blocks. The panel says "allowed TCP" without asking.
- Changing the bind address while the program runs makes cards name an address
  nobody listens on. A tunnel with a private address on the default route is
  handed out, and so is any virtual interface's address on Linux when there is no
  other: `hostname -I` is asked last and not filtered (`network.rs` 388–397). The list
  of interfaces is up to five seconds old (`network.rs` 349–363). A default gateway is only missed when the cached answer is newer
  than the network. Bond and VLAN interfaces count as virtual.
- A link carries the token as it was typed (`model.rs` 209–212), and the server decodes
  the query: a token with `&`, `#`, `+` or `%41` gives links and cards that are answered
  401 (with `&token=` in it, 400).
- The switches of the settings lists (`web.rs` 1967–1995) call no firewall: sharing that
  is switched on there has no open port until the next start (`Edits`).
- The caption of a card is wider than the card for an IPv6 host.

Uninstaller:

- Beside a file it does not know it leaves `data.db-wal`, `data.db-shm`, the country
  database and `QRCodes.jpg`. It does not know `QRCodes.jpg` itself: a sheet that was
  drawn once, and holds the token, makes every directory a mixed one.
- In a mixed directory with a firewall record, removing the last rule deletes the
  record that is already among the targets: it ends with an error, everything else
  removed by then.
- What is in the directory of the country database is removed unseen.

Parsers and converters, as `ExportGaps`, `KeyGap`, `EntryGaps`, `XrayGaps`, `AccountGap`,
`AccountExportGap`, `Lost` and `Readable` list them:

- Probe and export differ on a vmess gRPC service name (kept as `path`), on a vmess
  server name that falls back on `host`, on the transport name `websocket`, on a
  security in capitals, on trojan with `security=none`, on `reality_pbk`, on an unknown
  security, and on aliases and ALPN of hysteria2 and tuic. The duplicate key calls a
  link with `pbk` "reality" whatever its security says.
- A vmess entry loses Reality; a Clash trojan entry loses ALPN, fingerprint and reality; every `ssr` entry is
  dropped, because the link that is made for it is refused; plugin options that are
  a flat string are lost.
- An Xray outbound loses host and path of `httpupgrade`, the transport `h2` of
  trojan, `allowInsecure`, reality of trojan and vmess, and `wsSettings.host`; a vless
  outbound with `reality` and no key is probed without Reality.
- The id of a vless entry and the password of a trojan one are written into the link
  as they are, from Clash (`convert.rs` 502, 564) and from Xray (`parser/xray.rs` 163,
  416), and the probe reads a URL: `/`, `?` or `#` in them lose the server, `:` cuts
  them, `%41` is decoded. Hysteria2 and tuic encode theirs and leave `/` bare
  (`constants.rs` 363–369), so it loses the server too. Blanks at their ends are
  trimmed by the probe (`convert.rs` 50–55), and by the export of vless and trojan
  only.
- An empty password of a Clash hysteria2 entry is accepted (`convert.rs` 1147, 1177)
  and its link refused by the probe (`probe.rs` 2429–2431). A server that is an IPv6
  address without brackets is lost for vless, trojan, hysteria2 and tuic.
- A comma ends a link in running text; links in HTML run on to the next quote; a page
  whose first 2048 bytes do not look like HTML is no HTML; escaped slashes are
  understood in JSON only; in a JSON array only the first element decides whether
  the others are read.
- In the export the names "A", "A" and "A (2)" become two of "A (2)"; the rules name a
  group that a small list does not define; a proxy that is named like a country
  group collides with it.

## 7. Not modelled

| Part | Why |
| --- | --- |
| Probe results in the database, ranking by latency and stability counts | a question of SQL and sorting over many rows; in `CycleScheduler` the order of a list is a free choice and a write may fail |
| Fair order of candidates over sources (`probe.rs`) | the promise of a call does not depend on the order |
| HTTP reads, server-sent events, checking a LAN token | keep no state of their own |
| Drawing, layout, log panels and the set-up screen of the terminal | output |
| GeoIP | only decorates what is displayed |
| One-shot command-line modes, argument parsing, installers, build script | sequential scripts |
| The bits of a QR code, JPEG, base64, YAML and JSON | libraries |
| Percent coding, but for ids and passwords | libraries; both sides apply it to names and parameters. Left out with it: a `+` in a query, which only the exports of hysteria2 and tuic do not take for a blank; line breaks, which a URL parser drops; and a raw password that itself goes on like `@host:port/` |
| Clash controller, light check of an idle proxy, order of eviction from the blacklist | detail of `proxy.rs`; the blacklist is a set that stops growing at its limit |
| Progress, logs, the proxy's mirror in the dashboard | display |
| The front end | runs in the browser; it names rows by position, which `Preferences` has |
| A downgrade of the program | the installed release only grows in `Preferences`; a downgrade followed by an upgrade may bring a deleted subscription back, as a release that drops it does |
| A torn read between `load_settings` and `load_subscriptions` | both are one step here, though two locks in `db.rs` |

Hazards without a property, each an observation of section 6 that the code does not
prevent: the older config handed to the proxy last (`LiveConfigWins`) and the edit
that is stored without the checks of a load (`StoreLoads`). The hazards at `web.rs` 1332
and `tui/util.rs` 15 have properties for what is promised; the lost update is not.

## 8. What is left

Done, in this order: `CycleScheduler` with `CycleMutex`; `ProxySupervisor`; `ProbeEngine`
with `ProbeCall`; `Preferences`; their proofs; `CycleTimers`; `SubscriptionFetch`;
`Terminal`; `Sharing`; `Conversions`; the proofs of `CycleTimers`, `SubscriptionFetch` and
`Terminal`; the remaining safety properties of `Preferences` and `SubscriptionFetch`,
those of `Sharing`, and those of `Conversions`.

Worth doing next:

1. `ProbeResults`: upsert, prune and `stable_top` of `db.rs`, with the ranking and
   the stability counts of `main.rs` 1835–1890 and 2385–2508: what is pruned is
   never served, a saved config keeps its seat while it verifies.
2. `source_fair_candidates` (`probe.rs` 988–1097) against a reference definition.
3. The proxy's mirror in the dashboard state, and with it what a revival or a
   failover shows.
