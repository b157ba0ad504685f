---- MODULE Preferences ----
(***************************************************************************)
(* The user's preferences: the settings and the subscription list, from     *)
(* the start of the program (src/settings.rs) through the edits of the      *)
(* dashboard (src/web.rs) and of the terminal interface (src/tui) to a      *)
(* crash at any point and the start of a newer release.                     *)
(*                                                                         *)
(* There are five copies of them: `store` in data.db, `live` in the watch   *)
(* channel the loops run on, `shown` (the list the dashboard serves and     *)
(* whose rows it addresses by position), the copy the terminal interface    *)
(* edits, and the one each dashboard request works on.  Every action is a   *)
(* stretch between two awaits or two uses of the database's lock.           *)
(*                                                                         *)
(* A subscription is its URL and its switch; the priority of a row is its   *)
(* position, which is what canonicalize_subscriptions makes of it on every  *)
(* load.                                                                   *)
(***************************************************************************)
EXTENDS Integers, Sequences, SequencesExt

CONSTANTS
    Fields,      \* the settings
    Switches,    \* of them, those that are flipped and saved at once
    Optional,    \* of them, those the defaults leave empty
    Values,      \* what each setting may hold
    Conflicts,   \* the settings validate_config refuses
    Urls,        \* of subscriptions
    Uris, NoUri, \* configs the proxy can be pinned to, and no pin
    Releases,    \* the defaults each release ships, oldest first
    Legacy,      \* what the legacy config file holds
    Slots,       \* dashboard requests served at one time
    MaxEdits,    \* bound: edits of the user
    MaxStarts,   \* bound: starts of the program
    MaxEvents    \* bound: both together

Settings == {s \in [Fields -> UNION Range(Values)] : \A f \in Fields : s[f] \in Values[f]}
Rows == [url : Urls, enabled : BOOLEAN]
UrlsOf(list) == {list[i].url : i \in DOMAIN list}
\* dedupe_subscription_urls: a list names a URL once.
Unique(list) == \A i, j \in DOMAIN list : list[i].url = list[j].url => i = j
Preferred == [fields : Settings, subs : Seq(Rows)]
Configs == [fields : Settings, subs : Seq(Rows), pin : Uris \cup {NoUri}]
Valid(fields) == fields \notin Conflicts

ASSUME FieldsKnown ==
    Switches \subseteq Fields /\ Optional \subseteq Fields /\ DOMAIN Values = Fields
ASSUME PinKnown == NoUri \notin Uris
ASSUME ReleasesShip == Releases \in Seq(Preferred) /\ Releases # <<>>
ASSUME LegacyLoads == Legacy \in Preferred
ASSUME InputsValid ==
    \A shipped \in {Legacy} \cup {Releases[v] : v \in DOMAIN Releases} :
        Valid(shipped.fields) /\ Unique(shipped.subs)
\* validate_config relates no setting the defaults leave empty to another one:
\* a reset is always accepted.
ASSUME ResetsValid ==
    \A fields \in Settings, v \in DOMAIN Releases :
        Valid([f \in Fields |-> IF f \in Optional THEN fields[f] ELSE Releases[v].fields[f]])
ASSUME BoundsNatural == {MaxEdits, MaxStarts, MaxEvents} \subseteq Nat

VARIABLES
    file,      \* the legacy config file: "legacy", "note" or "absent"
    store,     \* the settings and subscriptions tables
    baseline,  \* the release whose defaults the snapshot holds, 0 for none
    release,   \* the release the user has installed
    phase,     \* what the program does
    live,      \* the config in the watch channel
    shown,     \* HttpState::subscriptions
    tui,       \* the terminal interface
    requests,  \* what the dashboard's requests in flight are at
    edits, starts,
    deleted,   \* history: shipped URLs an edit removed, and whose snapshot had them
    alone      \* history: the request that nobody has acted beside, if any

saved == <<file, store, baseline>>
running == <<live, shown, tui, requests>>
history == <<deleted, alone>>
vars == <<file, store, baseline, release, phase, live, shown, tui, requests, edits, starts,
          deleted, alone>>

NoPrefs == [subs |-> <<>>]
NoConfig == [subs |-> <<>>, pin |-> NoUri]
Phases == {"down", "load", "neuter", "reconcile", "save", "serve", "up"}
BootPhases == Phases \ {"down", "up"}
Shipped == Releases[release]
\* What is stored of a config.
Base(config) == [fields |-> config.fields, subs |-> config.subs]
\* A load knows no pin: manual_proxy_uri is never stored.
Unpinned(prefs) == [fields |-> prefs.fields, subs |-> prefs.subs, pin |-> NoUri]

(* What the user may ask for.                                                *)
SettingEdits == UNION {[kind : {"set"}, field : {f}, value : Values[f]] : f \in Fields}
SwitchEdits == UNION {[kind : {"switch"}, field : {f}, value : Values[f]] : f \in Switches}
PinEdits == [kind : {"pin"}, uri : Uris \cup {NoUri}]
ResetEdits == [kind : {"reset"}]
\* `meant` is the URL of the row the user points at in the list on screen.
RowEdits(list) ==
    UNION {[kind : {"delete", "toggle"}, index : {i}, meant : {list[i].url}]
           \cup [kind : {"move"}, index : {i}, meant : {list[i].url}, rank : DOMAIN list]
           \cup [kind : {"url"}, index : {i}, meant : {list[i].url}, url : Urls] : i \in DOMAIN list}
AddEdits(list) == [kind : {"add"}, url : Urls, rank : 1..Len(list) + 1]
ReorderEdits(list) == [kind : {"reorder"}, order : SetToSeqs(DOMAIN list)]
ListEdits(list) == RowEdits(list) \cup AddEdits(list)
Edits == SettingEdits \cup SwitchEdits \cup PinEdits \cup ResetEdits
         \cup [kind : {"delete", "toggle"}, index : Nat, meant : Urls]
         \cup [kind : {"move"}, index : Nat, meant : Urls, rank : Nat]
         \cup [kind : {"url"}, index : Nat, meant : Urls, url : Urls]
         \cup [kind : {"add"}, url : Urls, rank : Nat]
         \cup [kind : {"reorder"}, order : Seq(Nat)]
Addressed == {"delete", "toggle", "move", "url"}
FromLive == {"switch", "pin"}

(* What an edit does to a config.                                            *)
\* find_duplicate_subscription_url
Duplicate(list, url, except) == \E i \in DOMAIN list \ {except} : list[i].url = url
\* Mutant: The duplicate check only where a subscription is added.
RefusedTwinAdded(e, list) ==
    \/ e.kind \in Addressed /\ e.index \notin DOMAIN list
    \/ e.kind = "add" /\ Duplicate(list, e.url, 0)
    \/ e.kind = "reorder" /\ Len(e.order) # Len(list)

Refused(e, list) ==
    \/ e.kind \in Addressed /\ e.index \notin DOMAIN list
    \/ e.kind = "url" /\ Duplicate(list, e.url, e.index)
    \/ e.kind = "add" /\ Duplicate(list, e.url, 0)
    \/ e.kind = "reorder" /\ Len(e.order) # Len(list)

\* move_subscription_to_rank
MoveToRank(list, index, rank) ==
    LET rest == RemoveAt(list, index)
        slot == IF rank > Len(rest) + 1 THEN Len(rest) + 1 ELSE rank
    IN InsertAt(rest, slot, list[index])

EditedList(e, list) ==
    CASE e.kind = "add" ->
             MoveToRank(Append(list, [url |-> e.url, enabled |-> TRUE]), Len(list) + 1, e.rank)
      [] e.kind = "delete" -> RemoveAt(list, e.index)
      [] e.kind = "toggle" -> [list EXCEPT ![e.index].enabled = ~@]
      [] e.kind = "url" -> [list EXCEPT ![e.index].url = e.url]
      [] e.kind = "move" -> MoveToRank(list, e.index, e.rank)
      [] e.kind = "reorder" -> [i \in DOMAIN list |-> list[e.order[i]]]
      [] OTHER -> list

\* reset_to_embedded_defaults: a setting the defaults leave empty stays as it is.
ResetFields(fields) ==
    [f \in Fields |-> IF f \in Optional THEN fields[f] ELSE Shipped.fields[f]]

EditedFields(e, fields) ==
    CASE e.kind \in {"set", "switch"} -> [fields EXCEPT ![e.field] = e.value]
      [] e.kind = "reset" -> ResetFields(fields)
      [] OTHER -> fields

Edited(e, config) ==
    [fields |-> EditedFields(e, config.fields),
     subs |-> EditedList(e, config.subs),
     pin |-> IF e.kind = "pin" THEN e.uri ELSE IF e.kind = "reset" THEN NoUri ELSE config.pin]

(* The program's state and what it is made of.                               *)
Terminals == [startup : Settings, edit : Configs, step : {"idle", "saving"}, merged : Settings]
NoTerminal == [step |-> "off"]
Requests == [step : {"fields", "list", "save", "show", "live"}, edit : Edits, config : Configs]
NoRequest == [step |-> "idle"]
Deletions == [url : Urls, at : DOMAIN Releases]

TypeOK ==
    /\ file \in {"legacy", "note", "absent"}
    /\ store \in Preferred \cup {NoPrefs}
    /\ baseline \in 0..Len(Releases) /\ release \in DOMAIN Releases
    /\ phase \in Phases
    /\ live \in Configs \cup {NoConfig} /\ (phase \in {"down", "load"} <=> live = NoConfig)
    /\ shown \in Seq(Rows)
    /\ tui \in Terminals \cup {NoTerminal} /\ (phase = "up" <=> tui # NoTerminal)
    /\ \A r \in Slots :
           requests[r] = NoRequest \/ (phase = "up" /\ requests[r] \in Requests)
    /\ edits \in 0..MaxEdits /\ starts \in 0..MaxStarts
    /\ deleted \subseteq Deletions /\ alone \subseteq Slots

Init ==
    /\ file \in {"legacy", "absent"}
    /\ store = NoPrefs /\ baseline = 0 /\ release = 1
    /\ phase = "down" /\ live = NoConfig /\ shown = <<>> /\ tui = NoTerminal
    /\ requests = [r \in Slots |-> NoRequest]
    /\ edits = 0 /\ starts = 0 /\ deleted = {} /\ alone = {}

----------------------------------------------------------------------------
(* The start: load_or_migrate, reconcile_with_defaults and main().           *)
\* The user starts the program, having installed a newer release or not.
ProgramStarts ==
    /\ phase = "down" /\ starts < MaxStarts /\ starts + edits < MaxEvents
    /\ phase' = "load" /\ starts' = starts + 1
    /\ release' \in release..Len(Releases)
    /\ UNCHANGED <<saved, running, edits, history>>

Boots(from, to) == phase = from /\ phase' = to /\ UNCHANGED <<release, edits, starts, history>>

\* A quit, a crash, an error that ends the program.
ProgramStops ==
    /\ phase # "down" /\ phase' = "down"
    /\ live' = NoConfig /\ shown' = <<>> /\ tui' = NoTerminal
    /\ requests' = [r \in Slots |-> NoRequest] /\ alone' = {}
    /\ UNCHANGED <<saved, release, edits, starts, deleted>>

Seeds(prefs) == store' = prefs /\ live' = Unpinned(prefs)
\* Mutant: The file is neutered before its content is stored.
BootMigratesLate ==
    /\ Boots("load", "reconcile") /\ file = "legacy"
    /\ file' = "note" /\ live' = Unpinned(Legacy)
    /\ UNCHANGED <<store, baseline, shown, tui, requests>>

BootMigrates ==
    /\ Boots("load", "neuter") /\ file = "legacy"
    /\ Seeds(Legacy)
    /\ UNCHANGED <<file, baseline, shown, tui, requests>>
BootNeuters ==
    /\ Boots("neuter", "reconcile")
    /\ file' = "note"
    /\ UNCHANGED <<store, baseline, running>>
BootSeeds ==
    /\ Boots("load", "reconcile") /\ file # "legacy" /\ store = NoPrefs
    /\ Seeds(Shipped)
    /\ UNCHANGED <<file, baseline, shown, tui, requests>>
\* load_app_config validates what it loads; a refusal ends the program.
BootLoads ==
    /\ Boots("load", "reconcile") /\ file # "legacy" /\ store # NoPrefs /\ Valid(store.fields)
    /\ live' = Unpinned(store)
    /\ UNCHANGED <<saved, shown, tui, requests>>

\* Mutant: Every setting follows a default that moved.
MergedAllFields(own, old, new) ==
    [f \in Fields |-> IF new[f] # old[f] THEN new[f] ELSE own[f]]

\* merge_default_values: a setting that still has the old default follows it.
MergedFields(own, old, new) == [f \in Fields |-> IF own[f] = old[f] THEN new[f] ELSE own[f]]

\* Mutant: What the user deleted is missing, too.
AppendedAll(own, new, old) == own \o SelectSeq(new, LAMBDA row : row.url \notin UrlsOf(own))

\* append_missing_subscriptions: shipped URLs the user does not have and the
\* snapshot did not have either, at the end, one row after the other.
Joined(list, row, old) ==
    IF row.url \in UrlsOf(list) \cup UrlsOf(old) THEN list ELSE Append(list, row)
Appended(own, new, old) ==
    LET list[i \in 0..Len(new)] == IF i = 0 THEN own ELSE Joined(list[i - 1], new[i], old)
    IN list[Len(new)]

\* reconcile_with_defaults; without a snapshot (legacy_reconcile) only the
\* subscriptions are looked at.
Reconciled ==
    IF baseline = 0
      THEN [live EXCEPT !.subs = Appended(@, Shipped.subs, <<>>)]
      ELSE LET old == Releases[baseline]
           IN [live EXCEPT !.fields = MergedFields(@, old.fields, Shipped.fields),
                           !.subs = Appended(@, Shipped.subs, old.subs)]

\* The snapshot is stored here, the merged config in the step after.
BootReconciles ==
    /\ Boots("reconcile", IF Reconciled = live THEN "serve" ELSE "save")
    /\ Valid(Reconciled.fields)
    /\ live' = Reconciled /\ baseline' = release
    /\ UNCHANGED <<file, store, shown, tui, requests>>
\* validate_config refuses the merge: the list had been moved out of the
\* config, and the program goes on without it.
BootReconcileFails ==
    /\ Boots("reconcile", "serve")
    /\ ~Valid(Reconciled.fields)
    /\ live' = [live EXCEPT !.subs = <<>>]
    /\ UNCHANGED <<saved, shown, tui, requests>>
BootSaves ==
    /\ Boots("save", "serve")
    /\ store' = Base(live)
    /\ UNCHANGED <<file, baseline, running>>
BootServes ==
    /\ Boots("serve", "up")
    /\ shown' = live.subs
    /\ tui' = [startup |-> live.fields, edit |-> live, step |-> "idle", merged |-> live.fields]
    /\ UNCHANGED <<saved, live, requests>>
Boot ==
    \/ BootMigrates \/ BootNeuters \/ BootSeeds \/ BootLoads
    \/ BootReconciles \/ BootReconcileFails \/ BootSaves \/ BootServes

----------------------------------------------------------------------------
(* A dashboard request: load_db_config, the edit, persist_config - or, from  *)
(* the live config, a pin (push_live_config), a proxy mode or sharing.       *)
Idle(r) == requests[r].step = "idle"
MayEdit == edits < MaxEdits /\ starts + edits < MaxEvents
\* A write of the store while the program runs.
Writes(prefs) ==
    LET lost == (UrlsOf(store.subs) \ UrlsOf(prefs.subs)) \cap UrlsOf(Releases[baseline].subs)
    IN /\ store' = prefs
       /\ deleted' = {d \in deleted : d.url \notin lost \cup UrlsOf(prefs.subs)}
                     \cup [url : lost, at : {baseline}]
Serves(r) == phase = "up" /\ UNCHANGED <<file, release, phase, tui, starts>>
Moves(r, step, config) ==
    requests' = [requests EXCEPT ![r].step = step, ![r].config = config]
Ends(r) == requests' = [requests EXCEPT ![r] = NoRequest]

FirstStep(e) ==
    CASE e.kind = "pin" -> "live" [] e.kind = "switch" -> "save" [] OTHER -> "fields"
RequestArrives(r) ==
    /\ Serves(r) /\ Idle(r) /\ MayEdit
    /\ \E e \in SettingEdits \cup SwitchEdits \cup PinEdits \cup ResetEdits
                \cup ListEdits(shown) \cup ReorderEdits(shown) :
           requests' = [requests EXCEPT ![r] =
                            [step |-> FirstStep(e), edit |-> e,
                             config |-> IF e.kind \in FromLive THEN Edited(e, live) ELSE live]]
    /\ edits' = edits + 1
    /\ alone' = IF (\A q \in Slots : Idle(q)) /\ tui.step = "idle" THEN {r} ELSE {}
    /\ UNCHANGED <<store, baseline, live, shown, deleted>>

\* load_settings and load_subscriptions each take the database's lock.
RequestLoads(r) ==
    /\ Serves(r) /\ requests[r].step = "fields"
    /\ Moves(r, "list", Unpinned(store))
    /\ UNCHANGED <<store, baseline, live, shown, edits, history>>
RequestApplies(r) ==
    LET e == requests[r].edit
        loaded == [requests[r].config EXCEPT !.subs = store.subs]
        accepted == Valid(loaded.fields) /\ ~Refused(e, loaded.subs)
    IN /\ Serves(r) /\ requests[r].step = "list"
       /\ \/ accepted /\ Moves(r, "save", Edited(e, loaded))
             /\ baseline' = (IF e.kind = "reset" THEN release ELSE baseline)
          \/ ~accepted /\ Ends(r) /\ UNCHANGED baseline
       /\ UNCHANGED <<store, live, shown, edits, history>>
RequestSaves(r) ==
    /\ Serves(r) /\ requests[r].step = "save"
    /\ Writes(Base(requests[r].config))
    /\ Moves(r, "show", requests[r].config)
    /\ UNCHANGED <<baseline, live, shown, edits, alone>>
RequestSaveFails(r) ==
    /\ Serves(r) /\ requests[r].step = "save" /\ Ends(r)
    /\ UNCHANGED <<store, baseline, live, shown, edits, history>>
\* Mutant: Only the watch channel learns of a reset.
RequestShowsEdits(r) ==
    /\ Serves(r) /\ requests[r].step = "show"
    /\ shown' = (IF requests[r].edit.kind = "reset" THEN shown ELSE requests[r].config.subs)
    /\ Moves(r, "live", requests[r].config)
    /\ UNCHANGED <<store, baseline, live, edits, history>>

RequestShows(r) ==
    /\ Serves(r) /\ requests[r].step = "show"
    /\ shown' = requests[r].config.subs
    /\ Moves(r, "live", requests[r].config)
    /\ UNCHANGED <<store, baseline, live, edits, history>>
RequestPublishes(r) ==
    /\ Serves(r) /\ requests[r].step = "live"
    /\ live' = requests[r].config /\ Ends(r)
    /\ UNCHANGED <<store, baseline, shown, edits, history>>
Request(r) ==
    \/ RequestArrives(r) \/ RequestLoads(r) \/ RequestApplies(r) \/ RequestSaves(r)
    \/ RequestSaveFails(r) \/ RequestShows(r) \/ RequestPublishes(r)

----------------------------------------------------------------------------
(* The terminal interface: one thread, which edits its own copy and pushes   *)
(* that copy whole.                                                          *)
TuiReady == phase = "up" /\ tui.step = "idle"
Types == TuiReady /\ MayEdit /\ edits' = edits + 1 /\ alone' = {}
         /\ UNCHANGED <<file, release, phase, shown, requests, starts>>
\* merge_for_save: a setting that differs from the one at the start wins.  An
\* unreadable store is replaced.
Picked(own, stored) ==
    IF Valid(stored)
      THEN [f \in Fields |-> IF own[f] # tui.startup[f] THEN own[f] ELSE stored[f]]
      ELSE own

TuiEdits ==
    /\ Types
    /\ \E e \in SettingEdits \cup ListEdits(tui.edit.subs) :
           /\ ~Refused(e, tui.edit.subs)
           /\ tui' = [tui EXCEPT !.edit = Edited(e, @)]
    /\ live' = tui'.edit
    /\ UNCHANGED <<store, baseline, deleted>>
TuiPins ==
    /\ Types
    /\ \E e \in PinEdits : tui' = [tui EXCEPT !.edit = Edited(e, @)]
    /\ live' = tui'.edit
    /\ UNCHANGED <<store, baseline, deleted>>
\* save_merged reads the store here and writes it in the step after: for the
\* save key, and at once for proxy mode and sharing.
TuiReads(edit) ==
    tui' = [tui EXCEPT !.edit = edit, !.step = "saving",
                       !.merged = Picked(edit.fields, store.fields)]
TuiSwitches ==
    /\ Types
    /\ \E e \in SwitchEdits : TuiReads(Edited(e, tui.edit))
    /\ UNCHANGED <<store, baseline, live, deleted>>
TuiSaveBegins ==
    /\ TuiReady /\ TuiReads(tui.edit) /\ alone' = {}
    /\ UNCHANGED <<saved, release, phase, live, shown, requests, edits, starts, deleted>>
TuiSaves ==
    /\ phase = "up" /\ tui.step = "saving"
    /\ Writes([fields |-> tui.merged, subs |-> tui.edit.subs])
    /\ tui' = [tui EXCEPT !.step = "idle"]
    /\ live' = tui.edit
    /\ UNCHANGED <<file, baseline, release, phase, shown, requests, edits, starts, alone>>
\* A reset is written straight through, after the snapshot it re-anchors
\* (which only a start reads).  When it cannot be written it is announced as
\* failed and stays in the terminal's copy.
TuiResets ==
    /\ Types /\ baseline' = release
    /\ \E e \in ResetEdits :
           LET edit == Edited(e, tui.edit)
           IN /\ tui' = [tui EXCEPT !.edit = edit]
              /\ \/ Writes(Base(edit)) /\ live' = edit
                 \/ UNCHANGED <<store, live, deleted>>
\* sync_external_proxy_pin: a pin set in the dashboard.
TuiSyncsPin ==
    /\ TuiReady /\ tui.edit.pin # live.pin
    /\ tui' = [tui EXCEPT !.edit.pin = live.pin]
    /\ UNCHANGED <<saved, release, phase, live, shown, requests, edits, starts, history>>
Tui ==
    \/ TuiEdits \/ TuiPins \/ TuiSwitches \/ TuiSaveBegins \/ TuiSaves
    \/ TuiResets \/ TuiSyncsPin

Next == ProgramStarts \/ ProgramStops \/ Boot \/ (\E r \in Slots : Request(r)) \/ Tui
Spec == Init /\ [][Next]_vars

----------------------------------------------------------------------------
(* Properties.                                                               *)
\* No copy of the subscription list names a URL twice, although the duplicate
\* check of an edit (find_duplicate_subscription_url) looks at the one copy it
\* works on and the copies replace each other in any order; a twin would be
\* fetched and probed twice and split its results.
UrlsUnique ==
    /\ Unique(store.subs) /\ Unique(live.subs) /\ Unique(shown)
    /\ phase = "up" => Unique(tui.edit.subs)
    /\ \A r \in Slots :
           requests[r].step \in {"save", "show", "live"} => Unique(requests[r].config.subs)

\* The legacy file is given up only after its content is stored, and no edit
\* is made while it could still be migrated over it (load_or_migrate: the
\* commit is the point of no return).
MigrationSafe == (file = "note" => store # NoPrefs) /\ (edits > 0 => file # "legacy")

\* Seen at the write that ends a start: a setting changes only if the user
\* never touched it - it still had a default of an older release - and then
\* to the installed release's default (reconcile_with_defaults).
BootKeepsSettings ==
    [][phase = "save" /\ phase' = "serve" =>
         \A f \in Fields :
            store'.fields[f] # store.fields[f] =>
                /\ store'.fields[f] = Shipped.fields[f]
                /\ \E v \in 1..release - 1 : store.fields[f] = Releases[v].fields[f]]_vars

\* No step of a start loses a subscription, moves one or switches one: what
\* was stored stays in front of what the release adds.  The migration, which
\* repeats itself after a crash, is the exception.  And a shipped subscription
\* the user deleted does not return with a start, of this release or of a
\* newer one, wherever earlier starts broke off - unless a release before the
\* installed one had dropped it: the snapshot of that release forgets it.
Dropped(d) == \E v \in d.at..release - 1 : d.url \notin UrlsOf(Releases[v].subs)
BootKeepsRows ==
    /\ [][(phase \in BootPhases /\ phase' # "neuter") => IsPrefix(store.subs, store'.subs)]_vars
    /\ [](phase \in {"save", "serve"} =>
            \A d \in deleted : d.url \in UrlsOf(live.subs) => Dropped(d))

\* When one request has the program to itself and its edit is saved, the
\* store, the list in the dashboard and the config the loops run on agree at
\* the end of it, whatever earlier requests, failed saves and terminal edits
\* left them at.
LoneEditSyncs ==
    [][\A r \in alone :
         requests[r].step = "live" /\ requests'[r] = NoRequest /\ phase' = "up"
         /\ requests[r].edit.kind # "pin"
            => Base(live') = store' /\ shown' = store'.subs]_vars

-----------------------------------------------------------------------------
(* What comments of the code say and the code does not keep: TLC refutes both *)
(* (README, Divergences), no run checks them.                                *)

\* "running the same validation the file loader ran" (src/src/settings.rs):
\* what is stored is what the next start accepts.
StoreLoads == store # NoPrefs => Valid(store.fields)

\* "dashboard mutations made meanwhile are never overwritten" (src/tui/util.rs):
\* a save of the terminal interface leaves what is stored of a setting that
\* was not touched there.
DashboardEditsSurvive ==
    [][phase = "up" /\ tui.step = "saving" /\ store' # store /\ requests' = requests =>
         \A f \in Fields :
            tui.edit.fields[f] = tui.startup[f] => store'.fields[f] = store.fields[f]]_vars
====
