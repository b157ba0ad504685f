------------------------------ MODULE Terminal ------------------------------
(***************************************************************************)
(* The terminal interface of V2RayDAR (src/tui.rs, src/tui/): one loop that *)
(* draws a frame of the shared state, then reads keys and mouse events.     *)
(*                                                                         *)
(* It edits a copy of its own of the preferences, which reaches the loops   *)
(* with every committed edit and the store only when it is saved.  One       *)
(* action is one event handler, or one frame.  What is typed into the input *)
(* line is chosen when Enter commits it, the selection within the fixed     *)
(* menus and in the found panel with Enter, the panel the arrow keys move in *)
(* with the key.  The store's own content is in Preferences,                 *)
(* the cycles that Ctrl+R and Ctrl+P start in CycleTimers, the firewall      *)
(* rules of sharing and proxy in Sharing.                                    *)
(***************************************************************************)
EXTENDS Naturals, Sequences, SequencesExt

CONSTANTS
    Urls,      \* of subscriptions, the empty line apart
    Unfit,     \* of them, those with a scheme validate_config refuses
    Names,     \* of subscriptions
    Numbers,   \* what may be typed as a priority
    Tokens,    \* of sharing, "no token" among them
    NoToken,
    Minted,    \* tokens made at random (generate_token)
    Others,    \* the values of the remaining settings
    Shipped,   \* their default
    Uris,      \* configs the proxy can be pinned to
    NoUri,     \* no pin
    Starts     \* what the store has at the start, and bounds: [rows, set, most: subscriptions,
               \* edits: changes of the terminal's copy and of the dashboard's pin]

Rows == [url : Urls, name : Names, on : BOOLEAN, rank : Nat]
Settings == [sharing : BOOLEAN, proxy : BOOLEAN, lan : BOOLEAN, protect : BOOLEAN,
             token : Tokens, other : Others]
Pins == Uris \cup {NoUri}
Preferences == [rows : Seq(Rows), set : Settings, pin : Pins]
Defaults == [sharing |-> FALSE, proxy |-> FALSE, lan |-> FALSE, protect |-> FALSE,
             token |-> NoToken, other |-> Shipped]

\* canonicalize_subscriptions and dedupe_subscription_urls, as every load
\* leaves the list.
Ordered(rows) == \A i, j \in DOMAIN rows : i < j => rows[i].rank < rows[j].rank
Unique(rows) == \A i, j \in DOMAIN rows : rows[i].url = rows[j].url => i = j

ASSUME DefaultShipped == Shipped \in Others
ASSUME NoUriIsNone == NoUri \notin Uris
ASSUME TokensKnown == NoToken \in Tokens /\ Minted \subseteq Tokens \ {NoToken}
\* The settings may have protection without a token (ProtectedHasToken).
ASSUME StartsLoaded ==
    \A s \in Starts : /\ s.rows \in Seq(Rows) /\ Ordered(s.rows) /\ Unique(s.rows)
                      /\ s.set \in Settings /\ {s.most, s.edits} \subseteq Nat
ASSUME NumbersNatural == Numbers \subseteq Nat

VARIABLES
    phase,    \* "up"; how it ended: "quit", "killed" (Ctrl+C), "failed"
    raw,      \* the terminal is in raw mode and captures the mouse
    view,     \* TuiState::view
    mode,     \* input_mode
    draft,    \* new_subscription
    row,      \* selected_subscription: 0 is the "add" row
    found,    \* a row of the found panel is selected (selected_found)
    drawn,    \* rows of the subscription panel in the last frame's hits, 0 for none
    startup,  \* startup_editable
    most,     \* bound of this start
    edit,     \* editable
    dirty,    \* dirty
    pending,  \* proxy_pending_uri
    saved,    \* what the store has of it
    live,     \* the config in the watch channel
    shownPin, \* RuntimeConfig::proxy_manual_uri
    active,   \* RuntimeState::proxy_active_uri
    edits,    \* changes that may still come
    broken    \* history: a reset failed and left its traces in `edit`

screen == <<view, mode, draft, row, found, drawn>>
origin == <<startup, most>>
copies == <<edit, dirty, pending, saved, live, shownPin, broken>>
vars == <<phase, raw, screen, origin, copies, active, edits>>

Views == {"main", "subscriptions", "new", "actions", "settings", "logs"}
Steps == {"newUrl", "newName", "newRank", "newOn"}
Modes == {"none", "command", "name", "url", "rank", "set", "reset", "clean", "quit"} \cup Steps
NoDraft == [on |-> FALSE]
Drafts == [url : Urls \cup {"?"}, name : Names \cup {"?"}, rank : Nat, on : BOOLEAN]

Base(prefs) == [rows |-> prefs.rows, set |-> prefs.set]
\* ensure_sharing_token, by every load and by the edits of the two settings.
Protected(set) ==
    IF set.protect /\ set.token = NoToken THEN {[set EXCEPT !.token = t] : t \in Minted} ELSE {set}
Selected == row \in DOMAIN edit.rows

Init ==
    /\ phase = "up" /\ raw = TRUE
    /\ view = "main" /\ mode = "none" /\ draft = NoDraft
    /\ row = 0 /\ found = FALSE /\ drawn = 0
    /\ \E s \in Starts :
          /\ saved = [rows |-> s.rows, set |-> s.set] /\ most = s.most /\ edits = s.edits
          /\ \E set \in Protected(s.set) : startup = [rows |-> s.rows, set |-> set]
    /\ edit = [rows |-> startup.rows, set |-> startup.set, pin |-> NoUri]
    /\ live = edit
    /\ dirty = FALSE /\ pending = NoUri
    /\ shownPin = NoUri /\ active = NoUri /\ broken = FALSE
-----------------------------------------------------------------------------
(* Pieces of the handlers.                                                   *)

\* An event of the input line or of a menu, while the program is up.
InMode(ms) == phase = "up" /\ mode \in ms
InView(v) == InMode({"none"}) /\ view = v
Stays == UNCHANGED <<phase, raw, origin>>
Counts == edits > 0 /\ edits' = edits - 1

\* The loop ends and its state goes; the terminal's copy is kept here for the
\* properties.
Ends(how) ==
    /\ phase' = how
    /\ view' = "main" /\ mode' = "none" /\ draft' = NoDraft
    /\ row' = 0 /\ found' = FALSE /\ drawn' = 0
    /\ UNCHANGED origin
Quit(how) == Ends(how) /\ raw' = FALSE /\ UNCHANGED <<copies, active, edits>>

\* push_editable, update_live_runtime_config: try_write misses the snapshot
\* while somebody reads it.
Broadcast ==
    /\ live' = edit'
    /\ shownPin' \in {edit'.pin, shownPin}

\* Mutant: a committed change the loops hear of with the next save.
CommittedHere(prefs) ==
    /\ edit' = prefs
    /\ dirty' = TRUE
    /\ broken' = FALSE
    /\ UNCHANGED <<pending, saved, live, shownPin>>

\* A committed change of the terminal's copy.
Committed(prefs) ==
    /\ edit' = prefs
    /\ dirty' = TRUE
    /\ Broadcast
    /\ broken' = FALSE
    /\ UNCHANGED <<pending, saved>>
\* Mutant: the rows of the store win, too, where the terminal has its first ones.
MergedRows(base) ==
    {[rows |-> IF base.rows = startup.rows THEN saved.rows ELSE base.rows,
      set |-> [f \in DOMAIN base.set |-> IF base.set[f] # startup.set[f] THEN base.set[f] ELSE stored[f]]] :
       stored \in Protected(saved.set)}

\* merge_for_save: a setting that is what it was at the start is left to the
\* store as it loads, whatever came between; the rows are the terminal's.
Merged(base) ==
    {[base EXCEPT !.set = [f \in DOMAIN @ |-> IF @[f] # startup.set[f] THEN @[f] ELSE stored[f]]] :
       stored \in Protected(saved.set)}

\* Written, unmerged if the store cannot be read; or the error ends the loop.
Saved(base) == saved' = base /\ dirty' = FALSE /\ broken' = FALSE /\ Stays
SaveWorks == \E base \in Merged(Base(edit')) \cup {Base(edit')} : Saved(base)
SaveFails(marked) ==
    /\ Ends("failed") /\ raw' = TRUE
    /\ dirty' = marked
    /\ UNCHANGED <<saved, live, shownPin, broken>>

Duplicate(rows, url, except) == \E i \in DOMAIN rows \ {except} : rows[i].url = url

Renumbered(rows) == [i \in DOMAIN rows |-> [rows[i] EXCEPT !.rank = i]]
\* Mutant: the row is moved, the others keep their numbers.
MovedAlone(rows, index, rank) ==
    LET rest == RemoveAt(rows, index)
        slot == IF rank = 0 THEN 1 ELSE IF rank > Len(rows) THEN Len(rows) ELSE rank
    IN InsertAt(rest, slot, [rows[index] EXCEPT !.rank = rank])

\* move_subscription_to_rank
MovedTo(rows, index, rank) ==
    LET rest == RemoveAt(rows, index)
        slot == IF rank = 0 THEN 1 ELSE IF rank > Len(rows) THEN Len(rows) ELSE rank
    IN Renumbered(InsertAt(rest, slot, rows[index]))
RowOf(rows, url) == CHOOSE i \in DOMAIN rows : rows[i].url = url
Highest(rows) == IF rows = <<>> THEN 0 ELSE CHOOSE r \in {rows[i].rank : i \in DOMAIN rows} :
                                               \A i \in DOMAIN rows : rows[i].rank <= r
-----------------------------------------------------------------------------
(* Moving through the menus.                                                 *)

\* go_back leaves the input line open, except in the wizard.
GoBack ==
    /\ found' = FALSE
    /\ view' = IF view \in {"new", "actions"} THEN "subscriptions" ELSE "main"
    /\ IF view = "new" THEN mode' = "none" /\ draft' = NoDraft ELSE UNCHANGED <<mode, draft>>
    /\ Stays /\ UNCHANGED <<row, drawn, copies, active, edits>>

\* Ctrl+H, Ctrl+Backspace and Ctrl+Delete in every mode, Esc in a menu.
Back == phase = "up" /\ GoBack

\* Esc at the input line (handle_input_key, cancel_command, Esc of the
\* confirmations): the wizard is left with it.
Escape ==
    /\ phase = "up" /\ mode # "none"
    /\ mode' = "none"
    /\ IF view = "new" THEN view' = "subscriptions" /\ draft' = NoDraft ELSE UNCHANGED <<view, draft>>
    /\ Stays /\ UNCHANGED <<row, found, drawn, copies, active, edits>>

\* Arrow keys in a menu, and the wheel over the rows of the last frame in
\* whatever mode.
RowMoves ==
    /\ view = "subscriptions"
    /\ InMode({"none"}) \/ (phase = "up" /\ drawn > 0)
    /\ row' \in {IF row = 0 THEN 0 ELSE row - 1, IF row < Len(edit.rows) THEN row + 1 ELSE Len(edit.rows)}
    /\ Stays /\ UNCHANGED <<view, mode, draft, found, drawn, copies, active, edits>>

\* Arrow keys and clicks in the found panel; clicks beside every row.
FoundMoves ==
    /\ phase = "up" /\ found' \in BOOLEAN
    /\ Stays /\ UNCHANGED <<view, mode, draft, row, drawn, copies, active, edits>>

\* A click on a row of the last frame, in whatever mode: the subscription a
\* value is being typed for may change under the input line.
Clicks ==
    /\ phase = "up"
    /\ \E i \in 1 .. drawn : row' = i - 1
    /\ found' = FALSE
    /\ Stays /\ UNCHANGED <<view, mode, draft, drawn, copies, active, edits>>

\* Enter in a menu that opens another one or the input line, and `e`.
Opens ==
    /\ InMode({"none"})
    /\ \/ /\ view = "main" /\ ~found
          /\ \/ view' \in {"subscriptions", "settings", "logs"} /\ UNCHANGED mode
             \/ mode' = "clean" /\ UNCHANGED view
       \/ view = "settings" /\ ~found /\ mode' \in {"set", "reset"} /\ UNCHANGED view
       \/ view = "actions" /\ ~found /\ view' = "subscriptions" /\ UNCHANGED mode
       \/ view = "subscriptions" /\ row # 0 /\ view' = "actions" /\ UNCHANGED mode
       \/ mode' = "command" /\ UNCHANGED view
    /\ Stays /\ UNCHANGED <<row, found, draft, drawn, copies, active, edits>>

\* DELETE typed at the clean-cache line, an empty or unknown command.
Dismisses ==
    /\ InMode({"clean", "command"}) /\ mode' = "none"
    /\ Stays /\ UNCHANGED <<view, row, found, draft, drawn, copies, active, edits>>
-----------------------------------------------------------------------------
(* Orders: keys, commands and rows of the actions menu (run_action).         *)

ByMenu(v) == InView(v) /\ ~found
Commanded == InMode({"command"})

StartsInput ==
    /\ Commanded \/ ByMenu("actions")
    /\ mode' \in {"name", "url", "rank"}
    /\ Stays /\ UNCHANGED <<view, row, found, draft, drawn, copies, active, edits>>

StartsWizard ==
    /\ Commanded \/ (ByMenu("subscriptions") /\ row = 0)
    /\ Len(edit.rows) < most
    /\ view' = "new" /\ mode' = "newUrl"
    /\ draft' = [url |-> "?", name |-> "?", rank |-> Highest(edit.rows) + 1, on |-> TRUE]
    /\ Stays /\ UNCHANGED <<row, found, drawn, copies, active, edits>>

\* Space anywhere, Enter on a row.
Toggles ==
    /\ InMode({"none", "command"}) /\ mode' = "none"
    /\ IF Selected
       THEN Counts /\ Committed([edit EXCEPT !.rows[row].on = ~@])
       ELSE UNCHANGED <<edit, dirty, pending, saved, broken, edits>> /\ Broadcast
    /\ Stays /\ UNCHANGED <<view, draft, row, found, drawn, active>>

\* The rows that stay keep their numbers; clamp_selection.
Deletes ==
    /\ Commanded \/ ByMenu("actions")
    /\ mode' = "none"
    /\ view' = IF mode = "none" THEN "subscriptions" ELSE view
    /\ IF Selected
       THEN /\ Counts /\ Committed([edit EXCEPT !.rows = RemoveAt(@, row)])
            /\ row' = IF row < Len(edit.rows) THEN row ELSE Len(edit.rows) - 1
       ELSE UNCHANGED <<row, edit, dirty, pending, saved, broken, edits>> /\ Broadcast
    /\ Stays /\ UNCHANGED <<draft, found, drawn, active>>

\* `s`, :save
Saves ==
    /\ InMode({"none", "command"})
    /\ UNCHANGED edit
    /\ \/ SaveWorks /\ Broadcast /\ mode' = "none" /\ UNCHANGED <<view, draft, row, found, drawn>>
       \/ SaveFails(dirty)
    /\ UNCHANGED <<pending, active, edits>>
-----------------------------------------------------------------------------
(* Enter at the input line (commit_input).                                   *)

Commits(m) == InMode({m}) /\ Counts /\ mode' = "none" /\ Stays /\ UNCHANGED <<found, drawn, active>>

CommitsName ==
    /\ Commits("name") /\ Selected
    /\ \E name \in Names : Committed([edit EXCEPT !.rows[row].name = name])
    /\ UNCHANGED <<view, draft, row>>

\* A URL another row has is refused; its scheme is not looked at.
CommitsUrl ==
    /\ Commits("url") /\ Selected
    /\ \E url \in Urls :
          /\ ~Duplicate(edit.rows, url, row)
          /\ Committed([edit EXCEPT !.rows[row].url = url])
    /\ UNCHANGED <<view, draft, row>>

CommitsRank ==
    /\ Commits("rank") /\ Selected
    /\ \E rank \in Numbers :
          LET rows == MovedTo(edit.rows, row, rank)
          IN /\ Committed([edit EXCEPT !.rows = rows])
             /\ row' = RowOf(rows, edit.rows[row].url)
    /\ UNCHANGED <<view, draft>>

\* The first three steps of the wizard.
WizardGoesOn ==
    /\ phase = "up"
    /\ \/ /\ mode = "newUrl" /\ mode' = "newName"
          /\ \E url \in Urls : ~Duplicate(edit.rows, url, 0) /\ draft' = [draft EXCEPT !.url = url]
       \/ /\ mode = "newName" /\ mode' = "newRank"
          /\ \E name \in Names : draft' = [draft EXCEPT !.name = name]
       \/ /\ mode = "newRank" /\ mode' = "newOn"
          /\ \E rank \in Numbers : draft' = [draft EXCEPT !.rank = rank]
    /\ Stays /\ UNCHANGED <<view, row, found, drawn, copies, active, edits>>

\* The last one.  The duplicate check is repeated there, but no event changes
\* the list while the wizard is open.
WizardAdds ==
    /\ Commits("newOn") /\ ~Duplicate(edit.rows, draft.url, 0)
    /\ \E on \in BOOLEAN :
          LET rows == MovedTo(Append(edit.rows, [draft EXCEPT !.on = on]), Len(edit.rows) + 1, draft.rank)
          IN /\ Committed([edit EXCEPT !.rows = rows])
             /\ row' = RowOf(rows, draft.url)
    /\ view' = "subscriptions" /\ draft' = NoDraft

Plain(set) ==
    {[set EXCEPT !.proxy = b] : b \in BOOLEAN} \cup {[set EXCEPT !.lan = b] : b \in BOOLEAN}
    \cup {[set EXCEPT !.other = o] : o \in Others}
Secrets(set) == {[set EXCEPT !.protect = b] : b \in BOOLEAN} \cup {[set EXCEPT !.token = t] : t \in Tokens}

\* Mutant: clearing the token forgets that it is required.
AppliedBare(set) ==
    Plain(set) \cup UNION {Protected([set EXCEPT !.protect = b]) : b \in BOOLEAN}
    \cup {[set EXCEPT !.token = t] : t \in Tokens}

\* config_editor::apply: the new value of one setting.
Applied(set) == Plain(set) \cup UNION {Protected(new) : new \in Secrets(set)}
CommitsSetting ==
    /\ Commits("set")
    /\ \E set \in Applied(edit.set) : Committed([edit EXCEPT !.set = set])
    /\ UNCHANGED <<view, draft, row>>

\* reset_to_embedded_defaults: a token the user has is kept, a pin is not
\* stored and lost.  The result is stored as it is, unmerged.
AsShipped(prefs) ==
    [rows |-> Renumbered(prefs.rows), set |-> [Defaults EXCEPT !.token = prefs.set.token], pin |-> NoUri]
Refused(prefs) == \E i \in DOMAIN prefs.rows : prefs.rows[i].url \in Unfit

ResetWorks ==
    /\ Commits("reset") /\ ~Refused(edit)
    /\ edit' = AsShipped(edit)
    /\ Saved(Base(edit')) /\ Broadcast
    /\ UNCHANGED <<view, draft, row, pending>>

\* The list is taken out of the copy before the validation that refuses it;
\* when the snapshot or the save fails, the copy has the defaults already.
\* The input line stays open.
ResetFails ==
    /\ InMode({"reset"}) /\ Counts
    /\ edit' = IF Refused(edit) THEN [edit EXCEPT !.rows = <<>>] ELSE AsShipped(edit)
    /\ broken' = TRUE
    /\ Stays /\ UNCHANGED <<screen, dirty, pending, saved, live, shownPin, active>>
-----------------------------------------------------------------------------
(* Sharing and proxy mode are switched, saved and announced at once           *)
(* (activate_main).                                                          *)

Switched(set) ==
    {[set EXCEPT !.sharing = ~@],
     [set EXCEPT !.proxy = ~(@ /\ set.lan), !.lan = set.proxy /\ ~set.lan]}

Switches ==
    /\ InView("main") /\ ~found /\ Counts
    /\ \E set \in Switched(edit.set) : edit' = [edit EXCEPT !.set = set]
    /\ (SaveWorks /\ Broadcast /\ UNCHANGED screen) \/ SaveFails(TRUE)
    /\ UNCHANGED <<pending, active>>

\* set_found_as_proxy: Enter on a row of the found panel, from any menu.  The
\* row has the config the last frame put there, or none any more.
Toggled(uri) == IF edit.pin = uri /\ pending # uri THEN NoUri ELSE uri

PinsFound ==
    /\ InMode({"none"}) /\ found /\ found' = FALSE
    /\ \/ \E uri \in Uris :
             /\ Counts
             /\ edit' = [edit EXCEPT !.pin = Toggled(uri)] /\ pending' = Toggled(uri)
             /\ Broadcast
       \/ UNCHANGED <<edit, pending, live, shownPin, edits>>
    /\ Stays /\ UNCHANGED <<view, mode, draft, row, drawn, dirty, saved, broken, active>>
-----------------------------------------------------------------------------
(* Leaving.                                                                  *)

\* request_quit: by `q` or :q.
RequestsQuit ==
    /\ InMode({"none", "command"})
    /\ \/ ~dirty /\ Quit("quit")
       \/ /\ dirty /\ mode' = "quit"
          /\ Stays /\ UNCHANGED <<view, draft, row, found, drawn, copies, active, edits>>

ConfirmsQuit == InMode({"quit"}) /\ Quit("quit")

\* Ctrl+C, in every mode.
Killed == phase = "up" /\ Quit("killed")

\* A frame that cannot be drawn ends the loop in order, an event that cannot
\* be read ends it past restore_terminal.
LoopFails ==
    /\ phase = "up" /\ Ends("failed") /\ raw' \in BOOLEAN
    /\ UNCHANGED <<copies, active, edits>>
-----------------------------------------------------------------------------
(* The frames, and what goes on beside the terminal.                         *)

\* The pin is confirmed, or one from elsewhere adopted (sync_external_proxy_pin).
Unconfirmed == IF pending = active THEN NoUri ELSE pending
Adopts == edit.pin # shownPin /\ (Unconfirmed = NoUri \/ active = shownPin)

Frame ==
    /\ phase = "up"
    /\ pending' = IF Adopts THEN NoUri ELSE Unconfirmed
    /\ edit' = IF Adopts THEN [edit EXCEPT !.pin = shownPin] ELSE edit
    /\ drawn' = IF view = "subscriptions" THEN Len(edit.rows) + 1 ELSE 0
    /\ Stays /\ UNCHANGED <<view, mode, draft, row, found, dirty, saved, live, shownPin, broken, active, edits>>

\* api_proxy_select works on the config of the channel (push_live_config).
DashboardPins ==
    /\ phase = "up" /\ Counts
    /\ \E pin \in Pins : live' = [live EXCEPT !.pin = pin] /\ shownPin' = pin
    /\ Stays /\ UNCHANGED <<screen, edit, dirty, pending, saved, broken, active>>

\* The proxy starts another config, or none (ProxySupervisor).
ProxySwitches ==
    /\ phase = "up" /\ active' \in Pins
    /\ Stays /\ UNCHANGED <<screen, copies, edits>>
-----------------------------------------------------------------------------
Moves == Back \/ Escape \/ RowMoves \/ FoundMoves \/ Clicks \/ Opens \/ Dismisses
Orders == StartsInput \/ StartsWizard \/ Toggles \/ Deletes \/ Saves \/ Switches \/ PinsFound
Inputs == CommitsName \/ CommitsUrl \/ CommitsRank \/ WizardGoesOn \/ WizardAdds
          \/ CommitsSetting \/ ResetWorks \/ ResetFails
Leaves == RequestsQuit \/ ConfirmsQuit \/ Killed \/ LoopFails

Next == Moves \/ Orders \/ Inputs \/ Leaves \/ Frame \/ DashboardPins \/ ProxySwitches
Spec == Init /\ [][Next]_vars
-----------------------------------------------------------------------------
(* Properties.                                                               *)

\* The variables stay in their types, and the wizard is all there or not at
\* all: its view, its input line and its draft come and go together.
TypeOK ==
    /\ phase \in {"up", "quit", "killed", "failed"} /\ {raw, found, dirty, broken} \subseteq BOOLEAN
    /\ view \in Views /\ mode \in Modes
    /\ view = "new" <=> mode \in Steps
    /\ IF view = "new" THEN draft \in Drafts ELSE draft = NoDraft
    /\ {row, drawn, most, edits} \subseteq Nat
    /\ edit \in Preferences /\ live \in Preferences
    /\ {startup, saved} \subseteq [rows : Seq(Rows), set : Settings]
    /\ {pending, shownPin, active} \subseteq Pins

\* Nothing is lost by leaving unasked: whatever was edited, saved, switched
\* or reset, in whatever order and view, a copy that is not marked as changed
\* is in the store ("a subscription edit that was never saved used to vanish
\* on quit without a word", request_quit).  The exceptions: a setting with its
\* value of the start, see SavedAsShown, and a failed reset, whose traces stay
\* unmarked in the copy.
CleanMeansSaved ==
    ~dirty /\ ~broken =>
        /\ edit.rows = saved.rows
        /\ \A f \in DOMAIN edit.set : edit.set[f] # startup.set[f] => saved.set[f] = edit.set[f]

\* A committed edit lands everywhere at once: what the terminal shows as the
\* preferences is what the loops run on, until an error ends the terminal
\* (finish_edit, push_editable).
LoopsSeeEdits == phase = "up" /\ ~broken => Base(live) = Base(edit)

\* The order of the list is the order of the priorities and no URL is in it
\* twice, so that what is stored comes back in the order it was shown in
\* (config.rs:101-108): deleting, moving and adding in any order, on a row
\* selected before or while a value is typed.
RowsInOrder == Ordered(edit.rows) /\ Unique(edit.rows)

\* Protection is never on without a token, in the terminal and in the loops,
\* whichever of the two was edited last and whatever a reset restored
\* (ensure_sharing_token).  Nor is it ever stored so, whatever the merge takes
\* from the store and what from the terminal, field by field, but for a start
\* without protection and with a token: there a save may take one half for
\* untouched and leave it to the store (the token that was cleared, saved and
\* typed again, or the protection that was switched on, saved and off again),
\* unless the token is another one.  The next load makes a token at random.
HasToken(set) == set.protect => set.token # NoToken
ProtectedHasToken ==
    /\ [](HasToken(edit.set) /\ HasToken(live.set))
    /\ [][saved'.set # saved.set /\ ~HasToken(saved'.set) =>
             /\ ~startup.set.protect /\ startup.set.token # NoToken
             /\ edit'.set.token \in {startup.set.token, NoToken}]_vars

\* "Dashboard and TUI edits save straight into `data.db`"
\* (src/docs/guide.md:757): what was saved, or switched and thereby saved, is
\* what the next start finds.
SavedAsShown == ~dirty /\ ~broken => saved = Base(edit)
=============================================================================
