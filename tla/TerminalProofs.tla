--------------------------- MODULE TerminalProofs ---------------------------
(* What leaving, the loops and the store get of the terminal's copy, proved   *)
(* for any subscriptions, settings, pins and bounds.  One invariant on the    *)
(* three copies carries the three properties: none is inductive alone,        *)
(* because a save merges the store into itself and a broadcast copies the     *)
(* terminal's preferences.                                                    *)
EXTENDS Terminal, SequenceTheorems, TLAPS

\* A copy of the preferences has its three parts, whatever its rows and pin.
IsCopy(prefs) ==
    /\ prefs = [rows |-> prefs.rows, set |-> prefs.set, pin |-> prefs.pin]
    /\ prefs.set \in Settings

CopiesTyped ==
    /\ IsCopy(edit) /\ IsCopy(live)
    /\ saved = [rows |-> saved.rows, set |-> saved.set] /\ saved.set \in Settings
    /\ dirty \in BOOLEAN /\ broken \in BOOLEAN
Copies ==
    /\ CopiesTyped
    /\ HasToken(edit.set) /\ HasToken(live.set)
    /\ LoopsSeeEdits /\ CleanMeansSaved
-----------------------------------------------------------------------------
(* The operators the handlers are built from.                                 *)

LEMMA FieldsOfSettings ==
    /\ \A set \in Settings : DOMAIN set = {"sharing", "proxy", "lan", "protect", "token", "other"}
    /\ Defaults \in Settings
  BY DefaultShipped, TokensKnown DEF Defaults, Settings

\* A load, and an edit of protection or token, leave a token to protect with.
LEMMA ProtectedHas ==
    ASSUME NEW set \in Settings, NEW new \in Protected(set)
    PROVE  new \in Settings /\ HasToken(new)
<1>1. CASE set.protect /\ set.token = NoToken
  <2>1. PICK t \in Minted : new = [set EXCEPT !.token = t]
    BY <1>1 DEF Protected
  <2>2. t \in Tokens /\ t # NoToken
    BY TokensKnown
  <2> QED
    BY <2>1, <2>2 DEF Settings, HasToken
<1>2. CASE ~(set.protect /\ set.token = NoToken)
  BY <1>2 DEF Protected, HasToken
<1> QED
  BY <1>1, <1>2

\* Each setting of a merge is the terminal's, unless that is the first one, or
\* the one the store loads with.
LEMMA MergeIsEither ==
    ASSUME NEW base, base = [rows |-> base.rows, set |-> base.set], base.set \in Settings,
           saved.set \in Settings, NEW merged \in Merged(base)
    PROVE  /\ merged = [rows |-> base.rows, set |-> merged.set]
           /\ merged.set \in Settings
           /\ \E stored \in Protected(saved.set) : \A f \in DOMAIN base.set :
                 merged.set[f] = IF base.set[f] # startup.set[f] THEN base.set[f] ELSE stored[f]
<1>1. PICK stored \in Protected(saved.set) :
         merged = [base EXCEPT !.set = [f \in DOMAIN @ |-> IF @[f] # startup.set[f] THEN @[f] ELSE stored[f]]]
  BY DEF Merged
<1> DEFINE set == [f \in DOMAIN base.set |-> IF base.set[f] # startup.set[f] THEN base.set[f] ELSE stored[f]]
<1>2. merged = [rows |-> base.rows, set |-> set]
  BY <1>1
<1>3. stored \in Settings
  BY ProtectedHas
<1>4. DOMAIN base.set = DOMAIN stored
  BY <1>3, FieldsOfSettings
<1>5. set \in Settings
  BY <1>3, <1>4, FieldsOfSettings DEF Settings
<1> QED
  BY <1>2, <1>5

LEMMA SettingsOfHandlers ==
    ASSUME NEW set \in Settings, HasToken(set)
    PROVE  /\ \A s \in Applied(set) \cup Switched(set) : s \in Settings /\ HasToken(s)
           /\ [Defaults EXCEPT !.token = set.token] \in Settings
           /\ HasToken([Defaults EXCEPT !.token = set.token])
<1>1. \A s \in Plain(set) \cup Switched(set) : s \in Settings /\ HasToken(s)
  BY DEF Plain, Switched, Settings, HasToken
<1>2. \A s \in Secrets(set) : s \in Settings
  BY DEF Secrets, Settings
<1>3. ASSUME NEW s \in Secrets(set), NEW new \in Protected(s) PROVE new \in Settings /\ HasToken(new)
  BY <1>2, ProtectedHas
<1> QED
  BY <1>1, <1>3, FieldsOfSettings DEF Applied, Defaults, Settings, HasToken
-----------------------------------------------------------------------------
(* What the handlers have in common.                                          *)

LEMMA CopiesInit == Init => Copies
<1> SUFFICES ASSUME Init PROVE Copies
  OBVIOUS
<1>1. PICK s \in Starts : saved = [rows |-> s.rows, set |-> s.set]
                          /\ \E set \in Protected(s.set) : startup = [rows |-> s.rows, set |-> set]
  BY DEF Init
<1>2. PICK set \in Protected(s.set) : startup = [rows |-> s.rows, set |-> set]
  BY <1>1
<1>3. s.set \in Settings /\ set \in Settings /\ HasToken(set)
  BY ProtectedHas, StartsLoaded
<1>4. edit = [rows |-> s.rows, set |-> set, pin |-> NoUri] /\ live = edit /\ dirty = FALSE /\ broken = FALSE
  BY <1>2 DEF Init
<1>5. CopiesTyped
  BY <1>1, <1>3, <1>4 DEF CopiesTyped, IsCopy
<1>6. edit.set = set /\ startup.set = set /\ edit.rows = saved.rows
  BY <1>1, <1>2, <1>4
<1> QED
  BY <1>3, <1>4, <1>5, <1>6 DEF Copies, LoopsSeeEdits, CleanMeansSaved

LEMMA Untouched ==
    ASSUME Copies, UNCHANGED <<startup, copies>>, phase' = "up" => phase = "up"
    PROVE  Copies'
  BY DEF Copies, CopiesTyped, IsCopy, HasToken, LoopsSeeEdits, CleanMeansSaved, Base, copies

LEMMA CommittedKeeps ==
    ASSUME Copies, NEW prefs, IsCopy(prefs), HasToken(prefs.set), Committed(prefs), UNCHANGED startup
    PROVE  Copies'
  BY DEF Copies, CopiesTyped, IsCopy, HasToken, LoopsSeeEdits, CleanMeansSaved, Base, Committed, Broadcast

\* Broadcast without a change of the copy.
LEMMA BroadcastKeeps ==
    ASSUME Copies, Broadcast, UNCHANGED <<edit, dirty, saved, broken, startup>>
    PROVE  Copies'
  BY DEF Copies, CopiesTyped, IsCopy, HasToken, LoopsSeeEdits, CleanMeansSaved, Base, Broadcast

LEMMA SavedKeeps ==
    ASSUME Copies, IsCopy(edit'), HasToken(edit'.set), Broadcast, SaveWorks \/ Saved(Base(edit')),
           UNCHANGED startup
    PROVE  Copies'
<1> DEFINE base == Base(edit')
<1>1. base = [rows |-> base.rows, set |-> base.set] /\ base.set = edit'.set /\ base.rows = edit'.rows
  BY DEF Base
<1>2. PICK stored \in Merged(base) \cup {base} : Saved(stored)
  BY DEF SaveWorks
<1>3. /\ stored = [rows |-> base.rows, set |-> stored.set] /\ stored.set \in Settings
      /\ \A f \in DOMAIN edit'.set : edit'.set[f] # startup.set[f] => stored.set[f] = edit'.set[f]
  <2>1. CASE stored = base
    BY <2>1, <1>1 DEF IsCopy
  <2>2. CASE stored \in Merged(base)
    BY <2>2, <1>1, MergeIsEither DEF IsCopy, Copies, CopiesTyped
  <2> QED
    BY <2>1, <2>2, <1>2
<1>4. saved' = stored /\ dirty' = FALSE /\ broken' = FALSE /\ live' = edit'
  BY <1>2 DEF Saved, Broadcast
<1>5. saved'.rows = edit'.rows /\ saved' = [rows |-> saved'.rows, set |-> saved'.set]
  BY <1>1, <1>3, <1>4
<1> QED
  BY <1>3, <1>4, <1>5 DEF Copies, CopiesTyped, IsCopy, HasToken, LoopsSeeEdits, CleanMeansSaved, Base

\* The error of a save ends the loop with the edit marked, or with no edit.
LEMMA FailedSaveKeeps ==
    ASSUME Copies, NEW marked, SaveFails(marked), IsCopy(edit'), HasToken(edit'.set),
           marked = TRUE \/ (marked = dirty /\ UNCHANGED edit)
    PROVE  Copies'
  BY DEF Copies, CopiesTyped, IsCopy, HasToken, LoopsSeeEdits, CleanMeansSaved, SaveFails, Ends, origin

\* What the edit of one part of the copy leaves alone.
LEMMA ChangedCopy ==
    ASSUME NEW prefs, IsCopy(prefs), NEW rows, NEW pin, NEW set \in Settings
    PROVE  /\ IsCopy([prefs EXCEPT !.rows = rows]) /\ [prefs EXCEPT !.rows = rows].set = prefs.set
           /\ IsCopy([prefs EXCEPT !.set = set]) /\ [prefs EXCEPT !.set = set].set = set
           /\ IsCopy([prefs EXCEPT !.pin = pin]) /\ Base([prefs EXCEPT !.pin = pin]) = Base(prefs)
           /\ [prefs EXCEPT !.pin = pin].set = prefs.set /\ [prefs EXCEPT !.pin = pin].rows = prefs.rows
  BY DEF IsCopy, Base

\* A new pin, in the terminal's copy or the loops', is nothing the properties
\* look at.
LEMMA PinKeeps ==
    ASSUME Copies, NEW pin, UNCHANGED <<phase, dirty, saved, broken, startup>>,
           edit' \in {edit, [edit EXCEPT !.pin = pin]},
           live' \in {live, [live EXCEPT !.pin = pin], edit'}
    PROVE  Copies'
<1>1. IsCopy(edit') /\ Base(edit') = Base(edit) /\ edit'.set = edit.set /\ edit'.rows = edit.rows
  BY ChangedCopy, edit.set \in Settings DEF Copies, CopiesTyped, IsCopy
<1>2. IsCopy(live') /\ (Base(live') = Base(live) \/ live' = edit')
  BY <1>1, ChangedCopy, live.set \in Settings DEF Copies, CopiesTyped, IsCopy
<1>3. live'.set \in {live.set, edit.set}
  BY <1>1, <1>2 DEF Base
<1> QED
  BY <1>1, <1>2, <1>3 DEF Copies, CopiesTyped, HasToken, LoopsSeeEdits, CleanMeansSaved

\* Changed rows or settings, committed.
LEMMA RowsKeep ==
    ASSUME Copies, NEW rows, Committed([edit EXCEPT !.rows = rows]), UNCHANGED startup
    PROVE  Copies'
  BY ChangedCopy, CommittedKeeps, edit.set \in Settings DEF Copies, CopiesTyped, IsCopy

LEMMA SettingsKeep ==
    ASSUME Copies, NEW set \in Applied(edit.set), Committed([edit EXCEPT !.set = set]), UNCHANGED startup
    PROVE  Copies'
<1>1. set \in Settings /\ HasToken(set)
  BY SettingsOfHandlers DEF Copies, CopiesTyped, IsCopy
<1> QED
  BY <1>1, ChangedCopy, CommittedKeeps DEF Copies, CopiesTyped
-----------------------------------------------------------------------------
(* Every event keeps the three copies as they should be.                      *)

LEMMA MovesKeep == ASSUME Copies, Moves, UNCHANGED startup PROVE Copies'
  BY Untouched DEF Moves, Back, GoBack, Escape, RowMoves, FoundMoves, Clicks, Opens, Dismisses, Stays, InMode

LEMMA LeavesKeep == ASSUME Copies, Leaves, UNCHANGED startup PROVE Copies'
  BY Untouched DEF Leaves, RequestsQuit, ConfirmsQuit, Killed, LoopFails, Quit, Ends, InMode, Stays

LEMMA OrdersKeep == ASSUME Copies, Orders, UNCHANGED startup PROVE Copies'
<1>0. edit.set \in Settings /\ IsCopy(edit) /\ HasToken(edit.set) /\ dirty \in BOOLEAN
  BY DEF Copies, CopiesTyped, IsCopy
<1>1. CASE StartsInput \/ StartsWizard
  BY <1>1, Untouched DEF StartsInput, StartsWizard, Stays
<1>2. CASE Toggles
  <2>1. CASE Selected
    <3> DEFINE rows == [edit.rows EXCEPT ![row].on = ~@]
    <3>1. [edit EXCEPT !.rows[row].on = ~@] = [edit EXCEPT !.rows = rows]
      BY <1>0 DEF IsCopy
    <3> QED
      BY <3>1, <2>1, <1>2, RowsKeep DEF Toggles
  <2>2. CASE ~Selected
    BY <2>2, <1>2, BroadcastKeeps DEF Toggles
  <2> QED
    BY <2>1, <2>2
<1>3. CASE Deletes
  <2>1. CASE Selected
    BY <2>1, <1>3, RowsKeep DEF Deletes
  <2>2. CASE ~Selected
    BY <2>2, <1>3, BroadcastKeeps DEF Deletes
  <2> QED
    BY <2>1, <2>2
<1>4. CASE Saves
  <2>1. IsCopy(edit') /\ HasToken(edit'.set) /\ UNCHANGED edit
    BY <1>0, <1>4 DEF Saves, IsCopy
  <2> QED
    BY <2>1, <1>4, SavedKeeps, FailedSaveKeeps DEF Saves
<1>5. CASE Switches
  <2>1. PICK set \in Switched(edit.set) : edit' = [edit EXCEPT !.set = set]
    BY <1>5 DEF Switches
  <2>2. set \in Settings /\ HasToken(set)
    BY <1>0, SettingsOfHandlers
  <2>3. IsCopy(edit') /\ HasToken(edit'.set)
    BY <1>0, <2>1, <2>2, ChangedCopy
  <2> QED
    BY <2>3, <1>5, SavedKeeps, FailedSaveKeeps DEF Switches
<1>6. CASE PinsFound
  <2>1. CASE UNCHANGED <<edit, live>>
    BY <2>1, <1>6, Untouched, PinKeeps DEF PinsFound, Stays
  <2>2. CASE \E uri \in Uris : edit' = [edit EXCEPT !.pin = Toggled(uri)] /\ Broadcast
    BY <2>2, <1>6, PinKeeps DEF PinsFound, Stays, Broadcast
  <2> QED
    BY <2>1, <2>2, <1>6 DEF PinsFound
<1> QED
  BY <1>1, <1>2, <1>3, <1>4, <1>5, <1>6 DEF Orders

LEMMA InputsKeep == ASSUME Copies, Inputs, UNCHANGED startup PROVE Copies'
<1>0. edit.set \in Settings /\ IsCopy(edit) /\ HasToken(edit.set)
  BY DEF Copies, CopiesTyped, IsCopy
<1>1. CASE CommitsName
  <2>1. PICK name \in Names : Committed([edit EXCEPT !.rows[row].name = name])
    BY <1>1 DEF CommitsName
  <2>2. [edit EXCEPT !.rows[row].name = name] = [edit EXCEPT !.rows = [edit.rows EXCEPT ![row].name = name]]
    BY <1>0 DEF IsCopy
  <2> QED
    BY <2>1, <2>2, RowsKeep
<1>2. CASE CommitsUrl
  <2>1. PICK url \in Urls : Committed([edit EXCEPT !.rows[row].url = url])
    BY <1>2 DEF CommitsUrl
  <2>2. [edit EXCEPT !.rows[row].url = url] = [edit EXCEPT !.rows = [edit.rows EXCEPT ![row].url = url]]
    BY <1>0 DEF IsCopy
  <2> QED
    BY <2>1, <2>2, RowsKeep
<1>3. CASE CommitsRank
  BY <1>3, RowsKeep DEF CommitsRank
<1>4. CASE WizardGoesOn
  BY <1>4, Untouched DEF WizardGoesOn, Stays
<1>5. CASE WizardAdds
  BY <1>5, RowsKeep DEF WizardAdds
<1>6. CASE CommitsSetting
  BY <1>6, SettingsKeep DEF CommitsSetting
<1>7. IsCopy(AsShipped(edit)) /\ HasToken(AsShipped(edit).set)
  BY <1>0, SettingsOfHandlers DEF AsShipped, IsCopy
<1>8. CASE ResetWorks
  BY <1>7, <1>8, SavedKeeps DEF ResetWorks
<1>9. CASE ResetFails
  <2>1. IsCopy(edit') /\ HasToken(edit'.set)
    BY <1>0, <1>7, <1>9, ChangedCopy DEF ResetFails
  <2>2. broken' = TRUE /\ UNCHANGED <<phase, dirty, saved, live>>
    BY <1>9 DEF ResetFails, Stays
  <2> QED
    BY <2>1, <2>2 DEF Copies, CopiesTyped, HasToken, IsCopy, LoopsSeeEdits, CleanMeansSaved
<1> QED
  BY <1>1, <1>2, <1>3, <1>4, <1>5, <1>6, <1>8, <1>9 DEF Inputs

LEMMA OriginStays == ASSUME [Next]_vars PROVE UNCHANGED origin
<1>1. CASE Moves
  BY <1>1 DEF Moves, Back, GoBack, Escape, RowMoves, FoundMoves, Clicks, Opens, Dismisses, Stays
<1>2. CASE Orders
  BY <1>2 DEF Orders, StartsInput, StartsWizard, Toggles, Deletes, Saves, Switches, PinsFound, SaveWorks, Saved,
              SaveFails, Ends, Stays
<1>3. CASE Inputs
  BY <1>3 DEF Inputs, CommitsName, CommitsUrl, CommitsRank, WizardGoesOn, WizardAdds, CommitsSetting, ResetWorks,
              ResetFails, Commits, Stays
<1>4. CASE Leaves
  BY <1>4 DEF Leaves, RequestsQuit, ConfirmsQuit, Killed, LoopFails, Quit, Ends, Stays
<1>5. CASE Frame \/ DashboardPins \/ ProxySwitches
  BY <1>5 DEF Frame, DashboardPins, ProxySwitches, Stays
<1>6. CASE UNCHANGED vars
  BY <1>6 DEF vars
<1> QED
  BY <1>1, <1>2, <1>3, <1>4, <1>5, <1>6 DEF Next

LEMMA CopiesStep == Copies /\ [Next]_vars => Copies'
<1> SUFFICES ASSUME Copies, [Next]_vars PROVE Copies'
  OBVIOUS
<1>0. UNCHANGED startup
  BY OriginStays DEF origin
<1>1. CASE Frame
  BY <1>0, <1>1, PinKeeps DEF Frame, Stays
<1>2. CASE DashboardPins
  BY <1>0, <1>2, PinKeeps DEF DashboardPins, Stays
<1>3. CASE ProxySwitches
  BY <1>0, <1>3, Untouched DEF ProxySwitches, Stays
<1>4. CASE UNCHANGED vars
  BY <1>0, <1>4, Untouched DEF vars
<1> QED
  BY <1>0, <1>1, <1>2, <1>3, <1>4, MovesKeep, OrdersKeep, InputsKeep, LeavesKeep DEF Next

\* The three copies of the preferences - the terminal's, the store's and the
\* loops' - agree as far as each of them is meant to, in every state.
THEOREM CopiesAgree == Spec => []Copies
  BY CopiesInit, CopiesStep, PTL DEF Spec

\* A copy that is not marked as changed is in the store, so that leaving
\* unasked loses nothing (request_quit, merge_for_save).
THEOREM LeavingLosesNothing == Spec => []CleanMeansSaved
<1>1. Copies => CleanMeansSaved
  BY DEF Copies
<1> QED
  BY <1>1, CopiesAgree, PTL

\* What the terminal shows is what the loops run on (finish_edit).
THEOREM LoopsRunTheShown == Spec => []LoopsSeeEdits
<1>1. Copies => LoopsSeeEdits
  BY DEF Copies
<1> QED
  BY <1>1, CopiesAgree, PTL

\* The settings of the start, and its bound.
Started == startup \in [rows : Seq(Rows), set : Settings] /\ most \in Nat
LEMMA StartHolds == Spec => []Started
<1>1. Init => Started
  <2> SUFFICES ASSUME Init PROVE Started
    OBVIOUS
  <2>1. PICK s \in Starts : most = s.most /\ \E set \in Protected(s.set) : startup = [rows |-> s.rows, set |-> set]
    BY DEF Init
  <2>2. PICK set \in Protected(s.set) : startup = [rows |-> s.rows, set |-> set]
    BY <2>1
  <2> QED
    BY <2>1, <2>2, ProtectedHas, StartsLoaded DEF Started
<1>2. Started /\ [Next]_vars => Started'
  BY OriginStays DEF Started, origin
<1> QED
  BY <1>1, <1>2, PTL DEF Spec

\* Only a save changes what is stored.
LEMMA OnlySavesStore ==
    ASSUME [Next]_vars, saved' # saved
    PROVE  saved' \in Merged(Base(edit')) \cup {Base(edit')}
<1>1. CASE Moves
  BY <1>1 DEF Moves, Back, GoBack, Escape, RowMoves, FoundMoves, Clicks, Opens, Dismisses, copies
<1>2. CASE StartsInput \/ StartsWizard \/ Toggles \/ Deletes \/ PinsFound
  BY <1>2 DEF StartsInput, StartsWizard, Toggles, Deletes, PinsFound, Committed, copies
<1>3. CASE Saves \/ Switches
  BY <1>3 DEF Saves, Switches, SaveWorks, Saved, SaveFails
<1>4. CASE CommitsName \/ CommitsUrl \/ CommitsRank \/ WizardGoesOn \/ WizardAdds \/ CommitsSetting \/ ResetFails
  BY <1>4 DEF CommitsName, CommitsUrl, CommitsRank, WizardGoesOn, WizardAdds, CommitsSetting, ResetFails,
              Committed, copies
<1>5. CASE ResetWorks
  BY <1>5 DEF ResetWorks, Saved
<1>6. CASE Leaves \/ Frame \/ DashboardPins \/ ProxySwitches
  BY <1>6 DEF Leaves, RequestsQuit, ConfirmsQuit, Killed, LoopFails, Quit, Frame, DashboardPins, ProxySwitches, copies
<1>7. CASE UNCHANGED vars
  BY <1>7 DEF vars, copies
<1> QED
  BY <1>1, <1>2, <1>3, <1>4, <1>5, <1>6, <1>7 DEF Next, Orders, Inputs

\* A merge of two settings that have their token lacks one only if one half of
\* it comes from either.
LEMMA StoredHas ==
    ASSUME Copies, Copies', Started, [Next]_vars, saved'.set # saved.set, ~HasToken(saved'.set)
    PROVE  /\ ~startup.set.protect /\ startup.set.token # NoToken
           /\ edit'.set.token \in {startup.set.token, NoToken}
<1> DEFINE base == Base(edit')
<1>1. /\ base = [rows |-> base.rows, set |-> base.set] /\ base.set = edit'.set
      /\ base.set \in Settings /\ HasToken(base.set) /\ saved.set \in Settings /\ startup.set \in Settings
  BY DEF Base, Copies, CopiesTyped, IsCopy, Started
<1>2. saved' \in Merged(base)
  BY <1>1, OnlySavesStore
<1> HIDE DEF base
<1>3. PICK stored \in Protected(saved.set) : \A f \in DOMAIN base.set :
         saved'.set[f] = IF base.set[f] # startup.set[f] THEN base.set[f] ELSE stored[f]
  BY <1>1, <1>2, MergeIsEither
<1>4. HasToken(stored)
  BY <1>1, ProtectedHas
<1>5. {"protect", "token"} \subseteq DOMAIN base.set
  BY <1>1, FieldsOfSettings
<1>6. /\ saved'.set.protect = IF base.set.protect # startup.set.protect THEN base.set.protect ELSE stored.protect
      /\ saved'.set.token = IF base.set.token # startup.set.token THEN base.set.token ELSE stored.token
  BY <1>3, <1>5
<1>7. base.set.protect \in BOOLEAN /\ startup.set.protect \in BOOLEAN
  BY <1>1 DEF Settings
<1> QED
  BY <1>1, <1>4, <1>6, <1>7 DEF HasToken

\* The terminal and the loops never have protection without its token, and no
\* save stores it so but for the start and the tokens that are named
\* (ensure_sharing_token, merge_for_save).
THEOREM ProtectionHasToken == Spec => ProtectedHasToken
<1>1. Copies => HasToken(edit.set) /\ HasToken(live.set)
  BY DEF Copies
<1>2. Copies /\ Copies' /\ Started /\ [Next]_vars =>
        [saved'.set # saved.set /\ ~HasToken(saved'.set) =>
           /\ ~startup.set.protect /\ startup.set.token # NoToken
           /\ edit'.set.token \in {startup.set.token, NoToken}]_vars
  BY StoredHas
<1> QED
  BY <1>1, <1>2, CopiesAgree, StartHolds, PTL DEF Spec, ProtectedHasToken
-----------------------------------------------------------------------------
(* The list of subscriptions.                                                 *)

\* The rows are typed, in order and unique, and the wizard has a draft.
Listed ==
    /\ edit.rows \in Seq(Drafts) /\ RowsInOrder
    /\ mode \in Steps => draft \in Drafts

LEMMA Removed ==
    ASSUME NEW S, NEW s \in Seq(S), NEW k \in DOMAIN s
    PROVE  /\ RemoveAt(s, k) \in Seq(S) /\ Len(RemoveAt(s, k)) = Len(s) - 1
           /\ \A i \in DOMAIN RemoveAt(s, k) : RemoveAt(s, k)[i] = IF i < k THEN s[i] ELSE s[i + 1]
<1> DEFINE left == SubSeq(s, 1, k - 1)
           right == SubSeq(s, k + 1, Len(s))
<1>1. k \in 1 .. Len(s) /\ Len(s) \in Nat /\ \A i \in 1 .. Len(s) : s[i] \in S
  BY ElementOfSeq, LenProperties
<1>2. /\ left \in Seq(S) /\ Len(left) = k - 1
      /\ \A i \in 1 .. k - 1 : left[i] = s[i]
  BY <1>1, SubSeqProperties
<1>3. /\ right \in Seq(S) /\ Len(right) = Len(s) - k
      /\ \A i \in 1 .. Len(s) - k : right[i] = s[k + i]
  <2>1. \A i \in k + 1 .. Len(s) : s[i] \in S
    BY <1>1
  <2>2. /\ right \in Seq(S) /\ Len(right) = IF k + 1 <= Len(s) THEN Len(s) - (k + 1) + 1 ELSE 0
        /\ \A i \in 1 .. Len(s) - (k + 1) + 1 : right[i] = s[k + 1 + i - 1]
    BY <1>1, <2>1, SubSeqProperties
  <2> QED
    BY <1>1, <2>2
<1>4. RemoveAt(s, k) = left \o right
  BY DEF RemoveAt
<1>5. /\ left \o right \in Seq(S) /\ Len(left \o right) = Len(left) + Len(right)
      /\ \A i \in 1 .. Len(left) + Len(right) :
            (left \o right)[i] = IF i <= Len(left) THEN left[i] ELSE right[i - Len(left)]
  BY <1>2, <1>3, ConcatProperties
<1>6. DOMAIN (left \o right) = 1 .. Len(left \o right)
  BY <1>5, LenProperties
<1> HIDE DEF left, right
<1>7. \A i \in 1 .. Len(left) + Len(right) :
        (left \o right)[i] = IF i < k THEN s[i] ELSE s[i + 1]
  <2>1. TAKE i \in 1 .. Len(left) + Len(right)
  <2>2. CASE i < k
    BY <1>1, <1>2, <1>3, <1>5, <2>2
  <2>3. CASE ~(i < k)
    <3>1. i - (k - 1) \in 1 .. Len(s) - k /\ k + (i - (k - 1)) = i + 1
      <4>1. k \in Nat /\ Len(s) \in Nat /\ i \in 1 .. Len(s) - 1
        BY <1>1, <1>2, <1>3, <2>1
      <4>2. \A m, n, j \in Nat : j <= n - 1 /\ ~(j < m) =>
              j - (m - 1) \in 1 .. n - m /\ m + (j - (m - 1)) = j + 1
        OBVIOUS
      <4> QED
        BY <4>1, <4>2, <2>3
    <3>2. right[i - (k - 1)] = s[i + 1]
      BY <1>3, <3>1
    <3>3. (left \o right)[i] = right[i - (k - 1)]
      BY <1>1, <1>2, <1>3, <1>5, <2>3
    <3> QED
      BY <2>3, <3>2, <3>3
  <2> QED
    BY <2>2, <2>3
<1>8. Len(left) + Len(right) = Len(s) - 1
  BY <1>1, <1>2, <1>3
<1> QED
  BY <1>4, <1>5, <1>6, <1>7, <1>8

LEMMA Inserted ==
    ASSUME NEW S, NEW s \in Seq(S), NEW k \in 1 .. Len(s) + 1, NEW e \in S
    PROVE  /\ InsertAt(s, k, e) \in Seq(S) /\ Len(InsertAt(s, k, e)) = Len(s) + 1
           /\ \A i \in DOMAIN InsertAt(s, k, e) :
                 InsertAt(s, k, e)[i] = IF i < k THEN s[i] ELSE IF i = k THEN e ELSE s[i - 1]
<1> DEFINE left == SubSeq(s, 1, k - 1)
           right == SubSeq(s, k, Len(s))
           front == left \o <<e>>
<1>1. Len(s) \in Nat /\ \A i \in 1 .. Len(s) : s[i] \in S
  BY ElementOfSeq, LenProperties
<1>2. /\ left \in Seq(S) /\ Len(left) = k - 1
      /\ \A i \in 1 .. k - 1 : left[i] = s[i]
  BY <1>1, SubSeqProperties
<1>3. /\ right \in Seq(S) /\ Len(right) = Len(s) - k + 1
      /\ \A i \in 1 .. Len(s) - k + 1 : right[i] = s[k + i - 1]
  <2>1. \A i \in k .. Len(s) : s[i] \in S
    BY <1>1
  <2> QED
    BY <1>1, <2>1, SubSeqProperties
<1>4. /\ front \in Seq(S) /\ Len(front) = k
      /\ \A i \in 1 .. k : front[i] = IF i <= k - 1 THEN s[i] ELSE e
  <2>1. <<e>> \in Seq(S) /\ Len(<<e>>) = 1 /\ <<e>>[1] = e
    OBVIOUS
  <2>2. /\ front \in Seq(S) /\ Len(front) = Len(left) + 1
        /\ \A i \in 1 .. Len(left) + 1 : front[i] = IF i <= Len(left) THEN left[i] ELSE <<e>>[i - Len(left)]
    BY <1>2, <2>1, ConcatProperties
  <2> HIDE DEF left, front
  <2> QED
    BY <1>2, <2>1, <2>2
<1>5. InsertAt(s, k, e) = front \o right
  BY DEF InsertAt
<1>6. /\ front \o right \in Seq(S) /\ Len(front \o right) = Len(front) + Len(right)
      /\ \A i \in 1 .. Len(front) + Len(right) :
            (front \o right)[i] = IF i <= Len(front) THEN front[i] ELSE right[i - Len(front)]
  BY <1>3, <1>4, ConcatProperties
<1>7. DOMAIN (front \o right) = 1 .. Len(front \o right)
  BY <1>6, LenProperties
<1> HIDE DEF left, right, front
<1>8. Len(front) + Len(right) = Len(s) + 1 /\ k \in Nat
  BY <1>1, <1>3, <1>4
<1>9. \A i \in 1 .. Len(front) + Len(right) :
        (front \o right)[i] = IF i < k THEN s[i] ELSE IF i = k THEN e ELSE s[i - 1]
  <2>1. TAKE i \in 1 .. Len(front) + Len(right)
  <2>2. i \in 1 .. Len(s) + 1 /\ Len(s) \in Nat /\ k \in 1 .. Len(s) + 1
    BY <1>1, <1>8, <2>1
  <2>3. CASE i < k
    <3>1. (front \o right)[i] = front[i] /\ i \in 1 .. k /\ i <= k - 1
      BY <1>4, <1>6, <2>2, <2>3, <2>1
    <3> QED
      BY <1>4, <2>3, <3>1
  <2>4. CASE i = k
    <3>1. (front \o right)[i] = front[i] /\ i \in 1 .. k /\ ~(i <= k - 1) /\ ~(i < k)
      BY <1>4, <1>6, <2>2, <2>4, <2>1
    <3> QED
      BY <1>4, <2>4, <3>1
  <2>5. CASE k < i
    <3>1. i - k \in 1 .. Len(s) - k + 1 /\ k + (i - k) - 1 = i - 1 /\ ~(i < k) /\ i # k
      BY <2>2, <2>5
    <3>2. (front \o right)[i] = right[i - k]
      BY <1>4, <1>6, <2>1, <2>2, <2>5
    <3>3. right[i - k] = s[i - 1]
      BY <1>3, <3>1
    <3> QED
      BY <3>1, <3>2, <3>3
  <2> QED
    BY <2>2, <2>3, <2>4, <2>5
<1>10. DOMAIN (front \o right) = 1 .. Len(front) + Len(right)
  BY <1>6, <1>7
<1> QED
  BY <1>5, <1>6, <1>8, <1>9, <1>10

\* Renumbering puts any list in order and leaves its URLs alone.
LEMMA RenumberedInOrder ==
    ASSUME NEW rows \in Seq(Drafts)
    PROVE  /\ Renumbered(rows) \in Seq(Drafts) /\ Ordered(Renumbered(rows))
           /\ Unique(rows) => Unique(Renumbered(rows))
<1>1. Len(rows) \in Nat /\ DOMAIN rows = 1 .. Len(rows) /\ \A i \in DOMAIN rows : rows[i] \in Drafts
  BY ElementOfSeq, LenProperties
<1>2. \A i \in DOMAIN rows : [rows[i] EXCEPT !.rank = i] \in Drafts
  BY <1>1 DEF Drafts
<1>3. \A i \in DOMAIN rows : [rows[i] EXCEPT !.rank = i].rank = i /\ [rows[i] EXCEPT !.rank = i].url = rows[i].url
  BY <1>1 DEF Drafts
<1>4. Renumbered(rows) \in Seq(Drafts) /\ DOMAIN Renumbered(rows) = DOMAIN rows
  BY <1>1, <1>2, IsASeq DEF Renumbered
<1>5. \A i \in DOMAIN rows : Renumbered(rows)[i].rank = i /\ Renumbered(rows)[i].url = rows[i].url
  BY <1>3 DEF Renumbered
<1> QED
  BY <1>1, <1>4, <1>5 DEF Ordered, Unique

\* Whatever number is typed, a moved row leaves a list in order without doubles.
LEMMA MovedInOrder ==
    ASSUME NEW rows \in Seq(Drafts), Unique(rows), NEW index \in DOMAIN rows, NEW rank \in Nat
    PROVE  LET moved == MovedTo(rows, index, rank)
           IN moved \in Seq(Drafts) /\ Ordered(moved) /\ Unique(moved)
<1> DEFINE rest == RemoveAt(rows, index)
           slot == IF rank = 0 THEN 1 ELSE IF rank > Len(rows) THEN Len(rows) ELSE rank
           put == InsertAt(rest, slot, rows[index])
           \* where the row at a place of `put` comes from
           skip(k) == IF k < index THEN k ELSE k + 1
           from(i) == IF i < slot THEN skip(i) ELSE IF i = slot THEN index ELSE skip(i - 1)
<1>1. /\ Len(rows) \in Nat /\ DOMAIN rows = 1 .. Len(rows) /\ index \in 1 .. Len(rows)
      /\ rows[index] \in Drafts
  BY ElementOfSeq, LenProperties
<1>2. /\ rest \in Seq(Drafts) /\ Len(rest) = Len(rows) - 1
      /\ \A i \in 1 .. Len(rest) : rest[i] = rows[skip(i)]
  <2>1. /\ rest \in Seq(Drafts) /\ Len(rest) = Len(rows) - 1
        /\ \A i \in DOMAIN rest : rest[i] = IF i < index THEN rows[i] ELSE rows[i + 1]
    BY Removed
  <2>2. DOMAIN rest = 1 .. Len(rest)
    BY <2>1, LenProperties
  <2> QED
    BY <2>1, <2>2
<1>3. slot \in 1 .. Len(rest) + 1
  BY <1>1, <1>2
<1> HIDE DEF rest, slot
<1>4. /\ put \in Seq(Drafts) /\ DOMAIN put = 1 .. Len(rows)
      /\ \A i \in DOMAIN put : put[i] = IF i < slot THEN rest[i] ELSE IF i = slot THEN rows[index] ELSE rest[i - 1]
  <2>1. put \in Seq(Drafts) /\ Len(put) = Len(rest) + 1
    BY <1>1, <1>2, <1>3, Inserted
  <2>2. \A i \in DOMAIN put : put[i] = IF i < slot THEN rest[i] ELSE IF i = slot THEN rows[index] ELSE rest[i - 1]
    BY <1>1, <1>2, <1>3, Inserted
  <2> QED
    BY <1>1, <1>2, <2>1, <2>2, LenProperties
<1> HIDE DEF put
<1>places. /\ Len(rows) \in Nat /\ slot \in 1 .. Len(rows) /\ index \in 1 .. Len(rows)
      /\ Len(rest) = Len(rows) - 1
  BY <1>1, <1>2, <1>3
<1>5. \A i \in DOMAIN put : put[i] = rows[from(i)] /\ from(i) \in DOMAIN rows
  <2>1. TAKE i \in DOMAIN put
  <2>2. i \in 1 .. Len(rows)
    BY <1>4, <2>1
  <2>3. CASE i < slot
    <3>1. i \in 1 .. Len(rest) /\ from(i) = skip(i) /\ skip(i) \in 1 .. Len(rows)
      BY <1>places, <2>2, <2>3
    <3>2. put[i] = rest[i]
      BY <1>4, <2>1, <2>3
    <3> QED
      BY <1>1, <1>2, <3>1, <3>2
  <2>4. CASE i = slot
    <3>1. from(i) = index
      BY <1>places, <2>4
    <3>2. put[i] = rows[index]
      BY <1>places, <1>4, <2>1, <2>4
    <3> QED
      BY <1>1, <3>1, <3>2
  <2>5. CASE slot < i
    <3>1. i - 1 \in 1 .. Len(rest) /\ from(i) = skip(i - 1) /\ skip(i - 1) \in 1 .. Len(rows)
      BY <1>places, <2>2, <2>5
    <3>2. put[i] = rest[i - 1]
      BY <1>places, <1>4, <2>1, <2>2, <2>5
    <3> QED
      BY <1>1, <1>2, <3>1, <3>2
  <2> QED
    BY <1>places, <2>2, <2>3, <2>4, <2>5
<1>6. \A i, j \in DOMAIN put : from(i) = from(j) => i = j
  <2>1. DOMAIN put \subseteq Int
    BY <1>places, <1>4
  <2>2. slot \in Int /\ index \in Int
    BY <1>places
  <2>3. \A i, j \in Int : from(i) = from(j) => i = j
    BY <2>2
  <2> QED
    BY <2>1, <2>3
<1> HIDE DEF from, skip
<1>7. Unique(put)
  BY <1>5, <1>6 DEF Unique
<1>8. MovedTo(rows, index, rank) = Renumbered(put)
  BY DEF MovedTo, put, rest, slot
<1> QED
  BY <1>4, <1>7, <1>8, RenumberedInOrder

\* One row without renumbering: a row taken out, or fields other than its rank
\* and its URL.
LEMMA ShorterInOrder ==
    ASSUME NEW rows \in Seq(Drafts), Ordered(rows), Unique(rows), NEW index \in DOMAIN rows
    PROVE  LET rest == RemoveAt(rows, index)
           IN rest \in Seq(Drafts) /\ Ordered(rest) /\ Unique(rest)
<1> DEFINE rest == RemoveAt(rows, index)
           skip(k) == IF k < index THEN k ELSE k + 1
<1>1. /\ Len(rows) \in Nat /\ DOMAIN rows = 1 .. Len(rows)
      /\ \A i \in DOMAIN rows : rows[i] \in Drafts
  BY ElementOfSeq, LenProperties
<1>2. /\ rest \in Seq(Drafts) /\ Len(rest) = Len(rows) - 1
      /\ \A i \in DOMAIN rest : rest[i] = rows[skip(i)]
  BY Removed
<1>3. DOMAIN rest = 1 .. Len(rows) - 1
  BY <1>2, LenProperties
<1> HIDE DEF rest
<1>4. /\ \A i \in DOMAIN rest : skip(i) \in DOMAIN rows
      /\ \A i, j \in DOMAIN rest : i < j => skip(i) < skip(j)
      /\ \A i, j \in DOMAIN rest : skip(i) = skip(j) => i = j
  BY <1>1, <1>3
<1> HIDE DEF skip
<1>5. Ordered(rest) /\ Unique(rest)
  BY <1>2, <1>4 DEF Ordered, Unique
<1> QED
  BY <1>2, <1>5 DEF rest

LEMMA ChangedRow ==
    ASSUME NEW rows \in Seq(Drafts), Ordered(rows), Unique(rows), NEW index \in DOMAIN rows,
           NEW changed \in Drafts, changed.rank = rows[index].rank,
           ~Duplicate(rows, changed.url, index)
    PROVE  LET now == [rows EXCEPT ![index] = changed]
           IN now \in Seq(Drafts) /\ Ordered(now) /\ Unique(now)
<1> DEFINE now == [rows EXCEPT ![index] = changed]
<1>1. Len(rows) \in Nat /\ DOMAIN rows = 1 .. Len(rows) /\ \A i \in DOMAIN rows : rows[i] \in Drafts
  BY ElementOfSeq, LenProperties
<1>2. now \in Seq(Drafts) /\ DOMAIN now = DOMAIN rows
  BY <1>1, ExceptSeq
<1>3. \A i \in DOMAIN rows : now[i] = IF i = index THEN changed ELSE rows[i]
  OBVIOUS
<1> HIDE DEF now
<1>4. \A i \in DOMAIN rows : now[i].rank = rows[i].rank
  BY <1>3
<1>5. Ordered(now)
  BY <1>2, <1>4 DEF Ordered
<1>6. Unique(now)
  <2> SUFFICES ASSUME NEW i \in DOMAIN rows, NEW j \in DOMAIN rows, now[i].url = now[j].url PROVE i = j
    BY <1>2 DEF Unique
  <2>1. \A k \in DOMAIN rows : k # index => rows[k].url # changed.url
    BY DEF Duplicate
  <2>2. CASE i = index \/ j = index
    BY <2>1, <2>2, <1>3
  <2>3. CASE i # index /\ j # index
    BY <2>3, <1>3 DEF Unique
  <2> QED
    BY <2>2, <2>3
<1> QED
  BY <1>2, <1>5, <1>6 DEF now

\* The next priority is a number: in an ordered list the last is the highest.
LEMMA HighestIsRank ==
    ASSUME NEW rows \in Seq(Drafts), Ordered(rows)
    PROVE  Highest(rows) \in Nat
<1> DEFINE ranks == {rows[i].rank : i \in DOMAIN rows}
<1>0. Len(rows) \in Nat /\ DOMAIN rows = 1 .. Len(rows) /\ \A i \in DOMAIN rows : rows[i] \in Drafts
  BY ElementOfSeq, LenProperties
<1>1. Len(rows) \in Nat /\ DOMAIN rows = 1 .. Len(rows) /\ \A i \in DOMAIN rows : rows[i].rank \in Nat
  BY <1>0 DEF Drafts
<1>2. CASE rows = <<>>
  BY <1>2 DEF Highest
<1>3. CASE rows # <<>>
  <2>1. Len(rows) \in DOMAIN rows
    BY <1>1, <1>3, EmptySeq
  <2>2. \A i \in DOMAIN rows : i < Len(rows) \/ i = Len(rows)
    BY <1>1
  <2>3. \A i \in DOMAIN rows : rows[i].rank <= rows[Len(rows)].rank
    BY <1>1, <2>1, <2>2 DEF Ordered
  <2>4. \E r \in ranks : \A i \in DOMAIN rows : rows[i].rank <= r
    BY <2>1, <2>3
  <2>5. Highest(rows) \in ranks
    BY <1>3, <2>4 DEF Highest
  <2> QED
    BY <1>1, <2>5
<1> QED
  BY <1>2, <1>3
-----------------------------------------------------------------------------
(* Every event keeps the list in order.                                       *)

\* The list is left alone, and the wizard does not go on.
LEMMA SameList ==
    ASSUME Listed, edit'.rows = edit.rows, mode' \in Steps => mode \in Steps /\ UNCHANGED draft
    PROVE  Listed'
  BY DEF Listed, RowsInOrder

LEMMA NewList ==
    ASSUME IsCopy(edit), NEW rows \in Seq(Drafts), Ordered(rows), Unique(rows),
           edit' = [edit EXCEPT !.rows = rows], mode' \notin Steps
    PROVE  Listed'
<1>1. edit'.rows = rows
  BY DEF IsCopy
<1> QED
  BY <1>1 DEF Listed, RowsInOrder

LEMMA SettingsLeaveRows ==
    ASSUME IsCopy(edit), NEW set, NEW pin
    PROVE  [edit EXCEPT !.set = set].rows = edit.rows /\ [edit EXCEPT !.pin = pin].rows = edit.rows
  BY DEF IsCopy

LEMMA MenusAreNoSteps ==
    {"none", "command", "name", "url", "rank", "set", "reset", "clean", "quit"} \cap Steps = {}
  BY DEF Steps

LEMMA MovesKeepList == ASSUME Listed, Moves PROVE Listed'
  BY SameList, MenusAreNoSteps
     DEF Moves, Back, GoBack, Escape, RowMoves, FoundMoves, Clicks, Opens, Dismisses, InMode, copies

LEMMA LeavesKeepList == ASSUME Listed, Leaves PROVE Listed'
  BY SameList, MenusAreNoSteps
     DEF Leaves, RequestsQuit, ConfirmsQuit, Killed, LoopFails, Quit, Ends, InMode, copies

LEMMA OrdersKeepList == ASSUME Listed, Copies, Orders PROVE Listed'
<1>0. IsCopy(edit) /\ edit.rows \in Seq(Drafts) /\ Ordered(edit.rows) /\ Unique(edit.rows)
  BY DEF Copies, CopiesTyped, Listed, RowsInOrder
<1>1. CASE StartsInput
  BY <1>1, SameList, MenusAreNoSteps DEF StartsInput, copies
<1>2. CASE StartsWizard
  <2>1. Highest(edit.rows) + 1 \in Nat
    BY <1>0, HighestIsRank
  <2>2. draft' \in Drafts /\ UNCHANGED edit
    BY <1>2, <2>1 DEF StartsWizard, Drafts, copies
  <2> QED
    BY <2>2 DEF Listed, RowsInOrder
<1>3. CASE Toggles
  <2>1. mode' \notin Steps
    BY <1>3, MenusAreNoSteps DEF Toggles
  <2>2. CASE Selected
    <3> DEFINE changed == [edit.rows[row] EXCEPT !.on = ~@]
    <3>1. row \in DOMAIN edit.rows /\ edit.rows[row] \in Drafts
      BY <1>0, <2>2, ElementOfSeq, LenProperties DEF Selected
    <3>2. changed \in Drafts /\ changed.rank = edit.rows[row].rank /\ changed.url = edit.rows[row].url
      BY <3>1 DEF Drafts
    <3>3. ~Duplicate(edit.rows, changed.url, row)
      BY <1>0, <3>1, <3>2 DEF Unique, Duplicate
    <3>4. edit' = [edit EXCEPT !.rows = [edit.rows EXCEPT ![row] = changed]]
      BY <1>0, <1>3, <2>2 DEF Toggles, Committed, IsCopy
    <3> QED
      BY <1>0, <2>1, <3>1, <3>2, <3>3, <3>4, ChangedRow, NewList
  <2>3. CASE ~Selected
    BY <1>3, <2>1, <2>3, SameList DEF Toggles
  <2> QED
    BY <2>2, <2>3
<1>4. CASE Deletes
  <2>1. mode' \notin Steps
    BY <1>4, MenusAreNoSteps DEF Deletes
  <2>2. CASE Selected
    BY <1>0, <1>4, <2>1, <2>2, ShorterInOrder, NewList DEF Deletes, Committed, Selected
  <2>3. CASE ~Selected
    BY <1>4, <2>1, <2>3, SameList DEF Deletes
  <2> QED
    BY <2>2, <2>3
<1>5. CASE Saves
  BY <1>5, SameList, MenusAreNoSteps DEF Saves, SaveFails, Ends, InMode
<1>6. CASE Switches
  <2>1. edit'.rows = edit.rows
    BY <1>0, <1>6, SettingsLeaveRows DEF Switches
  <2>2. mode' \notin Steps
    BY <1>6, MenusAreNoSteps DEF Switches, SaveFails, Ends, InView, InMode, screen
  <2> QED
    BY <2>1, <2>2, SameList
<1>7. CASE PinsFound
  <2>1. edit'.rows = edit.rows
    BY <1>0, <1>7, SettingsLeaveRows DEF PinsFound
  <2> QED
    BY <1>7, <2>1, SameList DEF PinsFound
<1> QED
  BY <1>1, <1>2, <1>3, <1>4, <1>5, <1>6, <1>7 DEF Orders

LEMMA InputsKeepList == ASSUME Listed, Copies, Inputs PROVE Listed'
<1>0. /\ IsCopy(edit) /\ edit.rows \in Seq(Drafts) /\ Ordered(edit.rows) /\ Unique(edit.rows)
      /\ \A i \in DOMAIN edit.rows : edit.rows[i] \in Drafts
      /\ "none" \notin Steps
  BY ElementOfSeq, LenProperties, MenusAreNoSteps DEF Copies, CopiesTyped, Listed, RowsInOrder
<1>1. CASE CommitsName
  <2>1. PICK name \in Names : Committed([edit EXCEPT !.rows[row].name = name])
    BY <1>1 DEF CommitsName
  <2> DEFINE changed == [edit.rows[row] EXCEPT !.name = name]
  <2>2. row \in DOMAIN edit.rows /\ edit.rows[row] \in Drafts /\ mode' = "none"
    BY <1>0, <1>1 DEF CommitsName, Commits, Selected
  <2>3. changed \in Drafts /\ changed.rank = edit.rows[row].rank /\ changed.url = edit.rows[row].url
    BY <2>2 DEF Drafts
  <2>4. ~Duplicate(edit.rows, changed.url, row)
    BY <1>0, <2>2, <2>3 DEF Unique, Duplicate
  <2>5. edit' = [edit EXCEPT !.rows = [edit.rows EXCEPT ![row] = changed]]
    BY <1>0, <2>1 DEF Committed, IsCopy
  <2> QED
    BY <1>0, <2>2, <2>3, <2>4, <2>5, ChangedRow, NewList
<1>2. CASE CommitsUrl
  <2>1. PICK url \in Urls : ~Duplicate(edit.rows, url, row) /\ Committed([edit EXCEPT !.rows[row].url = url])
    BY <1>2 DEF CommitsUrl
  <2> DEFINE changed == [edit.rows[row] EXCEPT !.url = url]
  <2>2. row \in DOMAIN edit.rows /\ edit.rows[row] \in Drafts /\ mode' = "none"
    BY <1>0, <1>2 DEF CommitsUrl, Commits, Selected
  <2>3. changed \in Drafts /\ changed.rank = edit.rows[row].rank /\ changed.url = url
    BY <2>2 DEF Drafts
  <2>4. edit' = [edit EXCEPT !.rows = [edit.rows EXCEPT ![row] = changed]]
    BY <1>0, <2>1 DEF Committed, IsCopy
  <2> QED
    BY <1>0, <2>1, <2>2, <2>3, <2>4, ChangedRow, NewList
<1>3. CASE CommitsRank
  <2>1. PICK rank \in Numbers : Committed([edit EXCEPT !.rows = MovedTo(edit.rows, row, rank)])
    BY <1>3 DEF CommitsRank
  <2>2. rank \in Nat /\ row \in DOMAIN edit.rows /\ mode' = "none"
    BY <1>3, NumbersNatural DEF CommitsRank, Commits, Selected
  <2> QED
    BY <1>0, <2>1, <2>2, MovedInOrder, NewList DEF Committed
<1>4. CASE WizardGoesOn
  <2>1. mode \in Steps
    BY <1>4 DEF WizardGoesOn, Steps
  <2>2. draft \in Drafts
    BY <2>1 DEF Listed
  <2>3. draft' \in Drafts
    BY <1>4, <2>2, NumbersNatural DEF WizardGoesOn, Drafts
  <2> QED
    BY <1>4, <2>3 DEF WizardGoesOn, copies, Listed, RowsInOrder
<1>5. CASE WizardAdds
  <2>1. draft \in Drafts /\ ~Duplicate(edit.rows, draft.url, 0) /\ mode' = "none"
    BY <1>5 DEF WizardAdds, Commits, InMode, Steps, Listed
  <2>2. PICK on \in BOOLEAN :
          Committed([edit EXCEPT !.rows = MovedTo(Append(edit.rows, [draft EXCEPT !.on = on]),
                                                   Len(edit.rows) + 1, draft.rank)])
    BY <1>5 DEF WizardAdds
  <2> DEFINE added == [draft EXCEPT !.on = on]
             rows == Append(edit.rows, added)
  <2>3. added \in Drafts /\ added.url = draft.url /\ draft.rank \in Nat
    BY <2>1 DEF Drafts
  <2>4. /\ rows \in Seq(Drafts) /\ Len(rows) = Len(edit.rows) + 1
        /\ \A i \in 1 .. Len(edit.rows) : rows[i] = edit.rows[i]
        /\ rows[Len(edit.rows) + 1] = added
    BY <1>0, <2>3, AppendProperties
  <2>5. /\ Len(edit.rows) \in Nat /\ DOMAIN edit.rows = 1 .. Len(edit.rows)
        /\ DOMAIN rows = 1 .. Len(edit.rows) + 1
    BY <1>0, <2>4, LenProperties
  <2> HIDE DEF rows, added
  <2>6. \A i \in 1 .. Len(edit.rows) : edit.rows[i].url # added.url
    BY <2>1, <2>3, <2>5 DEF Duplicate
  <2>7. Unique(rows)
    <3> SUFFICES ASSUME NEW i \in DOMAIN rows, NEW j \in DOMAIN rows, rows[i].url = rows[j].url PROVE i = j
      BY DEF Unique
    <3>1. /\ i \in DOMAIN edit.rows \/ i = Len(edit.rows) + 1
          /\ j \in DOMAIN edit.rows \/ j = Len(edit.rows) + 1
      BY <2>5
    <3>2. \A k \in DOMAIN edit.rows : rows[k] = edit.rows[k] /\ edit.rows[k].url # added.url
      BY <2>4, <2>5, <2>6
    <3> QED
      BY <1>0, <2>4, <3>1, <3>2 DEF Unique
  <2>8. Len(edit.rows) + 1 \in DOMAIN rows
    BY <2>5
  <2>9. LET moved == MovedTo(rows, Len(edit.rows) + 1, draft.rank)
        IN moved \in Seq(Drafts) /\ Ordered(moved) /\ Unique(moved)
    BY <2>3, <2>4, <2>7, <2>8, MovedInOrder
  <2> QED
    BY <1>0, <2>1, <2>2, <2>9, NewList DEF Committed, rows, added
<1>6. CASE CommitsSetting
  <2>1. edit'.rows = edit.rows
    BY <1>0, <1>6, SettingsLeaveRows DEF CommitsSetting, Committed
  <2> QED
    BY <1>0, <1>6, <2>1, SameList DEF CommitsSetting, Commits
<1>7. /\ AsShipped(edit).rows \in Seq(Drafts)
      /\ Ordered(AsShipped(edit).rows) /\ Unique(AsShipped(edit).rows)
  BY <1>0, RenumberedInOrder DEF AsShipped
<1>8. CASE ResetWorks
  BY <1>0, <1>7, <1>8 DEF ResetWorks, Commits, Listed, RowsInOrder
<1>9. CASE ResetFails
  <2>1. mode' \notin Steps
    BY <1>9, MenusAreNoSteps DEF ResetFails, InMode, screen
  <2>2. CASE Refused(edit)
    <3>1. <<>> \in Seq(Drafts) /\ Ordered(<<>>) /\ Unique(<<>>)
      BY DEF Ordered, Unique
    <3> QED
      BY <1>0, <1>9, <2>1, <2>2, <3>1, NewList DEF ResetFails
  <2>3. CASE ~Refused(edit)
    BY <1>7, <1>9, <2>1, <2>3 DEF ResetFails, Listed, RowsInOrder
  <2> QED
    BY <2>2, <2>3
<1> QED
  BY <1>1, <1>2, <1>3, <1>4, <1>5, <1>6, <1>8, <1>9 DEF Inputs

LEMMA ListedInit == Init => Listed
<1>1. Rows \subseteq Drafts
  BY DEF Rows, Drafts
<1>2. Init => \E s \in Starts : edit.rows = s.rows
  BY DEF Init
<1>3. \A s \in Starts : s.rows \in Seq(Drafts)
  BY <1>1, StartsLoaded, SeqMonotonic
<1> QED
  BY <1>2, <1>3, StartsLoaded, MenusAreNoSteps DEF Init, Listed, RowsInOrder

LEMMA ListedStep == Listed /\ Copies /\ [Next]_vars => Listed'
<1> SUFFICES ASSUME Listed, Copies, [Next]_vars PROVE Listed'
  OBVIOUS
<1>1. CASE Frame
  <2>1. edit'.rows = edit.rows
    BY <1>1, SettingsLeaveRows DEF Frame, Copies, CopiesTyped
  <2> QED
    BY <1>1, <2>1, SameList DEF Frame
<1>2. CASE DashboardPins
  BY <1>2, SameList DEF DashboardPins, screen
<1>3. CASE ProxySwitches
  BY <1>3, SameList DEF ProxySwitches, screen, copies
<1>4. CASE UNCHANGED vars
  BY <1>4, SameList DEF vars, screen, copies
<1> QED
  BY <1>1, <1>2, <1>3, <1>4, MovesKeepList, OrdersKeepList, InputsKeepList, LeavesKeepList DEF Next

\* The list stays in the order of its priorities and without doubles, whatever
\* is typed, clicked, deleted or reset (move_subscription_to_rank,
\* find_duplicate_subscription_url).
THEOREM ListStaysInOrder == Spec => []RowsInOrder
<1>1. Listed => RowsInOrder
  BY DEF Listed
<1>2. Init => Copies /\ Listed
  BY CopiesInit, ListedInit
<1>3. Copies /\ Listed /\ [Next]_vars => Copies' /\ Listed'
  BY CopiesStep, ListedStep
<1> QED
  BY <1>1, <1>2, <1>3, PTL DEF Spec
-----------------------------------------------------------------------------
(* The types.                                                                 *)

\* What the copies of the preferences hold: rows without a gap, known pins.
Held ==
    /\ {edit.rows, live.rows, saved.rows} \subseteq Seq(Rows)
    /\ {edit.pin, live.pin, pending, shownPin, active} \subseteq Pins

\* Where the user is.  The wizard asks for one part of the draft after the
\* other, so that what a step has asked for is there in the next.
Placed ==
    /\ phase \in {"up", "quit", "killed", "failed"} /\ {raw, found} \subseteq BOOLEAN
    /\ view \in Views /\ mode \in Modes
    /\ view = "new" <=> mode \in Steps
    /\ IF view = "new" THEN draft \in Drafts ELSE draft = NoDraft
    /\ mode \in Steps \ {"newUrl"} => draft.url \in Urls
    /\ mode \in {"newRank", "newOn"} => draft.name \in Names
    /\ {row, drawn, edits} \subseteq Nat

Typed == Held /\ Placed

LEMMA TypedIsTypeOK == Copies /\ Typed /\ Started => TypeOK
  BY DEF Started, Copies, CopiesTyped, IsCopy, Typed, Held, Placed, TypeOK, Preferences

LEMMA RowsAreDrafts == Rows \subseteq Drafts /\ Seq(Rows) \subseteq Seq(Drafts)
<1>1. Rows \subseteq Drafts
  BY DEF Rows, Drafts
<1> QED
  BY <1>1, SeqMonotonic

LEMMA RowsInDomain ==
    ASSUME NEW rows \in Seq(Rows)
    PROVE  /\ Len(rows) \in Nat /\ DOMAIN rows = 1 .. Len(rows)
           /\ \A i \in DOMAIN rows : rows[i] \in Rows
  BY ElementOfSeq, LenProperties

LEMMA RenumberedRows ==
    ASSUME NEW rows \in Seq(Rows)
    PROVE  /\ Renumbered(rows) \in Seq(Rows) /\ DOMAIN Renumbered(rows) = DOMAIN rows
           /\ \A i \in DOMAIN rows : Renumbered(rows)[i].url = rows[i].url
<1>1. Len(rows) \in Nat /\ DOMAIN rows = 1 .. Len(rows) /\ \A i \in DOMAIN rows : rows[i] \in Rows
  BY RowsInDomain
<1>2. \A i \in DOMAIN rows : [rows[i] EXCEPT !.rank = i] \in Rows /\ [rows[i] EXCEPT !.rank = i].url = rows[i].url
  BY <1>1 DEF Rows
<1>3. Renumbered(rows) \in [1 .. Len(rows) -> Rows]
  BY <1>1, <1>2 DEF Renumbered
<1>4. Renumbered(rows) \in Seq(Rows)
  BY <1>1, <1>3, SeqDef
<1> QED
  BY <1>2, <1>4 DEF Renumbered

\* A moved row is still in the list.
LEMMA MovedRows ==
    ASSUME NEW rows \in Seq(Rows), NEW index \in DOMAIN rows, NEW rank \in Nat
    PROVE  LET moved == MovedTo(rows, index, rank)
           IN moved \in Seq(Rows) /\ RowOf(moved, rows[index].url) \in Nat
<1> DEFINE rest == RemoveAt(rows, index)
           slot == IF rank = 0 THEN 1 ELSE IF rank > Len(rows) THEN Len(rows) ELSE rank
           put == InsertAt(rest, slot, rows[index])
           moved == MovedTo(rows, index, rank)
<1>1. Len(rows) \in Nat /\ index \in 1 .. Len(rows) /\ rows[index] \in Rows
  BY RowsInDomain
<1>2. rest \in Seq(Rows) /\ Len(rest) = Len(rows) - 1
  BY Removed
<1>3. slot \in 1 .. Len(rest) + 1
  BY <1>1, <1>2
<1> HIDE DEF rest, slot
<1>4. /\ put \in Seq(Rows) /\ Len(put) = Len(rest) + 1
      /\ \A i \in DOMAIN put : put[i] = IF i < slot THEN rest[i] ELSE IF i = slot THEN rows[index] ELSE rest[i - 1]
  <2>1. put \in Seq(Rows) /\ Len(put) = Len(rest) + 1
    BY <1>1, <1>2, <1>3, Inserted
  <2>2. \A i \in DOMAIN put : put[i] = IF i < slot THEN rest[i] ELSE IF i = slot THEN rows[index] ELSE rest[i - 1]
    BY <1>1, <1>2, <1>3, Inserted
  <2> QED
    BY <2>1, <2>2
<1>5. slot \in DOMAIN put
  BY <1>3, <1>4, RowsInDomain
<1>6. put[slot] = rows[index]
  BY <1>3, <1>4, <1>5
<1>7. moved = Renumbered(put)
  BY DEF MovedTo, rest, slot
<1> HIDE DEF put, moved
<1>8. /\ moved \in Seq(Rows) /\ DOMAIN moved = DOMAIN put
      /\ moved[slot].url = rows[index].url
  BY <1>4, <1>5, <1>6, <1>7, RenumberedRows
<1>9. RowOf(moved, rows[index].url) \in DOMAIN moved
  BY <1>5, <1>8 DEF RowOf
<1>10. DOMAIN moved \subseteq Nat
  BY <1>8, RowsInDomain
<1> QED
  BY <1>8, <1>9, <1>10 DEF moved

LEMMA TypedInit == Init => Typed
<1> SUFFICES ASSUME Init PROVE Held /\ Placed
  BY DEF Typed
<1>1. PICK s \in Starts : saved.rows = s.rows /\ startup.rows = s.rows /\ edits = s.edits
  BY DEF Init
<1>2. Held
  <2>1. /\ edit = [rows |-> s.rows, set |-> startup.set, pin |-> NoUri] /\ live = edit
        /\ pending = NoUri /\ shownPin = NoUri /\ active = NoUri
    BY <1>1 DEF Init
  <2> QED
    BY <1>1, <2>1, StartsLoaded DEF Held, Pins
<1>3. /\ phase = "up" /\ raw = TRUE /\ found = FALSE /\ draft = NoDraft
      /\ view = "main" /\ mode = "none" /\ row = 0 /\ drawn = 0 /\ edits \in Nat
  BY <1>1, StartsLoaded DEF Init
<1>4. {raw, found} \subseteq BOOLEAN /\ {row, drawn, edits} \subseteq Nat
  <2>1. raw \in BOOLEAN /\ found \in BOOLEAN
    BY <1>3, Zenon
  <2>2. row \in Nat /\ drawn \in Nat /\ edits \in Nat
    BY <1>3
  <2> QED
    BY <2>1, <2>2
<1>5. view \in Views /\ mode \in Modes \ Steps /\ view # "new" /\ mode \notin {"newRank", "newOn"}
  BY <1>3 DEF Views, Modes, Steps
<1>6. Placed
  BY <1>3, <1>4, <1>5 DEF Placed
<1> QED
  BY <1>2, <1>6
-----------------------------------------------------------------------------
(* Every event keeps what the copies hold.                                    *)

LEMMA SameHeld == ASSUME Held, UNCHANGED <<copies, active>> PROVE Held'
  BY DEF Held, copies

LEMMA CommittedHeld ==
    ASSUME Held, NEW prefs, prefs.rows \in Seq(Rows), prefs.pin \in Pins, Committed(prefs), UNCHANGED active
    PROVE  Held'
  BY DEF Held, Committed, Broadcast

LEMMA BroadcastHeld ==
    ASSUME Held, Broadcast, UNCHANGED <<edit, pending, saved, active>>
    PROVE  Held'
  BY DEF Held, Broadcast

LEMMA SavedHeld ==
    ASSUME Held, edit'.rows \in Seq(Rows), edit'.pin \in Pins, UNCHANGED <<pending, active>>,
           \/ (SaveWorks \/ Saved(Base(edit'))) /\ Broadcast
           \/ \E marked \in BOOLEAN : SaveFails(marked)
    PROVE  Held'
<1>1. CASE \E marked \in BOOLEAN : SaveFails(marked)
  BY <1>1 DEF Held, SaveFails
<1>2. CASE (SaveWorks \/ Saved(Base(edit'))) /\ Broadcast
  <2>1. Base(edit').rows = edit'.rows /\ \A merged \in Merged(Base(edit')) : merged.rows = edit'.rows
    BY DEF Base, Merged
  <2>2. saved'.rows = edit'.rows
    BY <1>2, <2>1 DEF SaveWorks, Saved
  <2> QED
    BY <1>2, <2>2 DEF Held, Broadcast
<1> QED
  BY <1>1, <1>2

\* Parts of the copy.
LEMMA PartsOfCopy ==
    ASSUME IsCopy(edit), NEW part
    PROVE  /\ [edit EXCEPT !.rows = part].rows = part /\ [edit EXCEPT !.rows = part].pin = edit.pin
           /\ [edit EXCEPT !.set = part].rows = edit.rows /\ [edit EXCEPT !.set = part].pin = edit.pin
           /\ [edit EXCEPT !.pin = part].rows = edit.rows /\ [edit EXCEPT !.pin = part].pin = part
  BY DEF IsCopy

LEMMA NewRowsHeld ==
    ASSUME Held, IsCopy(edit), NEW rows \in Seq(Rows), Committed([edit EXCEPT !.rows = rows]), UNCHANGED active
    PROVE  Held'
<1>1. [edit EXCEPT !.rows = rows].rows \in Seq(Rows) /\ [edit EXCEPT !.rows = rows].pin \in Pins
  BY PartsOfCopy DEF Held
<1> QED
  BY <1>1, CommittedHeld

LEMMA OrdersHeld == ASSUME Held, Copies, Orders PROVE Held'
<1>0. IsCopy(edit) /\ edit.rows \in Seq(Rows) /\ edit.pin \in Pins /\ dirty \in BOOLEAN
  BY DEF Copies, CopiesTyped, Held
<1>1. CASE StartsInput \/ StartsWizard
  BY <1>1, SameHeld DEF StartsInput, StartsWizard
<1>2. CASE Toggles
  <2>1. CASE Selected
    <3> DEFINE changed == [edit.rows[row] EXCEPT !.on = ~@]
               rows == [edit.rows EXCEPT ![row] = changed]
    <3>1. row \in DOMAIN edit.rows /\ edit.rows[row] \in Rows
      BY <1>0, <2>1, RowsInDomain DEF Selected
    <3>2. changed \in Rows
      BY <3>1 DEF Rows
    <3>3. rows \in Seq(Rows)
      BY <1>0, <3>1, <3>2, ExceptSeq
    <3>4. [edit EXCEPT !.rows[row].on = ~@] = [edit EXCEPT !.rows = rows]
      BY <1>0 DEF IsCopy
    <3>5. Committed([edit EXCEPT !.rows = rows]) /\ UNCHANGED active
      BY <1>2, <2>1, <3>4 DEF Toggles
    <3> HIDE DEF rows
    <3> QED
      BY <1>0, <3>3, <3>5, NewRowsHeld
  <2>2. CASE ~Selected
    BY <1>2, <2>2, BroadcastHeld DEF Toggles
  <2> QED
    BY <2>1, <2>2
<1>3. CASE Deletes
  <2>1. CASE Selected
    <3>1. RemoveAt(edit.rows, row) \in Seq(Rows)
      BY <1>0, <2>1, Removed DEF Selected
    <3> QED
      BY <1>0, <1>3, <2>1, <3>1, NewRowsHeld DEF Deletes
  <2>2. CASE ~Selected
    BY <1>3, <2>2, BroadcastHeld DEF Deletes
  <2> QED
    BY <2>1, <2>2
<1>4. CASE Saves
  BY <1>0, <1>4, SavedHeld DEF Saves
<1>5. CASE Switches
  <2>1. PICK set \in Switched(edit.set) : edit' = [edit EXCEPT !.set = set]
    BY <1>5 DEF Switches
  <2>2. edit'.rows \in Seq(Rows) /\ edit'.pin \in Pins
    BY <1>0, <2>1, PartsOfCopy
  <2> QED
    BY <1>5, <2>2, SavedHeld DEF Switches
<1>6. CASE PinsFound
  <2>1. CASE UNCHANGED <<edit, pending, live, shownPin>>
    BY <1>6, <2>1 DEF PinsFound, Held
  <2>2. CASE \E uri \in Uris : edit' = [edit EXCEPT !.pin = Toggled(uri)] /\ pending' = Toggled(uri) /\ Broadcast
    <3>1. PICK pin \in Pins : edit' = [edit EXCEPT !.pin = pin] /\ pending' = pin /\ Broadcast
      BY <2>2 DEF Toggled, Pins
    <3>2. edit'.rows \in Seq(Rows) /\ edit'.pin \in Pins
      BY <1>0, <3>1, PartsOfCopy
    <3> QED
      BY <1>6, <3>1, <3>2 DEF PinsFound, Held, Broadcast
  <2> QED
    BY <1>6, <2>1, <2>2 DEF PinsFound
<1> QED
  BY <1>1, <1>2, <1>3, <1>4, <1>5, <1>6 DEF Orders

\* The last step of the wizard has the whole row.
LEMMA WizardDone ==
    ASSUME Placed, mode = "newOn", NEW on \in BOOLEAN
    PROVE  [draft EXCEPT !.on = on] \in Rows /\ draft.url \in Urls /\ draft.rank \in Nat
<1>1. draft \in Drafts /\ draft.url \in Urls /\ draft.name \in Names
  BY DEF Placed, Steps
<1> QED
  BY <1>1 DEF Drafts, Rows

LEMMA InputsHeld == ASSUME Held, Placed, Copies, Inputs PROVE Held'
<1>0. /\ IsCopy(edit) /\ edit.rows \in Seq(Rows) /\ edit.pin \in Pins
      /\ \A i \in DOMAIN edit.rows : edit.rows[i] \in Rows
  BY RowsInDomain DEF Copies, CopiesTyped, Held
<1>1. CASE CommitsName
  <2>1. PICK name \in Names : Committed([edit EXCEPT !.rows[row].name = name])
    BY <1>1 DEF CommitsName
  <2> DEFINE changed == [edit.rows[row] EXCEPT !.name = name]
             rows == [edit.rows EXCEPT ![row] = changed]
  <2>2. row \in DOMAIN edit.rows /\ UNCHANGED active
    BY <1>1 DEF CommitsName, Commits, Selected
  <2>3. changed \in Rows
    BY <1>0, <2>2 DEF Rows
  <2>4. rows \in Seq(Rows)
    BY <1>0, <2>2, <2>3, ExceptSeq
  <2>5. Committed([edit EXCEPT !.rows = rows])
    BY <1>0, <2>1 DEF IsCopy
  <2> HIDE DEF rows
  <2> QED
    BY <1>0, <2>2, <2>4, <2>5, NewRowsHeld
<1>2. CASE CommitsUrl
  <2>1. PICK url \in Urls : Committed([edit EXCEPT !.rows[row].url = url])
    BY <1>2 DEF CommitsUrl
  <2> DEFINE changed == [edit.rows[row] EXCEPT !.url = url]
             rows == [edit.rows EXCEPT ![row] = changed]
  <2>2. row \in DOMAIN edit.rows /\ UNCHANGED active
    BY <1>2 DEF CommitsUrl, Commits, Selected
  <2>3. changed \in Rows
    BY <1>0, <2>2 DEF Rows
  <2>4. rows \in Seq(Rows)
    BY <1>0, <2>2, <2>3, ExceptSeq
  <2>5. Committed([edit EXCEPT !.rows = rows])
    BY <1>0, <2>1 DEF IsCopy
  <2> HIDE DEF rows
  <2> QED
    BY <1>0, <2>2, <2>4, <2>5, NewRowsHeld
<1>3. CASE CommitsRank
  <2>1. PICK rank \in Numbers : Committed([edit EXCEPT !.rows = MovedTo(edit.rows, row, rank)])
    BY <1>3 DEF CommitsRank
  <2>2. rank \in Nat /\ row \in DOMAIN edit.rows /\ UNCHANGED active
    BY <1>3, NumbersNatural DEF CommitsRank, Commits, Selected
  <2> QED
    BY <1>0, <2>1, <2>2, MovedRows, NewRowsHeld
<1>4. CASE WizardGoesOn
  BY <1>4, SameHeld DEF WizardGoesOn
<1>5. CASE WizardAdds
  <2>1. PICK on \in BOOLEAN :
          Committed([edit EXCEPT !.rows = MovedTo(Append(edit.rows, [draft EXCEPT !.on = on]),
                                                   Len(edit.rows) + 1, draft.rank)])
    BY <1>5 DEF WizardAdds
  <2> DEFINE added == [draft EXCEPT !.on = on]
             rows == Append(edit.rows, added)
  <2>2. added \in Rows /\ draft.rank \in Nat /\ UNCHANGED active
    BY <1>5, WizardDone DEF WizardAdds, Commits, InMode
  <2>3. rows \in Seq(Rows) /\ Len(edit.rows) + 1 \in DOMAIN rows
    BY <1>0, <2>2, AppendProperties, RowsInDomain
  <2>4. MovedTo(rows, Len(edit.rows) + 1, draft.rank) \in Seq(Rows)
    BY <2>2, <2>3, MovedRows
  <2> QED
    BY <1>0, <2>1, <2>2, <2>4, NewRowsHeld
<1>6. CASE CommitsSetting
  <2>1. PICK set \in Applied(edit.set) : Committed([edit EXCEPT !.set = set])
    BY <1>6 DEF CommitsSetting
  <2> QED
    BY <1>0, <1>6, <2>1, PartsOfCopy, CommittedHeld DEF CommitsSetting, Commits
<1>7. AsShipped(edit).rows \in Seq(Rows) /\ AsShipped(edit).pin \in Pins
  BY <1>0, RenumberedRows DEF AsShipped, Pins
<1>8. CASE ResetWorks
  BY <1>7, <1>8, SavedHeld DEF ResetWorks, Commits
<1>9. CASE ResetFails
  <2>1. edit'.rows \in Seq(Rows) /\ edit'.pin \in Pins
    <3>1. <<>> \in Seq(Rows)
      OBVIOUS
    <3> QED
      BY <1>0, <1>7, <1>9, <3>1, PartsOfCopy DEF ResetFails
  <2> QED
    BY <1>9, <2>1 DEF ResetFails, Held
<1> QED
  BY <1>1, <1>2, <1>3, <1>4, <1>5, <1>6, <1>8, <1>9 DEF Inputs
-----------------------------------------------------------------------------
(* Every event puts the user somewhere in the menus.                          *)

LEMMA PlacedParts ==
    ASSUME Placed
    PROVE  /\ raw \in BOOLEAN /\ found \in BOOLEAN /\ row \in Nat /\ drawn \in Nat /\ edits \in Nat
           /\ phase \in {"up", "quit", "killed", "failed"}
           /\ mode \notin Steps => view \in Views \ {"new"} /\ mode \in Modes \ Steps /\ draft = NoDraft
           /\ view # "new" => view \in Views \ {"new"} /\ mode \in Modes \ Steps /\ draft = NoDraft
           /\ Counts => edits' \in Nat
  BY DEF Placed, Counts

\* The parts of a menu and of the wizard have no name in common.
LEMMA PlacesDiffer ==
    /\ {"none", "command", "name", "url", "rank", "set", "reset", "clean", "quit"} = Modes \ Steps
    /\ {"main", "subscriptions", "actions", "settings", "logs"} = Views \ {"new"}
    /\ Steps \subseteq Modes /\ "new" \in Views /\ {"newRank", "newOn"} \subseteq Steps
  BY DEF Modes, Steps, Views

LEMMA InAMenu ==
    ASSUME phase' \in {"up", "quit", "killed", "failed"}, raw' \in BOOLEAN, found' \in BOOLEAN,
           view' \in Views \ {"new"}, mode' \in Modes \ Steps, draft' = NoDraft,
           row' \in Nat, drawn' \in Nat, edits' \in Nat
    PROVE  Placed'
  BY PlacesDiffer DEF Placed

LEMMA SamePlace ==
    ASSUME Placed, UNCHANGED <<phase, raw, view, mode, draft>>, found' \in BOOLEAN,
           row' \in Nat, drawn' \in Nat, edits' \in Nat
    PROVE  Placed'
  BY DEF Placed

LEMMA EndPlaced ==
    ASSUME NEW how \in {"quit", "killed", "failed"}, Ends(how), raw' \in BOOLEAN, edits' \in Nat
    PROVE  Placed'
  BY InAMenu, PlacesDiffer DEF Ends

LEMMA MovesPlaced == ASSUME Placed, Held, Moves PROVE Placed'
<1>0. Len(edit.rows) \in Nat
  BY RowsInDomain DEF Held
<1>1. CASE Back
  <2>1. CASE view = "new"
    <3>1. view' = "subscriptions" /\ mode' = "none" /\ draft' = NoDraft /\ found' = FALSE
      BY <1>1, <2>1 DEF Back, GoBack
    <3> QED
      BY <1>1, <3>1, PlacedParts, PlacesDiffer, InAMenu DEF Back, GoBack, Stays
  <2>2. CASE view # "new"
    <3>1. view' \in {"subscriptions", "main"} /\ UNCHANGED <<mode, draft>> /\ found' = FALSE
      BY <1>1, <2>2 DEF Back, GoBack
    <3> QED
      BY <1>1, <2>2, <3>1, PlacedParts, PlacesDiffer, InAMenu DEF Back, GoBack, Stays
  <2> QED
    BY <2>1, <2>2
<1>2. CASE Escape
  <2>1. view' \in Views \ {"new"} /\ draft' = NoDraft /\ mode' \in Modes \ Steps
    BY <1>2, PlacedParts, PlacesDiffer DEF Escape
  <2> QED
    BY <1>2, <2>1, PlacedParts, InAMenu DEF Escape, Stays
<1>3. CASE RowMoves
  <2>1. row' \in Nat
    BY <1>0, <1>3, PlacedParts DEF RowMoves
  <2> QED
    BY <1>3, <2>1, PlacedParts, SamePlace DEF RowMoves, Stays
<1>4. CASE FoundMoves
  BY <1>4, PlacedParts, SamePlace DEF FoundMoves, Stays
<1>5. CASE Clicks
  <2>1. row' \in Nat
    BY <1>5, PlacedParts DEF Clicks
  <2> QED
    BY <1>5, <2>1, PlacedParts, SamePlace DEF Clicks, Stays
<1>6. CASE Opens
  <2>1. view' \in Views \ {"new"} /\ draft' = NoDraft /\ mode' \in Modes \ Steps
    BY <1>6, PlacedParts, PlacesDiffer DEF Opens, InMode
  <2> QED
    BY <1>6, <2>1, PlacedParts, InAMenu DEF Opens, Stays
<1>7. CASE Dismisses
  <2>1. view' \in Views \ {"new"} /\ draft' = NoDraft /\ mode' \in Modes \ Steps
    BY <1>7, PlacedParts, PlacesDiffer DEF Dismisses, InMode
  <2> QED
    BY <1>7, <2>1, PlacedParts, InAMenu DEF Dismisses, Stays
<1> QED
  BY <1>1, <1>2, <1>3, <1>4, <1>5, <1>6, <1>7 DEF Moves

\* A save that fails ends the loop, one that works does not.
LEMMA SavePlaced ==
    ASSUME Placed, edits' \in Nat, mode \notin Steps,
           \/ SaveWorks /\ mode' = "none" /\ UNCHANGED <<view, draft, row, found, drawn>>
           \/ \E marked \in BOOLEAN : SaveFails(marked)
    PROVE  Placed'
<1>1. CASE \E marked \in BOOLEAN : SaveFails(marked)
  BY <1>1, EndPlaced DEF SaveFails
<1>2. CASE SaveWorks /\ mode' = "none" /\ UNCHANGED <<view, draft, row, found, drawn>>
  BY <1>2, PlacedParts, PlacesDiffer, InAMenu DEF SaveWorks, Saved, Stays
<1> QED
  BY <1>1, <1>2

LEMMA OrdersPlaced == ASSUME Placed, Held, Copies, Listed, Orders PROVE Placed'
<1>0. /\ dirty \in BOOLEAN /\ edit.rows \in Seq(Drafts) /\ Ordered(edit.rows)
      /\ Len(edit.rows) \in Nat /\ DOMAIN edit.rows = 1 .. Len(edit.rows)
  BY RowsInDomain DEF Copies, CopiesTyped, Listed, RowsInOrder, Held
<1>1. CASE StartsInput
  <2>1. mode \notin Steps
    BY <1>1, PlacesDiffer DEF StartsInput, Commanded, ByMenu, InView, InMode
  <2> QED
    BY <1>1, <2>1, PlacedParts, PlacesDiffer, InAMenu DEF StartsInput, Stays
<1>2. CASE StartsWizard
  <2>1. Highest(edit.rows) + 1 \in Nat
    BY <1>0, HighestIsRank
  <2>2. draft' \in Drafts
    BY <1>2, <2>1 DEF StartsWizard, Drafts
  <2>3. view' = "new" /\ mode' = "newUrl" /\ UNCHANGED <<row, found, drawn, edits, phase, raw>>
    BY <1>2 DEF StartsWizard, Stays
  <2>4. "newUrl" \in Steps /\ "newUrl" \notin {"newRank", "newOn"}
    BY DEF Steps
  <2> QED
    BY <2>2, <2>3, <2>4, PlacedParts, PlacesDiffer DEF Placed
<1>3. CASE Toggles
  <2>1. mode \notin Steps /\ edits' \in Nat
    BY <1>3, PlacedParts, PlacesDiffer DEF Toggles, InMode
  <2> QED
    BY <1>3, <2>1, PlacedParts, PlacesDiffer, InAMenu DEF Toggles, Stays
<1>4. CASE Deletes
  <2>1. mode \notin Steps /\ edits' \in Nat
    BY <1>4, PlacedParts, PlacesDiffer DEF Deletes, Commanded, ByMenu, InView, InMode
  <2>2. row' \in Nat
    <3>1. CASE Selected
      <4>1. row' = IF row < Len(edit.rows) THEN row ELSE Len(edit.rows) - 1
        BY <1>4, <3>1 DEF Deletes
      <4>2. row \in 1 .. Len(edit.rows)
        BY <1>0, <3>1 DEF Selected
      <4> QED
        BY <1>0, <4>1, <4>2
    <3>2. CASE ~Selected
      BY <1>4, <3>2, PlacedParts DEF Deletes
    <3> QED
      BY <3>1, <3>2
  <2>3. view' \in Views \ {"new"} /\ mode' \in Modes \ Steps
    BY <1>4, <2>1, PlacedParts, PlacesDiffer DEF Deletes
  <2> QED
    BY <1>4, <2>1, <2>2, <2>3, PlacedParts, InAMenu DEF Deletes, Stays
<1>5. CASE Saves
  <2>1. mode \notin Steps /\ edits' \in Nat
    BY <1>5, PlacedParts, PlacesDiffer DEF Saves, InMode
  <2> QED
    BY <1>0, <1>5, <2>1, SavePlaced DEF Saves
<1>6. CASE Switches
  <2>1. mode = "none" /\ mode \notin Steps /\ edits' \in Nat
    BY <1>6, PlacedParts, PlacesDiffer DEF Switches, InView, InMode
  <2>2. \/ SaveWorks /\ mode' = "none" /\ UNCHANGED <<view, draft, row, found, drawn>>
        \/ SaveFails(TRUE)
    BY <1>6, <2>1 DEF Switches, screen
  <2>3. TRUE \in BOOLEAN
    OBVIOUS
  <2> QED
    BY <2>1, <2>2, <2>3, SavePlaced
<1>7. CASE PinsFound
  BY <1>7, PlacedParts, SamePlace DEF PinsFound, Stays
<1> QED
  BY <1>1, <1>2, <1>3, <1>4, <1>5, <1>6, <1>7 DEF Orders

LEMMA CommitPlaced ==
    ASSUME Placed, NEW m \in Modes, Commits(m), row' \in Nat,
           \/ m \notin Steps /\ UNCHANGED <<view, draft>>
           \/ view' = "subscriptions" /\ draft' = NoDraft
    PROVE  Placed'
<1>1. mode = m /\ mode' = "none" /\ edits' \in Nat
  BY PlacedParts DEF Commits, InMode
<1>2. view' \in Views \ {"new"} /\ draft' = NoDraft /\ mode' \in Modes \ Steps
  BY <1>1, PlacedParts, PlacesDiffer
<1> QED
  BY <1>1, <1>2, PlacedParts, InAMenu DEF Commits, Stays

LEMMA InputsPlaced == ASSUME Placed, Held, Inputs PROVE Placed'
<1>0. row \in Nat /\ edit.rows \in Seq(Rows)
  BY PlacedParts DEF Held
<1>1. CASE CommitsName
  BY <1>0, <1>1, CommitPlaced, PlacesDiffer DEF CommitsName
<1>2. CASE CommitsUrl
  BY <1>0, <1>2, CommitPlaced, PlacesDiffer DEF CommitsUrl
<1>3. CASE CommitsRank
  <2>1. PICK rank \in Numbers : row' = RowOf(MovedTo(edit.rows, row, rank), edit.rows[row].url)
    BY <1>3 DEF CommitsRank
  <2>2. rank \in Nat /\ row \in DOMAIN edit.rows
    BY <1>3, NumbersNatural DEF CommitsRank, Selected
  <2>3. row' \in Nat
    BY <1>0, <2>1, <2>2, MovedRows
  <2> QED
    BY <1>3, <2>3, CommitPlaced, PlacesDiffer DEF CommitsRank
<1>4. CASE WizardGoesOn
  <2>0. UNCHANGED <<phase, raw, view, row, found, drawn, edits>> /\ mode \in Steps
    BY <1>4 DEF WizardGoesOn, Stays, Steps
  <2>1. view = "new" /\ draft \in Drafts
    BY <2>0 DEF Placed
  <2>2. /\ draft' \in Drafts /\ mode' \in Steps \ {"newUrl"} /\ draft'.url \in Urls
        /\ mode' \in {"newRank", "newOn"} => draft'.name \in Names
    <3>1. CASE mode = "newUrl"
      <4>1. PICK url \in Urls : draft' = [draft EXCEPT !.url = url]
        BY <1>4, <3>1 DEF WizardGoesOn
      <4> QED
        BY <1>4, <2>1, <3>1, <4>1 DEF WizardGoesOn, Drafts, Steps
    <3>2. CASE mode = "newName"
      <4>1. PICK name \in Names : draft' = [draft EXCEPT !.name = name]
        BY <1>4, <3>2 DEF WizardGoesOn
      <4>2. draft.url \in Urls
        BY <2>0, <3>2 DEF Placed, Steps
      <4> QED
        BY <1>4, <2>1, <3>2, <4>1, <4>2 DEF WizardGoesOn, Drafts, Steps
    <3>3. CASE mode = "newRank"
      <4>1. PICK rank \in Numbers : draft' = [draft EXCEPT !.rank = rank]
        BY <1>4, <3>3 DEF WizardGoesOn
      <4>2. draft.url \in Urls /\ draft.name \in Names /\ rank \in Nat
        BY <2>0, <3>3, NumbersNatural DEF Placed, Steps
      <4> QED
        BY <1>4, <2>1, <3>3, <4>1, <4>2 DEF WizardGoesOn, Drafts, Steps
    <3> QED
      BY <1>4, <3>1, <3>2, <3>3 DEF WizardGoesOn
  <2> QED
    BY <2>0, <2>1, <2>2, PlacesDiffer DEF Placed
<1>5. CASE WizardAdds
  <2>1. PICK on \in BOOLEAN :
          row' = RowOf(MovedTo(Append(edit.rows, [draft EXCEPT !.on = on]), Len(edit.rows) + 1, draft.rank),
                       draft.url)
    BY <1>5 DEF WizardAdds
  <2> DEFINE added == [draft EXCEPT !.on = on]
             rows == Append(edit.rows, added)
  <2>2. added \in Rows /\ draft.rank \in Nat /\ added.url = draft.url
    <3>1. added \in Rows /\ draft.rank \in Nat /\ draft \in Drafts
      BY <1>5, WizardDone DEF WizardAdds, Commits, InMode, Placed, Steps
    <3> QED
      BY <3>1 DEF Drafts
  <2>3. /\ rows \in Seq(Rows) /\ Len(edit.rows) + 1 \in DOMAIN rows
        /\ rows[Len(edit.rows) + 1] = added
    BY <1>0, <2>2, AppendProperties, RowsInDomain
  <2> HIDE DEF rows, added
  <2>4. row' = RowOf(MovedTo(rows, Len(edit.rows) + 1, draft.rank), rows[Len(edit.rows) + 1].url)
    BY <2>1, <2>2, <2>3 DEF rows, added
  <2>5. row' \in Nat
    BY <2>2, <2>3, <2>4, MovedRows
  <2> QED
    BY <1>5, <2>5, CommitPlaced, PlacesDiffer DEF WizardAdds
<1>6. CASE CommitsSetting
  BY <1>0, <1>6, CommitPlaced, PlacesDiffer DEF CommitsSetting
<1>7. CASE ResetWorks
  BY <1>0, <1>7, CommitPlaced, PlacesDiffer DEF ResetWorks
<1>8. CASE ResetFails
  BY <1>8, PlacedParts, SamePlace DEF ResetFails, Stays, screen
<1> QED
  BY <1>1, <1>2, <1>3, <1>4, <1>5, <1>6, <1>7, <1>8 DEF Inputs

LEMMA LeavesPlaced == ASSUME Placed, Leaves PROVE Placed'
<1>1. CASE RequestsQuit
  <2>1. CASE Quit("quit")
    BY <2>1, PlacedParts, EndPlaced DEF Quit
  <2>2. CASE mode' = "quit" /\ Stays /\ UNCHANGED <<view, draft, row, found, drawn, edits>>
    <3>1. mode \notin Steps
      BY <1>1, PlacesDiffer DEF RequestsQuit, InMode
    <3> QED
      BY <2>2, <3>1, PlacedParts, PlacesDiffer, InAMenu DEF Stays
  <2> QED
    BY <1>1, <2>1, <2>2 DEF RequestsQuit
<1>2. CASE ConfirmsQuit \/ Killed
  BY <1>2, PlacedParts, EndPlaced DEF ConfirmsQuit, Killed, Quit
<1>3. CASE LoopFails
  BY <1>3, PlacedParts, EndPlaced DEF LoopFails
<1> QED
  BY <1>1, <1>2, <1>3 DEF Leaves

LEMMA TypedStep == Typed /\ Copies /\ Listed /\ [Next]_vars => Typed'
<1> SUFFICES ASSUME Held, Placed, Copies, Listed, [Next]_vars PROVE Held' /\ Placed'
  BY DEF Typed
<1>1. CASE Moves
  <2>1. UNCHANGED <<copies, active>>
    BY <1>1 DEF Moves, Back, GoBack, Escape, RowMoves, FoundMoves, Clicks, Opens, Dismisses
  <2> QED
    BY <1>1, <2>1, SameHeld, MovesPlaced
<1>2. CASE Orders
  BY <1>2, OrdersHeld, OrdersPlaced
<1>3. CASE Inputs
  BY <1>3, InputsHeld, InputsPlaced
<1>4. CASE Leaves
  <2>1. UNCHANGED <<copies, active>>
    BY <1>4 DEF Leaves, RequestsQuit, ConfirmsQuit, Killed, LoopFails, Quit
  <2> QED
    BY <1>4, <2>1, SameHeld, LeavesPlaced
<1>5. CASE Frame
  <2>1. Len(edit.rows) \in Nat /\ IsCopy(edit)
    BY RowsInDomain DEF Held, Copies, CopiesTyped
  <2>2. drawn' \in Nat /\ pending' \in Pins
    BY <1>5, <2>1 DEF Frame, Unconfirmed, Held, Pins
  <2>3. edit'.rows \in Seq(Rows) /\ edit'.pin \in Pins
    BY <1>5, <2>1, PartsOfCopy DEF Frame, Held
  <2>4. Held'
    BY <1>5, <2>2, <2>3 DEF Frame, Held
  <2>5. Placed'
    BY <1>5, <2>2, PlacedParts, SamePlace DEF Frame, Stays
  <2> QED
    BY <2>4, <2>5
<1>6. CASE DashboardPins
  <2>1. PICK pin \in Pins : live' = [live EXCEPT !.pin = pin] /\ shownPin' = pin
    BY <1>6 DEF DashboardPins
  <2>2. live'.rows = live.rows /\ live'.pin = pin
    BY <2>1 DEF Copies, CopiesTyped, IsCopy
  <2>3. Held'
    BY <1>6, <2>1, <2>2 DEF DashboardPins, Held
  <2>4. Placed'
    BY <1>6, PlacedParts, SamePlace DEF DashboardPins, Stays, screen
  <2> QED
    BY <2>3, <2>4
<1>7. CASE ProxySwitches
  <2>1. Held'
    BY <1>7 DEF ProxySwitches, Held, copies
  <2>2. Placed'
    BY <1>7, PlacedParts, SamePlace DEF ProxySwitches, Stays, screen
  <2> QED
    BY <2>1, <2>2
<1>8. CASE UNCHANGED vars
  BY <1>8, SameHeld, PlacedParts, SamePlace DEF vars, screen
<1> QED
  BY <1>1, <1>2, <1>3, <1>4, <1>5, <1>6, <1>7, <1>8 DEF Next

\* The terminal's variables stay in their types: every row has its URL and its
\* name, the selection is a number, and the wizard's view, input line and
\* draft come and go together (handle_input_key, commit_input).
THEOREM TypeCorrect == Spec => []TypeOK
<1>1. Init => Copies /\ Listed /\ Typed
  BY CopiesInit, ListedInit, TypedInit
<1>2. Copies /\ Listed /\ Typed /\ [Next]_vars => Copies' /\ Listed' /\ Typed'
  BY CopiesStep, ListedStep, TypedStep
<1> QED
  BY <1>1, <1>2, StartHolds, TypedIsTypeOK, PTL DEF Spec
=============================================================================
