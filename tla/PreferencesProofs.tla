---- MODULE PreferencesProofs ----
(***************************************************************************)
(* Proofs about Preferences: the legacy file is given up only once its      *)
(* content is stored, and no edit can be overwritten by a second migration; *)
(* a start overrides no setting the user chose; every copy holds what it is *)
(* declared to; no copy of the list names a URL twice; a start keeps every  *)
(* row and brings no deleted one back; an edit of the dashboard that runs   *)
(* alone leaves the copies equal.                                           *)
(*                                                                         *)
(* What a start does to the list is a loop over the rows a release ships,  *)
(* so the facts about it (AppendedExtends) are proved by induction on the   *)
(* rows the loop has seen.                                                  *)
(***************************************************************************)
EXTENDS Preferences, SequenceTheorems, FiniteSetTheorems, WellFoundedInduction, TLAPS

\* What a crash leaves behind is safe because the file still counts until the
\* start has passed the step that neuters it, and that step comes after the
\* commit; the user can edit only after both.
MigrationInv ==
    /\ MigrationSafe
    /\ edits \in Nat
    /\ phase \notin {"down", "load", "neuter"} => file # "legacy"
    /\ phase = "neuter" => store # NoPrefs

\* A stored config is never the empty store: it has settings.
LEMMA StoredHasFields ==
    ASSUME NEW fields, NEW subs
    PROVE  [fields |-> fields, subs |-> subs] # NoPrefs
<1>1. DOMAIN [fields |-> fields, subs |-> subs] = {"fields", "subs"}
  OBVIOUS
<1>2. DOMAIN NoPrefs = {"subs"}
  BY DEF NoPrefs
<1> QED BY <1>1, <1>2

LEMMA LegacyHasFields == Legacy # NoPrefs
<1>1. DOMAIN Legacy = {"fields", "subs"}
  BY LegacyLoads DEF Preferred
<1>2. DOMAIN NoPrefs = {"subs"}
  BY DEF NoPrefs
<1> QED BY <1>1, <1>2

LEMMA MigrationInductive == MigrationInv /\ [Next]_vars => MigrationInv'
<1> SUFFICES ASSUME MigrationInv, [Next]_vars PROVE MigrationInv'
  OBVIOUS
<1> USE DEF MigrationInv, MigrationSafe
<1>1. CASE ProgramStarts
  BY <1>1 DEF ProgramStarts, saved, running, history
<1>2. CASE ProgramStops
  BY <1>2 DEF ProgramStops, saved
<1>3. CASE Boot
  <2>1. CASE BootMigrates
    BY <2>1, LegacyHasFields DEF BootMigrates, Boots, Seeds
  <2>2. CASE BootNeuters
    BY <2>2 DEF BootNeuters, Boots, running
  <2>3. CASE BootSeeds
    BY <2>3 DEF BootSeeds, Boots, Seeds
  <2>4. CASE BootLoads
    BY <2>4 DEF BootLoads, Boots, saved
  <2>5. CASE BootReconciles
    BY <2>5 DEF BootReconciles, Boots
  <2>6. CASE BootReconcileFails
    BY <2>6 DEF BootReconcileFails, Boots, saved
  <2>7. CASE BootSaves
    BY <2>7, StoredHasFields DEF BootSaves, Boots, Base, running
  <2>8. CASE BootServes
    BY <2>8 DEF BootServes, Boots, saved
  <2> QED BY <1>3, <2>1, <2>2, <2>3, <2>4, <2>5, <2>6, <2>7, <2>8 DEF Boot
<1>4. CASE \E r \in Slots : Request(r)
  <2> SUFFICES ASSUME NEW r \in Slots, Request(r) PROVE MigrationInv'
    BY <1>4
  <2>1. CASE RequestArrives(r)
    BY <2>1 DEF RequestArrives, Serves
  <2>2. CASE RequestLoads(r)
    BY <2>2 DEF RequestLoads, Serves, history
  <2>3. CASE RequestApplies(r)
    BY <2>3 DEF RequestApplies, Serves, history
  <2>4. CASE RequestSaves(r)
    BY <2>4, StoredHasFields DEF RequestSaves, Serves, Writes, Base
  <2>5. CASE RequestSaveFails(r)
    BY <2>5 DEF RequestSaveFails, Serves, history
  <2>6. CASE RequestShows(r)
    BY <2>6 DEF RequestShows, Serves, history
  <2>7. CASE RequestPublishes(r)
    BY <2>7 DEF RequestPublishes, Serves, history
  <2> QED BY <2>1, <2>2, <2>3, <2>4, <2>5, <2>6, <2>7 DEF Request
<1>5. CASE Tui
  <2>1. CASE TuiEdits
    BY <2>1 DEF TuiEdits, Types, TuiReady
  <2>2. CASE TuiPins
    BY <2>2 DEF TuiPins, Types, TuiReady
  <2>3. CASE TuiSwitches
    BY <2>3 DEF TuiSwitches, Types, TuiReady
  <2>4. CASE TuiSaveBegins
    BY <2>4 DEF TuiSaveBegins, saved
  <2>5. CASE TuiSaves
    BY <2>5, StoredHasFields DEF TuiSaves, Writes
  <2>6. CASE TuiResets
    BY <2>6, StoredHasFields DEF TuiResets, Types, TuiReady, Writes, Base
  <2>7. CASE TuiSyncsPin
    BY <2>7 DEF TuiSyncsPin, saved
  <2> QED BY <1>5, <2>1, <2>2, <2>3, <2>4, <2>5, <2>6, <2>7 DEF Tui
<1>6. CASE UNCHANGED vars
  BY <1>6 DEF vars
<1> QED BY <1>1, <1>2, <1>3, <1>4, <1>5, <1>6 DEF Next

\* The migration is crash-safe for any settings, releases, requests and edits
\* (load_or_migrate in src/settings.rs).
THEOREM MigrationIsSafe == Spec => []MigrationSafe
<1>1. Init => MigrationInv
  BY DEF Init, MigrationInv, MigrationSafe
<1>2. MigrationInv => MigrationSafe
  BY DEF MigrationInv
<1> QED BY <1>1, <1>2, MigrationInductive, PTL DEF Spec

----------------------------------------------------------------------------
\* Between the load and the merge the config is what is stored; after the
\* merge it differs from what is stored only as BootKeepsSettings allows.
MayFollow(f) ==
    /\ live.fields[f] = Shipped.fields[f]
    /\ \E v \in 1..release - 1 : store.fields[f] = Releases[v].fields[f]
ReleasesKnown == release \in 1..Len(Releases) /\ baseline \in 0..release
LoadedIsStored == phase \in {"neuter", "reconcile"} => live = Unpinned(store)
MergedFollows ==
    phase = "save" => \A f \in Fields : live.fields[f] # store.fields[f] => MayFollow(f)
UpgradeInv == ReleasesKnown /\ LoadedIsStored /\ MergedFollows

\* The merge changes a setting only from the old default to the new one.
LEMMA MergeFollows ==
    ASSUME ReleasesKnown, live = Unpinned(store), NEW f \in Fields,
           Reconciled.fields[f] # store.fields[f]
    PROVE  /\ Reconciled.fields[f] = Shipped.fields[f]
           /\ \E v \in 1..release - 1 : store.fields[f] = Releases[v].fields[f]
<1>1. live.fields = store.fields /\ "fields" \in DOMAIN live
  BY DEF Unpinned
<1>2. CASE baseline = 0
  <2>1. Reconciled = [live EXCEPT !.subs = Appended(@, Shipped.subs, <<>>)]
    BY <1>2 DEF Reconciled
  <2>2. Reconciled.fields = live.fields
    BY <2>1, <1>1
  <2> QED BY <2>2, <1>1
<1>3. CASE baseline # 0
  <2> DEFINE old == Releases[baseline]
  <2>1. Reconciled = [live EXCEPT !.fields = MergedFields(@, old.fields, Shipped.fields),
                                  !.subs = Appended(@, Shipped.subs, old.subs)]
    BY <1>3 DEF Reconciled
  <2>2. Reconciled.fields = MergedFields(store.fields, old.fields, Shipped.fields)
    BY <2>1, <1>1
  <2>3. Reconciled.fields[f] = IF store.fields[f] = old.fields[f] THEN Shipped.fields[f]
                                                                  ELSE store.fields[f]
    BY <2>2 DEF MergedFields
  <2>4. store.fields[f] = old.fields[f] /\ Reconciled.fields[f] = Shipped.fields[f]
    BY <2>3
  <2>5. baseline # release
    BY <2>4 DEF Shipped
  <2>6. baseline \in 1..release - 1
    BY <1>3, <2>5 DEF ReleasesKnown
  <2> QED BY <2>4, <2>6
<1> QED BY <1>2, <1>3

\* A step that moves neither the installed release nor, while a start is
\* under way, the copies keeps the invariant.
LEMMA UpgradeUndisturbed ==
    ASSUME UpgradeInv, phase' = phase, phase \in {"up", "down"}, release' = release,
           baseline' \in {baseline, release}
    PROVE  UpgradeInv'
BY DEF UpgradeInv, ReleasesKnown, LoadedIsStored, MergedFollows

LEMMA UpgradeInductive == UpgradeInv /\ [Next]_vars => UpgradeInv'
<1> SUFFICES ASSUME UpgradeInv, [Next]_vars PROVE UpgradeInv'
  OBVIOUS
<1>0. Len(Releases) \in Nat
  BY ReleasesShip
<1>1. CASE ProgramStarts
  BY <1>1, <1>0 DEF ProgramStarts, saved, UpgradeInv, ReleasesKnown, LoadedIsStored, MergedFollows
<1>2. CASE ProgramStops
  BY <1>2 DEF ProgramStops, saved, UpgradeInv, ReleasesKnown, LoadedIsStored, MergedFollows
<1>3. CASE Boot
  <2>1. CASE BootMigrates
    BY <2>1 DEF BootMigrates, Boots, Seeds, Unpinned,
                UpgradeInv, ReleasesKnown, LoadedIsStored, MergedFollows
  <2>2. CASE BootNeuters
    BY <2>2 DEF BootNeuters, Boots, running, Unpinned,
                UpgradeInv, ReleasesKnown, LoadedIsStored, MergedFollows
  <2>3. CASE BootSeeds
    BY <2>3 DEF BootSeeds, Boots, Seeds, Unpinned,
                UpgradeInv, ReleasesKnown, LoadedIsStored, MergedFollows
  <2>4. CASE BootLoads
    BY <2>4 DEF BootLoads, Boots, saved, Unpinned,
                UpgradeInv, ReleasesKnown, LoadedIsStored, MergedFollows
  <2>5. CASE BootReconciles
    <3>1. live = Unpinned(store) /\ ReleasesKnown
      BY <2>5 DEF BootReconciles, Boots, UpgradeInv, LoadedIsStored
    <3>2. live' = Reconciled /\ store' = store /\ release' = release /\ baseline' = release
      BY <2>5 DEF BootReconciles, Boots
    <3>3. phase' \in {"serve", "save"}
      BY <2>5 DEF BootReconciles, Boots
    <3>4. ASSUME NEW f \in Fields, live'.fields[f] # store'.fields[f]
          PROVE  MayFollow(f)'
      <4>1. /\ Reconciled.fields[f] = Shipped.fields[f]
            /\ \E v \in 1..release - 1 : store.fields[f] = Releases[v].fields[f]
        BY <3>1, <3>2, <3>4, MergeFollows
      <4> QED BY <4>1, <3>2 DEF MayFollow, Shipped
    <3>5. ReleasesKnown'
      BY <3>1, <3>2, <1>0 DEF ReleasesKnown
    <3> QED BY <3>3, <3>4, <3>5 DEF UpgradeInv, LoadedIsStored, MergedFollows
  <2>6. CASE BootReconcileFails
    BY <2>6 DEF BootReconcileFails, Boots, saved,
                UpgradeInv, ReleasesKnown, LoadedIsStored, MergedFollows
  <2>7. CASE BootSaves
    BY <2>7 DEF BootSaves, Boots, UpgradeInv, ReleasesKnown, LoadedIsStored, MergedFollows
  <2>8. CASE BootServes
    BY <2>8 DEF BootServes, Boots, saved, UpgradeInv, ReleasesKnown, LoadedIsStored, MergedFollows
  <2> QED BY <1>3, <2>1, <2>2, <2>3, <2>4, <2>5, <2>6, <2>7, <2>8 DEF Boot
<1>4. CASE \E r \in Slots : Request(r)
  <2> SUFFICES ASSUME NEW r \in Slots, Request(r) PROVE UpgradeInv'
    BY <1>4
  <2>1. phase = "up" /\ phase' = phase /\ release' = release
    BY DEF Request, RequestArrives, RequestLoads, RequestApplies, RequestSaves,
           RequestSaveFails, RequestShows, RequestPublishes, Serves
  <2>2. baseline' \in {baseline, release}
    BY DEF Request, RequestArrives, RequestLoads, RequestApplies, RequestSaves,
           RequestSaveFails, RequestShows, RequestPublishes
  <2> QED BY <2>1, <2>2, UpgradeUndisturbed
<1>5. CASE Tui
  <2>1. phase = "up" /\ phase' = phase /\ release' = release
    BY <1>5 DEF Tui, TuiEdits, TuiPins, TuiSwitches, TuiSaveBegins, TuiSaves, TuiResets,
                TuiSyncsPin, Types, TuiReady
  <2>2. baseline' \in {baseline, release}
    BY <1>5 DEF Tui, TuiEdits, TuiPins, TuiSwitches, TuiSaveBegins, TuiSaves, TuiResets,
                TuiSyncsPin, saved
  <2> QED BY <2>1, <2>2, UpgradeUndisturbed
<1>6. CASE UNCHANGED vars
  BY <1>6 DEF vars, UpgradeInv, ReleasesKnown, LoadedIsStored, MergedFollows, MayFollow, Shipped
<1> QED BY <1>1, <1>2, <1>3, <1>4, <1>5, <1>6 DEF Next

\* The write that ends a start overrides no choice, for any releases and any
\* history of crashes, resets and edits before it (reconcile_with_defaults in
\* src/settings.rs).
THEOREM UpgradeKeepsSettings == Spec => BootKeepsSettings
<1>1. Init => UpgradeInv
  <2> SUFFICES ASSUME Init PROVE UpgradeInv
    OBVIOUS
  <2>1. Len(Releases) \in Nat /\ Len(Releases) # 0
    BY ReleasesShip
  <2> QED BY <2>1 DEF Init, UpgradeInv, ReleasesKnown, LoadedIsStored, MergedFollows
<1>2. UpgradeInv /\ [Next]_vars =>
        [phase = "save" /\ phase' = "serve" =>
           \A f \in Fields :
              store'.fields[f] # store.fields[f] =>
                  /\ store'.fields[f] = Shipped.fields[f]
                  /\ \E v \in 1..release - 1 : store.fields[f] = Releases[v].fields[f]]_vars
  <2> SUFFICES ASSUME UpgradeInv, Next, phase = "save", phase' = "serve",
                      NEW f \in Fields, store'.fields[f] # store.fields[f]
               PROVE  MayFollow(f) /\ store'.fields[f] = live.fields[f]
    BY DEF MayFollow
  <2>1. ASSUME NEW r \in Slots, Request(r) PROVE FALSE
    BY <2>1 DEF Request, RequestArrives, RequestLoads, RequestApplies, RequestSaves,
           RequestSaveFails, RequestShows, RequestPublishes, Serves
  <2>2. ~Tui
    BY DEF Tui, TuiEdits, TuiPins, TuiSwitches, TuiSaveBegins, TuiSaves, TuiResets,
           TuiSyncsPin, Types, TuiReady
  <2>3. ~ProgramStarts /\ ~ProgramStops
    BY DEF ProgramStarts, ProgramStops
  <2>4. BootSaves
    BY <2>1, <2>2, <2>3 DEF Next, Boot, BootMigrates, BootNeuters, BootSeeds, BootLoads,
           BootReconciles, BootReconcileFails, BootServes, Boots
  <2>5. store' = Base(live)
    BY <2>4 DEF BootSaves
  <2>6. store'.fields[f] = live.fields[f]
    BY <2>5 DEF Base
  <2> QED BY <2>6 DEF UpgradeInv, MergedFollows
<1> QED BY <1>1, <1>2, UpgradeInductive, PTL DEF Spec, BootKeepsSettings
----------------------------------------------------------------------------
(* Lists of subscriptions.                                                   *)

\* Induction over the naturals, stated for sets: the library's rule is about
\* an operator, which the provers cannot instantiate.
LEMMA LeastNatural ==
    ASSUME NEW T \in SUBSET Nat, T # {}
    PROVE  \E n \in T : \A m \in T : n <= m
<1>1. IsWellFoundedOn(OpToRel(<, Nat), Nat)
  BY NatLessThanWellFounded
<1>2. PICK n \in T : \A m \in T : ~(<<m, n>> \in OpToRel(<, Nat))
  BY <1>1, WFMin
<1>3. T \subseteq Nat
  OBVIOUS
<1>4. \A m \in T : ~(m < n)
  BY <1>2, <1>3 DEF OpToRel
<1>5. \A m \in T : n <= m
  BY <1>3, <1>4
<1> QED
  BY <1>5

LEMMA SetInduction ==
    ASSUME NEW T \in SUBSET Nat, 0 \in T, \A n \in Nat : n \in T => n + 1 \in T
    PROVE  T = Nat
<1> SUFFICES ASSUME T # Nat PROVE FALSE
  OBVIOUS
<1>1. PICK n \in Nat \ T : \A m \in Nat \ T : n <= m
  BY LeastNatural
<1>2. n # 0
  BY <1>1
<1>3. n - 1 \in T
  BY <1>1, <1>2
<1> QED
  BY <1>1, <1>2, <1>3

\* The loop of append_missing_subscriptions after n rows: it runs to its end,
\* and what holds before and across a row holds at the end.
Loop(g, own, new, old, n) ==
    g = [i \in 0..n |-> IF i = 0 THEN own ELSE Joined(g[i - 1], new[i], old)]

LEMMA LoopRuns ==
    ASSUME NEW own, NEW new, NEW old
    PROVE  \A n \in Nat : \E g : Loop(g, own, new, old, n)
<1> DEFINE T == {n \in Nat : \E g : Loop(g, own, new, old, n)}
<1>1. 0 \in T
  <2> DEFINE g == [i \in 0..0 |-> own]
  <2>1. Loop(g, own, new, old, 0)
    BY DEF Loop
  <2> QED
    BY <2>1
<1>2. ASSUME NEW n \in Nat, n \in T PROVE n + 1 \in T
  <2>1. PICK g : Loop(g, own, new, old, n)
    BY <1>2
  <2> DEFINE h == [i \in 0..n + 1 |-> IF i = n + 1 THEN Joined(g[n], new[n + 1], old) ELSE g[i]]
  <2>2. \A i \in 0..n + 1 : h[i] = IF i = 0 THEN own ELSE Joined(h[i - 1], new[i], old)
    <3>1. TAKE i \in 0..n + 1
    <3>2. CASE i = n + 1
      BY <3>2
    <3>3. CASE i # n + 1
      <4>1. i \in 0..n /\ h[i] = g[i] /\ (i # 0 => h[i - 1] = g[i - 1])
        BY <3>3
      <4>2. g[i] = IF i = 0 THEN own ELSE Joined(g[i - 1], new[i], old)
        BY <2>1, <4>1 DEF Loop
      <4> HIDE DEF h
      <4> QED
        BY <4>1, <4>2
    <3> QED
      BY <3>2, <3>3
  <2>3. Loop(h, own, new, old, n + 1)
    BY <2>2 DEF Loop
  <2> QED
    BY <2>3
<1> HIDE DEF T
<1>3. T \in SUBSET Nat
  BY DEF T
<1>4. T = Nat
  BY <1>1, <1>2, <1>3, SetInduction
<1> QED
  BY <1>4 DEF T

LEMMA AppendedIsLoop ==
    ASSUME NEW own, NEW new, Len(new) \in Nat, NEW old
    PROVE  \E g : Loop(g, own, new, old, Len(new)) /\ Appended(own, new, old) = g[Len(new)]
<1> DEFINE g == CHOOSE g : Loop(g, own, new, old, Len(new))
<1>1. Loop(g, own, new, old, Len(new))
  BY LoopRuns
<1>2. Appended(own, new, old) = g[Len(new)]
  BY DEF Appended, Loop
<1> QED
  BY <1>1, <1>2

\* A list of rows that names a URL once.
Good(list) == list \in Seq(Rows) /\ Unique(list)

LEMMA UrlsOfAppend ==
    ASSUME NEW list \in Seq(Rows), NEW row \in Rows
    PROVE  /\ Append(list, row) \in Seq(Rows) /\ Len(Append(list, row)) = Len(list) + 1
           /\ \A i \in DOMAIN list : Append(list, row)[i] = list[i]
           /\ Append(list, row)[Len(list) + 1] = row
           /\ DOMAIN Append(list, row) = DOMAIN list \cup {Len(list) + 1}
           /\ UrlsOf(Append(list, row)) = UrlsOf(list) \cup {row.url}
<1>1. /\ Append(list, row) \in Seq(Rows) /\ Len(Append(list, row)) = Len(list) + 1
      /\ \A i \in 1 .. Len(list) : Append(list, row)[i] = list[i]
      /\ Append(list, row)[Len(list) + 1] = row
  BY AppendProperties
<1>2. Len(list) \in Nat /\ DOMAIN list = 1..Len(list) /\ DOMAIN Append(list, row) = 1..Len(list) + 1
  BY <1>1, LenProperties
<1>3. DOMAIN Append(list, row) = DOMAIN list \cup {Len(list) + 1}
  BY <1>2
<1>4. UrlsOf(Append(list, row)) = UrlsOf(list) \cup {row.url}
  BY <1>1, <1>2, <1>3 DEF UrlsOf
<1> QED
  BY <1>1, <1>2, <1>3, <1>4

\* What a start's list has of what it was: everything, in front, and of the
\* release only what neither the user nor the snapshot had.
Extends(list, own) ==
    /\ list \in Seq(Rows) /\ Len(own) <= Len(list)
    /\ \A i \in DOMAIN own : list[i] = own[i]

LEMMA JoinedExtends ==
    ASSUME NEW own \in Seq(Rows), NEW list, Extends(list, own), NEW row \in Rows, NEW old
    PROVE  LET joined == Joined(list, row, old)
           IN /\ Extends(joined, own)
              /\ Unique(list) => Unique(joined)
              /\ UrlsOf(joined) \subseteq UrlsOf(list) \cup ({row.url} \ UrlsOf(old))
<1> DEFINE more == Append(list, row)
<1>1. /\ Len(list) \in Nat /\ DOMAIN list = 1..Len(list)
      /\ Len(own) \in Nat /\ DOMAIN own = 1..Len(own) /\ DOMAIN own \subseteq DOMAIN list
  BY LenProperties DEF Extends
<1>2. /\ more \in Seq(Rows) /\ Len(more) = Len(list) + 1
      /\ \A i \in DOMAIN list : more[i] = list[i]
      /\ more[Len(list) + 1] = row
      /\ DOMAIN more = DOMAIN list \cup {Len(list) + 1}
      /\ UrlsOf(more) = UrlsOf(list) \cup {row.url}
  BY UrlsOfAppend DEF Extends
<1> HIDE DEF more
<1>3. CASE row.url \in UrlsOf(list) \cup UrlsOf(old)
  BY <1>3 DEF Joined
<1>4. CASE row.url \notin UrlsOf(list) \cup UrlsOf(old)
  <2>1. Joined(list, row, old) = more
    BY <1>4 DEF Joined, more
  <2>2. Extends(more, own)
    BY <1>1, <1>2 DEF Extends
  <2>3. ASSUME Unique(list) PROVE Unique(more)
    <3>1. \A i \in DOMAIN list : list[i].url # row.url
      BY <1>4 DEF UrlsOf
    <3> QED
      BY <1>1, <1>2, <2>3, <3>1 DEF Unique
  <2> QED
    BY <1>2, <1>4, <2>1, <2>2, <2>3
<1> QED
  BY <1>3, <1>4

LEMMA AppendedExtends ==
    ASSUME NEW own \in Seq(Rows), NEW new \in Seq(Rows), NEW old
    PROVE  LET list == Appended(own, new, old)
           IN /\ Extends(list, own)
              /\ Unique(own) => Unique(list)
              /\ UrlsOf(list) \subseteq UrlsOf(own) \cup (UrlsOf(new) \ UrlsOf(old))
<1>1. Len(new) \in Nat /\ DOMAIN new = 1..Len(new) /\ \A i \in 1..Len(new) : new[i] \in Rows
  BY LenProperties, ElementOfSeq
<1>2. PICK g : Loop(g, own, new, old, Len(new)) /\ Appended(own, new, old) = g[Len(new)]
  BY <1>1, AppendedIsLoop
<1> DEFINE Holds(list) == /\ Extends(list, own)
                          /\ Unique(own) => Unique(list)
                          /\ UrlsOf(list) \subseteq UrlsOf(own) \cup (UrlsOf(new) \ UrlsOf(old))
           T == {n \in Nat : n <= Len(new) => Holds(g[n])}
<1>3. g[0] = own /\ \A i \in 1..Len(new) : g[i] = Joined(g[i - 1], new[i], old)
  <2>1. \A i \in 0..Len(new) : g[i] = IF i = 0 THEN own ELSE Joined(g[i - 1], new[i], old)
    BY <1>2 DEF Loop
  <2> QED
    BY <1>1, <2>1
<1>4. 0 \in T
  <2>1. Extends(own, own)
    BY LenProperties DEF Extends
  <2> QED
    BY <1>3, <2>1
<1>5. ASSUME NEW n \in Nat, n \in T PROVE n + 1 \in T
  <2> SUFFICES ASSUME n + 1 <= Len(new) PROVE Holds(g[n + 1])
    OBVIOUS
  <2>1. n <= Len(new) /\ n + 1 \in 1..Len(new)
    BY <1>1
  <2>2. Holds(g[n])
    BY <1>5, <2>1
  <2>3. g[n + 1] = Joined(g[n], new[n + 1], old) /\ new[n + 1] \in Rows
    BY <1>1, <1>3, <2>1
  <2>4. /\ Extends(g[n + 1], own)
        /\ Unique(g[n]) => Unique(g[n + 1])
        /\ UrlsOf(g[n + 1]) \subseteq UrlsOf(g[n]) \cup ({new[n + 1].url} \ UrlsOf(old))
    BY <2>2, <2>3, JoinedExtends
  <2>5. new[n + 1].url \in UrlsOf(new)
    BY <1>1, <2>1 DEF UrlsOf
  <2> QED
    BY <2>2, <2>4, <2>5
<1> HIDE DEF T, Holds
<1>6. T = Nat
  <2>1. T \in SUBSET Nat
    BY DEF T
  <2> QED
    BY <1>4, <1>5, <2>1, SetInduction
<1>7. Holds(g[Len(new)])
  BY <1>1, <1>6 DEF T
<1> QED
  BY <1>2, <1>7 DEF Holds

\* RemoveAt and InsertAt, position by position (the same facts as in TerminalProofs,
\* whose variables differ).
LEMMA Removed ==
    ASSUME NEW S, NEW s \in Seq(S), NEW k \in DOMAIN s
    PROVE  /\ RemoveAt(s, k) \in Seq(S) /\ Len(RemoveAt(s, k)) = Len(s) - 1
           /\ \A i \in DOMAIN RemoveAt(s, k) : RemoveAt(s, k)[i] = IF i < k THEN s[i] ELSE s[i + 1]
<1> DEFINE left == SubSeq(s, 1, k - 1)
           right == SubSeq(s, k + 1, Len(s))
<1>1. k \in 1 .. Len(s) /\ Len(s) \in Nat /\ \A i \in 1 .. Len(s) : s[i] \in S
  BY ElementOfSeq, LenProperties
<1>2. /\ left \in Seq(S) /\ Len(left) = k - 1
      /\ \A i \in 1 .. k - 1 : left[i] = s[i]
  BY <1>1, SubSeqProperties
<1>3. /\ right \in Seq(S) /\ Len(right) = Len(s) - k
      /\ \A i \in 1 .. Len(s) - k : right[i] = s[k + i]
  <2>1. \A i \in k + 1 .. Len(s) : s[i] \in S
    BY <1>1
  <2>2. /\ right \in Seq(S) /\ Len(right) = IF k + 1 <= Len(s) THEN Len(s) - (k + 1) + 1 ELSE 0
        /\ \A i \in 1 .. Len(s) - (k + 1) + 1 : right[i] = s[k + 1 + i - 1]
    BY <1>1, <2>1, SubSeqProperties
  <2> QED
    BY <1>1, <2>2
<1>4. RemoveAt(s, k) = left \o right
  BY DEF RemoveAt
<1>5. /\ left \o right \in Seq(S) /\ Len(left \o right) = Len(left) + Len(right)
      /\ \A i \in 1 .. Len(left) + Len(right) :
            (left \o right)[i] = IF i <= Len(left) THEN left[i] ELSE right[i - Len(left)]
  BY <1>2, <1>3, ConcatProperties
<1>6. DOMAIN (left \o right) = 1 .. Len(left \o right)
  BY <1>5, LenProperties
<1> HIDE DEF left, right
<1>7. \A i \in 1 .. Len(left) + Len(right) :
        (left \o right)[i] = IF i < k THEN s[i] ELSE s[i + 1]
  <2>1. TAKE i \in 1 .. Len(left) + Len(right)
  <2>2. CASE i < k
    BY <1>1, <1>2, <1>3, <1>5, <2>2
  <2>3. CASE ~(i < k)
    <3>1. i - (k - 1) \in 1 .. Len(s) - k /\ k + (i - (k - 1)) = i + 1
      <4>1. k \in Nat /\ Len(s) \in Nat /\ i \in 1 .. Len(s) - 1
        BY <1>1, <1>2, <1>3, <2>1
      <4>2. \A m, n, j \in Nat : j <= n - 1 /\ ~(j < m) =>
              j - (m - 1) \in 1 .. n - m /\ m + (j - (m - 1)) = j + 1
        OBVIOUS
      <4> QED
        BY <4>1, <4>2, <2>3
    <3>2. right[i - (k - 1)] = s[i + 1]
      BY <1>3, <3>1
    <3>3. (left \o right)[i] = right[i - (k - 1)]
      BY <1>1, <1>2, <1>3, <1>5, <2>3
    <3> QED
      BY <2>3, <3>2, <3>3
  <2> QED
    BY <2>2, <2>3
<1>8. Len(left) + Len(right) = Len(s) - 1
  BY <1>1, <1>2, <1>3
<1> QED
  BY <1>4, <1>5, <1>6, <1>7, <1>8

LEMMA Inserted ==
    ASSUME NEW S, NEW s \in Seq(S), NEW k \in 1 .. Len(s) + 1, NEW e \in S
    PROVE  /\ InsertAt(s, k, e) \in Seq(S) /\ Len(InsertAt(s, k, e)) = Len(s) + 1
           /\ \A i \in DOMAIN InsertAt(s, k, e) :
                 InsertAt(s, k, e)[i] = IF i < k THEN s[i] ELSE IF i = k THEN e ELSE s[i - 1]
<1> DEFINE left == SubSeq(s, 1, k - 1)
           right == SubSeq(s, k, Len(s))
           front == left \o <<e>>
<1>1. Len(s) \in Nat /\ \A i \in 1 .. Len(s) : s[i] \in S
  BY ElementOfSeq, LenProperties
<1>2. /\ left \in Seq(S) /\ Len(left) = k - 1
      /\ \A i \in 1 .. k - 1 : left[i] = s[i]
  BY <1>1, SubSeqProperties
<1>3. /\ right \in Seq(S) /\ Len(right) = Len(s) - k + 1
      /\ \A i \in 1 .. Len(s) - k + 1 : right[i] = s[k + i - 1]
  <2>1. \A i \in k .. Len(s) : s[i] \in S
    BY <1>1
  <2> QED
    BY <1>1, <2>1, SubSeqProperties
<1>4. /\ front \in Seq(S) /\ Len(front) = k
      /\ \A i \in 1 .. k : front[i] = IF i <= k - 1 THEN s[i] ELSE e
  <2>1. <<e>> \in Seq(S) /\ Len(<<e>>) = 1 /\ <<e>>[1] = e
    OBVIOUS
  <2>2. /\ front \in Seq(S) /\ Len(front) = Len(left) + 1
        /\ \A i \in 1 .. Len(left) + 1 : front[i] = IF i <= Len(left) THEN left[i] ELSE <<e>>[i - Len(left)]
    BY <1>2, <2>1, ConcatProperties
  <2> HIDE DEF left, front
  <2> QED
    BY <1>2, <2>1, <2>2
<1>5. InsertAt(s, k, e) = front \o right
  BY DEF InsertAt
<1>6. /\ front \o right \in Seq(S) /\ Len(front \o right) = Len(front) + Len(right)
      /\ \A i \in 1 .. Len(front) + Len(right) :
            (front \o right)[i] = IF i <= Len(front) THEN front[i] ELSE right[i - Len(front)]
  BY <1>3, <1>4, ConcatProperties
<1>7. DOMAIN (front \o right) = 1 .. Len(front \o right)
  BY <1>6, LenProperties
<1> HIDE DEF left, right, front
<1>8. Len(front) + Len(right) = Len(s) + 1 /\ k \in Nat
  BY <1>1, <1>3, <1>4
<1>9. \A i \in 1 .. Len(front) + Len(right) :
        (front \o right)[i] = IF i < k THEN s[i] ELSE IF i = k THEN e ELSE s[i - 1]
  <2>1. TAKE i \in 1 .. Len(front) + Len(right)
  <2>2. i \in 1 .. Len(s) + 1 /\ Len(s) \in Nat /\ k \in 1 .. Len(s) + 1
    BY <1>1, <1>8, <2>1
  <2>3. CASE i < k
    <3>1. (front \o right)[i] = front[i] /\ i \in 1 .. k /\ i <= k - 1
      BY <1>4, <1>6, <2>2, <2>3, <2>1
    <3> QED
      BY <1>4, <2>3, <3>1
  <2>4. CASE i = k
    <3>1. (front \o right)[i] = front[i] /\ i \in 1 .. k /\ ~(i <= k - 1) /\ ~(i < k)
      BY <1>4, <1>6, <2>2, <2>4, <2>1
    <3> QED
      BY <1>4, <2>4, <3>1
  <2>5. CASE k < i
    <3>1. i - k \in 1 .. Len(s) - k + 1 /\ k + (i - k) - 1 = i - 1 /\ ~(i < k) /\ i # k
      BY <2>2, <2>5
    <3>2. (front \o right)[i] = right[i - k]
      BY <1>4, <1>6, <2>1, <2>2, <2>5
    <3>3. right[i - k] = s[i - 1]
      BY <1>3, <3>1
    <3> QED
      BY <3>1, <3>2, <3>3
  <2> QED
    BY <2>2, <2>3, <2>4, <2>5
<1>10. DOMAIN (front \o right) = 1 .. Len(front) + Len(right)
  BY <1>6, <1>7
<1> QED
  BY <1>5, <1>6, <1>8, <1>9, <1>10


\* A list that takes every URL from a row of its own of a list that names a
\* URL once names a URL once.
LEMMA Rearranged ==
    ASSUME NEW list, NEW moved, NEW from, Unique(list),
           \A i \in DOMAIN moved : from[i] \in DOMAIN list /\ moved[i].url = list[from[i]].url,
           \A i, j \in DOMAIN moved : from[i] = from[j] => i = j
    PROVE  Unique(moved)
BY DEF Unique

LEMMA RemovedKeeps ==
    ASSUME NEW list \in Seq(Rows), NEW index \in DOMAIN list
    PROVE  /\ RemoveAt(list, index) \in Seq(Rows)
           /\ Len(RemoveAt(list, index)) = Len(list) - 1
           /\ Unique(list) => Unique(RemoveAt(list, index))
<1> DEFINE rest == RemoveAt(list, index)
           from == [i \in DOMAIN rest |-> IF i < index THEN i ELSE i + 1]
<1>1. /\ rest \in Seq(Rows) /\ Len(rest) = Len(list) - 1
      /\ \A i \in DOMAIN rest : rest[i] = IF i < index THEN list[i] ELSE list[i + 1]
  BY Removed
<1>2. DOMAIN rest = 1..Len(list) - 1 /\ DOMAIN list = 1..Len(list) /\ Len(list) \in Nat
  BY <1>1, LenProperties
<1> HIDE DEF rest
<1>3. ASSUME Unique(list) PROVE Unique(rest)
  <2>1. \A i \in DOMAIN rest : from[i] \in DOMAIN list /\ rest[i].url = list[from[i]].url
    BY <1>1, <1>2
  <2>2. \A i, j \in DOMAIN rest : from[i] = from[j] => i = j
    BY <1>2
  <2> HIDE DEF from
  <2> QED
    BY <1>3, <2>1, <2>2, Rearranged
<1> QED
  BY <1>1, <1>3 DEF rest

LEMMA MovedKeeps ==
    ASSUME NEW list \in Seq(Rows), NEW index \in DOMAIN list, NEW rank \in Nat \ {0}
    PROVE  /\ MoveToRank(list, index, rank) \in Seq(Rows)
           /\ Unique(list) => Unique(MoveToRank(list, index, rank))
<1> DEFINE rest == RemoveAt(list, index)
           slot == IF rank > Len(rest) + 1 THEN Len(rest) + 1 ELSE rank
           moved == InsertAt(rest, slot, list[index])
           from == [i \in DOMAIN moved |->
                      IF i = slot THEN index
                      ELSE LET k == IF i < slot THEN i ELSE i - 1
                           IN IF k < index THEN k ELSE k + 1]
<1>0. MoveToRank(list, index, rank) = moved
  BY DEF MoveToRank
<1>1. /\ rest \in Seq(Rows) /\ Len(rest) = Len(list) - 1
      /\ \A i \in DOMAIN rest : rest[i] = IF i < index THEN list[i] ELSE list[i + 1]
  BY Removed
<1>2. DOMAIN rest = 1..Len(list) - 1 /\ DOMAIN list = 1..Len(list) /\ Len(list) \in Nat
  BY <1>1, LenProperties
<1>3. list[index] \in Rows
  BY ElementOfSeq, <1>2
<1> HIDE DEF rest
<1>4. slot \in 1..Len(rest) + 1
  BY <1>1, <1>2
<1> HIDE DEF slot
<1>5. /\ moved \in Seq(Rows) /\ Len(moved) = Len(rest) + 1
      /\ \A i \in DOMAIN moved :
            moved[i] = IF i < slot THEN rest[i] ELSE IF i = slot THEN list[index] ELSE rest[i - 1]
  BY <1>1, <1>3, <1>4, Inserted
<1>6. DOMAIN moved = 1..Len(list)
  BY <1>1, <1>2, <1>5, LenProperties
<1> HIDE DEF moved
<1>7. ASSUME Unique(list) PROVE Unique(moved)
  <2>1. ASSUME NEW i \in DOMAIN moved
        PROVE  from[i] \in DOMAIN list /\ moved[i].url = list[from[i]].url
    <3>1. i \in Nat /\ slot \in Nat /\ index \in Nat
      BY <1>2, <1>4, <1>6
    <3>2. CASE i = slot
      BY <1>5, <3>1, <3>2
    <3>3. CASE i < slot
      <4>1. i \in DOMAIN rest /\ moved[i] = rest[i]
        BY <1>1, <1>2, <1>4, <1>5, <1>6, <3>3
      <4>2. from[i] = IF i < index THEN i ELSE i + 1
        BY <3>1, <3>3
      <4> QED
        BY <1>1, <1>2, <4>1, <4>2
    <3>4. CASE slot < i
      <4>1. i - 1 \in DOMAIN rest /\ moved[i] = rest[i - 1]
        BY <1>1, <1>2, <1>4, <1>5, <1>6, <3>4
      <4>2. from[i] = IF i - 1 < index THEN i - 1 ELSE (i - 1) + 1
        BY <3>1, <3>4
      <4> QED
        BY <1>1, <1>2, <4>1, <4>2
    <3> QED
      BY <3>1, <3>2, <3>3, <3>4
  <2>2. \A i, j \in DOMAIN moved : from[i] = from[j] => i = j
    BY <1>1, <1>2, <1>4, <1>6
  <2> HIDE DEF from
  <2> QED
    BY <1>7, <2>1, <2>2, Rearranged
<1> QED
  BY <1>0, <1>5, <1>7

----------------------------------------------------------------------------
(* Edits.                                                                    *)

\* A new order names every row of the list it was made from once.
Permutes(order) ==
    /\ order \in Seq(Nat)
    /\ \A i \in DOMAIN order : order[i] \in DOMAIN order
    /\ \A i, j \in DOMAIN order : order[i] = order[j] => i = j

\* What the program relies on in an edit, whichever list it was aimed at.
Sound(e) ==
    /\ e \in Edits
    /\ e.kind \in {"set", "switch"} => e.field \in Fields /\ e.value \in Values[e.field]
    /\ e.kind = "pin" => e.uri \in Uris \cup {NoUri}
    /\ e.kind \in {"add", "url"} => e.url \in Urls
    /\ e.kind \in {"add", "move"} => e.rank \in Nat \ {0}
    /\ e.kind = "reorder" => Permutes(e.order)

LEMMA SettingsSound ==
    ASSUME NEW e \in SettingEdits \cup SwitchEdits \cup PinEdits \cup ResetEdits
    PROVE  Sound(e) /\ e.kind \in {"set", "switch", "pin", "reset"}
<1>0. Switches \subseteq Fields
  BY FieldsKnown
<1>1. CASE e \in SettingEdits
  BY <1>1 DEF SettingEdits, Sound, Edits
<1>2. CASE e \in SwitchEdits
  BY <1>0, <1>2 DEF SwitchEdits, Sound, Edits
<1>3. CASE e \in PinEdits
  BY <1>3 DEF PinEdits, Sound, Edits
<1>4. CASE e \in ResetEdits
  BY <1>4 DEF ResetEdits, Sound, Edits
<1> QED
  BY <1>1, <1>2, <1>3, <1>4

LEMMA RowsSound ==
    ASSUME NEW list \in Seq(Rows), NEW e \in ListEdits(list)
    PROVE  Sound(e) /\ e.kind \in Addressed \cup {"add"}
<1>1. Len(list) \in Nat /\ DOMAIN list = 1..Len(list) /\ \A i \in DOMAIN list : list[i].url \in Urls
  <2>1. Len(list) \in Nat /\ DOMAIN list = 1..Len(list)
    BY LenProperties
  <2>2. \A i \in DOMAIN list : list[i] \in Rows
    BY <2>1, ElementOfSeq
  <2> QED
    BY <2>1, <2>2 DEF Rows
<1>2. CASE e \in AddEdits(list)
  <2>1. e.kind = "add" /\ e.url \in Urls /\ e.rank \in Nat \ {0}
    BY <1>1, <1>2 DEF AddEdits
  <2>2. e \in [kind : {"add"}, url : Urls, rank : Nat]
    BY <1>1, <1>2 DEF AddEdits
  <2> QED
    BY <2>1, <2>2 DEF Sound, Edits
<1>3. CASE e \in RowEdits(list)
  <2>1. PICK i \in DOMAIN list :
           e \in [kind : {"delete", "toggle"}, index : {i}, meant : {list[i].url}]
                 \cup [kind : {"move"}, index : {i}, meant : {list[i].url}, rank : DOMAIN list]
                 \cup [kind : {"url"}, index : {i}, meant : {list[i].url}, url : Urls]
    BY <1>3 DEF RowEdits
  <2>2. CASE e \in [kind : {"delete", "toggle"}, index : {i}, meant : {list[i].url}]
    <3>1. e \in [kind : {"delete", "toggle"}, index : Nat, meant : Urls]
      BY <1>1, <2>2
    <3> QED
      BY <2>2, <3>1 DEF Sound, Edits, Addressed
  <2>3. CASE e \in [kind : {"move"}, index : {i}, meant : {list[i].url}, rank : DOMAIN list]
    <3>1. /\ e \in [kind : {"move"}, index : Nat, meant : Urls, rank : Nat]
          /\ e.kind = "move" /\ e.rank \in Nat \ {0}
      BY <1>1, <2>3
    <3> QED
      BY <3>1 DEF Sound, Edits, Addressed
  <2>4. CASE e \in [kind : {"url"}, index : {i}, meant : {list[i].url}, url : Urls]
    <3>1. e \in [kind : {"url"}, index : Nat, meant : Urls, url : Urls] /\ e.kind = "url"
      BY <1>1, <2>4
    <3> QED
      BY <3>1 DEF Sound, Edits, Addressed
  <2> QED
    BY <2>1, <2>2, <2>3, <2>4
<1> QED
  BY <1>2, <1>3 DEF ListEdits

LEMMA OrdersSound ==
    ASSUME NEW list \in Seq(Rows), NEW e \in ReorderEdits(list)
    PROVE  Sound(e) /\ e.kind = "reorder"
<1>1. Len(list) \in Nat /\ DOMAIN list = 1..Len(list)
  BY LenProperties
<1>2. Cardinality(DOMAIN list) = Len(list)
  BY <1>1, FS_Interval
<1>3. /\ e.kind = "reorder" /\ e \in [kind : {"reorder"}, order : SetToSeqs(DOMAIN list)]
      /\ e.order \in [1..Len(list) -> 1..Len(list)]
      /\ \A i, j \in 1..Len(list) : i # j => e.order[i] # e.order[j]
  BY <1>1, <1>2 DEF ReorderEdits, SetToSeqs
<1>4. e.order \in Seq(Nat) /\ DOMAIN e.order = 1..Len(list)
  <2>1. e.order \in [1..Len(list) -> Nat]
    BY <1>1, <1>3
  <2> QED
    BY <1>1, <2>1, SeqDef
<1>5. Permutes(e.order)
  BY <1>3, <1>4 DEF Permutes
<1>6. e \in [kind : {"reorder"}, order : Seq(Nat)]
  BY <1>3, <1>4
<1> QED
  BY <1>3, <1>5, <1>6 DEF Sound, Edits

\* An edit that is not refused leaves a list of rows, and no twins where there
\* were none: what find_duplicate_subscription_url is for.
LEMMA EditKeepsList ==
    ASSUME NEW list \in Seq(Rows), NEW e, Sound(e), ~Refused(e, list)
    PROVE  LET edited == EditedList(e, list)
           IN edited \in Seq(Rows) /\ (Unique(list) => Unique(edited))
<1> DEFINE edited == EditedList(e, list)
<1>0. /\ Len(list) \in Nat /\ DOMAIN list = 1..Len(list)
      /\ \A i \in DOMAIN list : list[i] \in Rows
  <2>1. Len(list) \in Nat /\ DOMAIN list = 1..Len(list)
    BY LenProperties
  <2> QED
    BY <2>1, ElementOfSeq
<1>1. e.kind \in Addressed => e.index \in DOMAIN list
  BY DEF Refused
<1>2. CASE e.kind = "add"
  <2> DEFINE row == [url |-> e.url, enabled |-> TRUE]
             more == Append(list, row)
  <2>1. row \in Rows /\ e.rank \in Nat \ {0}
    BY <1>2 DEF Sound, Rows
  <2>2. row.url \notin UrlsOf(list)
    <3>1. \A i \in DOMAIN list : i # 0
      BY <1>0
    <3> QED
      BY <1>2, <3>1 DEF Refused, Duplicate, UrlsOf
  <2> HIDE DEF row
  <2>3. /\ more \in Seq(Rows) /\ Len(more) = Len(list) + 1
        /\ \A i \in DOMAIN list : more[i] = list[i]
        /\ more[Len(list) + 1] = row
        /\ DOMAIN more = DOMAIN list \cup {Len(list) + 1}
    BY <2>1, UrlsOfAppend
  <2> HIDE DEF more
  <2>4. ASSUME Unique(list) PROVE Unique(more)
    <3>1. \A i \in DOMAIN list : list[i].url # row.url
      BY <2>2 DEF UrlsOf
    <3> QED
      BY <2>3, <2>4, <3>1 DEF Unique
  <2>5. edited = MoveToRank(more, Len(list) + 1, e.rank)
    BY <1>2 DEF EditedList, more, row
  <2>6. Len(list) + 1 \in DOMAIN more
    BY <2>3
  <2> QED
    BY <2>1, <2>3, <2>4, <2>5, <2>6, MovedKeeps
<1>3. CASE e.kind = "delete"
  <2>1. e.index \in DOMAIN list /\ edited = RemoveAt(list, e.index)
    BY <1>1, <1>3 DEF EditedList, Addressed
  <2> QED
    BY <2>1, RemovedKeeps
<1>4. CASE e.kind = "toggle"
  <2>1. e.index \in DOMAIN list /\ edited = [list EXCEPT ![e.index].enabled = ~@]
    BY <1>1, <1>4 DEF EditedList, Addressed
  <2>2. [list[e.index] EXCEPT !.enabled = ~@] \in Rows
    BY <1>0, <2>1 DEF Rows
  <2>3. edited \in Seq(Rows)
    BY <2>1, <2>2, <1>0, ExceptSeq
  <2>4. DOMAIN edited = DOMAIN list /\ \A i \in DOMAIN list : edited[i].url = list[i].url
    BY <1>0, <2>1 DEF Rows
  <2> QED
    BY <2>3, <2>4 DEF Unique
<1>5. CASE e.kind = "url"
  <2>1. e.index \in DOMAIN list /\ edited = [list EXCEPT ![e.index].url = e.url]
    BY <1>1, <1>5 DEF EditedList, Addressed
  <2>2. [list[e.index] EXCEPT !.url = e.url] \in Rows
    BY <1>0, <1>5, <2>1 DEF Rows, Sound
  <2>3. edited \in Seq(Rows)
    BY <2>1, <2>2, <1>0, ExceptSeq
  <2>4. /\ DOMAIN edited = DOMAIN list
        /\ \A i \in DOMAIN list : edited[i].url = IF i = e.index THEN e.url ELSE list[i].url
    BY <1>0, <2>1 DEF Rows
  <2>5. \A i \in DOMAIN list : i # e.index => list[i].url # e.url
    BY <1>5 DEF Refused, Duplicate
  <2> QED
    BY <2>3, <2>4, <2>5 DEF Unique
<1>6. CASE e.kind = "move"
  <2>1. e.index \in DOMAIN list /\ edited = MoveToRank(list, e.index, e.rank)
    BY <1>1, <1>6 DEF EditedList, Addressed
  <2>2. e.rank \in Nat \ {0}
    BY <1>6 DEF Sound
  <2> QED
    BY <2>1, <2>2, MovedKeeps
<1>7. CASE e.kind = "reorder"
  <2>1. edited = [i \in DOMAIN list |-> list[e.order[i]]]
    BY <1>7 DEF EditedList
  <2>2. /\ DOMAIN e.order = DOMAIN list
        /\ \A i \in DOMAIN list : e.order[i] \in DOMAIN list
        /\ \A i, j \in DOMAIN list : e.order[i] = e.order[j] => i = j
    <3>1. Len(e.order) = Len(list) /\ Permutes(e.order)
      BY <1>7 DEF Refused, Sound
    <3>2. DOMAIN e.order = 1..Len(e.order)
      BY <3>1, LenProperties DEF Permutes
    <3> QED
      BY <1>0, <3>1, <3>2 DEF Permutes
  <2>3. edited \in [1..Len(list) -> Rows]
    BY <1>0, <2>1, <2>2
  <2>4. edited \in Seq(Rows)
    BY <1>0, <2>3, SeqDef
  <2>5. ASSUME Unique(list) PROVE Unique(edited)
    <3>1. \A i \in DOMAIN edited :
             e.order[i] \in DOMAIN list /\ edited[i].url = list[e.order[i]].url
      BY <2>1, <2>2
    <3>2. \A i, j \in DOMAIN edited : e.order[i] = e.order[j] => i = j
      BY <2>1, <2>2
    <3> HIDE DEF edited
    <3> QED
      BY <2>5, <3>1, <3>2, Rearranged
  <2> QED
    BY <2>4, <2>5
<1>8. CASE e.kind \notin {"add", "delete", "toggle", "url", "move", "reorder"}
  BY <1>8 DEF EditedList
<1> QED
  BY <1>2, <1>3, <1>4, <1>5, <1>6, <1>7, <1>8

LEMMA ValuesTyped ==
    ASSUME NEW fields \in Settings, NEW f \in Fields, NEW value \in Values[f]
    PROVE  [fields EXCEPT ![f] = value] \in Settings
<1>1. value \in UNION Range(Values)
  BY FieldsKnown DEF Range
<1> QED
  BY <1>1 DEF Settings

LEMMA EitherTyped ==
    ASSUME NEW one \in Settings, NEW other \in Settings, NEW fields,
           fields = [f \in Fields |-> fields[f]],
           \A f \in Fields : fields[f] \in {one[f], other[f]}
    PROVE  fields \in Settings
BY DEF Settings

LEMMA ShippedTyped ==
    ASSUME NEW v \in 1..Len(Releases)
    PROVE  Releases[v] \in Preferred /\ Releases[v].fields \in Settings /\ Releases[v].subs \in Seq(Rows)
<1>1. Releases[v] \in Preferred
  BY ReleasesShip, ElementOfSeq
<1> QED
  BY <1>1 DEF Preferred

LEMMA EditKeepsConfig ==
    ASSUME NEW config \in Configs, NEW e, Sound(e), ~Refused(e, config.subs),
           release \in 1..Len(Releases)
    PROVE  /\ Edited(e, config) \in Configs
           /\ Unique(config.subs) => Unique(Edited(e, config).subs)
<1>1. config.fields \in Settings /\ config.subs \in Seq(Rows) /\ config.pin \in Uris \cup {NoUri}
  BY DEF Configs
<1>2. EditedFields(e, config.fields) \in Settings
  <2>1. CASE e.kind \in {"set", "switch"}
    <3>1. e.field \in Fields /\ e.value \in Values[e.field]
      BY <2>1 DEF Sound
    <3> QED
      BY <1>1, <2>1, <3>1, ValuesTyped DEF EditedFields
  <2>2. CASE e.kind = "reset"
    <3> DEFINE fields == ResetFields(config.fields)
    <3>1. EditedFields(e, config.fields) = fields
      BY <2>2 DEF EditedFields
    <3>2. \A f \in Fields : fields[f] \in {config.fields[f], Shipped.fields[f]}
      BY DEF ResetFields
    <3>3. fields = [f \in Fields |-> fields[f]]
      BY DEF ResetFields
    <3>4. Shipped.fields \in Settings
      BY ShippedTyped DEF Shipped
    <3> HIDE DEF fields
    <3> QED
      BY <1>1, <3>1, <3>2, <3>3, <3>4, EitherTyped
  <2>3. CASE e.kind \notin {"set", "switch", "reset"}
    BY <1>1, <2>3 DEF EditedFields
  <2> QED
    BY <2>1, <2>2, <2>3
<1>3. /\ EditedList(e, config.subs) \in Seq(Rows)
      /\ Unique(config.subs) => Unique(EditedList(e, config.subs))
  BY <1>1, EditKeepsList
<1>4. Edited(e, config).pin \in Uris \cup {NoUri}
  BY <1>1 DEF Edited, Sound
<1> QED
  BY <1>2, <1>3, <1>4 DEF Edited, Configs

----------------------------------------------------------------------------
(* Types.                                                                    *)

\* What the types rest on: the program runs on settings and a snapshot that
\* are stored - a merge can only be refused when there is a snapshot, because
\* without one it changes no setting - and every edit in flight is one the
\* user could make.
PrefsInv ==
    /\ TypeOK
    /\ requests \in [Slots -> Requests \cup {NoRequest}]
    /\ \A r \in Slots : requests[r] # NoRequest => Sound(requests[r].edit)
    /\ phase \notin {"down", "load"} => store \in Preferred
    /\ phase \in {"neuter", "reconcile"} => Valid(live.fields)
    /\ phase \in {"save", "serve", "up"} => baseline # 0

LEMMA ConfigsAreThere ==
    /\ NoConfig \notin Configs /\ NoPrefs \notin Preferred
    /\ NoTerminal \notin Terminals /\ NoRequest \notin Requests
<1>1. DOMAIN NoConfig = {"subs", "pin"} /\ DOMAIN NoPrefs = {"subs"}
  BY DEF NoConfig, NoPrefs
<1>2. \A config \in Configs : "fields" \in DOMAIN config
  BY DEF Configs
<1>3. \A prefs \in Preferred : "fields" \in DOMAIN prefs
  BY DEF Preferred
<1>4. NoTerminal.step = "off" /\ NoRequest.step = "idle"
  BY DEF NoTerminal, NoRequest
<1>5. \A t \in Terminals : t.step \in {"idle", "saving"}
  BY DEF Terminals
<1>6. \A q \in Requests : q.step \in {"fields", "list", "save", "show", "live"}
  BY DEF Requests
<1> QED
  BY <1>1, <1>2, <1>3, <1>4, <1>5, <1>6

LEMMA BaseTyped ==
    ASSUME NEW config \in Configs
    PROVE  Base(config) \in Preferred
BY DEF Configs, Base, Preferred

LEMMA UnpinnedTyped ==
    ASSUME NEW prefs \in Preferred
    PROVE  /\ Unpinned(prefs) \in Configs
           /\ Unpinned(prefs).fields = prefs.fields /\ Unpinned(prefs).subs = prefs.subs
BY DEF Configs, Unpinned, Preferred

LEMMA ReconciledTyped ==
    ASSUME PrefsInv, phase = "reconcile"
    PROVE  /\ Reconciled \in Configs
           /\ Extends(Reconciled.subs, live.subs)
           /\ Unique(live.subs) => Unique(Reconciled.subs)
           /\ baseline = 0 => Reconciled.fields = live.fields
           /\ UrlsOf(Reconciled.subs) \subseteq
                UrlsOf(live.subs) \cup (UrlsOf(Shipped.subs)
                   \ IF baseline = 0 THEN {} ELSE UrlsOf(Releases[baseline].subs))
<1>1. live \in Configs /\ baseline \in 0..Len(Releases) /\ release \in 1..Len(Releases)
  <2>1. Len(Releases) \in Nat /\ DOMAIN Releases = 1..Len(Releases)
    BY ReleasesShip, LenProperties
  <2> QED
    BY <2>1 DEF PrefsInv, TypeOK
<1>2. live.fields \in Settings /\ live.subs \in Seq(Rows) /\ live.pin \in Uris \cup {NoUri}
      /\ live = [fields |-> live.fields, subs |-> live.subs, pin |-> live.pin]
  BY <1>1 DEF Configs
<1>3. Shipped.fields \in Settings /\ Shipped.subs \in Seq(Rows)
  BY <1>1, ShippedTyped DEF Shipped
<1>4. CASE baseline = 0
  <2> DEFINE list == Appended(live.subs, Shipped.subs, <<>>)
  <2>1. /\ Extends(list, live.subs)
        /\ Unique(live.subs) => Unique(list)
        /\ UrlsOf(list) \subseteq UrlsOf(live.subs) \cup (UrlsOf(Shipped.subs) \ UrlsOf(<<>>))
    BY <1>2, <1>3, AppendedExtends
  <2> HIDE DEF list
  <2>2. Reconciled = [fields |-> live.fields, subs |-> list, pin |-> live.pin]
    BY <1>2, <1>4 DEF Reconciled, list
  <2>3. list \in Seq(Rows)
    BY <2>1 DEF Extends
  <2>4. Reconciled \in Configs
    BY <1>2, <2>2, <2>3 DEF Configs
  <2> QED
    BY <1>4, <2>1, <2>2, <2>4
<1>5. CASE baseline # 0
  <2> DEFINE old == Releases[baseline]
             list == Appended(live.subs, Shipped.subs, old.subs)
             fields == MergedFields(live.fields, old.fields, Shipped.fields)
  <2>1. /\ Extends(list, live.subs)
        /\ Unique(live.subs) => Unique(list)
        /\ UrlsOf(list) \subseteq UrlsOf(live.subs) \cup (UrlsOf(Shipped.subs) \ UrlsOf(old.subs))
    BY <1>2, <1>3, AppendedExtends
  <2>2. /\ \A f \in Fields : fields[f] \in {live.fields[f], Shipped.fields[f]}
        /\ fields = [f \in Fields |-> fields[f]]
    BY DEF MergedFields
  <2> HIDE DEF list, fields
  <2>3. fields \in Settings
    BY <1>2, <1>3, <2>2, EitherTyped
  <2>4. Reconciled = [fields |-> fields, subs |-> list, pin |-> live.pin]
    BY <1>2, <1>5 DEF Reconciled, list, fields
  <2>5. list \in Seq(Rows)
    BY <2>1 DEF Extends
  <2>6. Reconciled \in Configs
    BY <1>2, <2>3, <2>4, <2>5 DEF Configs
  <2> QED
    BY <1>5, <2>1, <2>4, <2>6
<1> QED
  BY <1>4, <1>5

LEMMA ReleasesTyped == Len(Releases) \in Nat \ {0} /\ DOMAIN Releases = 1..Len(Releases)
<1>1. Len(Releases) \in Nat /\ DOMAIN Releases = 1..Len(Releases)
  BY ReleasesShip, LenProperties
<1> QED
  BY <1>1, ReleasesShip, EmptySeq

LEMMA PrefsInit == Init => PrefsInv
<1> SUFFICES ASSUME Init PROVE PrefsInv
  OBVIOUS
<1>1. <<>> \in Seq(Rows)
  BY EmptySeq
<1>2. TypeOK
  BY <1>1, ReleasesTyped, BoundsNatural DEF Init, TypeOK, Phases, NoTerminal, Deletions
<1> QED
  BY <1>2 DEF Init, PrefsInv

\* What a step that touches neither the start nor the terminal interface has
\* to keep: the requests, and the copies it writes.
LEMMA ServesKeepsTypes ==
    ASSUME PrefsInv, phase = "up",
           UNCHANGED <<file, release, phase, starts>>,
           requests' \in [Slots -> Requests \cup {NoRequest}],
           \A r \in Slots : requests'[r] # NoRequest => Sound(requests'[r].edit),
           tui' \in Terminals, live' \in Configs, store' \in Preferred, shown' \in Seq(Rows),
           baseline' \in {baseline, release}, edits' \in 0..MaxEdits,
           deleted' \subseteq Deletions, alone' \subseteq Slots
    PROVE  PrefsInv'
<1>1. baseline' \in 0..Len(Releases) /\ baseline' # 0
  BY ReleasesTyped DEF PrefsInv, TypeOK
<1>2. live' # NoConfig /\ tui' # NoTerminal
  BY ConfigsAreThere
<1>3. TypeOK'
  BY <1>1, <1>2 DEF PrefsInv, TypeOK
<1> QED
  BY <1>1, <1>3 DEF PrefsInv

\* A save while the program runs.
LEMMA WriteKeepsTypes ==
    ASSUME PrefsInv, phase = "up", NEW prefs \in Preferred, Writes(prefs)
    PROVE  store' \in Preferred /\ deleted' \subseteq Deletions
<1>1. baseline \in DOMAIN Releases /\ store \in Preferred /\ deleted \subseteq Deletions
  BY ReleasesTyped DEF PrefsInv, TypeOK
<1>2. UrlsOf(store.subs) \subseteq Urls
  <2>1. store.subs \in Seq(Rows)
    BY <1>1 DEF Preferred
  <2>2. \A i \in DOMAIN store.subs : store.subs[i] \in Rows
    BY <2>1, LenProperties, ElementOfSeq
  <2> QED
    BY <2>2 DEF UrlsOf, Rows
<1> DEFINE lost == (UrlsOf(store.subs) \ UrlsOf(prefs.subs)) \cap UrlsOf(Releases[baseline].subs)
<1>3. lost \subseteq Urls
  BY <1>2
<1>4. store' = prefs /\ deleted' \subseteq deleted \cup [url : lost, at : {baseline}]
  BY DEF Writes
<1> HIDE DEF lost
<1>5. [url : lost, at : {baseline}] \subseteq Deletions
  BY <1>1, <1>3 DEF Deletions
<1> QED
  BY <1>1, <1>4, <1>5

LEMMA RequestMoved ==
    ASSUME NEW q \in Requests, NEW step \in {"fields", "list", "save", "show", "live"},
           NEW config \in Configs
    PROVE  [q EXCEPT !.step = step, !.config = config] \in Requests
BY DEF Requests

LEMMA StepsOfRequests ==
    ASSUME PrefsInv, phase = "up", NEW r \in Slots, requests[r].step # "idle"
    PROVE  /\ requests[r] \in Requests
           /\ requests[r].config \in Configs /\ Sound(requests[r].edit)
           /\ \A step \in {"fields", "list", "save", "show", "live"}, config \in Configs :
                 [requests[r] EXCEPT !.step = step, !.config = config] \in Requests
<1>1. requests[r] \in Requests
  BY DEF PrefsInv, NoRequest
<1>2. requests[r] # NoRequest
  BY <1>1, ConfigsAreThere
<1>3. Sound(requests[r].edit)
  BY <1>2 DEF PrefsInv
<1>4. requests[r].config \in Configs
  BY <1>1 DEF Requests
<1> QED
  BY <1>1, <1>3, <1>4, RequestMoved

\* A request goes on with a config of its own, or is done.
LEMMA MoveKeepsTypes ==
    ASSUME PrefsInv, phase = "up", NEW r \in Slots, requests[r].step # "idle",
           \/ Ends(r)
           \/ \E step \in {"fields", "list", "save", "show", "live"}, config \in Configs :
                 Moves(r, step, config)
    PROVE  /\ requests' \in [Slots -> Requests \cup {NoRequest}]
           /\ \A q \in Slots : requests'[q] # NoRequest => Sound(requests'[q].edit)
<1>1. requests \in [Slots -> Requests \cup {NoRequest}]
      /\ \A q \in Slots : requests[q] # NoRequest => Sound(requests[q].edit)
  BY DEF PrefsInv
<1>2. CASE Ends(r)
  BY <1>1, <1>2 DEF Ends
<1>3. ASSUME NEW step \in {"fields", "list", "save", "show", "live"}, NEW config \in Configs,
             Moves(r, step, config)
      PROVE  /\ requests' \in [Slots -> Requests \cup {NoRequest}]
             /\ \A q \in Slots : requests'[q] # NoRequest => Sound(requests'[q].edit)
  <2> DEFINE next == [requests[r] EXCEPT !.step = step, !.config = config]
  <2>1. next \in Requests /\ next.edit = requests[r].edit
    BY StepsOfRequests DEF Requests
  <2>2. requests' = [requests EXCEPT ![r] = next]
    BY <1>1, <1>3 DEF Moves
  <2>3. Sound(next.edit)
    BY <2>1, StepsOfRequests
  <2> HIDE DEF next
  <2> QED
    BY <1>1, <2>1, <2>2, <2>3
<1> QED
  BY <1>2, <1>3

LEMMA RequestKeepsTypes ==
    ASSUME PrefsInv, NEW r \in Slots, Request(r)
    PROVE  PrefsInv'
<1>0. /\ phase = "up" /\ UNCHANGED <<file, release, phase, tui, starts>>
  BY DEF Request, RequestArrives, RequestLoads, RequestApplies, RequestSaves,
         RequestSaveFails, RequestShows, RequestPublishes, Serves
<1>1. /\ tui \in Terminals /\ live \in Configs /\ store \in Preferred /\ shown \in Seq(Rows)
      /\ edits \in 0..MaxEdits /\ deleted \subseteq Deletions /\ alone \subseteq Slots
      /\ release \in 1..Len(Releases)
  BY <1>0, ReleasesTyped DEF PrefsInv, TypeOK
<1>2. CASE RequestArrives(r)
  <2>1. PICK e \in SettingEdits \cup SwitchEdits \cup PinEdits \cup ResetEdits
                   \cup ListEdits(shown) \cup ReorderEdits(shown) :
          requests' = [requests EXCEPT ![r] =
                         [step |-> FirstStep(e), edit |-> e,
                          config |-> IF e.kind \in FromLive THEN Edited(e, live) ELSE live]]
    BY <1>2 DEF RequestArrives
  <2>2. Sound(e) /\ e \in Edits
    BY <1>1, <2>1, SettingsSound, RowsSound, OrdersSound DEF Sound
  <2>3. e.kind \in FromLive => Edited(e, live) \in Configs
    <3>1. e.kind \in FromLive => ~Refused(e, live.subs)
      BY DEF FromLive, Refused, Addressed
    <3> QED
      BY <1>1, <2>2, <3>1, EditKeepsConfig
  <2> DEFINE next == [step |-> FirstStep(e), edit |-> e,
                      config |-> IF e.kind \in FromLive THEN Edited(e, live) ELSE live]
  <2>4. next \in Requests /\ next.edit = e
    BY <1>1, <2>2, <2>3 DEF Requests, FirstStep
  <2> HIDE DEF next
  <2>5. /\ requests' \in [Slots -> Requests \cup {NoRequest}]
        /\ \A q \in Slots : requests'[q] # NoRequest => Sound(requests'[q].edit)
    BY <2>1, <2>2, <2>4 DEF PrefsInv, next
  <2>6. /\ edits' \in 0..MaxEdits /\ alone' \subseteq Slots
        /\ UNCHANGED <<store, baseline, live, shown, deleted>>
    BY <1>1, <1>2, BoundsNatural DEF RequestArrives, MayEdit
  <2> QED
    BY <1>0, <1>1, <2>5, <2>6, ServesKeepsTypes
<1>3. CASE RequestLoads(r)
  <2>1. requests[r].step # "idle" /\ Moves(r, "list", Unpinned(store))
        /\ UNCHANGED <<store, baseline, live, shown, edits, deleted, alone>>
    BY <1>3 DEF RequestLoads, history
  <2>2. Unpinned(store) \in Configs
    BY <1>1, UnpinnedTyped
  <2> QED
    BY <1>0, <1>1, <2>1, <2>2, MoveKeepsTypes, ServesKeepsTypes
<1>4. CASE RequestApplies(r)
  <2> DEFINE e == requests[r].edit
             loaded == [requests[r].config EXCEPT !.subs = store.subs]
  <2>1. /\ requests[r].step # "idle" /\ baseline' \in {baseline, release}
        /\ \/ ~Refused(e, loaded.subs) /\ Moves(r, "save", Edited(e, loaded))
           \/ Ends(r)
        /\ UNCHANGED <<store, live, shown, edits, deleted, alone>>
    BY <1>4 DEF RequestApplies, history
  <2>2. requests[r].config \in Configs /\ Sound(e)
    BY <1>0, <2>1, StepsOfRequests
  <2>3. loaded \in Configs
    BY <1>1, <2>2 DEF Configs, Preferred
  <2> HIDE DEF e, loaded
  <2>4. ~Refused(e, loaded.subs) => Edited(e, loaded) \in Configs
    BY <1>1, <2>2, <2>3, EditKeepsConfig
  <2> QED
    BY <1>0, <1>1, <2>1, <2>4, MoveKeepsTypes, ServesKeepsTypes
<1>5. CASE RequestSaves(r)
  <2>1. /\ requests[r].step # "idle" /\ Writes(Base(requests[r].config))
        /\ Moves(r, "show", requests[r].config)
        /\ UNCHANGED <<baseline, live, shown, edits, alone>>
    BY <1>5 DEF RequestSaves
  <2>2. requests[r].config \in Configs
    BY <1>0, <2>1, StepsOfRequests
  <2>3. store' \in Preferred /\ deleted' \subseteq Deletions
    BY <1>0, <2>1, <2>2, BaseTyped, WriteKeepsTypes
  <2> QED
    BY <1>0, <1>1, <2>1, <2>2, <2>3, MoveKeepsTypes, ServesKeepsTypes
<1>6. CASE RequestSaveFails(r)
  <2>1. requests[r].step # "idle" /\ Ends(r)
        /\ UNCHANGED <<store, baseline, live, shown, edits, deleted, alone>>
    BY <1>6 DEF RequestSaveFails, history
  <2> QED
    BY <1>0, <1>1, <2>1, MoveKeepsTypes, ServesKeepsTypes
<1>7. CASE RequestShows(r)
  <2>1. /\ requests[r].step # "idle" /\ shown' = requests[r].config.subs
        /\ Moves(r, "live", requests[r].config)
        /\ UNCHANGED <<store, baseline, live, edits, deleted, alone>>
    BY <1>7 DEF RequestShows, history
  <2>2. requests[r].config \in Configs /\ shown' \in Seq(Rows)
    BY <1>0, <2>1, StepsOfRequests DEF Configs
  <2> QED
    BY <1>0, <1>1, <2>1, <2>2, MoveKeepsTypes, ServesKeepsTypes
<1>8. CASE RequestPublishes(r)
  <2>1. /\ requests[r].step # "idle" /\ live' = requests[r].config /\ Ends(r)
        /\ UNCHANGED <<store, baseline, shown, edits, deleted, alone>>
    BY <1>8 DEF RequestPublishes, history
  <2>2. requests[r].config \in Configs
    BY <1>0, <2>1, StepsOfRequests
  <2> QED
    BY <1>0, <1>1, <2>1, <2>2, MoveKeepsTypes, ServesKeepsTypes
<1> QED
  BY <1>2, <1>3, <1>4, <1>5, <1>6, <1>7, <1>8 DEF Request

LEMMA BootKeepsTypes ==
    ASSUME PrefsInv, Boot
    PROVE  PrefsInv'
<1>0. /\ release \in 1..Len(Releases) /\ baseline \in 0..Len(Releases) /\ Len(Releases) \in Nat \ {0}
      /\ store \in Preferred \cup {NoPrefs} /\ live \in Configs \cup {NoConfig}
      /\ <<>> \in Seq(Rows)
  BY ReleasesTyped, EmptySeq DEF PrefsInv, TypeOK
<1>1. \A v \in 1..Len(Releases) : Releases[v] \in Preferred /\ Valid(Releases[v].fields)
  BY ShippedTyped, ReleasesTyped, InputsValid
<1>2. CASE BootMigrates
  <2>1. live' = Unpinned(Legacy) /\ store' = Legacy /\ Legacy \in Preferred /\ Valid(Legacy.fields)
    BY <1>2, LegacyLoads, InputsValid DEF BootMigrates, Seeds
  <2>2. live' \in Configs /\ live' # NoConfig /\ Valid(live'.fields)
    BY <2>1, UnpinnedTyped, ConfigsAreThere
  <2>3. TypeOK'
    BY <1>2, <2>1, <2>2 DEF BootMigrates, Boots, history, PrefsInv, TypeOK, Phases
  <2> QED
    BY <1>2, <2>1, <2>2, <2>3 DEF BootMigrates, Boots, PrefsInv
<1>3. CASE BootNeuters
  <2>1. TypeOK'
    BY <1>3 DEF BootNeuters, Boots, running, history, PrefsInv, TypeOK, Phases
  <2> QED
    BY <1>3, <2>1 DEF BootNeuters, Boots, running, PrefsInv
<1>4. CASE BootSeeds
  <2>1. /\ live' = Unpinned(Shipped) /\ store' = Shipped
        /\ Shipped \in Preferred /\ Valid(Shipped.fields)
    BY <1>0, <1>1, <1>4 DEF BootSeeds, Seeds, Shipped
  <2>2. live' \in Configs /\ live' # NoConfig /\ Valid(live'.fields)
    BY <2>1, UnpinnedTyped, ConfigsAreThere
  <2>3. TypeOK'
    BY <1>4, <2>1, <2>2 DEF BootSeeds, Boots, history, PrefsInv, TypeOK, Phases
  <2> QED
    BY <1>4, <2>1, <2>2, <2>3 DEF BootSeeds, Boots, PrefsInv
<1>5. CASE BootLoads
  <2>1. live' = Unpinned(store) /\ UNCHANGED saved /\ store \in Preferred /\ Valid(store.fields)
    BY <1>0, <1>5 DEF BootLoads
  <2>2. live' \in Configs /\ live' # NoConfig /\ Valid(live'.fields)
    BY <2>1, UnpinnedTyped, ConfigsAreThere
  <2>3. TypeOK'
    BY <1>5, <2>1, <2>2 DEF BootLoads, Boots, saved, history, PrefsInv, TypeOK, Phases
  <2> QED
    BY <1>5, <2>1, <2>2, <2>3 DEF BootLoads, Boots, saved, PrefsInv
<1>6. CASE BootReconciles
  <2>1. /\ phase = "reconcile" /\ phase' \in {"serve", "save"} /\ live' = Reconciled
        /\ baseline' = release /\ UNCHANGED <<file, store, shown, tui, requests>>
        /\ UNCHANGED <<release, edits, starts, deleted, alone>>
    BY <1>6 DEF BootReconciles, Boots, history
  <2>2. live' \in Configs /\ live' # NoConfig
    BY <2>1, ReconciledTyped, ConfigsAreThere
  <2>3. TypeOK'
    BY <1>0, <2>1, <2>2 DEF PrefsInv, TypeOK, Phases
  <2> QED
    BY <1>0, <2>1, <2>2, <2>3 DEF PrefsInv
<1>7. CASE BootReconcileFails
  <2>1. /\ phase = "reconcile" /\ phase' = "serve" /\ live' = [live EXCEPT !.subs = <<>>]
        /\ UNCHANGED <<file, store, baseline, shown, tui, requests>>
        /\ UNCHANGED <<release, edits, starts, deleted, alone>>
        /\ ~Valid(Reconciled.fields)
    BY <1>7 DEF BootReconcileFails, Boots, history, saved
  <2>2. live \in Configs /\ Valid(live.fields)
    BY <2>1 DEF PrefsInv, TypeOK
  <2>3. live' \in Configs /\ live' # NoConfig
    <3>1. live' \in Configs
      BY <1>0, <2>1, <2>2 DEF Configs
    <3> QED
      BY <3>1, ConfigsAreThere
  <2>4. baseline # 0
    BY <2>1, <2>2, ReconciledTyped
  <2>5. TypeOK'
    BY <2>1, <2>3 DEF PrefsInv, TypeOK, Phases
  <2> QED
    BY <2>1, <2>3, <2>4, <2>5 DEF PrefsInv
<1>8. CASE BootSaves
  <2>1. store' = Base(live) /\ live \in Configs
    BY <1>8 DEF BootSaves, Boots, PrefsInv, TypeOK
  <2>2. store' \in Preferred
    BY <2>1, BaseTyped
  <2>3. TypeOK'
    BY <1>8, <2>2 DEF BootSaves, Boots, running, history, PrefsInv, TypeOK, Phases
  <2> QED
    BY <1>8, <2>2, <2>3 DEF BootSaves, Boots, running, PrefsInv
<1>9. CASE BootServes
  <2>1. live \in Configs
    BY <1>9 DEF BootServes, Boots, PrefsInv, TypeOK
  <2>2. live.subs \in Seq(Rows) /\ live.fields \in Settings
    BY <2>1 DEF Configs
  <2>3. tui' \in Terminals /\ tui' # NoTerminal
    <3>1. tui' \in Terminals
      BY <1>9, <2>1, <2>2 DEF BootServes, Terminals
    <3> QED
      BY <3>1, ConfigsAreThere
  <2>4. TypeOK'
    BY <1>9, <2>2, <2>3 DEF BootServes, Boots, saved, history, PrefsInv, TypeOK, Phases
  <2> QED
    BY <1>9, <2>4 DEF BootServes, Boots, saved, PrefsInv
<1> QED
  BY <1>2, <1>3, <1>4, <1>5, <1>6, <1>7, <1>8, <1>9 DEF Boot

LEMMA PickedTyped ==
    ASSUME NEW own \in Settings, NEW stored \in Settings
    PROVE  Picked(own, stored) \in Settings
<1> DEFINE fields == [f \in Fields |-> IF own[f] # tui.startup[f] THEN own[f] ELSE stored[f]]
<1>1. fields \in Settings
  <2>1. /\ \A f \in Fields : fields[f] \in {own[f], stored[f]}
        /\ fields = [f \in Fields |-> fields[f]]
    OBVIOUS
  <2> HIDE DEF fields
  <2> QED
    BY <2>1, EitherTyped
<1> QED
  BY <1>1 DEF Picked

\* The terminal's copy and its step, replaced.
LEMMA TerminalTyped ==
    ASSUME NEW t \in Terminals, NEW config \in Configs, NEW step \in {"idle", "saving"},
           NEW fields \in Settings
    PROVE  /\ t.edit \in Configs /\ t.merged \in Settings /\ t.startup \in Settings
           /\ [t EXCEPT !.edit = config] \in Terminals
           /\ [t EXCEPT !.edit = config].edit = config
           /\ [t EXCEPT !.step = step] \in Terminals
           /\ [t EXCEPT !.edit = config, !.step = step, !.merged = fields] \in Terminals
BY DEF Terminals

LEMMA TuiKeepsTypes ==
    ASSUME PrefsInv, Tui
    PROVE  PrefsInv'
<1>0. phase = "up" /\ UNCHANGED <<file, release, phase, starts, requests, shown>>
  BY DEF Tui, TuiEdits, TuiPins, TuiSwitches, TuiSaveBegins, TuiSaves, TuiResets, TuiSyncsPin,
         Types, TuiReady, saved
<1>1. /\ tui \in Terminals /\ live \in Configs /\ store \in Preferred /\ shown \in Seq(Rows)
      /\ edits \in 0..MaxEdits /\ deleted \subseteq Deletions /\ alone \subseteq Slots
      /\ release \in 1..Len(Releases) /\ requests \in [Slots -> Requests \cup {NoRequest}]
      /\ \A r \in Slots : requests[r] # NoRequest => Sound(requests[r].edit)
  BY <1>0, ReleasesTyped DEF PrefsInv, TypeOK
<1>2. tui.edit \in Configs /\ tui.merged \in Settings
  BY <1>1 DEF Terminals
<1>3. tui.edit.fields \in Settings /\ tui.edit.subs \in Seq(Rows) /\ store.fields \in Settings
      /\ live.pin \in Uris \cup {NoUri}
  BY <1>1, <1>2 DEF Configs, Preferred
<1>4. Types => edits' \in 0..MaxEdits /\ alone' \subseteq Slots
  BY <1>1, BoundsNatural DEF Types, MayEdit
<1>5. \A e : Sound(e) /\ ~Refused(e, tui.edit.subs) => Edited(e, tui.edit) \in Configs
  BY <1>1, <1>2, EditKeepsConfig
<1>6. \A e \in SettingEdits \cup SwitchEdits \cup PinEdits \cup ResetEdits :
         Edited(e, tui.edit) \in Configs
  <2>1. TAKE e \in SettingEdits \cup SwitchEdits \cup PinEdits \cup ResetEdits
  <2>2. Sound(e) /\ ~Refused(e, tui.edit.subs)
    BY SettingsSound DEF Refused, Addressed
  <2> QED
    BY <1>5, <2>2
<1>7. ASSUME NEW edit \in Configs, TuiReads(edit)
      PROVE  tui' \in Terminals
  <2>1. edit.fields \in Settings
    BY DEF Configs
  <2>2. Picked(edit.fields, store.fields) \in Settings
    BY <1>3, <2>1, PickedTyped
  <2> QED
    BY <1>1, <1>7, <2>2, TerminalTyped DEF TuiReads
<1>8. CASE TuiEdits
  <2>1. PICK e \in SettingEdits \cup ListEdits(tui.edit.subs) :
          ~Refused(e, tui.edit.subs) /\ tui' = [tui EXCEPT !.edit = Edited(e, tui.edit)]
    BY <1>8 DEF TuiEdits
  <2>2. Sound(e)
    BY <1>3, <2>1, SettingsSound, RowsSound
  <2>3. Edited(e, tui.edit) \in Configs
    BY <1>5, <2>1, <2>2
  <2>4. tui' \in Terminals /\ tui'.edit \in Configs
    BY <1>1, <1>3, <2>1, <2>3, TerminalTyped
  <2>5. Types /\ live' = tui'.edit /\ UNCHANGED <<store, baseline, deleted>>
    BY <1>8 DEF TuiEdits
  <2> QED
    BY <1>0, <1>1, <1>4, <2>4, <2>5, ServesKeepsTypes
<1>9. CASE TuiPins
  <2>1. PICK e \in PinEdits : tui' = [tui EXCEPT !.edit = Edited(e, tui.edit)]
    BY <1>9 DEF TuiPins
  <2>2. tui' \in Terminals /\ tui'.edit \in Configs
    BY <1>1, <1>3, <1>6, <2>1, TerminalTyped
  <2>3. Types /\ live' = tui'.edit /\ UNCHANGED <<store, baseline, deleted>>
    BY <1>9 DEF TuiPins
  <2> QED
    BY <1>0, <1>1, <1>4, <2>2, <2>3, ServesKeepsTypes
<1>10. CASE TuiSwitches
  <2>1. PICK e \in SwitchEdits : TuiReads(Edited(e, tui.edit))
    BY <1>10 DEF TuiSwitches
  <2>2. tui' \in Terminals
    BY <1>6, <1>7, <2>1
  <2>3. Types /\ UNCHANGED <<store, baseline, live, deleted>>
    BY <1>10 DEF TuiSwitches
  <2> QED
    BY <1>0, <1>1, <1>4, <2>2, <2>3, ServesKeepsTypes
<1>11. CASE TuiSaveBegins
  <2>1. tui' \in Terminals
    BY <1>2, <1>7, <1>11 DEF TuiSaveBegins
  <2>2. alone' = {} /\ UNCHANGED <<store, baseline, live, edits, deleted>>
    BY <1>11 DEF TuiSaveBegins, saved
  <2> QED
    BY <1>0, <1>1, <2>1, <2>2, ServesKeepsTypes
<1>12. CASE TuiSaves
  <2> DEFINE prefs == [fields |-> tui.merged, subs |-> tui.edit.subs]
  <2>1. /\ Writes(prefs) /\ tui' = [tui EXCEPT !.step = "idle"] /\ live' = tui.edit
        /\ UNCHANGED <<baseline, edits, alone>>
    BY <1>12 DEF TuiSaves
  <2>2. prefs \in Preferred
    BY <1>2, <1>3 DEF Preferred
  <2> HIDE DEF prefs
  <2>3. store' \in Preferred /\ deleted' \subseteq Deletions
    BY <1>0, <2>1, <2>2, WriteKeepsTypes
  <2>4. tui' \in Terminals
    BY <1>1, <1>2, <2>1, TerminalTyped
  <2> QED
    BY <1>0, <1>1, <1>2, <2>1, <2>3, <2>4, ServesKeepsTypes
<1>13. CASE TuiResets
  <2>1. PICK e \in ResetEdits :
          LET edit == Edited(e, tui.edit)
          IN /\ tui' = [tui EXCEPT !.edit = edit]
             /\ \/ Writes(Base(edit)) /\ live' = edit
                \/ UNCHANGED <<store, live, deleted>>
    BY <1>13 DEF TuiResets
  <2> DEFINE edit == Edited(e, tui.edit)
  <2>2. edit \in Configs
    BY <1>6
  <2> HIDE DEF edit
  <2>3. /\ tui' = [tui EXCEPT !.edit = edit]
        /\ \/ Writes(Base(edit)) /\ live' = edit
           \/ UNCHANGED <<store, live, deleted>>
    BY <2>1 DEF edit
  <2>4. tui' \in Terminals
    BY <1>1, <1>3, <2>2, <2>3, TerminalTyped
  <2>5. store' \in Preferred /\ deleted' \subseteq Deletions /\ live' \in Configs
    BY <1>0, <1>1, <2>2, <2>3, BaseTyped, WriteKeepsTypes
  <2>6. Types /\ baseline' = release
    BY <1>13 DEF TuiResets
  <2> QED
    BY <1>0, <1>1, <1>4, <2>4, <2>5, <2>6, ServesKeepsTypes
<1>14. CASE TuiSyncsPin
  <2> DEFINE edit == [tui.edit EXCEPT !.pin = live.pin]
  <2>1. edit \in Configs
    BY <1>2, <1>3 DEF Configs
  <2>2. tui' = [tui EXCEPT !.edit = edit]
    BY <1>1, <1>14 DEF TuiSyncsPin, Terminals
  <2> HIDE DEF edit
  <2>3. tui' \in Terminals
    BY <1>1, <1>3, <2>1, <2>2, TerminalTyped
  <2>4. UNCHANGED <<store, baseline, live, edits, deleted, alone>>
    BY <1>14 DEF TuiSyncsPin, saved, history
  <2> QED
    BY <1>0, <1>1, <2>3, <2>4, ServesKeepsTypes
<1> QED
  BY <1>8, <1>9, <1>10, <1>11, <1>12, <1>13, <1>14 DEF Tui

LEMMA PrefsInductive == PrefsInv /\ [Next]_vars => PrefsInv'
<1> SUFFICES ASSUME PrefsInv, [Next]_vars PROVE PrefsInv'
  OBVIOUS
<1>0. Len(Releases) \in Nat /\ DOMAIN Releases = 1..Len(Releases) /\ <<>> \in Seq(Rows)
  BY ReleasesTyped, EmptySeq
<1>1. CASE ProgramStarts
  <2>1. TypeOK'
    BY <1>0, <1>1, BoundsNatural DEF ProgramStarts, saved, running, history, PrefsInv, TypeOK, Phases
  <2> QED
    BY <1>1, <2>1 DEF ProgramStarts, saved, running, history, PrefsInv
<1>2. CASE ProgramStops
  <2>1. TypeOK'
    BY <1>0, <1>2 DEF ProgramStops, saved, PrefsInv, TypeOK, Phases
  <2> QED
    BY <1>2, <2>1 DEF ProgramStops, saved, PrefsInv
<1>3. CASE Boot
  BY <1>3, BootKeepsTypes
<1>4. CASE \E r \in Slots : Request(r)
  BY <1>4, RequestKeepsTypes
<1>5. CASE Tui
  BY <1>5, TuiKeepsTypes
<1>6. CASE UNCHANGED vars
  <2>1. TypeOK'
    BY <1>6 DEF vars, PrefsInv, TypeOK
  <2> QED
    BY <1>6, <2>1 DEF vars, PrefsInv
<1> QED
  BY <1>1, <1>2, <1>3, <1>4, <1>5, <1>6 DEF Next

\* The five copies hold what they are declared to, for any settings, releases,
\* requests and bounds; in particular the program never runs without a snapshot
\* once a start has passed its merge (src/settings.rs, reconcile_with_defaults).
THEOREM TypeCorrect == Spec => []TypeOK
<1>1. PrefsInv => TypeOK
  BY DEF PrefsInv
<1> QED
  BY <1>1, PrefsInit, PrefsInductive, PTL DEF Spec

----------------------------------------------------------------------------
(* A list names a URL once.                                                  *)

\* Every copy a step can spread is free of twins, those a request has not
\* edited yet among them.
UniqueInv ==
    /\ Unique(store.subs) /\ Unique(live.subs) /\ Unique(shown)
    /\ phase = "up" => Unique(tui.edit.subs)
    /\ \A r \in Slots : requests[r] # NoRequest => Unique(requests[r].config.subs)

LEMMA EmptyUnique == Unique(<<>>) /\ Unique(NoPrefs.subs) /\ Unique(NoConfig.subs)
BY DEF Unique, NoPrefs, NoConfig

LEMMA BootKeepsUnique ==
    ASSUME PrefsInv, UniqueInv, Boot
    PROVE  UniqueInv'
<1>1. Unique(Legacy.subs) /\ Unique(Shipped.subs)
  BY ReleasesTyped, InputsValid DEF Shipped, PrefsInv, TypeOK
<1>2. CASE BootMigrates
  BY <1>1, <1>2 DEF BootMigrates, Boots, Seeds, Unpinned, UniqueInv
<1>3. CASE BootNeuters
  BY <1>3 DEF BootNeuters, Boots, running, UniqueInv
<1>4. CASE BootSeeds
  BY <1>1, <1>4 DEF BootSeeds, Boots, Seeds, Unpinned, UniqueInv
<1>5. CASE BootLoads
  BY <1>5 DEF BootLoads, Boots, saved, Unpinned, UniqueInv
<1>6. CASE BootReconciles
  <2>1. /\ live' = Reconciled /\ phase = "reconcile" /\ phase' # "up"
        /\ UNCHANGED <<store, shown, requests>>
    BY <1>6 DEF BootReconciles, Boots
  <2>2. Unique(live'.subs)
    BY <2>1, ReconciledTyped DEF UniqueInv
  <2> QED
    BY <2>1, <2>2 DEF UniqueInv
<1>7. CASE BootReconcileFails
  <2>1. /\ live' = [live EXCEPT !.subs = <<>>] /\ phase = "reconcile" /\ phase' # "up"
        /\ UNCHANGED <<store, shown, requests>>
    BY <1>7 DEF BootReconcileFails, Boots, saved
  <2>2. live'.subs = <<>>
    BY <2>1 DEF PrefsInv, TypeOK, Configs
  <2> QED
    BY <2>1, <2>2, EmptyUnique DEF UniqueInv
<1>8. CASE BootSaves
  BY <1>8 DEF BootSaves, Boots, Base, running, UniqueInv
<1>9. CASE BootServes
  BY <1>9 DEF BootServes, Boots, saved, UniqueInv
<1> QED
  BY <1>2, <1>3, <1>4, <1>5, <1>6, <1>7, <1>8, <1>9 DEF Boot

\* A request that moves on keeps a list of its own, or the one it is given.
LEMMA MoveKeepsUnique ==
    ASSUME PrefsInv, UniqueInv, phase = "up", NEW r \in Slots, requests[r].step # "idle",
           \/ Ends(r)
           \/ \E step \in {"fields", "list", "save", "show", "live"}, config \in Configs :
                 Moves(r, step, config) /\ Unique(config.subs)
    PROVE  \A q \in Slots : requests'[q] # NoRequest => Unique(requests'[q].config.subs)
<1>1. requests \in [Slots -> Requests \cup {NoRequest}] /\ requests[r] \in Requests
  BY StepsOfRequests DEF PrefsInv
<1>2. CASE Ends(r)
  BY <1>1, <1>2 DEF Ends, UniqueInv
<1>3. ASSUME NEW step, NEW config \in Configs, Moves(r, step, config), Unique(config.subs)
      PROVE  \A q \in Slots : requests'[q] # NoRequest => Unique(requests'[q].config.subs)
  <2> DEFINE next == [requests[r] EXCEPT !.step = step, !.config = config]
  <2>1. next.config = config
    BY <1>1 DEF Requests
  <2>2. requests' = [requests EXCEPT ![r] = next]
    BY <1>1, <1>3 DEF Moves
  <2> HIDE DEF next
  <2> QED
    BY <1>1, <1>3, <2>1, <2>2 DEF UniqueInv
<1> QED
  BY <1>2, <1>3

LEMMA RequestKeepsUnique ==
    ASSUME PrefsInv, UniqueInv, NEW r \in Slots, Request(r)
    PROVE  UniqueInv'
<1>0. phase = "up" /\ UNCHANGED <<phase, tui>>
  BY DEF Request, RequestArrives, RequestLoads, RequestApplies, RequestSaves,
         RequestSaveFails, RequestShows, RequestPublishes, Serves
<1>1. /\ live \in Configs /\ store \in Preferred /\ shown \in Seq(Rows)
      /\ release \in 1..Len(Releases) /\ requests \in [Slots -> Requests \cup {NoRequest}]
  BY <1>0, ReleasesTyped DEF PrefsInv, TypeOK
<1>2. requests[r].step # "idle" =>
        /\ requests[r].config \in Configs /\ Sound(requests[r].edit)
        /\ Unique(requests[r].config.subs)
  <2>1. requests[r].step # "idle" => requests[r] # NoRequest
    BY DEF NoRequest
  <2> QED
    BY <1>0, <2>1, StepsOfRequests DEF UniqueInv
<1>3. CASE RequestArrives(r)
  <2>1. PICK e \in SettingEdits \cup SwitchEdits \cup PinEdits \cup ResetEdits
                   \cup ListEdits(shown) \cup ReorderEdits(shown) :
          requests' = [requests EXCEPT ![r] =
                         [step |-> FirstStep(e), edit |-> e,
                          config |-> IF e.kind \in FromLive THEN Edited(e, live) ELSE live]]
    BY <1>3 DEF RequestArrives
  <2>2. Sound(e)
    BY <1>1, <2>1, SettingsSound, RowsSound, OrdersSound
  <2> DEFINE config == IF e.kind \in FromLive THEN Edited(e, live) ELSE live
  <2>3. Unique(config.subs)
    <3>1. e.kind \in FromLive => ~Refused(e, live.subs)
      BY DEF FromLive, Refused, Addressed
    <3> QED
      BY <1>1, <2>2, <3>1, EditKeepsConfig DEF UniqueInv
  <2> HIDE DEF config
  <2>4. requests' = [requests EXCEPT ![r] = [step |-> FirstStep(e), edit |-> e, config |-> config]]
    BY <2>1 DEF config
  <2>5. \A q \in Slots : requests'[q] # NoRequest => Unique(requests'[q].config.subs)
    BY <1>1, <2>3, <2>4 DEF UniqueInv
  <2> QED
    BY <1>0, <1>3, <2>5 DEF RequestArrives, UniqueInv
<1>4. CASE RequestLoads(r)
  <2>1. requests[r].step # "idle" /\ Moves(r, "list", Unpinned(store))
        /\ UNCHANGED <<store, live, shown>>
    BY <1>4 DEF RequestLoads
  <2>2. Unpinned(store) \in Configs /\ Unique(Unpinned(store).subs)
    BY <1>1, UnpinnedTyped DEF UniqueInv
  <2> QED
    BY <1>0, <2>1, <2>2, MoveKeepsUnique DEF UniqueInv
<1>5. CASE RequestApplies(r)
  <2> DEFINE e == requests[r].edit
             loaded == [requests[r].config EXCEPT !.subs = store.subs]
  <2>1. /\ requests[r].step # "idle"
        /\ \/ ~Refused(e, loaded.subs) /\ Moves(r, "save", Edited(e, loaded))
           \/ Ends(r)
        /\ UNCHANGED <<store, live, shown>>
    BY <1>5 DEF RequestApplies
  <2>2. Sound(e) /\ loaded \in Configs /\ loaded.subs = store.subs
    BY <1>1, <1>2, <2>1 DEF Configs, Preferred
  <2> HIDE DEF e, loaded
  <2>3. ~Refused(e, loaded.subs) =>
          Edited(e, loaded) \in Configs /\ Unique(Edited(e, loaded).subs)
    BY <1>1, <2>2, EditKeepsConfig DEF UniqueInv
  <2> QED
    BY <1>0, <2>1, <2>3, MoveKeepsUnique DEF UniqueInv
<1>6. CASE RequestSaves(r)
  <2>1. /\ requests[r].step # "idle" /\ store' = Base(requests[r].config)
        /\ Moves(r, "show", requests[r].config) /\ UNCHANGED <<live, shown>>
    BY <1>6 DEF RequestSaves, Writes
  <2>2. Unique(store'.subs)
    BY <1>2, <2>1 DEF Base
  <2> QED
    BY <1>0, <1>2, <2>1, <2>2, MoveKeepsUnique DEF UniqueInv
<1>7. CASE RequestSaveFails(r)
  <2>1. requests[r].step # "idle" /\ Ends(r) /\ UNCHANGED <<store, live, shown>>
    BY <1>7 DEF RequestSaveFails
  <2> QED
    BY <1>0, <2>1, MoveKeepsUnique DEF UniqueInv
<1>8. CASE RequestShows(r)
  <2>1. /\ requests[r].step # "idle" /\ shown' = requests[r].config.subs
        /\ Moves(r, "live", requests[r].config) /\ UNCHANGED <<store, live>>
    BY <1>8 DEF RequestShows
  <2> QED
    BY <1>0, <1>2, <2>1, MoveKeepsUnique DEF UniqueInv
<1>9. CASE RequestPublishes(r)
  <2>1. /\ requests[r].step # "idle" /\ live' = requests[r].config /\ Ends(r)
        /\ UNCHANGED <<store, shown>>
    BY <1>9 DEF RequestPublishes
  <2> QED
    BY <1>0, <1>2, <2>1, MoveKeepsUnique DEF UniqueInv
<1> QED
  BY <1>3, <1>4, <1>5, <1>6, <1>7, <1>8, <1>9 DEF Request

LEMMA TuiKeepsUnique ==
    ASSUME PrefsInv, UniqueInv, Tui
    PROVE  UniqueInv'
<1>0. phase = "up" /\ UNCHANGED <<phase, requests, shown>>
  BY DEF Tui, TuiEdits, TuiPins, TuiSwitches, TuiSaveBegins, TuiSaves, TuiResets, TuiSyncsPin,
         Types, TuiReady
<1>1. tui \in Terminals /\ release \in 1..Len(Releases) /\ live \in Configs
  BY <1>0, ReleasesTyped DEF PrefsInv, TypeOK
<1>2. tui.edit \in Configs /\ Unique(tui.edit.subs) /\ Unique(store.subs) /\ Unique(live.subs)
  BY <1>0, <1>1 DEF Terminals, UniqueInv
<1>3. tui.edit.subs \in Seq(Rows)
  BY <1>2 DEF Configs
\* It is enough that the three copies the step may write are free of twins.
<1> SUFFICES Unique(tui'.edit.subs) /\ Unique(live'.subs) /\ Unique(store'.subs)
  BY <1>0 DEF UniqueInv
<1>5. \A e \in SettingEdits \cup SwitchEdits \cup PinEdits \cup ResetEdits :
         Unique(Edited(e, tui.edit).subs)
  <2>1. TAKE e \in SettingEdits \cup SwitchEdits \cup PinEdits \cup ResetEdits
  <2>2. Sound(e) /\ ~Refused(e, tui.edit.subs)
    BY SettingsSound DEF Refused, Addressed
  <2> QED
    BY <1>1, <1>2, <2>2, EditKeepsConfig
<1>6. \A edit : TuiReads(edit) /\ Unique(edit.subs) => Unique(tui'.edit.subs)
  BY <1>1 DEF TuiReads, Terminals
<1>7. \A edit : tui' = [tui EXCEPT !.edit = edit] => tui'.edit = edit
  BY <1>1 DEF Terminals
<1>8. CASE TuiEdits
  <2>1. PICK e \in SettingEdits \cup ListEdits(tui.edit.subs) :
          ~Refused(e, tui.edit.subs) /\ tui' = [tui EXCEPT !.edit = Edited(e, tui.edit)]
    BY <1>8 DEF TuiEdits
  <2>2. Sound(e)
    BY <1>3, <2>1, SettingsSound, RowsSound
  <2>3. Unique(Edited(e, tui.edit).subs)
    BY <1>1, <1>2, <2>1, <2>2, EditKeepsConfig
  <2> QED
    BY <1>2, <1>7, <1>8, <2>1, <2>3 DEF TuiEdits
<1>9. CASE TuiPins
  <2>1. PICK e \in PinEdits : tui' = [tui EXCEPT !.edit = Edited(e, tui.edit)]
    BY <1>9 DEF TuiPins
  <2> QED
    BY <1>2, <1>5, <1>7, <1>9, <2>1 DEF TuiPins
<1>10. CASE TuiSwitches
  <2>1. PICK e \in SwitchEdits : TuiReads(Edited(e, tui.edit))
    BY <1>10 DEF TuiSwitches
  <2> QED
    BY <1>2, <1>5, <1>6, <1>10, <2>1 DEF TuiSwitches
<1>11. CASE TuiSaveBegins
  BY <1>2, <1>6, <1>11 DEF TuiSaveBegins, saved
<1>12. CASE TuiSaves
  <2>1. tui'.edit = tui.edit /\ live' = tui.edit /\ store'.subs = tui.edit.subs
    BY <1>1, <1>12 DEF TuiSaves, Writes, Terminals
  <2> QED
    BY <1>2, <2>1
<1>13. CASE TuiResets
  <2>1. PICK e \in ResetEdits :
          LET edit == Edited(e, tui.edit)
          IN /\ tui' = [tui EXCEPT !.edit = edit]
             /\ \/ Writes(Base(edit)) /\ live' = edit
                \/ UNCHANGED <<store, live, deleted>>
    BY <1>13 DEF TuiResets
  <2> DEFINE edit == Edited(e, tui.edit)
  <2>2. Unique(edit.subs)
    BY <1>5
  <2> HIDE DEF edit
  <2>3. /\ tui' = [tui EXCEPT !.edit = edit]
        /\ \/ store' = Base(edit) /\ live' = edit
           \/ UNCHANGED <<store, live, deleted>>
    BY <2>1 DEF edit, Writes
  <2> QED
    BY <1>2, <1>7, <2>2, <2>3 DEF Base
<1>14. CASE TuiSyncsPin
  <2>1. tui'.edit.subs = tui.edit.subs
    BY <1>1, <1>2, <1>14 DEF TuiSyncsPin, Terminals, Configs
  <2> QED
    BY <1>2, <1>14, <2>1 DEF TuiSyncsPin, saved
<1> QED
  BY <1>8, <1>9, <1>10, <1>11, <1>12, <1>13, <1>14 DEF Tui

LEMMA UniqueInductive == PrefsInv /\ UniqueInv /\ [Next]_vars => UniqueInv'
<1> SUFFICES ASSUME PrefsInv, UniqueInv, [Next]_vars PROVE UniqueInv'
  OBVIOUS
<1>1. CASE ProgramStarts
  BY <1>1 DEF ProgramStarts, saved, running, UniqueInv
<1>2. CASE ProgramStops
  BY <1>2, EmptyUnique DEF ProgramStops, saved, UniqueInv
<1>3. CASE Boot
  BY <1>3, BootKeepsUnique
<1>4. CASE \E r \in Slots : Request(r)
  BY <1>4, RequestKeepsUnique
<1>5. CASE Tui
  BY <1>5, TuiKeepsUnique
<1>6. CASE UNCHANGED vars
  BY <1>6 DEF vars, UniqueInv
<1> QED
  BY <1>1, <1>2, <1>3, <1>4, <1>5, <1>6 DEF Next

\* No copy of the list ever names a URL twice, for any lists the releases and
\* the legacy file ship without twins, whichever copies the interfaces edit and
\* replace (find_duplicate_subscription_url, append_missing_subscriptions).
THEOREM ListsHaveNoTwins == Spec => []UrlsUnique
<1>1. Init => UniqueInv
  BY EmptyUnique DEF Init, UniqueInv, NoRequest
<1>2. PrefsInv /\ UniqueInv => UrlsUnique
  BY DEF UniqueInv, UrlsUnique, NoRequest
<1> QED
  BY <1>1, <1>2, PrefsInit, PrefsInductive, UniqueInductive, PTL DEF Spec

----------------------------------------------------------------------------
(* What a start does to the list.                                            *)

\* The merged list that waits to be stored has what is stored in front; what
\* was deleted was deleted under a snapshot no newer than the one stored, so
\* that only a release which had dropped it can bring it back.
RowsInv ==
    /\ phase = "save" => Extends(live.subs, store.subs)
    /\ store = NoPrefs \/ file = "legacy" => deleted = {}
    /\ \A d \in deleted :
          /\ d.at <= baseline
          /\ d.url \in UrlsOf(store.subs) => Dropped(d)
          /\ phase \in {"save", "serve"} /\ d.url \in UrlsOf(live.subs) => Dropped(d)

StartsInv == PrefsInv /\ MigrationInv /\ UpgradeInv /\ RowsInv

LEMMA PrefixOfItself ==
    ASSUME NEW list \in Seq(Rows)
    PROVE  Extends(list, list)
BY LenProperties DEF Extends

LEMMA ExtendsIsPrefix ==
    ASSUME NEW own \in Seq(Rows), NEW list, Extends(list, own)
    PROVE  IsPrefix(own, list)
<1>1. /\ Len(own) \in Nat /\ Len(list) \in Nat /\ Len(own) <= Len(list) /\ list \in Seq(Rows)
      /\ \A i \in 1..Len(own) : list[i] = own[i]
  BY LenProperties DEF Extends
<1>2. /\ SubSeq(own, 1, Len(own)) \in Seq(Rows)
      /\ Len(SubSeq(own, 1, Len(own))) = Len(own)
      /\ \A i \in 1..Len(own) : SubSeq(own, 1, Len(own))[i] = own[i]
  <2>1. \A i \in 1..Len(own) : own[i] \in Rows
    BY ElementOfSeq
  <2> QED
    BY <1>1, <2>1, SubSeqProperties
<1>3. /\ SubSeq(list, 1, Len(own)) \in Seq(Rows)
      /\ Len(SubSeq(list, 1, Len(own))) = Len(own)
      /\ \A i \in 1..Len(own) : SubSeq(list, 1, Len(own))[i] = list[i]
  <2>1. \A i \in 1..Len(own) : list[i] \in Rows
    BY <1>1, ElementOfSeq
  <2> QED
    BY <1>1, <2>1, SubSeqProperties
<1>4. SubSeq(own, 1, Len(own)) = SubSeq(list, 1, Len(own))
  BY <1>1, <1>2, <1>3, SeqEqual
<1> QED
  BY <1>1, <1>4 DEF IsPrefix

\* A write while the program runs forgets what it brings back itself, and
\* remembers what it takes away under the snapshot of the moment.
LEMMA WriteKeepsRows ==
    ASSUME StartsInv, phase = "up", phase' = "up", NEW prefs \in Preferred, Writes(prefs),
           release' = release, file' = file, baseline' \in {baseline, release}
    PROVE  RowsInv'
<1>1. /\ baseline \in 0..release /\ release \in 1..Len(Releases) /\ Len(Releases) \in Nat
      /\ file # "legacy" /\ deleted \subseteq Deletions
  BY ReleasesTyped DEF StartsInv, UpgradeInv, ReleasesKnown, MigrationInv, PrefsInv, TypeOK
<1>2. baseline' \in 0..release /\ baseline <= baseline'
  BY <1>1
<1>3. store' = prefs /\ store' # NoPrefs
  BY ConfigsAreThere DEF Writes
<1>4. ASSUME NEW d \in deleted'
      PROVE  d.at <= baseline' /\ d.url \notin UrlsOf(store'.subs)
  <2> DEFINE lost == (UrlsOf(store.subs) \ UrlsOf(prefs.subs)) \cap UrlsOf(Releases[baseline].subs)
  <2>1. \/ d \in deleted /\ d.url \notin UrlsOf(prefs.subs)
        \/ d.url \in lost /\ d.at = baseline
    BY <1>4 DEF Writes
  <2>2. d \in deleted => d.at <= baseline /\ d.at \in Nat
    BY <1>1 DEF StartsInv, RowsInv, Deletions
  <2> QED
    BY <1>1, <1>2, <1>3, <2>1, <2>2
<1> QED
  BY <1>1, <1>3, <1>4 DEF RowsInv

\* Between its writes a running program leaves the list alone.
LEMMA QuietKeepsRows ==
    ASSUME StartsInv, phase' \notin {"save", "serve"}, UNCHANGED <<file, store, deleted>>,
           baseline' \in {baseline, release}, release' >= release, release' \in 1..Len(Releases)
    PROVE  RowsInv'
<1>1. /\ baseline \in 0..release /\ release \in 1..Len(Releases) /\ Len(Releases) \in Nat
      /\ deleted \subseteq Deletions
  BY ReleasesTyped DEF StartsInv, UpgradeInv, ReleasesKnown, PrefsInv, TypeOK
<1>2. \A d \in deleted : d.at \in Nat /\ (Dropped(d) => Dropped(d)')
  <2>1. TAKE d \in deleted
  <2>2. d.at \in Nat
    BY <1>1, ReleasesTyped DEF Deletions
  <2>3. d.at..release - 1 \subseteq d.at..release' - 1
    BY <1>1, <2>2
  <2> QED
    BY <2>2, <2>3 DEF Dropped
<1>3. \A d \in deleted : d.at <= baseline'
  BY <1>1, <1>2 DEF StartsInv, RowsInv
<1> QED
  BY <1>2, <1>3 DEF StartsInv, RowsInv

LEMMA BootKeepsRowsInv ==
    ASSUME StartsInv, Boot
    PROVE  RowsInv'
<1>0. /\ baseline \in 0..release /\ release \in 1..Len(Releases) /\ Len(Releases) \in Nat
      /\ deleted \subseteq Deletions
      /\ UNCHANGED <<release, edits, starts, deleted, alone>>
  BY ReleasesTyped DEF StartsInv, UpgradeInv, ReleasesKnown, PrefsInv, TypeOK, Boots, history,
     Boot, BootMigrates, BootNeuters, BootSeeds, BootLoads, BootReconciles,
     BootReconcileFails, BootSaves, BootServes
<1>1. \A d \in deleted : d.at \in Nat /\ Dropped(d) = Dropped(d)'
  BY <1>0 DEF Dropped, Deletions
<1>2. CASE BootMigrates
  BY <1>0, <1>2 DEF BootMigrates, Boots, Seeds, StartsInv, RowsInv
<1>3. CASE BootNeuters
  <2>1. file' # "legacy" /\ phase' = "reconcile" /\ UNCHANGED <<store, baseline>>
    BY <1>3 DEF BootNeuters, Boots
  <2> QED
    BY <1>0, <1>1, <2>1 DEF StartsInv, RowsInv
<1>4. CASE BootSeeds
  BY <1>0, <1>4 DEF BootSeeds, Boots, StartsInv, RowsInv
<1>5. CASE BootLoads
  <2>1. phase' = "reconcile" /\ UNCHANGED <<file, store, baseline>>
    BY <1>5 DEF BootLoads, Boots, saved
  <2> QED
    BY <1>0, <1>1, <2>1 DEF StartsInv, RowsInv
<1>6. CASE BootReconciles
  <2>1. /\ phase = "reconcile" /\ phase' \in {"serve", "save"} /\ live' = Reconciled
        /\ baseline' = release /\ UNCHANGED <<file, store>>
    BY <1>6 DEF BootReconciles, Boots
  <2>2. live = Unpinned(store) /\ store \in Preferred
    BY <2>1 DEF StartsInv, UpgradeInv, LoadedIsStored, PrefsInv
  <2>3. /\ Extends(live'.subs, store.subs)
        /\ UrlsOf(live'.subs) \subseteq
             UrlsOf(store.subs) \cup (UrlsOf(Shipped.subs)
                \ IF baseline = 0 THEN {} ELSE UrlsOf(Releases[baseline].subs))
    BY <2>1, <2>2, ReconciledTyped DEF StartsInv, Unpinned
  <2>4. ASSUME NEW d \in deleted, d.url \in UrlsOf(live'.subs) PROVE Dropped(d)
    <3>1. d.at <= baseline /\ d.at \in 1..Len(Releases)
      BY <1>0, ReleasesTyped DEF StartsInv, RowsInv, Deletions
    <3>2. CASE d.url \in UrlsOf(store.subs)
      BY <3>2 DEF StartsInv, RowsInv
    <3>3. CASE d.url \notin UrlsOf(store.subs)
      <4>1. baseline # 0
        BY <1>0, <3>1
      <4>2. d.url \in UrlsOf(Shipped.subs) /\ d.url \notin UrlsOf(Releases[baseline].subs)
        BY <2>3, <2>4, <3>3, <4>1
      <4>3. baseline # release
        BY <4>2 DEF Shipped
      <4>4. baseline \in d.at..release - 1
        BY <1>0, <3>1, <4>3
      <4> QED
        BY <4>2, <4>4 DEF Dropped
    <3> QED
      BY <3>2, <3>3
  <2>5. \A d \in deleted : d.at <= baseline'
    BY <1>0, <1>1, <2>1 DEF StartsInv, RowsInv
  <2> QED
    BY <1>0, <1>1, <2>1, <2>3, <2>4, <2>5 DEF StartsInv, RowsInv
<1>7. CASE BootReconcileFails
  <2>1. /\ phase = "reconcile" /\ phase' = "serve" /\ live' = [live EXCEPT !.subs = <<>>]
        /\ UNCHANGED <<file, store, baseline>>
    BY <1>7 DEF BootReconcileFails, Boots, saved
  <2>2. live'.subs = <<>>
    BY <2>1 DEF StartsInv, PrefsInv, TypeOK, Configs
  <2>3. UrlsOf(live'.subs) = {}
    BY <2>2 DEF UrlsOf
  <2> QED
    BY <1>0, <1>1, <2>1, <2>3 DEF StartsInv, RowsInv
<1>8. CASE BootSaves
  <2>1. /\ phase = "save" /\ phase' = "serve" /\ store' = Base(live)
        /\ UNCHANGED <<file, baseline, live>>
    BY <1>8 DEF BootSaves, Boots, running
  <2>2. store'.subs = live.subs /\ file # "legacy" /\ store' # NoPrefs
    BY <2>1, StoredHasFields DEF Base, StartsInv, MigrationInv
  <2> QED
    BY <1>0, <1>1, <2>1, <2>2 DEF StartsInv, RowsInv
<1>9. CASE BootServes
  <2>1. phase' = "up" /\ UNCHANGED <<file, store, baseline>>
    BY <1>9 DEF BootServes, Boots, saved
  <2> QED
    BY <1>0, <1>1, <2>1 DEF StartsInv, RowsInv
<1> QED
  BY <1>2, <1>3, <1>4, <1>5, <1>6, <1>7, <1>8, <1>9 DEF Boot

LEMMA RowsInductive == StartsInv /\ [Next]_vars => RowsInv'
<1> SUFFICES ASSUME StartsInv, [Next]_vars PROVE RowsInv'
  OBVIOUS
<1>0. /\ Len(Releases) \in Nat /\ release \in 1..Len(Releases)
      /\ phase = "up" => tui \in Terminals /\ store \in Preferred
  BY ReleasesTyped DEF StartsInv, PrefsInv, TypeOK
<1>1. CASE ProgramStarts
  <2>1. /\ phase' = "load" /\ release' \in release..Len(Releases)
        /\ UNCHANGED <<file, store, baseline, deleted>>
    BY <1>1 DEF ProgramStarts, saved, history
  <2>2. release' >= release /\ release' \in 1..Len(Releases)
    BY <1>0, <2>1
  <2> QED
    BY <2>1, <2>2, QuietKeepsRows
<1>2. CASE ProgramStops
  <2>1. phase' = "down" /\ UNCHANGED <<file, store, baseline, release, deleted>>
    BY <1>2 DEF ProgramStops, saved
  <2> QED
    BY <1>0, <2>1, QuietKeepsRows
<1>3. CASE Boot
  BY <1>3, BootKeepsRowsInv
<1>4. CASE \E r \in Slots : Request(r)
  <2> SUFFICES ASSUME NEW r \in Slots, Request(r) PROVE RowsInv'
    BY <1>4
  <2>1. phase = "up" /\ UNCHANGED <<file, phase, release>>
    BY DEF Request, RequestArrives, RequestLoads, RequestApplies, RequestSaves,
           RequestSaveFails, RequestShows, RequestPublishes, Serves
  <2>2. CASE RequestSaves(r)
    <3>1. /\ requests[r].step # "idle" /\ Writes(Base(requests[r].config))
          /\ baseline' = baseline
      BY <2>2 DEF RequestSaves
    <3>2. Base(requests[r].config) \in Preferred
      BY <2>1, <3>1, StepsOfRequests, BaseTyped DEF StartsInv
    <3> QED
      BY <2>1, <3>1, <3>2, WriteKeepsRows
  <2>3. CASE ~RequestSaves(r)
    <3>1. UNCHANGED <<store, deleted>> /\ baseline' \in {baseline, release}
      BY <2>3 DEF Request, RequestArrives, RequestLoads, RequestApplies,
           RequestSaveFails, RequestShows, RequestPublishes, history
    <3> QED
      BY <1>0, <2>1, <3>1, QuietKeepsRows
  <2> QED
    BY <2>2, <2>3
<1>5. CASE Tui
  <2>1. /\ phase = "up" /\ UNCHANGED <<file, phase, release>>
        /\ baseline' \in {baseline, release}
    BY <1>5 DEF Tui, TuiEdits, TuiPins, TuiSwitches, TuiSaveBegins, TuiSaves, TuiResets,
           TuiSyncsPin, Types, TuiReady, saved
  <2>2. tui.edit \in Configs /\ tui.merged \in Settings
    BY <1>0, <2>1 DEF Terminals
  <2>3. CASE TuiSaves
    <3> DEFINE prefs == [fields |-> tui.merged, subs |-> tui.edit.subs]
    <3>1. prefs \in Preferred
      BY <2>2 DEF Configs, Preferred
    <3>2. Writes(prefs)
      BY <2>3 DEF TuiSaves
    <3> HIDE DEF prefs
    <3> QED
      BY <2>1, <3>1, <3>2, WriteKeepsRows
  <2>4. CASE TuiResets
    <3>1. PICK e \in ResetEdits :
            \/ Writes(Base(Edited(e, tui.edit)))
            \/ UNCHANGED <<store, live, deleted>>
      BY <2>4 DEF TuiResets
    <3>2. CASE UNCHANGED <<store, live, deleted>>
      BY <1>0, <2>1, <3>2, QuietKeepsRows
    <3>3. CASE Writes(Base(Edited(e, tui.edit)))
      <4>1. Sound(e) /\ ~Refused(e, tui.edit.subs)
        BY SettingsSound DEF Refused, Addressed
      <4>2. Edited(e, tui.edit) \in Configs
        BY <1>0, <2>2, <4>1, EditKeepsConfig
      <4>3. Base(Edited(e, tui.edit)) \in Preferred
        BY <4>2, BaseTyped
      <4> QED
        BY <2>1, <3>3, <4>3, WriteKeepsRows
    <3> QED
      BY <3>1, <3>2, <3>3
  <2>5. CASE ~TuiSaves /\ ~TuiResets
    <3>1. UNCHANGED <<store, deleted>>
      BY <1>5, <2>5 DEF Tui, TuiEdits, TuiPins, TuiSwitches, TuiSaveBegins, TuiSyncsPin,
           saved, history
    <3> QED
      BY <1>0, <2>1, <3>1, QuietKeepsRows
  <2> QED
    BY <2>3, <2>4, <2>5
<1>6. CASE UNCHANGED vars
  BY <1>6 DEF vars, StartsInv, RowsInv, Dropped
<1> QED
  BY <1>1, <1>2, <1>3, <1>4, <1>5, <1>6 DEF Next

\* Only the write that ends a start changes what is stored during one, the
\* migration aside, and it keeps every row where it is.
LEMMA StartKeepsRows ==
    ASSUME StartsInv, [Next]_vars, phase \in BootPhases, phase' # "neuter"
    PROVE  IsPrefix(store.subs, store'.subs)
<1>1. store \in Preferred \cup {NoPrefs} /\ live \in Configs \cup {NoConfig}
  BY DEF StartsInv, PrefsInv, TypeOK
<1>2. store.subs \in Seq(Rows)
  <2>1. NoPrefs.subs \in Seq(Rows)
    BY EmptySeq DEF NoPrefs
  <2>2. \A prefs \in Preferred : prefs.subs \in Seq(Rows)
    BY DEF Preferred
  <2> QED
    BY <1>1, <2>1, <2>2
<1>3. CASE store' = store
  BY <1>2, <1>3, PrefixOfItself, ExtendsIsPrefix
<1>4. CASE BootSeeds
  <2>1. store = NoPrefs /\ store' = Shipped
    BY <1>4 DEF BootSeeds, Seeds
  <2>2. Shipped.subs \in Seq(Rows)
    BY ShippedTyped, ReleasesTyped DEF Shipped, StartsInv, PrefsInv, TypeOK
  <2>3. store.subs = <<>> /\ Len(<<>>) = 0 /\ Len(Shipped.subs) \in Nat
    BY <2>1, <2>2, LenProperties DEF NoPrefs
  <2>4. Extends(Shipped.subs, <<>>)
    BY <2>2, <2>3 DEF Extends
  <2> QED
    BY <1>2, <2>1, <2>3, <2>4, ExtendsIsPrefix
<1>5. CASE BootSaves
  <2>1. store'.subs = live.subs /\ phase = "save"
    BY <1>5 DEF BootSaves, Boots, Base
  <2> QED
    BY <1>2, <2>1, ExtendsIsPrefix DEF StartsInv, RowsInv
<1>6. CASE ~BootSeeds /\ ~BootSaves
  <2>1. ~Tui /\ \A r \in Slots : ~Request(r)
    BY DEF BootPhases, Tui, TuiEdits, TuiPins, TuiSwitches, TuiSaveBegins, TuiSaves, TuiResets,
           TuiSyncsPin, Types, TuiReady, Request, RequestArrives, RequestLoads, RequestApplies,
           RequestSaves, RequestSaveFails, RequestShows, RequestPublishes, Serves
  <2>2. store' = store
    BY <1>6, <2>1 DEF Next, ProgramStarts, ProgramStops, Boot, BootMigrates, BootNeuters,
       BootLoads, BootReconciles, BootReconcileFails, BootServes, Boots, saved, vars
  <2> QED
    BY <1>3, <2>2
<1> QED
  BY <1>4, <1>5, <1>6

\* A start loses no subscription, moves none and switches none, and brings no
\* deleted one back, for any releases, edits and crashes (reconcile_with_defaults,
\* append_missing_subscriptions in src/settings.rs).
THEOREM StartsKeepRows == Spec => BootKeepsRows
<1>1. Init => StartsInv
  <2>1. Init => MigrationInv
    BY DEF Init, MigrationInv, MigrationSafe
  <2>2. Init => UpgradeInv
    BY ReleasesTyped DEF Init, UpgradeInv, ReleasesKnown, LoadedIsStored, MergedFollows
  <2>3. Init => RowsInv
    BY DEF Init, RowsInv
  <2> QED
    BY <2>1, <2>2, <2>3, PrefsInit DEF StartsInv
<1>2. StartsInv /\ [Next]_vars => StartsInv'
  BY PrefsInductive, MigrationInductive, UpgradeInductive, RowsInductive DEF StartsInv
<1>3. StartsInv => (phase \in {"save", "serve"} =>
                      \A d \in deleted : d.url \in UrlsOf(live.subs) => Dropped(d))
  BY DEF StartsInv, RowsInv
<1>4. StartsInv /\ [Next]_vars =>
        [(phase \in BootPhases /\ phase' # "neuter") => IsPrefix(store.subs, store'.subs)]_vars
  BY StartKeepsRows
<1> QED
  BY <1>1, <1>2, <1>3, <1>4, PTL DEF Spec, BootKeepsRows

----------------------------------------------------------------------------
(* An edit that nobody acts beside.                                          *)

\* While a request has the program to itself, what it has stored and shown is
\* what it is about to publish.
Synced(r) ==
    /\ requests[r].step = "show" => store = Base(requests[r].config)
    /\ requests[r].step = "live" /\ requests[r].edit.kind # "pin" =>
           store = Base(requests[r].config) /\ shown = requests[r].config.subs
LoneInv ==
    \A r \in alone :
        /\ \A q \in Slots \ {r} : Idle(q)
        /\ tui.step # "saving"
        /\ Synced(r)

\* A step of the request itself: nobody else can take one.
LEMMA LoneStep ==
    ASSUME PrefsInv, LoneInv, NEW r \in Slots, ~Idle(r), tui' = tui, alone' = alone, Synced(r)',
           \A q \in Slots \ {r} : requests'[q] = requests[q]
    PROVE  LoneInv'
<1>1. alone \subseteq Slots
  BY DEF PrefsInv, TypeOK
<1>2. \A s \in alone : s = r
  BY <1>1 DEF LoneInv
<1> QED
  BY <1>1, <1>2 DEF LoneInv, Idle

LEMMA MovedStep ==
    ASSUME PrefsInv, phase = "up", NEW r \in Slots, requests[r].step # "idle",
           NEW step \in {"list", "save", "show", "live"}, NEW config \in Configs,
           Moves(r, step, config)
    PROVE  /\ requests'[r].step = step /\ requests'[r].config = config
           /\ requests'[r].edit = requests[r].edit
           /\ \A q \in Slots \ {r} : requests'[q] = requests[q]
<1>1. requests \in [Slots -> Requests \cup {NoRequest}] /\ requests[r] \in Requests
  BY StepsOfRequests DEF PrefsInv
<1> DEFINE next == [requests[r] EXCEPT !.step = step, !.config = config]
<1>2. next.step = step /\ next.config = config /\ next.edit = requests[r].edit
  BY <1>1 DEF Requests
<1>3. requests' = [requests EXCEPT ![r] = next]
  BY <1>1 DEF Moves
<1> HIDE DEF next
<1> QED
  BY <1>1, <1>2, <1>3

LEMMA EndedStep ==
    ASSUME PrefsInv, NEW r \in Slots, Ends(r)
    PROVE  /\ requests'[r] = NoRequest /\ requests'[r].step = "idle"
           /\ \A q \in Slots \ {r} : requests'[q] = requests[q]
BY DEF PrefsInv, Ends, NoRequest

LEMMA RequestKeepsLone ==
    ASSUME PrefsInv, LoneInv, NEW r \in Slots, Request(r)
    PROVE  LoneInv'
<1>0. phase = "up" /\ tui' = tui /\ store \in Preferred
  BY DEF Request, RequestArrives, RequestLoads, RequestApplies, RequestSaves,
         RequestSaveFails, RequestShows, RequestPublishes, Serves, PrefsInv
<1>1. requests[r].step # "idle" => requests[r].config \in Configs
  BY <1>0, StepsOfRequests
<1>2. CASE RequestArrives(r)
  <2>1. /\ requests \in [Slots -> Requests \cup {NoRequest}]
        /\ \A q \in Slots \ {r} : requests'[q] = requests[q]
        /\ alone' # {} => alone' = {r} /\ (\A q \in Slots : Idle(q)) /\ tui.step = "idle"
    BY <1>2 DEF RequestArrives, PrefsInv
  <2>2. PICK e \in SettingEdits \cup SwitchEdits \cup PinEdits \cup ResetEdits
                   \cup ListEdits(shown) \cup ReorderEdits(shown) :
          requests' = [requests EXCEPT ![r] =
                         [step |-> FirstStep(e), edit |-> e,
                          config |-> IF e.kind \in FromLive THEN Edited(e, live) ELSE live]]
    BY <1>2 DEF RequestArrives
  <2>3. requests'[r].step = FirstStep(e) /\ requests'[r].edit = e
    BY <2>1, <2>2
  <2>4. Synced(r)'
    BY <2>3 DEF Synced, FirstStep
  <2> QED
    BY <1>0, <2>1, <2>4 DEF LoneInv, Idle
<1>3. CASE RequestLoads(r)
  <2>1. ~Idle(r) /\ requests[r].step # "idle" /\ Moves(r, "list", Unpinned(store)) /\ alone' = alone
    BY <1>3 DEF RequestLoads, Idle, history
  <2>2. Unpinned(store) \in Configs
    BY <1>0, UnpinnedTyped
  <2>3. requests'[r].step = "list" /\ \A q \in Slots \ {r} : requests'[q] = requests[q]
    BY <1>0, <2>1, <2>2, MovedStep
  <2>4. Synced(r)'
    BY <2>3 DEF Synced
  <2> QED
    BY <1>0, <2>1, <2>3, <2>4, LoneStep
<1>4. CASE RequestApplies(r)
  <2> DEFINE e == requests[r].edit
             loaded == [requests[r].config EXCEPT !.subs = store.subs]
  <2>1. /\ ~Idle(r) /\ requests[r].step # "idle" /\ alone' = alone
        /\ \/ ~Refused(e, loaded.subs) /\ Moves(r, "save", Edited(e, loaded))
           \/ Ends(r)
    BY <1>4 DEF RequestApplies, Idle, history
  <2>2. Sound(e) /\ loaded \in Configs /\ release \in 1..Len(Releases)
    BY <1>0, <1>1, <2>1, StepsOfRequests, ReleasesTyped DEF Configs, Preferred, PrefsInv, TypeOK
  <2> HIDE DEF e, loaded
  <2>3. ~Refused(e, loaded.subs) => Edited(e, loaded) \in Configs
    BY <2>2, EditKeepsConfig
  <2>4. requests'[r].step \in {"save", "idle"} /\ \A q \in Slots \ {r} : requests'[q] = requests[q]
    BY <1>0, <2>1, <2>3, MovedStep, EndedStep
  <2>5. Synced(r)'
    BY <2>4 DEF Synced
  <2> QED
    BY <1>0, <2>1, <2>4, <2>5, LoneStep
<1>5. CASE RequestSaves(r)
  <2>1. /\ ~Idle(r) /\ requests[r].step # "idle" /\ Moves(r, "show", requests[r].config)
        /\ alone' = alone /\ store' = Base(requests[r].config)
    BY <1>5 DEF RequestSaves, Writes, Idle
  <2>2. /\ requests'[r].step = "show" /\ requests'[r].config = requests[r].config
        /\ \A q \in Slots \ {r} : requests'[q] = requests[q]
    BY <1>0, <1>1, <2>1, MovedStep
  <2>3. Synced(r)'
    BY <2>1, <2>2 DEF Synced
  <2> QED
    BY <1>0, <2>1, <2>2, <2>3, LoneStep
<1>6. CASE RequestSaveFails(r)
  <2>1. ~Idle(r) /\ Ends(r) /\ alone' = alone
    BY <1>6 DEF RequestSaveFails, Idle, history
  <2>2. Synced(r)' /\ \A q \in Slots \ {r} : requests'[q] = requests[q]
    BY <2>1, EndedStep DEF Synced
  <2> QED
    BY <1>0, <2>1, <2>2, LoneStep
<1>7. CASE RequestShows(r)
  <2>1. /\ ~Idle(r) /\ requests[r].step = "show" /\ Moves(r, "live", requests[r].config)
        /\ alone' = alone /\ store' = store /\ shown' = requests[r].config.subs
    BY <1>7 DEF RequestShows, Idle, history
  <2>2. /\ requests'[r].step = "live" /\ requests'[r].config = requests[r].config
        /\ \A q \in Slots \ {r} : requests'[q] = requests[q]
    BY <1>0, <1>1, <2>1, MovedStep
  <2>3. r \in alone => Synced(r)'
    BY <2>1, <2>2 DEF Synced, LoneInv
  <2>4. r \in alone => LoneInv'
    BY <1>0, <2>1, <2>2, <2>3, LoneStep
  <2>5. r \notin alone => alone = {}
    BY <2>1 DEF LoneInv, PrefsInv, TypeOK
  <2> QED
    BY <2>1, <2>4, <2>5 DEF LoneInv
<1>8. CASE RequestPublishes(r)
  <2>1. ~Idle(r) /\ Ends(r) /\ alone' = alone
    BY <1>8 DEF RequestPublishes, Idle, history
  <2>2. Synced(r)' /\ \A q \in Slots \ {r} : requests'[q] = requests[q]
    BY <2>1, EndedStep DEF Synced
  <2> QED
    BY <1>0, <2>1, <2>2, LoneStep
<1> QED
  BY <1>2, <1>3, <1>4, <1>5, <1>6, <1>7, <1>8 DEF Request

LEMMA LoneInductive == PrefsInv /\ LoneInv /\ [Next]_vars => LoneInv'
<1> SUFFICES ASSUME PrefsInv, LoneInv, [Next]_vars PROVE LoneInv'
  OBVIOUS
<1>1. CASE ProgramStarts
  BY <1>1 DEF ProgramStarts, running, saved, history, LoneInv, Synced, Idle
<1>2. CASE ProgramStops
  BY <1>2 DEF ProgramStops, LoneInv
<1>3. CASE Boot
  <2>1. phase # "up" /\ UNCHANGED <<requests, alone>>
    BY <1>3 DEF Boot, BootMigrates, BootNeuters, BootSeeds, BootLoads, BootReconciles,
       BootReconcileFails, BootSaves, BootServes, Boots, history, running
  <2>2. \A r \in Slots : requests[r].step = "idle" /\ alone \subseteq Slots
    BY <2>1 DEF PrefsInv, TypeOK, NoRequest
  <2>3. tui' = tui \/ tui'.step = "idle"
    BY <1>3 DEF Boot, BootMigrates, BootNeuters, BootSeeds, BootLoads, BootReconciles,
       BootReconcileFails, BootSaves, BootServes, running
  <2> QED
    BY <2>1, <2>2, <2>3 DEF LoneInv, Synced, Idle, PrefsInv, TypeOK
<1>4. CASE \E r \in Slots : Request(r)
  BY <1>4, RequestKeepsLone
<1>5. CASE Tui
  <2>1. CASE TuiSyncsPin
    <3>1. UNCHANGED <<store, shown, requests, alone>>
      BY <2>1 DEF TuiSyncsPin, saved, history
    <3>2. tui'.step = tui.step
      BY <2>1 DEF TuiSyncsPin, TuiReady, PrefsInv, TypeOK, Terminals, NoTerminal
    <3> QED
      BY <3>1, <3>2 DEF LoneInv, Synced, Idle
  <2>2. CASE TuiSaves
    <3>1. alone = {} /\ alone' = alone
      BY <2>2 DEF TuiSaves, LoneInv
    <3> QED
      BY <3>1 DEF LoneInv
  <2>3. CASE ~TuiSyncsPin /\ ~TuiSaves
    <3>1. alone' = {}
      BY <1>5, <2>3 DEF Tui, TuiEdits, TuiPins, TuiSwitches, TuiSaveBegins, TuiResets, Types
    <3> QED
      BY <3>1 DEF LoneInv
  <2> QED
    BY <2>1, <2>2, <2>3
<1>6. CASE UNCHANGED vars
  BY <1>6 DEF vars, LoneInv, Synced, Idle
<1> QED
  BY <1>1, <1>2, <1>3, <1>4, <1>5, <1>6 DEF Next

\* An edit of the dashboard that runs alone leaves the store, the list shown
\* and the config of the loops equal, whatever they were before it, and for any
\* number of requests (persist_config in src/web.rs).
THEOREM LoneEditsSync == Spec => LoneEditSyncs
<1>1. Init => LoneInv
  BY DEF Init, LoneInv
<1>2. PrefsInv /\ LoneInv /\ [Next]_vars =>
        [\A r \in alone :
           requests[r].step = "live" /\ requests'[r] = NoRequest /\ phase' = "up"
           /\ requests[r].edit.kind # "pin"
              => Base(live') = store' /\ shown' = store'.subs]_vars
  <2> SUFFICES ASSUME PrefsInv, LoneInv, Next, NEW r \in alone, requests[r].step = "live",
                      requests'[r] = NoRequest, phase' = "up", requests[r].edit.kind # "pin"
               PROVE  Base(live') = store' /\ shown' = store'.subs
    OBVIOUS
  <2>1. r \in Slots /\ requests[r] # NoRequest /\ requests' # requests /\ phase = "up"
    BY DEF PrefsInv, TypeOK, NoRequest
  <2>2. ~Tui /\ ~Boot /\ ~ProgramStarts /\ ~ProgramStops
    BY <2>1 DEF Tui, TuiEdits, TuiPins, TuiSwitches, TuiSaveBegins, TuiSaves, TuiResets,
       TuiSyncsPin, Types, Boot, BootMigrates, BootNeuters, BootSeeds, BootLoads, BootReconciles,
       BootReconcileFails, BootSaves, BootServes, Boots, ProgramStarts, ProgramStops
  <2>3. PICK q \in Slots : Request(q)
    BY <2>2 DEF Next
  <2>4. q = r
    <3>1. CASE RequestArrives(q)
      <4>1. \A s \in Slots \ {q} : requests'[s] = requests[s]
        BY <3>1 DEF RequestArrives, PrefsInv
      <4> QED
        BY <2>1, <4>1
    <3>2. CASE ~RequestArrives(q)
      <4>1. ~Idle(q)
        BY <2>3, <3>2 DEF Request, RequestLoads, RequestApplies, RequestSaves,
           RequestSaveFails, RequestShows, RequestPublishes, Idle
      <4> QED
        BY <4>1 DEF LoneInv
    <3> QED
      BY <3>1, <3>2
  <2>5. RequestPublishes(r)
    BY <2>1, <2>3, <2>4 DEF Request, RequestArrives, RequestLoads, RequestApplies, RequestSaves,
       RequestSaveFails, RequestShows, Idle
  <2>6. /\ live' = requests[r].config /\ store = Base(requests[r].config)
        /\ shown = requests[r].config.subs /\ UNCHANGED <<store, shown>>
    BY <2>5 DEF RequestPublishes, LoneInv, Synced
  <2> QED
    BY <2>6 DEF Base
<1> QED
  BY <1>1, <1>2, PrefsInit, PrefsInductive, LoneInductive, PTL DEF Spec, LoneEditSyncs
====
