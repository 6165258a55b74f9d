--------------------------- MODULE UiStateProofs ----------------------------
(***************************************************************************)
(* The settings file, for every number of pages, requests, axes and edits. *)
(***************************************************************************)
EXTENDS UiState, TLAPS, FiniteSetTheorems, WellFoundedInduction

Modes == {"homing", "other"}
PageType == [profile : [Devices -> Profiles],
             last    : [Devices -> Profiles \cup {None}],
             ctl     : [target : Int, table : Nat, homing : Nat],
             range   : Nat \cup {Wide},
             mode    : Modes,
             active  : Devices,
             timer   : Devices \cup {None},
             token   : BOOLEAN,
             get     : Files \cup {None, Sent, Refused},
             booted  : BOOLEAN,
             read    : BOOLEAN]
Stages == {"sent", "open", "written"}
SlotType == [device : Devices, state : Profiles, setsPeriod : BOOLEAN,
             setsSettings : BOOLEAN, token : BOOLEAN, read : BOOLEAN, stage : Stages,
             merged : Files \cup {None}]

PagesTyped == page \in [Pages -> PageType]
TypeOK ==
    /\ PagesTyped
    /\ slot \in [Slots -> SlotType \cup {None}]
    /\ events \in Nat
    /\ file \in Files
    /\ entered \in [Devices -> SUBSET Int]

\* Who holds the lock and nobody else is between reading and replacing the file;
\* what is to replace it is the file as it is, with the entry of one axis merged.
Saving(t) == slot[t] # None /\ slot[t].stage \in {"open", "written"}
LockInv == \A t \in Slots : Saving(t) =>
    /\ lock = t
    /\ slot[t].merged \in Files
    /\ slot[t].merged = [file EXCEPT ![slot[t].device] = Merged(@, slot[t])]
    /\ slot[t].stage = "written" => tmp = slot[t].merged

UiInv == TypeOK /\ LockInv

-----------------------------------------------------------------------------
(* Pages.                                                                  *)

\* The anti-sway sections of an entry are the functions on some of the parts.
LEMMA SectionSets == Sections = UNION {[K -> Nat] : K \in SUBSET Parts}
<1>1. ASSUME NEW K \in SUBSET Parts PROVE [K -> Nat] \subseteq Sections
  <2>1. K = {} \/ K = {"settings"} \/ K = {"period"} \/ K = Parts
    BY DEF Parts
  <2> QED BY <2>1 DEF Sections
<1>2. ASSUME NEW f \in Sections PROVE \E K \in SUBSET Parts : f \in [K -> Nat]
  <2>1. {} \in SUBSET Parts /\ {"settings"} \in SUBSET Parts /\ {"period"} \in SUBSET Parts
    BY DEF Parts
  <2> QED BY <1>2, <2>1 DEF Sections
<1> DEFINE U == UNION {[K -> Nat] : K \in SUBSET Parts}
<1>3. \A f : f \in U <=> \E K \in SUBSET Parts : f \in [K -> Nat]
  BY Zenon
<1> HIDE DEF U
<1> QED BY <1>1, <1>2, <1>3 DEF U

\* What the slider makes of a number is that number or, below zero, an end of a travel.
LEMMA FitsOrEnds ==
  ASSUME NEW travel \in Nat \cup {Wide}, NEW n \in Int
  PROVE  Fitted(travel, n) \in Int /\ (Fitted(travel, n) = n \/ Fitted(travel, n) < 0)
  BY DEF Fitted, End, Wide

\* What saving and redrawing a page do to it: only the profile of the axis shown and
\* the slider change, the profile to what its inputs show.
Stores(pg, new) ==
    /\ new \in PageType
    /\ new.active = pg.active /\ new.mode = pg.mode
    /\ new.read = pg.read /\ new.get = pg.get /\ new.booted = pg.booted
    /\ \A c \in Devices \ {pg.active} : new.profile[c] = pg.profile[c]
    /\ new.ctl.table = pg.ctl.table /\ new.ctl.homing = pg.ctl.homing
    /\ new.ctl.target = pg.ctl.target \/ new.ctl.target < 0
    /\ LET now == new.profile[pg.active]
           old == pg.profile[pg.active]
       IN  /\ now.target = pg.ctl.target \/ now.target < 0
           /\ now.table = pg.ctl.table \/ now.table = old.table
           /\ now.homing = old.homing \/ (pg.mode = "homing" /\ now.homing = pg.ctl.homing)

\* saveUiState.
LEMMA SavedStores ==
  ASSUME NEW pg \in PageType, NEW schedule \in BOOLEAN
  PROVE  Stores(pg, Saved(pg, pg.active, schedule))
<1> DEFINE d == pg.active
           table == IF "table" \in Reads(pg) THEN pg.ctl.table ELSE pg.profile[d].table
           homing == IF "homing" \in Reads(pg) THEN pg.ctl.homing ELSE pg.profile[d].homing
           state == [pg.profile[d] EXCEPT !.target = pg.ctl.target, !.table = table,
                        !.homing = homing]
           profiles == [pg.profile EXCEPT ![d] = state]
           last == [pg.last EXCEPT ![d] = state]
           kept == [pg EXCEPT !.profile = profiles, !.last = last]
           timed == [kept EXCEPT !.timer = d]
           saved == Saved(pg, d, schedule)
<1>1. /\ d \in Devices /\ pg.profile[d] \in Profiles
      /\ pg.ctl.target \in Int /\ pg.ctl.table \in Nat /\ pg.ctl.homing \in Nat
  BY DEF PageType
<1>2. /\ table \in Nat /\ table \in {pg.ctl.table, pg.profile[d].table}
      /\ homing \in Nat /\ homing \in {pg.ctl.homing, pg.profile[d].homing}
      /\ "homing" \in Reads(pg) => pg.mode = "homing"
      /\ "homing" \notin Reads(pg) => homing = pg.profile[d].homing
  BY <1>1 DEF Profiles, Reads
<1>3. saved = kept \/ saved = timed
  BY DEF Saved, Scheduled
<1> HIDE DEF saved, table, homing
<1>4. /\ state \in Profiles /\ state.target = pg.ctl.target /\ state.table = table
      /\ state.homing = homing
  BY <1>1, <1>2 DEF Profiles
<1> HIDE DEF state
<1>5. /\ profiles \in [Devices -> Profiles] /\ last \in [Devices -> Profiles \cup {None}]
      /\ profiles[d] = state
      /\ \A c \in Devices \ {d} : profiles[c] = pg.profile[c]
  BY <1>1, <1>4 DEF PageType
<1> HIDE DEF profiles, last
<1>6. /\ kept \in PageType /\ kept.profile = profiles
      /\ kept.ctl = pg.ctl /\ kept.active = pg.active /\ kept.mode = pg.mode
      /\ kept.read = pg.read /\ kept.get = pg.get /\ kept.booted = pg.booted
  BY <1>5 DEF PageType
<1> HIDE DEF kept
<1>7. /\ timed \in PageType /\ timed.profile = profiles
      /\ timed.ctl = pg.ctl /\ timed.active = pg.active /\ timed.mode = pg.mode
      /\ timed.read = pg.read /\ timed.get = pg.get /\ timed.booted = pg.booted
  BY <1>1, <1>6 DEF PageType
<1> HIDE DEF timed
<1>8. ASSUME NEW new, new = kept \/ new = timed PROVE Stores(pg, new)
  <2>1. /\ new \in PageType /\ new.profile = profiles
        /\ new.ctl = pg.ctl /\ new.active = pg.active /\ new.mode = pg.mode
        /\ new.read = pg.read /\ new.get = pg.get /\ new.booted = pg.booted
    BY <1>6, <1>7, <1>8
  <2>2. /\ new.profile[pg.active] = state
        /\ \A c \in Devices \ {pg.active} : new.profile[c] = pg.profile[c]
    BY <1>5, <2>1
  <2> QED BY <1>2, <1>4, <2>1, <2>2 DEF Stores
<1>9. Stores(pg, saved)
  BY <1>3, <1>8
<1> QED BY <1>9 DEF saved

\* updateSliders.
LEMMA SlidersStores ==
  ASSUME NEW pg \in PageType
  PROVE  Stores(pg, Sliders(pg))
<1> DEFINE d == pg.active
           saved == Saved(pg, d, TRUE)
           travel == pg.profile[d].kept
           fit == Fitted(travel, pg.ctl.target)
           profiles == [saved.profile EXCEPT ![d] = [saved.profile[d] EXCEPT !.target = fit]]
           ctl == [saved.ctl EXCEPT !.target = fit]
           new == [saved EXCEPT !.range = travel, !.ctl = ctl, !.profile = profiles]
<1>1. Stores(pg, saved)
  BY SavedStores
<1>2. /\ d \in Devices /\ travel \in Nat /\ fit \in Int
      /\ fit = pg.ctl.target \/ fit < 0
  BY FitsOrEnds DEF PageType, Profiles
<1>3. Sliders(pg) = new
  BY <1>1 DEF Sliders, Stores, PageType
<1> HIDE DEF saved, travel, fit
<1>4. saved \in PageType
  BY <1>1 DEF Stores
<1>5. /\ profiles \in [Devices -> Profiles]
      /\ profiles[d].target = fit /\ profiles[d].table = saved.profile[d].table
      /\ profiles[d].homing = saved.profile[d].homing
      /\ \A c \in Devices \ {d} : profiles[c] = saved.profile[c]
  <2>1. saved.profile[d] \in Profiles
    BY <1>2, <1>4 DEF PageType
  <2> DEFINE f == [saved.profile[d] EXCEPT !.target = fit]
  <2>2. /\ f \in Profiles /\ f.target = fit /\ f.table = saved.profile[d].table
        /\ f.homing = saved.profile[d].homing
    BY <1>2, <2>1 DEF Profiles
  <2> HIDE DEF f
  <2>3. /\ [saved.profile EXCEPT ![d] = f] \in [Devices -> Profiles]
        /\ [saved.profile EXCEPT ![d] = f][d] = f
        /\ \A c \in Devices \ {d} : [saved.profile EXCEPT ![d] = f][c] = saved.profile[c]
    BY <1>2, <1>4, <2>2 DEF PageType
  <2> QED BY <2>2, <2>3 DEF f
<1>6. /\ ctl \in [target : Int, table : Nat, homing : Nat]
      /\ ctl.target = fit /\ ctl.table = saved.ctl.table /\ ctl.homing = saved.ctl.homing
  BY <1>2, <1>4 DEF PageType
<1> HIDE DEF profiles, ctl
<1>7. /\ new \in PageType /\ new.profile = profiles /\ new.ctl = ctl
      /\ new.active = saved.active /\ new.mode = saved.mode
      /\ new.read = saved.read /\ new.get = saved.get /\ new.booted = saved.booted
  BY <1>2, <1>4, <1>5, <1>6 DEF PageType
<1> HIDE DEF new
<1>8. Stores(pg, new)
  BY <1>1, <1>2, <1>5, <1>6, <1>7 DEF Stores
<1> QED BY <1>3, <1>8

\* Showing an axis.
LEMMA LoadedType ==
  ASSUME NEW pg \in PageType, NEW d \in Devices, NEW mode \in Modes
  PROVE  LET new == Loaded(pg, d, mode)
         IN  /\ new \in PageType /\ new.profile = pg.profile /\ new.active = pg.active
             /\ new.read = pg.read /\ new.get = pg.get /\ new.booted = pg.booted
             /\ new.mode = mode
             /\ new.ctl.target = pg.profile[d].target \/ new.ctl.target < 0
             /\ new.ctl.table = pg.profile[d].table
             /\ mode = "homing" => new.ctl.homing = pg.profile[d].homing
<1> DEFINE fit == Fitted(pg.range, pg.profile[d].target)
           homing == IF mode = "homing" THEN pg.profile[d].homing ELSE pg.ctl.homing
           ctl == [target |-> fit, table |-> pg.profile[d].table, homing |-> homing]
<1>1. /\ pg.profile[d] \in Profiles /\ pg.ctl.homing \in Nat /\ pg.range \in Nat \cup {Wide}
  BY DEF PageType
<1>2. pg.profile[d].target \in Int /\ pg.profile[d].table \in Nat /\ pg.profile[d].homing \in Nat
  BY <1>1 DEF Profiles
<1>3. fit \in Int /\ (fit = pg.profile[d].target \/ fit < 0) /\ homing \in Nat
  BY <1>1, <1>2, FitsOrEnds
<1>4. mode = "homing" => homing = pg.profile[d].homing
  OBVIOUS
<1>5. Loaded(pg, d, mode) = [pg EXCEPT !.mode = mode, !.ctl = ctl]
  BY DEF Loaded
<1> HIDE DEF fit, homing
<1>6. /\ ctl \in [target : Int, table : Nat, homing : Nat]
      /\ ctl.target = fit /\ ctl.table = pg.profile[d].table /\ ctl.homing = homing
  BY <1>2, <1>3
<1> HIDE DEF ctl
<1> DEFINE new == [pg EXCEPT !.mode = mode, !.ctl = ctl]
<1>7. /\ new \in PageType /\ new.profile = pg.profile /\ new.active = pg.active
      /\ new.read = pg.read /\ new.get = pg.get /\ new.booted = pg.booted
      /\ new.mode = mode /\ new.ctl = ctl
  BY <1>6 DEF PageType
<1> HIDE DEF new
<1> QED BY <1>3, <1>4, <1>5, <1>6, <1>7 DEF new

\* An answer of the server gives profiles.
LEMMA HydratedType ==
  ASSUME NEW pg \in PageType, pg.get \notin {None, Sent}
  PROVE  Hydrated(pg) \in [Devices -> Profiles]
<1>1. CASE pg.get = Refused
  BY <1>1 DEF Hydrated, PageType
<1>2. CASE pg.get # Refused
  <2>1. pg.get \in [Devices -> Entries \cup {None}]
    BY <1>2 DEF PageType, Files
  <2> DEFINE anti(e, k) == IF k \in DOMAIN e.anti THEN e.anti[k] ELSE 0
  <2>2. ASSUME NEW e \in Entries, NEW k PROVE anti(e, k) \in Nat
    <3>1. PICK K \in SUBSET Parts : e.anti \in [K -> Nat]
      BY <2>2, SectionSets DEF Entries
    <3> QED BY <3>1
  <2>3. ASSUME NEW d \in Devices, pg.get[d] # None
        PROVE  [target |-> pg.get[d].target, table |-> pg.get[d].table,
                homing |-> pg.get[d].homing, kept |-> pg.get[d].kept,
                settings |-> anti(pg.get[d], "settings"),
                period |-> anti(pg.get[d], "period")] \in Profiles
    <3>1. pg.get[d] \in Entries
      BY <2>1, <2>3
    <3>2. /\ pg.get[d].target \in Int /\ pg.get[d].table \in Nat
          /\ pg.get[d].homing \in Nat /\ pg.get[d].kept \in Nat
      BY <3>1 DEF Entries
    <3>3. anti(pg.get[d], "settings") \in Nat /\ anti(pg.get[d], "period") \in Nat
      BY <2>2, <3>1
    <3> HIDE DEF anti
    <3> QED BY <3>2, <3>3 DEF Profiles
  <2>4. \A d \in Devices : pg.profile[d] \in Profiles
    BY DEF PageType
  <2> QED BY <1>2, <2>3, <2>4 DEF Hydrated
<1> QED BY <1>1, <1>2

\* One page changes into a well-typed one.
LEMMA OnePage ==
  ASSUME PagesTyped, NEW p \in Pages, NEW pg \in PageType,
         page' = [page EXCEPT ![p] = pg]
  PROVE  PagesTyped'
  BY DEF PagesTyped

\* What the inputs do not show, and an edit of it.
Unshown == {"kept", "settings", "period"}
KeptEdited(pg, key, n) == [pg EXCEPT !.profile[pg.active][key] = n]

\* It changes one profile there and nothing else.
LEMMA KeptTyped ==
  ASSUME NEW pg \in PageType, NEW n \in Nat, NEW key \in Unshown
  PROVE  LET from == KeptEdited(pg, key, n)
         IN  /\ from \in PageType /\ from.ctl = pg.ctl /\ from.mode = pg.mode
             /\ from.active = pg.active /\ from.read = pg.read /\ from.get = pg.get
             /\ from.booted = pg.booted
             /\ \A c \in Devices : /\ from.profile[c].target = pg.profile[c].target
                                   /\ from.profile[c].table = pg.profile[c].table
                                   /\ from.profile[c].homing = pg.profile[c].homing
<1> DEFINE a == pg.active
           edited == [pg.profile[a] EXCEPT ![key] = n]
           profiles == [pg.profile EXCEPT ![a] = edited]
           from == [pg EXCEPT !.profile = profiles]
<1>1. a \in Devices /\ pg.profile[a] \in Profiles
  BY DEF PageType
<1>2. /\ edited \in Profiles /\ edited.target = pg.profile[a].target
      /\ edited.table = pg.profile[a].table /\ edited.homing = pg.profile[a].homing
  BY <1>1 DEF Profiles, Unshown
<1>3. KeptEdited(pg, key, n) = from
  BY DEF KeptEdited
<1> HIDE DEF edited
<1>4. /\ profiles \in [Devices -> Profiles] /\ profiles[a] = edited
      /\ \A c \in Devices \ {a} : profiles[c] = pg.profile[c]
  BY <1>1, <1>2 DEF PageType
<1> HIDE DEF profiles
<1>5. /\ from \in PageType /\ from.profile = profiles /\ from.ctl = pg.ctl
      /\ from.mode = pg.mode /\ from.active = pg.active /\ from.read = pg.read
      /\ from.get = pg.get /\ from.booted = pg.booted
  BY <1>4 DEF PageType
<1> HIDE DEF from
<1>6. \A c \in Devices : (profiles[c] = edited /\ c = a) \/ profiles[c] = pg.profile[c]
  BY <1>4
<1> QED BY <1>2, <1>3, <1>5, <1>6

\* Inputs and mode of a page are set.
InputSet(pg, ctl, mode) == [pg EXCEPT !.ctl = ctl, !.mode = mode]

\* The rest of the page stays.
LEMMA InputTyped ==
  ASSUME NEW pg \in PageType, NEW ctl \in [target : Int, table : Nat, homing : Nat],
         NEW mode \in Modes
  PROVE  LET from == InputSet(pg, ctl, mode)
         IN  /\ from \in PageType /\ from.ctl = ctl /\ from.mode = mode
             /\ from.active = pg.active /\ from.profile = pg.profile
             /\ from.get = pg.get /\ from.read = pg.read /\ from.booted = pg.booted
  BY DEF PageType, InputSet

\* Its timer is cleared.
LEMMA TimerTyped ==
  ASSUME NEW pg \in PageType
  PROVE  LET from == [pg EXCEPT !.timer = None]
         IN  /\ from \in PageType /\ from.ctl = pg.ctl /\ from.mode = pg.mode
             /\ from.active = pg.active /\ from.profile = pg.profile
             /\ from.get = pg.get /\ from.read = pg.read /\ from.booted = pg.booted
  BY DEF PageType

\* It turns to another axis.
LEMMA AxisTyped ==
  ASSUME NEW pg \in PageType, NEW d \in Devices
  PROVE  LET from == [pg EXCEPT !.active = d]
         IN  /\ from \in PageType /\ from.active = d /\ from.profile = pg.profile
             /\ from.get = pg.get /\ from.read = pg.read /\ from.booted = pg.booted
  BY DEF PageType

-----------------------------------------------------------------------------
(* Requests.                                                               *)

\* What is merged is an entry of the file, and depends on nothing that changes
\* while the request is carried out.
LEMMA MergedType ==
  ASSUME NEW e \in Entries \cup {None}, NEW r \in SlotType
  PROVE  Merged(e, r) \in Entries
<1> DEFINE had == IF e = None THEN [k \in {} |-> 0] ELSE e.anti
           sent == [k \in Parts |-> r.state[k]]
           stays == Protected(r) \cap DOMAIN had
           comes == DOMAIN sent \ Protected(r)
           anti == [k \in stays \cup comes |-> IF k \in stays THEN had[k] ELSE sent[k]]
<1>1. PICK H \in SUBSET Parts : had \in [H -> Nat]
  <2>1. CASE e = None
    <3>1. had \in [{} -> Nat]
      BY <2>1
    <3> QED BY <3>1
  <2>2. CASE e # None
    <3>1. e \in Entries
      BY <2>2
    <3> QED BY <2>2, <3>1, SectionSets DEF Entries
  <2> QED BY <2>1, <2>2
<1>2. sent \in [Parts -> Nat]
  BY DEF SlotType, Profiles, Parts
<1>3. stays \cup comes \in SUBSET Parts
  BY <1>1, <1>2
<1>4. anti \in [stays \cup comes -> Nat]
  <2> HIDE DEF had, sent
  <2>1. \A k \in stays : had[k] \in Nat
    BY <1>1
  <2>2. \A k \in comes : sent[k] \in Nat
    BY <1>2
  <2> QED BY <2>1, <2>2
<1>5. /\ r.state.target \in Int /\ r.state.table \in Nat
      /\ r.state.homing \in Nat /\ r.state.kept \in Nat
  BY DEF SlotType, Profiles
<1>6. Merged(e, r) = [target |-> r.state.target, table |-> r.state.table,
                      homing |-> r.state.homing, kept |-> r.state.kept, anti |-> anti]
  BY Zenon DEF Merged, Parts
<1> HIDE DEF anti, stays, comes
<1>7. anti \in Sections
  BY <1>3, <1>4, SectionSets
<1> QED BY <1>5, <1>6, <1>7 DEF Entries

\* A merge reads the state and the two marks of a request, nothing else.
LEMMA MergedSame ==
  ASSUME NEW e, NEW r, NEW q, r.state = q.state, r.setsPeriod = q.setsPeriod,
         r.setsSettings = q.setsSettings
  PROVE  Merged(e, r) = Merged(e, q)
  BY DEF Merged, Protected

\* Merging leaves a part alone that the request was not about.
LEMMA MergedKeeps ==
  ASSUME NEW e \in Entries \cup {None}, NEW r, NEW k \in Protected(r)
  PROVE  LET had == IF e = None THEN {} ELSE DOMAIN e.anti
         IN  /\ k \in DOMAIN Merged(e, r).anti <=> k \in had
             /\ k \in had => Merged(e, r).anti[k] = e.anti[k]
<1>1. CASE e = None
  BY <1>1 DEF Merged
<1>2. CASE e # None
  BY <1>2 DEF Merged
<1> QED BY <1>1, <1>2

\* The page's posts are well-typed requests.
LEMMA PostedType ==
  ASSUME TypeOK, NEW t \in Slots, NEW pg \in PageType, NEW d \in Devices,
         NEW period \in BOOLEAN, NEW settings \in BOOLEAN,
         Posts(t, pg, d, period, settings)
  PROVE  /\ slot' \in [Slots -> SlotType \cup {None}]
         /\ slot[t] = None /\ slot'[t].stage = "sent"
         /\ \A s \in Slots \ {t} : slot'[s] = slot[s]
<1> DEFINE new == [device |-> d, state |-> pg.profile[d], setsPeriod |-> period,
              setsSettings |-> settings, token |-> pg.token, read |-> pg.read,
              stage |-> "sent", merged |-> None]
<1>1. pg.profile[d] \in Profiles /\ pg.token \in BOOLEAN /\ pg.read \in BOOLEAN
  BY DEF PageType
<1>2. new \in SlotType
  BY <1>1 DEF SlotType, Stages
<1>3. new.stage = "sent"
  OBVIOUS
<1>4. slot' = [slot EXCEPT ![t] = new] /\ slot[t] = None
  BY DEF Posts
<1> HIDE DEF new
<1> QED BY <1>2, <1>3, <1>4 DEF TypeOK

\* A step that leaves the file, the lock and what is being saved alone.
LEMMA QuietSaves ==
  ASSUME LockInv, UNCHANGED <<file, tmp, lock>>,
         \A t \in Slots : Saving(t)' => Saving(t) /\ slot'[t] = slot[t]
  PROVE  LockInv'
  BY DEF LockInv

-----------------------------------------------------------------------------
(* Steps.                                                                  *)

\* A step of a page: it becomes another well-typed page, requests are posted or not.
LEMMA PageStep ==
  ASSUME UiInv, NEW p \in Pages, NEW pg \in PageType,
         page' = [page EXCEPT ![p] = pg], UNCHANGED <<file, tmp, lock>>,
         events' \in Nat, entered' \in [Devices -> SUBSET Int],
         \/ UNCHANGED slot
         \/ \E t \in Slots, from \in PageType, d \in Devices :
               \E period \in BOOLEAN, settings \in BOOLEAN :
                  Posts(t, from, d, period, settings)
  PROVE  UiInv'
<1>1. PagesTyped'
  BY OnePage DEF UiInv, TypeOK
<1>2. /\ slot' \in [Slots -> SlotType \cup {None}]
      /\ \A t \in Slots : Saving(t)' => Saving(t) /\ slot'[t] = slot[t]
  <2>1. CASE UNCHANGED slot
    BY <2>1 DEF UiInv, TypeOK, Saving
  <2>2. ASSUME NEW t \in Slots, NEW from \in PageType, NEW d \in Devices,
               NEW period \in BOOLEAN, NEW settings \in BOOLEAN,
               Posts(t, from, d, period, settings)
        PROVE  /\ slot' \in [Slots -> SlotType \cup {None}]
               /\ \A s \in Slots : Saving(s)' => Saving(s) /\ slot'[s] = slot[s]
    BY <2>2, PostedType DEF UiInv, Saving
  <2> QED BY <2>1, <2>2
<1>3. LockInv'
  BY <1>2, QuietSaves DEF UiInv
<1> QED BY <1>1, <1>2, <1>3 DEF UiInv, TypeOK

\* What is held for an axis is among the numbers e: its target is, or is an end of a
\* travel.  E gives these numbers for every axis.
Ours(s, e) == (s.target \in e \/ s.target < 0) /\ s.table \in e /\ s.homing \in e

\* A page shows, and keeps, for every axis numbers of E; the homing panel is read only
\* while it is shown.
Shown(pg, E) ==
    /\ \A d \in Devices : Ours(pg.profile[d], E[d])
    /\ pg.ctl.target \in E[pg.active] \/ pg.ctl.target < 0
    /\ pg.ctl.table \in E[pg.active]
    /\ pg.mode = "homing" => pg.ctl.homing \in E[pg.active]

\* Saving keeps that.
LEMMA StoresShown ==
  ASSUME NEW pg \in PageType, NEW new, NEW E, Stores(pg, new), Shown(pg, E)
  PROVE  Shown(new, E)
<1>1. pg.active \in Devices
  BY DEF PageType
<1>2. Ours(new.profile[pg.active], E[pg.active])
  BY <1>1 DEF Stores, Shown, Ours
<1>3. \A d \in Devices : Ours(new.profile[d], E[d])
  BY <1>2 DEF Stores, Shown
<1> QED BY <1>1, <1>3 DEF Stores, Shown

\* More numbers do no harm.
LEMMA ShownGrows ==
  ASSUME NEW pg \in PageType, NEW E, NEW F, \A d \in Devices : E[d] \subseteq F[d],
         Shown(pg, E)
  PROVE  Shown(pg, F)
<1>1. pg.active \in Devices
  BY DEF PageType
<1> QED BY <1>1 DEF Shown, Ours

\* G holds what E did and what was entered so far.
Covers(E, G, F) == \A d \in Devices : E[d] \subseteq F[d] /\ G[d] \subseteq F[d]

\* A page that held numbers of E holds, when it becomes the other, numbers of E and G.
Brings(pg, G, new) == \A E, F : Covers(E, G, F) /\ Shown(pg, E) => Shown(new, F)

\* The own actions of a page that is open: p becomes new, which holds only what it
\* held before or the user just entered, and posts what it then holds.
Turns(p, new) ==
    /\ new \in PageType
    /\ page' = [page EXCEPT ![p] = new] /\ UNCHANGED <<file, tmp, lock, synced>>
    /\ events' \in Nat
    /\ new.get = page[p].get /\ new.read = page[p].read /\ new.booted = page[p].booted
    /\ ~new.booted => new.active = page[p].active
    /\ entered' \in [Devices -> SUBSET Int]
    /\ \A d \in Devices : entered[d] \subseteq entered'[d]
    /\ Brings(page[p], entered', new)
    /\ \/ UNCHANGED slot
       \/ \E t \in Slots, d \in Devices : \E period \in BOOLEAN, settings \in BOOLEAN :
             Posts(t, new, d, period, settings)

\* The numbers entered when n is, or nothing.
LEMMA EntryType ==
  ASSUME UiInv, NEW a \in Devices, NEW n \in Nat,
         entered' = entered \/ entered' = [entered EXCEPT ![a] = @ \cup {n}]
  PROVE  /\ entered' \in [Devices -> SUBSET Int]
         /\ \A d \in Devices : entered[d] \subseteq entered'[d]
         /\ entered' = [entered EXCEPT ![a] = @ \cup {n}] => n \in entered'[a]
  BY DEF UiInv, TypeOK

\* Inputs that are given what is entered, or made to show the profile.
LEMMA InputShown ==
  ASSUME NEW pg \in PageType, NEW ctl \in [target : Int, table : Nat, homing : Nat],
         NEW mode \in Modes, NEW G,
         ctl.target = pg.ctl.target \/ ctl.target \in G[pg.active] \/ ctl.target < 0,
         ctl.table = pg.ctl.table \/ ctl.table \in G[pg.active],
         \/ mode # "homing"
         \/ ctl.homing \in G[pg.active] \/ ctl.homing = pg.profile[pg.active].homing
         \/ mode = pg.mode /\ ctl.homing = pg.ctl.homing
  PROVE  Brings(pg, G, InputSet(pg, ctl, mode))
<1> DEFINE from == InputSet(pg, ctl, mode)
<1>1. /\ from.ctl = ctl /\ from.mode = mode /\ from.active = pg.active
      /\ from.profile = pg.profile
  BY InputTyped
<1> HIDE DEF from
<1>2. ASSUME NEW E, NEW F, Covers(E, G, F), Shown(pg, E) PROVE Shown(from, F)
  <2>1. pg.active \in Devices
    BY DEF PageType
  <2>2. Shown(pg, F)
    BY <1>2, ShownGrows DEF Covers
  <2>3. G[pg.active] \subseteq F[pg.active]
    BY <1>2, <2>1 DEF Covers
  <2>4. pg.profile[pg.active].homing \in F[pg.active]
    BY <2>1, <2>2 DEF Shown, Ours
  <2>5. mode = "homing" => ctl.homing \in F[pg.active]
    BY <2>2, <2>3, <2>4 DEF Shown
  <2>6. /\ ctl.target \in F[pg.active] \/ ctl.target < 0
        /\ ctl.table \in F[pg.active]
    BY <2>2, <2>3 DEF Shown
  <2> QED BY <1>1, <2>2, <2>5, <2>6 DEF Shown
<1> QED BY <1>2 DEF Brings, from

\* A page that is edited and saved, or not saved yet, takes a turn.
LEMMA Turned ==
  ASSUME UiInv, NEW p \in Pages, NEW from \in PageType, NEW new, new = from \/ Stores(from, new),
         from.get = page[p].get, from.read = page[p].read, from.booted = page[p].booted,
         ~from.booted => from.active = page[p].active,
         page' = [page EXCEPT ![p] = new],
         UNCHANGED <<file, tmp, lock, synced>>, events' \in Nat,
         entered' \in [Devices -> SUBSET Int],
         \A d \in Devices : entered[d] \subseteq entered'[d],
         Brings(page[p], entered', from),
         \/ UNCHANGED slot
         \/ \E t \in Slots, d \in Devices : \E period \in BOOLEAN, settings \in BOOLEAN :
               Posts(t, new, d, period, settings)
  PROVE  Turns(p, new)
<1>1. /\ new \in PageType /\ new.get = page[p].get /\ new.read = page[p].read
      /\ new.booted = page[p].booted /\ (~new.booted => new.active = page[p].active)
  BY DEF Stores
<1>2. ASSUME NEW E, NEW F, Covers(E, entered', F), Shown(page[p], E) PROVE Shown(new, F)
  <2>1. Shown(from, F)
    BY <1>2 DEF Brings
  <2> QED BY <2>1, StoresShown
<1>3. Brings(page[p], entered', new)
  BY <1>2 DEF Brings
<1> QED BY <1>1, <1>3 DEF Turns

\* An edit of the profile alone.
LEMMA ProfileShown ==
  ASSUME NEW pg \in PageType, NEW n \in Nat, NEW key \in Unshown, NEW G
  PROVE  Brings(pg, G, KeptEdited(pg, key, n))
<1> DEFINE from == KeptEdited(pg, key, n)
<1>1. /\ from.ctl = pg.ctl /\ from.mode = pg.mode /\ from.active = pg.active
      /\ \A c \in Devices : /\ from.profile[c].target = pg.profile[c].target
                            /\ from.profile[c].table = pg.profile[c].table
                            /\ from.profile[c].homing = pg.profile[c].homing
  BY KeptTyped
<1> HIDE DEF from
<1>2. ASSUME NEW E, NEW F, Covers(E, G, F), Shown(pg, E) PROVE Shown(from, F)
  <2>1. Shown(pg, F)
    BY <1>2, ShownGrows DEF Covers
  <2>2. ASSUME NEW c \in Devices PROVE Ours(from.profile[c], F[c])
    BY <1>1, <2>1 DEF Shown, Ours
  <2> QED BY <1>1, <2>1, <2>2 DEF Shown
<1> QED BY <1>2 DEF Brings, from

\* The edits and the redraw.
LEMMA EditsTurn ==
  ASSUME UiInv, NEW p \in Pages,
         \/ EditControl(p) \/ EditKept(p) \/ Redraw(p)
         \/ EditSheet(p, "table") \/ EditSheet(p, "homing")
  PROVE  \E new : Turns(p, new)
<1> DEFINE pg == page[p]
           a == pg.active
           n == events + 1
           Controls == [target : Int, table : Nat, homing : Nat]
<1>1. /\ pg \in PageType /\ a \in Devices /\ n \in Nat /\ events \in Nat
      /\ pg.ctl \in Controls /\ pg.mode \in Modes /\ pg.range \in Nat \cup {Wide}
      /\ entered \in [Devices -> SUBSET Int]
  BY DEF UiInv, TypeOK, PagesTyped, PageType
<1> HIDE DEF pg, n
<1>2. ASSUME NEW ctl \in Controls
      PROVE  [pg EXCEPT !.ctl = ctl] = InputSet(pg, ctl, pg.mode)
  BY <1>1 DEF PageType, InputSet
<1>3. CASE EditControl(p)
  <2> DEFINE fit == Fitted(pg.range, n)
             ctl == [pg.ctl EXCEPT !.target = fit]
             from == [pg EXCEPT !.ctl = ctl]
  <2>1. fit \in Int /\ (fit = n \/ fit < 0)
    BY <1>1, FitsOrEnds
  <2>2. /\ page' = [page EXCEPT ![p] = Sliders(from)] /\ events' = n
        /\ UNCHANGED <<file, tmp, lock, synced, slot>>
        /\ entered' = [entered EXCEPT ![a] = @ \cup {n}]
    BY <1>3 DEF EditControl, Becomes, Event, pg, n
  <2> HIDE DEF fit
  <2>3. /\ ctl \in Controls /\ ctl.target = fit
        /\ ctl.table = pg.ctl.table /\ ctl.homing = pg.ctl.homing
    BY <1>1, <2>1
  <2> HIDE DEF ctl
  <2>4. /\ n \in entered'[a] /\ entered' \in [Devices -> SUBSET Int]
        /\ \A d \in Devices : entered[d] \subseteq entered'[d]
    BY <1>1, <2>2, EntryType
  <2>5. /\ from \in PageType /\ from.get = pg.get /\ from.read = pg.read /\ from.active = a
        /\ from.booted = pg.booted
        /\ Brings(pg, entered', from)
    <3>1. from = InputSet(pg, ctl, pg.mode)
      BY <1>2, <2>3
    <3>2. Brings(pg, entered', InputSet(pg, ctl, pg.mode))
      BY <1>1, <2>1, <2>3, <2>4, InputShown
    <3> HIDE DEF from
    <3> QED BY <1>1, <2>3, <3>1, <3>2, InputTyped
  <2> HIDE DEF from
  <2>6. Stores(from, Sliders(from))
    BY <2>5, SlidersStores
  <2> QED BY <1>1, <2>2, <2>4, <2>5, <2>6, Turned DEF pg
<1>4. CASE EditKept(p)
  <2> DEFINE from == KeptEdited(pg, "kept", n)
  <2>1. /\ page' = [page EXCEPT ![p] = Sliders(from)] /\ events' = n
        /\ UNCHANGED <<file, tmp, lock, synced, slot, entered>>
    BY <1>4 DEF EditKept, Becomes, Event, KeptEdited, pg, n
  <2>2. /\ from \in PageType /\ from.get = pg.get /\ from.read = pg.read /\ from.active = a
        /\ from.booted = pg.booted
        /\ Brings(pg, entered', from)
    <3>1. "kept" \in Unshown
      BY DEF Unshown
    <3> QED BY <1>1, <3>1, KeptTyped, ProfileShown
  <2> HIDE DEF from
  <2>3. Stores(from, Sliders(from))
    BY <2>2, SlidersStores
  <2>4. entered' \in [Devices -> SUBSET Int] /\ \A d \in Devices : entered[d] \subseteq entered'[d]
    BY <1>1, <2>1
  <2> QED BY <1>1, <2>1, <2>2, <2>3, <2>4, Turned DEF pg
<1>5. CASE Redraw(p)
  <2>1. page' = [page EXCEPT ![p] = Sliders(pg)]
        /\ UNCHANGED <<file, tmp, lock, synced, slot, entered, events>>
    BY <1>5 DEF Redraw, Becomes, pg
  <2>2. Stores(pg, Sliders(pg))
    BY <1>1, SlidersStores
  <2>3. entered' \in [Devices -> SUBSET Int] /\ \A d \in Devices : entered[d] \subseteq entered'[d]
    BY <1>1, <2>1
  <2>4. Brings(pg, entered', pg)
    BY <1>1, ShownGrows DEF Covers, Brings
  <2> QED BY <1>1, <2>1, <2>2, <2>3, <2>4, Turned DEF pg
<1>6. ASSUME NEW k \in {"table", "homing"}, EditSheet(p, k) PROVE \E new : Turns(p, new)
  <2> DEFINE ctl == [pg.ctl EXCEPT ![k] = n]
             from == [pg EXCEPT !.ctl = ctl]
             new == Saved(from, a, TRUE)
  <2>1. /\ page' = [page EXCEPT ![p] = new] /\ events' = n
        /\ UNCHANGED <<file, tmp, lock, synced, slot>>
        /\ entered' = [entered EXCEPT ![a] = @ \cup {n}]
    BY <1>6 DEF EditSheet, Becomes, Event, pg, n
  <2>2. /\ ctl \in Controls /\ ctl.target = pg.ctl.target
        /\ ctl.table \in {pg.ctl.table, n} /\ ctl.homing \in {pg.ctl.homing, n}
    BY <1>1, <1>6
  <2> HIDE DEF ctl
  <2>3. /\ n \in entered'[a] /\ entered' \in [Devices -> SUBSET Int]
        /\ \A d \in Devices : entered[d] \subseteq entered'[d]
    BY <1>1, <2>1, EntryType
  <2>4. /\ from \in PageType /\ from.get = pg.get /\ from.read = pg.read /\ from.active = a
        /\ from.booted = pg.booted
        /\ Brings(pg, entered', from)
    <3>1. from = InputSet(pg, ctl, pg.mode)
      BY <1>2, <2>2
    <3>2. Brings(pg, entered', InputSet(pg, ctl, pg.mode))
      BY <1>1, <2>2, <2>3, InputShown
    <3> HIDE DEF from
    <3> QED BY <1>1, <2>2, <3>1, <3>2, InputTyped
  <2> HIDE DEF from
  <2>5. Stores(from, new)
    BY <2>4, SavedStores
  <2> QED BY <1>1, <2>1, <2>3, <2>4, <2>5, Turned DEF pg
<1> QED BY <1>3, <1>4, <1>5, <1>6

\* The anti-sway parameters, the timer, the mode and the change of the axis.
LEMMA OthersTurn ==
  ASSUME UiInv, NEW p \in Pages, NEW mode \in Modes,
         \/ EditAntiSway(p, "settings") \/ EditAntiSway(p, "period")
         \/ TimerFires(p) \/ setMode(p, mode)
         \/ \E d \in Devices : switchAxis(p, d, mode)
  PROVE  \E new : Turns(p, new)
<1> DEFINE pg == page[p]
           a == pg.active
           n == events + 1
           Controls == [target : Int, table : Nat, homing : Nat]
<1>1. /\ pg \in PageType /\ a \in Devices /\ n \in Nat /\ events \in Nat
      /\ pg.ctl \in Controls /\ entered \in [Devices -> SUBSET Int]
  BY DEF UiInv, TypeOK, PagesTyped, PageType
<1> HIDE DEF pg, n
<1>2. ASSUME UNCHANGED entered
      PROVE  /\ entered' \in [Devices -> SUBSET Int]
             /\ \A d \in Devices : entered[d] \subseteq entered'[d]
  BY <1>1, <1>2
<1>3. ASSUME NEW key \in Parts, EditAntiSway(p, key) PROVE \E new : Turns(p, new)
  <2> DEFINE from == KeptEdited(pg, key, n)
             new == Saved(from, a, FALSE)
  <2>1. PICK t \in Slots :
          Posts(t, new, a, key = "period", key = "settings") /\ events' = n
          /\ page' = [page EXCEPT ![p] = new]
          /\ UNCHANGED <<file, tmp, lock, synced, entered>>
    BY <1>3 DEF EditAntiSway, Becomes, Event, KeptEdited, pg, n
  <2>2. /\ from \in PageType /\ from.get = pg.get /\ from.read = pg.read /\ from.active = a
        /\ from.booted = pg.booted
        /\ Brings(pg, entered', from)
    <3>1. key \in Unshown
      BY <1>3 DEF Parts, Unshown
    <3>2. Brings(pg, entered', from)
      BY <1>1, <3>1, ProfileShown
    <3>3. /\ from \in PageType /\ from.get = pg.get /\ from.read = pg.read
          /\ from.active = a /\ from.booted = pg.booted
      BY <1>1, <3>1, KeptTyped, Zenon
    <3> QED BY <3>2, <3>3
  <2> HIDE DEF from
  <2>3. Stores(from, new)
    BY <2>2, SavedStores
  <2> HIDE DEF new
  <2>4. \E s \in Slots, d \in Devices : \E period \in BOOLEAN, settings \in BOOLEAN :
           Posts(s, new, d, period, settings)
    BY <1>1, <2>1
  <2> QED BY <1>1, <1>2, <2>1, <2>2, <2>3, <2>4, Turned DEF pg
<1>4. CASE TimerFires(p)
  <2> DEFINE d == pg.timer
             calm == [pg EXCEPT !.timer = None]
             now == IF d = a THEN Saved(calm, d, FALSE) ELSE calm
  <2>1. d \in Devices
    BY <1>1, <1>4 DEF TimerFires, PageType, pg
  <2>2. /\ calm \in PageType /\ calm.active = a /\ calm.get = pg.get /\ calm.read = pg.read
        /\ calm.booted = pg.booted
        /\ calm.ctl = pg.ctl /\ calm.mode = pg.mode /\ calm.profile = pg.profile
    BY <1>1, TimerTyped
  <2>3. PICK t \in Slots : /\ Posts(t, now, d, FALSE, FALSE)
                           /\ page' = [page EXCEPT ![p] = now]
                           /\ UNCHANGED <<file, tmp, lock, synced, events, entered>>
    BY <1>4, <2>2 DEF TimerFires, Becomes, pg
  <2> HIDE DEF calm
  <2>4. now = calm \/ Stores(calm, now)
    BY <2>2, SavedStores
  <2>5. Brings(pg, entered', calm)
    <3> SUFFICES ASSUME NEW E, NEW F, Covers(E, entered', F), Shown(pg, E)
                 PROVE  Shown(calm, F)
      BY DEF Brings
    <3>1. Shown(pg, F)
      BY <1>1, ShownGrows DEF Covers
    <3> QED BY <2>2, <3>1 DEF Shown
  <2> HIDE DEF now
  <2>6. \E s \in Slots, c \in Devices : \E period \in BOOLEAN, settings \in BOOLEAN :
           Posts(s, now, c, period, settings)
    BY <2>1, <2>3
  <2> QED BY <1>1, <1>2, <2>2, <2>3, <2>4, <2>5, <2>6, Turned DEF pg
<1>5. CASE setMode(p, mode)
  <2> DEFINE panel == IF mode = "homing" THEN pg.profile[a].homing ELSE pg.ctl.homing
             ctl == [pg.ctl EXCEPT !.homing = panel]
             shown == [pg EXCEPT !.mode = mode, !.ctl = ctl]
             from == InputSet(pg, ctl, mode)
             new == IF a = Aux THEN Saved(shown, a, TRUE) ELSE shown
  <2>1. /\ page' = [page EXCEPT ![p] = new] /\ events' = n
        /\ UNCHANGED <<file, tmp, lock, synced, slot, entered>>
    BY <1>5 DEF setMode, Becomes, Event, pg, n
  <2>2. pg.profile[a].homing \in Nat
    BY <1>1 DEF PageType, Profiles
  <2>3. /\ ctl \in Controls /\ ctl.target = pg.ctl.target /\ ctl.table = pg.ctl.table
        /\ mode = "homing" => ctl.homing = pg.profile[a].homing
        /\ ctl.homing \in {pg.ctl.homing, pg.profile[a].homing}
    BY <1>1, <2>2
  <2> HIDE DEF panel, ctl
  <2>4. shown = from
    BY <1>1 DEF PageType, InputSet
  <2>5. /\ from \in PageType /\ from.get = pg.get /\ from.read = pg.read /\ from.active = a
        /\ from.booted = pg.booted
        /\ Brings(pg, entered', from)
    <3>1. Brings(pg, entered', from)
      BY <1>1, <2>3, InputShown
    <3> QED BY <1>1, <2>3, <3>1, InputTyped
  <2> HIDE DEF from, shown
  <2>6. new = from \/ Stores(from, new)
    BY <2>4, <2>5, SavedStores
  <2> HIDE DEF new
  <2> QED BY <1>1, <1>2, <2>1, <2>5, <2>6, Turned DEF pg
<1>6. ASSUME NEW d \in Devices, switchAxis(p, d, mode) PROVE \E new : Turns(p, new)
  <2> DEFINE left == Saved(pg, a, TRUE)
             moved == [left EXCEPT !.active = d]
             from == Loaded(moved, d, mode)
             new == Sliders(from)
  <2>1. /\ page' = [page EXCEPT ![p] = new] /\ events' = n /\ pg.booted
        /\ UNCHANGED <<file, tmp, lock, synced, slot, entered>>
    BY <1>6 DEF switchAxis, Becomes, Event, pg, n
  <2>2. Stores(pg, left)
    BY <1>1, SavedStores
  <2> HIDE DEF left
  <2>3. left \in PageType /\ left.get = pg.get /\ left.read = pg.read /\ left.booted = pg.booted
    BY <2>2 DEF Stores
  <2>4. /\ moved \in PageType /\ moved.active = d /\ moved.profile = left.profile
        /\ moved.get = pg.get /\ moved.read = pg.read /\ moved.booted = pg.booted
    BY <1>1, <2>3, AxisTyped
  <2> HIDE DEF moved
  <2>5. /\ from \in PageType /\ from.profile = left.profile /\ from.active = d
        /\ from.get = pg.get /\ from.read = pg.read /\ from.mode = mode
        /\ from.booted /\ pg.booted
        /\ from.ctl.target = left.profile[d].target \/ from.ctl.target < 0
        /\ from.ctl.table = left.profile[d].table
        /\ mode = "homing" => from.ctl.homing = left.profile[d].homing
    <3>1. /\ from \in PageType /\ from.profile = moved.profile /\ from.active = moved.active
          /\ from.get = moved.get /\ from.read = moved.read /\ from.mode = mode
          /\ from.booted = moved.booted
          /\ from.ctl.target = moved.profile[d].target \/ from.ctl.target < 0
          /\ from.ctl.table = moved.profile[d].table
          /\ mode = "homing" => from.ctl.homing = moved.profile[d].homing
      BY <2>4, LoadedType, Zenon
    <3> HIDE DEF from
    <3>2. from.booted
      BY <2>1, <2>4, <3>1, Zenon
    <3> QED BY <2>1, <2>4, <3>1, <3>2
  <2> HIDE DEF from
  <2>6. Brings(pg, entered', from)
    <3> SUFFICES ASSUME NEW E, NEW F, Covers(E, entered', F), Shown(pg, E)
                 PROVE  Shown(from, F)
      BY DEF Brings
    <3>1. Shown(left, F)
      BY <1>1, <2>2, ShownGrows, StoresShown DEF Covers
    <3>2. Ours(left.profile[d], F[d])
      BY <3>1 DEF Shown
    <3> QED BY <2>5, <3>1, <3>2 DEF Shown, Ours
  <2>7. Stores(from, new)
    BY <2>5, SlidersStores
  <2> HIDE DEF new
  <2> QED BY <1>1, <1>2, <2>1, <2>5, <2>6, <2>7, Turned DEF pg
<1> QED BY <1>3, <1>4, <1>5, <1>6 DEF Parts

\* A page's first answer shows the first axis, and a later one only replaces the profiles.
LEMMA HydrateForm ==
  ASSUME UiInv, NEW p \in Pages, NEW mode \in Modes, Hydrate(p, mode)
  PROVE  \E new \in PageType :
           /\ page' = [page EXCEPT ![p] = new] /\ new.get = None
           /\ page[p].get \notin {None, Sent}
           /\ new.booted
           /\ new.read => page[p].read \/ (page[p].get # Refused /\ ~page[p].booted)
           /\ \A E : /\ \A d \in Devices : Ours(Hydrated(page[p])[d], E[d])
                     /\ page[p].booted => Shown(page[p], E)
                     /\ page[p].booted \/ page[p].active = First
                     => Shown(new, E)
<1> DEFINE pg == page[p]
           profiles == Hydrated(pg)
           read == pg.read \/ (~pg.booted /\ pg.get # Refused)
           from == [pg EXCEPT !.profile = profiles, !.get = None, !.booted = TRUE,
                       !.read = read]
           first == Loaded(from, First, mode)
<1>1. pg \in PageType /\ pg.get \notin {None, Sent} /\ First \in Devices
  BY SettingsAssumption DEF UiInv, TypeOK, PagesTyped, Hydrate
<1>2. profiles \in [Devices -> Profiles] /\ read \in BOOLEAN
  BY <1>1, HydratedType
<1>3. page' = [page EXCEPT ![p] = IF pg.booted THEN from ELSE Sliders(first)]
  BY DEF Hydrate
<1>4. read => pg.read \/ (pg.get # Refused /\ ~pg.booted)
  OBVIOUS
<1> HIDE DEF profiles, read
<1>5. /\ from \in PageType /\ from.profile = profiles /\ from.get = None /\ from.booted
      /\ from.read = read /\ from.active = pg.active /\ from.ctl = pg.ctl
      /\ from.mode = pg.mode
  BY <1>1, <1>2 DEF PageType
<1> HIDE DEF from
<1>6. /\ first \in PageType /\ first.profile = profiles /\ first.active = pg.active
      /\ first.read = read /\ first.get = None /\ first.booted /\ first.mode = mode
      /\ first.ctl.target = profiles[First].target \/ first.ctl.target < 0
      /\ first.ctl.table = profiles[First].table
      /\ mode = "homing" => first.ctl.homing = profiles[First].homing
  BY <1>1, <1>5, LoadedType
<1> HIDE DEF first
<1>7. Stores(first, Sliders(first))
  BY <1>6, SlidersStores
<1>8. CASE pg.booted
  <2>1. ASSUME NEW E, \A d \in Devices : Ours(profiles[d], E[d]), Shown(pg, E)
        PROVE  Shown(from, E)
    BY <1>5, <2>1 DEF Shown
  <2>2. \A E : /\ \A d \in Devices : Ours(profiles[d], E[d])
               /\ pg.booted => Shown(pg, E)
               /\ pg.booted \/ pg.active = First
               => Shown(from, E)
    BY <1>8, <2>1
  <2>3. page' = [page EXCEPT ![p] = from]
    BY <1>3, <1>8
  <2> HIDE DEF pg
  <2> QED BY <1>1, <1>4, <1>5, <2>2, <2>3 DEF profiles, pg
<1>9. CASE ~pg.booted
  <2> DEFINE new == Sliders(first)
  <2>1. new \in PageType /\ new.get = None /\ new.booted /\ new.read = read
    BY <1>6, <1>7 DEF Stores
  <2>2. ASSUME NEW E, \A d \in Devices : Ours(profiles[d], E[d]), pg.active = First
        PROVE  Shown(new, E)
    <3>1. Ours(profiles[First], E[First])
      BY <1>1, <2>2
    <3>2. Shown(first, E)
      BY <1>6, <2>2, <3>1 DEF Shown, Ours
    <3> QED BY <1>6, <1>7, <3>2, StoresShown
  <2>3. \A E : /\ \A d \in Devices : Ours(profiles[d], E[d])
               /\ pg.booted => Shown(pg, E)
               /\ pg.booted \/ pg.active = First
               => Shown(new, E)
    BY <1>9, <2>2
  <2>4. page' = [page EXCEPT ![p] = new]
    BY <1>3, <1>9
  <2> HIDE DEF pg, new
  <2> QED BY <1>1, <1>4, <2>1, <2>3, <2>4 DEF profiles, pg
<1> QED BY <1>8, <1>9

\* What a page asks for and is told keeps it well typed.
LEMMA AskForm ==
  ASSUME UiInv, NEW p \in Pages, Answers(p) \/ \E b \in BOOLEAN : Open(p, b)
  PROVE  \E new \in PageType :
           /\ page' = [page EXCEPT ![p] = new]
           /\ new.get \in {Sent, Refused, file}
           /\ new.profile = page[p].profile /\ new.ctl = page[p].ctl
           /\ new.mode = page[p].mode /\ new.active = page[p].active
           /\ new.booted = page[p].booted /\ new.read = page[p].read
<1> DEFINE pg == page[p]
<1>1. pg \in PageType /\ Load = file /\ file \in Files
  BY SettingsAssumption DEF UiInv, TypeOK, PagesTyped, Load
<1> HIDE DEF pg
<1>2. CASE Answers(p)
  <2> DEFINE answer == IF pg.token THEN Load ELSE Refused
             new == [pg EXCEPT !.get = answer]
  <2>1. answer \in {Refused, file}
    BY <1>1
  <2>2. page' = [page EXCEPT ![p] = new]
    BY <1>2 DEF Answers, pg
  <2> HIDE DEF answer
  <2>3. /\ new \in PageType /\ new.get = answer
        /\ new.profile = pg.profile /\ new.ctl = pg.ctl /\ new.mode = pg.mode
        /\ new.active = pg.active /\ new.booted = pg.booted /\ new.read = pg.read
    BY <1>1, <2>1 DEF PageType
  <2> HIDE DEF new
  <2> QED BY <2>1, <2>2, <2>3 DEF pg
<1>3. ASSUME NEW b \in BOOLEAN, Open(p, b)
      PROVE  \E new \in PageType :
               /\ page' = [page EXCEPT ![p] = new] /\ new.get = Sent
               /\ new.profile = pg.profile /\ new.ctl = pg.ctl /\ new.mode = pg.mode
               /\ new.active = pg.active /\ new.booted = pg.booted /\ new.read = pg.read
  <2> DEFINE new == [pg EXCEPT !.token = b, !.get = Sent]
  <2>1. page' = [page EXCEPT ![p] = new]
    BY <1>3 DEF Open, pg
  <2>2. /\ new \in PageType /\ new.get = Sent
        /\ new.profile = pg.profile /\ new.ctl = pg.ctl /\ new.mode = pg.mode
        /\ new.active = pg.active /\ new.booted = pg.booted /\ new.read = pg.read
    BY <1>1 DEF PageType
  <2> HIDE DEF new
  <2> QED BY <2>1, <2>2
<1> QED BY <1>2, <1>3 DEF pg

\* The page's own actions keep the invariant.
LEMMA PageKeeps ==
  ASSUME UiInv, NEW p \in Pages,
         \/ \E new : Turns(p, new)
         \/ \E mode \in Modes : Hydrate(p, mode)
         \/ Answers(p) \/ \E b \in BOOLEAN : Open(p, b)
  PROVE  UiInv'
<1>1. CASE \E new : Turns(p, new)
  <2>1. PICK new : Turns(p, new)
    BY <1>1
  <2>2. new \in PageType /\ events' \in Nat /\ entered' \in [Devices -> SUBSET Int]
    BY <2>1 DEF Turns
  <2> QED BY <2>1, <2>2, PageStep DEF Turns
<1>2. ASSUME NEW mode \in Modes, Hydrate(p, mode) PROVE UiInv'
  <2>1. PICK new \in PageType : page' = [page EXCEPT ![p] = new]
    BY <1>2, HydrateForm
  <2> QED BY <1>2, <2>1, PageStep DEF Hydrate, UiInv, TypeOK
<1>3. CASE Answers(p) \/ \E b \in BOOLEAN : Open(p, b)
  <2>1. PICK new \in PageType : page' = [page EXCEPT ![p] = new]
    BY <1>3, AskForm
  <2>2. events' \in Nat
    <3>1. events \in Nat
      BY DEF UiInv, TypeOK
    <3>2. events' = events \/ events' = events + 1
      BY <1>3 DEF Answers, Open, Event
    <3> QED BY <3>1, <3>2
  <2>3. UNCHANGED <<file, tmp, lock, slot, saves, entered, synced>>
    BY <1>3 DEF Answers, Open
  <2> QED BY <2>1, <2>2, <2>3, PageStep DEF UiInv, TypeOK
<1> QED BY <1>1, <1>2, <1>3

\* A request that reads the file takes what it replaces it with from it.
LEMMA ReadsKeeps ==
  ASSUME UiInv, NEW t \in Slots, SaveReads(t)
  PROVE  UiInv'
<1> DEFINE r == slot[t]
           m == [file EXCEPT ![r.device] = Merged(@, r)]
           new == [r EXCEPT !.stage = "open", !.merged = m]
<1>1. r \in SlotType /\ r.device \in Devices /\ file \in Files /\ Load = file
  BY SettingsAssumption DEF UiInv, TypeOK, SaveReads, SlotType, Load
<1>2. \A s \in Slots : ~Saving(s)
  BY SettingsAssumption DEF UiInv, LockInv, SaveReads, LockFree
<1>3. CASE r.token
  <2>1. m \in Files
    <3>1. file[r.device] \in Entries \cup {None}
      BY <1>1 DEF Files
    <3>2. Merged(file[r.device], r) \in Entries
      BY <1>1, <3>1, MergedType
    <3> QED BY <1>1, <3>2 DEF Files
  <2>2. /\ new \in SlotType /\ new.stage = "open" /\ new.merged = m
        /\ new.device = r.device /\ new.state = r.state
        /\ new.setsPeriod = r.setsPeriod /\ new.setsSettings = r.setsSettings
    <3> HIDE DEF m, r
    <3> QED BY <1>1, <2>1 DEF SlotType, Stages
  <2>3. /\ slot' = [slot EXCEPT ![t] = new] /\ lock' = t
        /\ UNCHANGED <<file, page, events, entered>>
    BY <1>1, <1>3 DEF SaveReads
  <2>4. m = [file EXCEPT ![r.device] = Merged(@, new)]
    <3> HIDE DEF new
    <3>1. Merged(file[r.device], r) = Merged(file[r.device], new)
      BY <2>2, MergedSame
    <3> QED BY <3>1
  <2> HIDE DEF new, m
  <2>5. TypeOK'
    BY <2>2, <2>3 DEF UiInv, TypeOK, PagesTyped
  <2>6. LockInv'
    <3>1. slot'[t] = new /\ \A s \in Slots \ {t} : slot'[s] = slot[s]
      BY <2>3 DEF UiInv, TypeOK
    <3>2. \A s \in Slots : Saving(s)' => s = t
      BY <1>2, <3>1 DEF Saving
    <3>3. new.merged = [file' EXCEPT ![new.device] = Merged(@, new)]
      BY <2>2, <2>3, <2>4
    <3>4. new.stage # "written" /\ new.merged \in Files /\ lock' = t
      BY <2>1, <2>2, <2>3
    <3> QED BY <3>1, <3>2, <3>3, <3>4 DEF LockInv
  <2> QED BY <2>5, <2>6 DEF UiInv
<1>4. CASE ~r.token
  <2>1. /\ slot' = [slot EXCEPT ![t] = None]
        /\ UNCHANGED <<file, tmp, lock, page, events, entered>>
    BY <1>4 DEF SaveReads
  <2>2. TypeOK'
    BY <2>1 DEF UiInv, TypeOK, PagesTyped
  <2>3. LockInv'
    BY <2>1, QuietSaves DEF UiInv, TypeOK, Saving
  <2> QED BY <2>2, <2>3 DEF UiInv
<1> QED BY <1>3, <1>4

\* Only the holder of the lock is saving.
LEMMA OneSaves ==
  ASSUME UiInv, NEW t \in Slots, Saving(t), NEW s \in Slots, Saving(s)
  PROVE  s = t
  BY DEF UiInv, LockInv

\* Writing the temporary file keeps the invariant.
LEMMA WritesKeeps ==
  ASSUME UiInv, NEW t \in Slots, SaveWrites(t)
  PROVE  UiInv'
<1> DEFINE r == slot[t]
           new == [r EXCEPT !.stage = "written"]
<1>1. r \in SlotType /\ Saving(t)
  BY DEF UiInv, TypeOK, SaveWrites, Saving
<1>2. /\ new \in SlotType /\ new.stage = "written" /\ new.merged = r.merged
      /\ new.device = r.device /\ new.state = r.state
      /\ new.setsPeriod = r.setsPeriod /\ new.setsSettings = r.setsSettings
  <2> HIDE DEF r
  <2> QED BY <1>1 DEF SlotType, Stages
<1>3. /\ slot' = [slot EXCEPT ![t] = new] /\ tmp' = r.merged
      /\ UNCHANGED <<file, lock, page, events, entered>>
  BY DEF SaveWrites
<1>4. /\ lock = t /\ r.merged \in Files
      /\ r.merged = [file EXCEPT ![r.device] = Merged(@, r)]
  BY <1>1 DEF UiInv, LockInv
<1> HIDE DEF new
<1>5. r.merged = [file EXCEPT ![r.device] = Merged(@, new)]
  <2>1. Merged(file[r.device], r) = Merged(file[r.device], new)
    BY <1>2, MergedSame
  <2> QED BY <1>4, <2>1
<1>6. TypeOK'
  BY <1>2, <1>3 DEF UiInv, TypeOK, PagesTyped
<1>7. LockInv'
  <2>1. slot'[t] = new /\ \A s \in Slots \ {t} : slot'[s] = slot[s]
    BY <1>3 DEF UiInv, TypeOK
  <2>2. \A s \in Slots : Saving(s)' => s = t
    BY <1>1, <2>1, OneSaves DEF Saving
  <2> QED BY <1>2, <1>3, <1>4, <1>5, <2>1, <2>2 DEF LockInv
<1> QED BY <1>6, <1>7 DEF UiInv

\* What replaces the file is what its holder merged.
LEMMA Replacement ==
  ASSUME UiInv, NEW t \in Slots, SaveReplaces(t)
  PROVE  /\ slot[t] \in SlotType /\ slot'[t] = None
         /\ file' \in Files
         /\ file' = [file EXCEPT ![slot[t].device] = Merged(@, slot[t])]
<1>1. Saving(t) /\ slot[t].stage = "written" /\ file' = tmp /\ slot[t] \in SlotType
  BY DEF SaveReplaces, Saving, UiInv, TypeOK
<1>2. slot'[t] = None
  BY DEF SaveReplaces, UiInv, TypeOK
<1> QED BY <1>1, <1>2 DEF UiInv, LockInv

\* Moving it over the file keeps it.
LEMMA ReplacesKeeps ==
  ASSUME UiInv, NEW t \in Slots, SaveReplaces(t)
  PROVE  UiInv'
<1>1. Saving(t)
  BY DEF SaveReplaces, Saving
<1>2. TypeOK'
  <2>1. slot' \in [Slots -> SlotType \cup {None}]
    BY DEF UiInv, TypeOK, SaveReplaces
  <2>2. file' \in Files
    BY Replacement DEF UiInv, TypeOK, SaveReplaces
  <2>3. UNCHANGED <<page, events, entered>>
    BY DEF SaveReplaces
  <2> HIDE DEF Files
  <2> QED BY <2>1, <2>2, <2>3 DEF UiInv, TypeOK, PagesTyped
<1>3. \A s \in Slots : ~Saving(s)'
  BY <1>1, OneSaves DEF SaveReplaces, Saving, UiInv, TypeOK
<1> QED BY <1>2, <1>3 DEF UiInv, LockInv

\* A crash drops the requests; what they wrote so far has another name.
LEMMA CrashKeeps ==
  ASSUME UiInv, Crash
  PROVE  UiInv'
<1>1. ASSUME NEW p \in Pages
      PROVE  [page[p] EXCEPT !.get = IF @ = Sent THEN Refused ELSE @] \in PageType
  <2> DEFINE get == IF page[p].get = Sent THEN Refused ELSE page[p].get
  <2>1. page[p] \in PageType
    BY DEF UiInv, TypeOK, PagesTyped
  <2>2. get \in Files \cup {None, Sent, Refused}
    BY <2>1 DEF PageType
  <2> HIDE DEF get
  <2>3. [page[p] EXCEPT !.get = get] \in PageType
    BY <2>1, <2>2 DEF PageType
  <2> QED BY <2>3 DEF get
<1>2. PagesTyped'
  BY <1>1 DEF Crash, PagesTyped
<1>3. TypeOK' /\ LockInv'
  BY <1>2 DEF Crash, Event, UiInv, TypeOK, LockInv, Saving
<1> QED BY <1>3 DEF UiInv

\* The file is whole to begin with.
LEMMA InitHolds == Init => UiInv
<1> SUFFICES ASSUME Init PROVE UiInv
  OBVIOUS
<1>1. Defaults \in Profiles
  BY DEF Defaults, Profiles
<1>2. NewPage \in PageType
  BY <1>1, SettingsAssumption DEF NewPage, PageType, Nothing, Modes
<1>3. entered \in [Devices -> SUBSET Int]
  <2>1. ASSUME NEW d \in Devices, Initial[d] # None
        PROVE  {Initial[d].target, Initial[d].table, Initial[d].homing} \in SUBSET Int
    <3>1. Initial[d] \in Entries
      BY <2>1, SettingsAssumption DEF Files
    <3> QED BY <3>1 DEF Entries
  <2> QED BY <2>1 DEF Init
<1> QED BY <1>2, <1>3, SettingsAssumption
        DEF Init, UiInv, TypeOK, PagesTyped, LockInv, Saving

\* The kinds of steps.
LEMMA NextCases ==
  ASSUME UiInv, [Next]_vars
  PROVE  \/ UNCHANGED vars
         \/ \E t \in Slots : SaveReads(t) \/ SaveWrites(t) \/ SaveReplaces(t)
         \/ Crash
         \/ \E p \in Pages : \/ \E new : Turns(p, new)
                            \/ \E mode \in Modes : Hydrate(p, mode)
                            \/ Answers(p) \/ \E b \in BOOLEAN : Open(p, b)
<1>1. ASSUME NEW p \in Pages,
             \/ EditControl(p) \/ EditKept(p) \/ Redraw(p)
             \/ EditSheet(p, "table") \/ EditSheet(p, "homing")
      PROVE  \E new : Turns(p, new)
  BY <1>1, EditsTurn
<1>2. ASSUME NEW p \in Pages,
             \/ EditAntiSway(p, "settings") \/ EditAntiSway(p, "period") \/ TimerFires(p)
      PROVE  \E new : Turns(p, new)
  BY <1>2, OthersTurn DEF Modes
<1>3. ASSUME NEW p \in Pages, NEW mode \in Modes,
             setMode(p, mode) \/ \E d \in Devices : switchAxis(p, d, mode)
      PROVE  \E new : Turns(p, new)
  BY <1>3, OthersTurn
<1> QED BY <1>1, <1>2, <1>3 DEF Next, Modes

\* Every step keeps the invariant.
LEMMA NextKeeps == UiInv /\ [Next]_vars => UiInv'
<1> SUFFICES ASSUME UiInv, [Next]_vars PROVE UiInv'
  OBVIOUS
<1>1. CASE UNCHANGED vars
  BY <1>1 DEF vars, UiInv, TypeOK, PagesTyped, LockInv, Saving
<1>2. ASSUME NEW t \in Slots, SaveReads(t) \/ SaveWrites(t) \/ SaveReplaces(t)
      PROVE  UiInv'
  BY <1>2, ReadsKeeps, WritesKeeps, ReplacesKeeps
<1>3. CASE Crash
  BY <1>3, CrashKeeps
<1>4. ASSUME NEW p \in Pages,
             \/ \E new : Turns(p, new)
             \/ \E mode \in Modes : Hydrate(p, mode)
             \/ Answers(p) \/ \E b \in BOOLEAN : Open(p, b)
      PROVE  UiInv'
  BY <1>4, PageKeeps
<1> QED BY <1>1, <1>2, <1>3, <1>4, NextCases

-----------------------------------------------------------------------------
(* What is stored was entered.                                             *)

\* The entries of f are among the numbers E; an axis without one has the defaults.
Known(f, E) == \A d \in Devices :
    IF f[d] = None THEN 0 \in E[d] ELSE Ours(f[d], E[d])

\* So are the file, the requests on their way, what pages are told, and what pages
\* hold: of all pages, or of those that had read the file when they opened.
Holds(f, sl, pgs, E, all) ==
    /\ Known(f, E)
    /\ \A t \in Slots : sl[t] # None /\ (all \/ sl[t].read)
                           => Ours(sl[t].state, E[sl[t].device])
    /\ \A p \in Pages : pgs[p].get \in Files => Known(pgs[p].get, E)
    /\ \A p \in Pages : all \/ pgs[p].read => Shown(pgs[p], E)

OrDefault(E) == [d \in Devices |-> E[d] \cup {0}]
Booting == \A p \in Pages :
    /\ ~page[p].booted => page[p].active = First
    /\ page[p].read => page[p].booted

\* Everything is what was entered or a default; and as long as no page that had not
\* read the file has saved, what can still get into the file is what was entered.
EnteredInv ==
    /\ Booting
    /\ Holds(file, slot, page, OrDefault(entered), TRUE)
    /\ synced => /\ Holds(file, slot, page, entered, FALSE)
                 /\ \A t \in Slots : Saving(t) => slot[t].read

\* A request that is posted carries what the page holds.
LEMMA PostHeld ==
  ASSUME UiInv, NEW t \in Slots, NEW pg \in PageType, NEW d \in Devices,
         NEW period \in BOOLEAN, NEW settings \in BOOLEAN,
         Posts(t, pg, d, period, settings)
  PROVE  /\ slot'[t].state = pg.profile[d] /\ slot'[t].device = d /\ slot'[t].read = pg.read
         /\ \A s \in Slots \ {t} : slot'[s] = slot[s]
<1> DEFINE new == [device |-> d, state |-> pg.profile[d], setsPeriod |-> period,
              setsSettings |-> settings, token |-> pg.token, read |-> pg.read,
              stage |-> "sent", merged |-> None]
<1>1. new.device = d /\ new.state = pg.profile[d] /\ new.read = pg.read
  OBVIOUS
<1>2. slot' = [slot EXCEPT ![t] = new]
  BY DEF Posts
<1> HIDE DEF new
<1> QED BY <1>1, <1>2 DEF UiInv, TypeOK

\* More numbers do no harm.
LEMMA HoldsGrows ==
  ASSUME UiInv, NEW E, NEW F, NEW all \in BOOLEAN, \A d \in Devices : E[d] \subseteq F[d],
         Holds(file, slot, page, E, all)
  PROVE  Holds(file, slot, page, F, all)
<1>1. \A f : Known(f, E) => Known(f, F)
  BY DEF Known, Ours
<1>2. \A t \in Slots : slot[t] # None => slot[t].device \in Devices
  BY DEF UiInv, TypeOK, SlotType
<1>3. \A p \in Pages : Shown(page[p], E) => Shown(page[p], F)
  BY ShownGrows DEF UiInv, TypeOK, PagesTyped
<1>4. \A t \in Slots : slot[t] # None /\ (all \/ slot[t].read)
                          => Ours(slot[t].state, F[slot[t].device])
  BY <1>2 DEF Holds, Ours
<1> QED BY <1>1, <1>3, <1>4 DEF Holds

\* A page that becomes another one that holds what it should.
LEMMA PageHolds ==
  ASSUME UiInv, NEW p \in Pages, NEW new, NEW F, NEW all \in BOOLEAN,
         Holds(file, slot, page, F, all),
         page' = [page EXCEPT ![p] = new], UNCHANGED file,
         new.get \in Files => Known(new.get, F),
         all \/ new.read => Shown(new, F),
         \A t \in Slots : slot'[t] # None /\ (all \/ slot'[t].read)
                             => Ours(slot'[t].state, F[slot'[t].device])
  PROVE  Holds(file', slot', page', F, all)
<1>1. page'[p] = new /\ \A q \in Pages \ {p} : page'[q] = page[q]
  BY DEF UiInv, TypeOK, PagesTyped
<1> QED BY <1>1 DEF Holds

\* The turns.
LEMMA TurnHolds ==
  ASSUME UiInv, NEW p \in Pages, NEW new, Turns(p, new), NEW E, NEW F, NEW all \in BOOLEAN,
         Covers(E, entered', F), Holds(file, slot, page, E, all)
  PROVE  Holds(file', slot', page', F, all)
<1>1. /\ new \in PageType /\ page' = [page EXCEPT ![p] = new] /\ UNCHANGED file
      /\ new.get = page[p].get /\ new.read = page[p].read
  BY DEF Turns
<1>2. Holds(file, slot, page, F, all)
  BY HoldsGrows DEF Covers
<1>3. all \/ new.read => Shown(new, F)
  <2>1. Shown(page[p], E) => Shown(new, F)
    BY DEF Turns, Brings
  <2>2. all \/ page[p].read => Shown(page[p], E)
    BY Zenon DEF Holds
  <2>3. new.read = page[p].read
    BY <1>1
  <2> QED BY <2>1, <2>2, <2>3, Zenon
<1>4. new.get \in Files => Known(new.get, F)
  BY <1>1, <1>2 DEF Holds
<1>5. ASSUME NEW t \in Slots, slot'[t] # None, all \/ slot'[t].read
      PROVE  Ours(slot'[t].state, F[slot'[t].device])
  <2>1. CASE UNCHANGED slot
    BY <1>2, <1>5, <2>1 DEF Holds
  <2>2. ASSUME NEW s \in Slots, NEW d \in Devices, NEW period \in BOOLEAN,
               NEW settings \in BOOLEAN, Posts(s, new, d, period, settings)
        PROVE  Ours(slot'[t].state, F[slot'[t].device])
    <3>1. /\ slot'[s].state = new.profile[d] /\ slot'[s].device = d /\ slot'[s].read = new.read
          /\ \A r \in Slots \ {s} : slot'[r] = slot[r]
      BY <1>1, <2>2, PostHeld
    <3>2. CASE t = s
      BY <1>3, <1>5, <3>1, <3>2 DEF Shown
    <3>3. CASE t # s
      BY <1>2, <1>5, <3>1, <3>3 DEF Holds
    <3> QED BY <3>2, <3>3
  <2> QED BY <2>1, <2>2 DEF Turns
<1> QED BY <1>1, <1>2, <1>3, <1>4, <1>5, PageHolds

\* What is being saved is not touched by a page.
LEMMA SavingStays ==
  ASSUME UiInv, NEW p \in Pages, NEW new, Turns(p, new), NEW t \in Slots, Saving(t)'
  PROVE  Saving(t) /\ slot'[t] = slot[t]
<1>1. CASE UNCHANGED slot
  BY <1>1 DEF Saving
<1>2. ASSUME NEW s \in Slots, NEW d \in Devices, NEW period \in BOOLEAN,
             NEW settings \in BOOLEAN, Posts(s, new, d, period, settings)
      PROVE  Saving(t) /\ slot'[t] = slot[t]
  BY <1>2, PostedType DEF Turns, UiInv, Saving
<1> QED BY <1>1, <1>2 DEF Turns

\* The turns keep EnteredInv.
LEMMA TurnsEnter ==
  ASSUME UiInv, EnteredInv, NEW p \in Pages, NEW new, Turns(p, new)
  PROVE  EnteredInv'
<1>1. Covers(entered, entered', entered')
  BY DEF Covers, Turns
<1>2. Covers(OrDefault(entered), entered', OrDefault(entered'))
  BY DEF Covers, Turns, OrDefault
<1>3. Holds(file', slot', page', OrDefault(entered'), TRUE)
  BY <1>2, TurnHolds DEF EnteredInv
<1>4. synced' => Holds(file', slot', page', entered', FALSE)
  BY <1>1, TurnHolds DEF EnteredInv, Turns
<1>5. synced' => \A t \in Slots : Saving(t)' => slot'[t].read
  BY SavingStays DEF EnteredInv, Turns
<1>6. Booting'
  <2>1. page'[p] = new /\ \A q \in Pages \ {p} : page'[q] = page[q]
    BY DEF Turns, UiInv, TypeOK, PagesTyped
  <2>2. /\ ~new.booted => new.active = First
        /\ new.read => new.booted
    BY DEF Turns, EnteredInv, Booting
  <2> QED BY <2>1, <2>2 DEF EnteredInv, Booting
<1>7. OrDefault(entered)' = OrDefault(entered')
  BY DEF OrDefault
<1> QED BY <1>3, <1>4, <1>5, <1>6, <1>7 DEF EnteredInv

\* What a page asks for, is told and takes over.
LEMMA ReadEnters ==
  ASSUME UiInv, EnteredInv, NEW p \in Pages,
         \/ \E mode \in Modes : Hydrate(p, mode)
         \/ Answers(p) \/ \E b \in BOOLEAN : Open(p, b)
  PROVE  EnteredInv'
<1>1. UNCHANGED <<file, slot, entered, synced>>
  BY DEF Answers, Hydrate, Open
<1>2. page[p] \in PageType
  BY DEF UiInv, TypeOK, PagesTyped
<1>3. ASSUME NEW new, page' = [page EXCEPT ![p] = new],
             ~new.booted => new.active = First, new.read => new.booted,
             \A E : \A all \in BOOLEAN :
                /\ Holds(file, slot, page, E, all)
                /\ all => E = OrDefault(entered)
                /\ ~all => E = entered
                => /\ new.get \in Files => Known(new.get, E)
                   /\ all \/ new.read => Shown(new, E)
      PROVE  EnteredInv'
  <2>1. Holds(file', slot', page', OrDefault(entered), TRUE)
    <3>1. Holds(file, slot, page, OrDefault(entered), TRUE)
      BY DEF EnteredInv
    <3>2. /\ new.get \in Files => Known(new.get, OrDefault(entered))
          /\ Shown(new, OrDefault(entered))
      BY <1>3, <3>1
    <3>3. \A t \in Slots : slot'[t] # None
                             => Ours(slot'[t].state, OrDefault(entered)[slot'[t].device])
      BY <1>1, <3>1 DEF Holds
    <3> QED BY <1>1, <1>3, <3>1, <3>2, <3>3, PageHolds
  <2>2. ASSUME synced PROVE Holds(file', slot', page', entered, FALSE)
    <3>1. Holds(file, slot, page, entered, FALSE)
      BY <2>2 DEF EnteredInv
    <3>2. /\ new.get \in Files => Known(new.get, entered)
          /\ new.read => Shown(new, entered)
      BY <1>3, <3>1
    <3>3. \A t \in Slots : slot'[t] # None /\ slot'[t].read
                             => Ours(slot'[t].state, entered[slot'[t].device])
      BY <1>1, <3>1 DEF Holds
    <3> QED BY <1>1, <1>3, <3>1, <3>2, <3>3, PageHolds
  <2>3. Booting'
    <3>1. page'[p] = new /\ \A q \in Pages \ {p} : page'[q] = page[q]
      BY <1>3 DEF UiInv, TypeOK, PagesTyped
    <3> QED BY <1>3, <3>1 DEF EnteredInv, Booting
  <2>4. OrDefault(entered)' = OrDefault(entered)
    BY <1>1 DEF OrDefault
  <2>5. synced => \A t \in Slots : Saving(t)' => slot'[t].read
    BY <1>1 DEF EnteredInv, Saving
  <2> QED BY <1>1, <2>1, <2>2, <2>3, <2>4, <2>5 DEF EnteredInv
<1>4. CASE Answers(p) \/ \E b \in BOOLEAN : Open(p, b)
  <2>1. PICK new \in PageType :
          /\ page' = [page EXCEPT ![p] = new]
          /\ new.get \in {Sent, Refused, file}
          /\ new.profile = page[p].profile /\ new.ctl = page[p].ctl
          /\ new.mode = page[p].mode /\ new.active = page[p].active
          /\ new.booted = page[p].booted /\ new.read = page[p].read
    BY <1>4, AskForm
  <2>2. ASSUME NEW E, NEW all \in BOOLEAN, Holds(file, slot, page, E, all)
        PROVE  /\ new.get \in Files => Known(new.get, E)
               /\ all \/ new.read => Shown(new, E)
    <3>1. new.get \in Files => new.get = file
      BY <2>1, SettingsAssumption
    <3>2. Shown(page[p], E) => Shown(new, E)
      BY <2>1 DEF Shown
    <3> QED BY <2>1, <2>2, <3>1, <3>2 DEF Holds
  <2>3. (~new.booted => new.active = First) /\ (new.read => new.booted)
    BY <2>1 DEF EnteredInv, Booting
  <2> QED BY <1>3, <2>1, <2>2, <2>3
<1>5. ASSUME NEW mode \in Modes, Hydrate(p, mode) PROVE EnteredInv'
  <2> DEFINE pg == page[p]
  <2>1. PICK new \in PageType :
          /\ page' = [page EXCEPT ![p] = new] /\ new.get = None
          /\ pg.get \notin {None, Sent}
          /\ new.booted
          /\ new.read => pg.read \/ (pg.get # Refused /\ ~pg.booted)
          /\ \A E : /\ \A d \in Devices : Ours(Hydrated(pg)[d], E[d])
                    /\ pg.booted => Shown(pg, E)
                    /\ pg.booted \/ pg.active = First
                    => Shown(new, E)
    BY <1>5, HydrateForm
  <2> HIDE DEF pg
  <2>2. pg \in PageType /\ Shown(pg, OrDefault(entered))
        /\ (~pg.booted => pg.active = First) /\ (pg.read => pg.booted)
    BY <1>2 DEF EnteredInv, Holds, Booting, pg
  <2>3. pg.get = Refused \/ pg.get \in Files
    BY <2>1, <2>2 DEF PageType
  <2>4. ASSUME NEW E, pg.get \in Files, Known(pg.get, E),
               E = OrDefault(entered) \/ E = entered
        PROVE  \A d \in Devices : Ours(Hydrated(pg)[d], E[d])
    <3> SUFFICES ASSUME NEW d \in Devices PROVE Ours(Hydrated(pg)[d], E[d])
      OBVIOUS
    <3>1. pg.get # Refused
      BY <2>4, SettingsAssumption
    <3>2. CASE pg.get[d] = None
      <4>1. Hydrated(pg)[d] = pg.profile[d]
        BY <3>1, <3>2 DEF Hydrated
      <4>2. 0 \in E[d]
        BY <2>4, <3>2 DEF Known
      <4>3. OrDefault(entered)[d] \subseteq E[d]
        BY <2>4, <4>2 DEF OrDefault
      <4> QED BY <2>2, <4>1, <4>3 DEF Shown, Ours
    <3>3. CASE pg.get[d] # None
      <4>1. /\ Hydrated(pg)[d].target = pg.get[d].target
            /\ Hydrated(pg)[d].table = pg.get[d].table
            /\ Hydrated(pg)[d].homing = pg.get[d].homing
        BY <3>1, <3>3 DEF Hydrated
      <4> QED BY <2>4, <3>3, <4>1 DEF Known, Ours
    <3> QED BY <3>2, <3>3
  <2>5. ASSUME NEW E, NEW all \in BOOLEAN, Holds(file, slot, page, E, all),
               all => E = OrDefault(entered), ~all => E = entered
        PROVE  all \/ new.read => Shown(new, E)
    <3> SUFFICES ASSUME all \/ new.read PROVE Shown(new, E)
      OBVIOUS
    <3>1. pg.get \in Files => Known(pg.get, E)
      BY <2>5 DEF Holds, pg
    <3>2. pg.read \/ all => Shown(pg, E)
      BY <2>5 DEF Holds, pg
    <3>3. CASE pg.get \in Files
      <4>1. \A d \in Devices : Ours(Hydrated(pg)[d], E[d])
        BY <2>4, <2>5, <3>1, <3>3
      <4>2. pg.booted => Shown(pg, E)
        BY <2>1, <3>2
      <4> QED BY <2>1, <2>2, <4>1, <4>2
    <3>4. CASE pg.get = Refused
      <4>1. Shown(pg, E)
        BY <2>1, <3>2, <3>4
      <4>2. Hydrated(pg) = pg.profile
        BY <3>4 DEF Hydrated
      <4>3. \A d \in Devices : Ours(Hydrated(pg)[d], E[d])
        BY <4>1, <4>2 DEF Shown
      <4> QED BY <2>1, <2>2, <4>1, <4>3
    <3> QED BY <2>3, <3>3, <3>4
  <2>6. new.get \notin Files
    BY <2>1, SettingsAssumption
  <2>7. (~new.booted => new.active = First) /\ (new.read => new.booted)
    BY <2>1
  <2> QED BY <1>3, <2>1, <2>5, <2>6, <2>7
<1> QED BY <1>4, <1>5

\* A request on its way and replacing the file.
LEMMA RequestsEnter ==
  ASSUME UiInv, EnteredInv, NEW t \in Slots,
         SaveReads(t) \/ SaveWrites(t) \/ SaveReplaces(t)
  PROVE  EnteredInv'
<1>1. UNCHANGED <<page, entered>> /\ (synced' => synced)
  <2>1. UNCHANGED <<page, entered>>
    BY DEF SaveReads, SaveWrites, SaveReplaces
  <2>2. synced' = (synced /\ slot[t].read) \/ UNCHANGED synced
    BY Zenon DEF SaveReads, SaveWrites, SaveReplaces
  <2>3. synced' => synced
    BY <2>2, Zenon
  <2> QED BY <2>1, <2>3
<1>2. ASSUME NEW s \in Slots, slot'[s] # None
      PROVE  /\ slot[s] # None /\ slot'[s].state = slot[s].state
             /\ slot'[s].device = slot[s].device /\ slot'[s].read = slot[s].read
  BY <1>2 DEF SaveReads, SaveWrites, SaveReplaces, UiInv, TypeOK, SlotType
<1>3. ASSUME synced', NEW s \in Slots, Saving(s)' PROVE slot'[s].read
  <2>1. CASE s = t /\ slot[t].stage = "sent"
    BY <1>2, <1>3, <2>1 DEF SaveReads, SaveWrites, SaveReplaces, Saving, UiInv, TypeOK
  <2>2. CASE ~(s = t /\ slot[t].stage = "sent")
    <3>1. Saving(s)
      BY <1>2, <1>3, <2>2 DEF SaveReads, SaveWrites, SaveReplaces, Saving, UiInv, TypeOK
    <3> QED BY <1>1, <1>2, <1>3, <3>1 DEF EnteredInv, Saving
  <2> QED BY <2>1, <2>2
<1>4. ASSUME NEW E, NEW all \in BOOLEAN, Holds(file, slot, page, E, all),
             SaveReplaces(t) => all \/ slot[t].read
      PROVE  Holds(file', slot', page', E, all)
  <2>1. \A s \in Slots : slot'[s] # None /\ (all \/ slot'[s].read)
                            => Ours(slot'[s].state, E[slot'[s].device])
    BY <1>2, <1>4 DEF Holds
  <2>2. Known(file', E)
    <3>1. CASE SaveReads(t) \/ SaveWrites(t)
      BY <1>4, <3>1 DEF SaveReads, SaveWrites, Holds
    <3>2. CASE SaveReplaces(t)
      <4> DEFINE r == slot[t]
                 m == Merged(file[r.device], r)
      <4>1. /\ r \in SlotType /\ r # None
            /\ file' = [file EXCEPT ![r.device] = Merged(@, r)]
        BY <3>2, Replacement DEF SaveReplaces
      <4>2. r.device \in Devices /\ Ours(r.state, E[r.device])
        BY <1>4, <3>2, <4>1 DEF SlotType, Holds
      <4>3. m \in Entries
        BY <4>1, <4>2, MergedType DEF UiInv, TypeOK, Files
      <4>4. m.target = r.state.target /\ m.table = r.state.table /\ m.homing = r.state.homing
        BY DEF Merged
      <4>5. file' = [file EXCEPT ![r.device] = m] /\ m # None
        BY <4>1, <4>3, SettingsAssumption
      <4> HIDE DEF m, r
      <4>6. Ours(m, E[r.device])
        BY <4>2, <4>4 DEF Ours
      <4> QED BY <1>4, <4>2, <4>5, <4>6 DEF Holds, Known, UiInv, TypeOK, Files
    <3> QED BY <3>1, <3>2
  <2> QED BY <1>1, <1>4, <2>1, <2>2 DEF Holds
<1>5. Holds(file', slot', page', OrDefault(entered), TRUE)
  BY <1>4 DEF EnteredInv
<1>6. synced' => Holds(file', slot', page', entered, FALSE)
  <2>1. synced /\ SaveReplaces(t) => slot[t].read
    BY DEF EnteredInv, SaveReplaces, Saving
  <2> QED BY <1>1, <1>4, <2>1 DEF EnteredInv
<1>7. Booting'
  BY <1>1 DEF EnteredInv, Booting
<1>8. OrDefault(entered)' = OrDefault(entered)
  BY <1>1 DEF OrDefault
<1> QED BY <1>1, <1>3, <1>5, <1>6, <1>7, <1>8 DEF EnteredInv

\* A crash enters nothing.
LEMMA CrashEnters ==
  ASSUME UiInv, EnteredInv, Crash
  PROVE  EnteredInv'
<1>1. UNCHANGED <<file, entered, synced>> /\ \A t \in Slots : slot'[t] = None
  BY DEF Crash
<1>2. ASSUME NEW p \in Pages
      PROVE  /\ page'[p].get \in {page[p].get, Refused} /\ page'[p].read = page[p].read
             /\ page'[p].booted = page[p].booted /\ page'[p].active = page[p].active
             /\ page'[p].profile = page[p].profile /\ page'[p].ctl = page[p].ctl
             /\ page'[p].mode = page[p].mode
  <2> DEFINE pg == page[p]
             new == [pg EXCEPT !.get = IF @ = Sent THEN Refused ELSE @]
  <2>1. page'[p] = new
    BY DEF Crash
  <2>2. pg \in PageType
    BY DEF UiInv, TypeOK, PagesTyped
  <2> HIDE DEF pg
  <2>3. /\ new.get \in {pg.get, Refused}
        /\ new.read = pg.read /\ new.active = pg.active /\ new.ctl = pg.ctl
        /\ new.booted = pg.booted /\ new.profile = pg.profile /\ new.mode = pg.mode
    BY <2>2 DEF PageType
  <2> HIDE DEF new
  <2> QED BY <2>1, <2>3 DEF pg
<1>3. ASSUME NEW E, NEW all \in BOOLEAN, Holds(file, slot, page, E, all)
      PROVE  Holds(file', slot', page', E, all)
  <2>1. ASSUME NEW p \in Pages
        PROVE  /\ page'[p].get \in Files => Known(page'[p].get, E)
               /\ all \/ page'[p].read => Shown(page'[p], E)
    <3>1. page'[p].get \in Files => Known(page'[p].get, E)
      BY <1>2, <1>3, SettingsAssumption DEF Holds
    <3>2. Shown(page[p], E) => Shown(page'[p], E)
      BY <1>2 DEF Shown
    <3> QED BY <1>2, <1>3, <3>1, <3>2 DEF Holds
  <2> QED BY <1>1, <1>3, <2>1 DEF Holds
<1>4. OrDefault(entered)' = OrDefault(entered)
  BY <1>1 DEF OrDefault
<1>5. Booting'
  BY <1>2 DEF EnteredInv, Booting
<1>6. \A t \in Slots : ~Saving(t)'
  BY <1>1 DEF Saving
<1>7. /\ Holds(file', slot', page', OrDefault(entered), TRUE)
      /\ synced => Holds(file', slot', page', entered, FALSE)
  BY <1>3 DEF EnteredInv
<1> QED BY <1>1, <1>4, <1>5, <1>6, <1>7 DEF EnteredInv

\* What is found at first counts as entered.
LEMMA InitEntered == Init => EnteredInv
<1> SUFFICES ASSUME Init PROVE EnteredInv
  OBVIOUS
<1>1. Known(file, entered) /\ Known(file, OrDefault(entered))
  BY DEF Init, Known, Ours, OrDefault
<1>2. \A t \in Slots : slot[t] = None
  BY DEF Init
<1>3. ASSUME NEW p \in Pages
      PROVE  page[p].get \notin Files /\ ~page[p].read /\ ~page[p].booted
             /\ page[p].active = First /\ Shown(page[p], OrDefault(entered))
  <2>1. page[p] = NewPage
    BY DEF Init
  <2>2. Shown(NewPage, OrDefault(entered))
    BY SettingsAssumption DEF NewPage, Shown, Ours, OrDefault, Defaults
  <2>3. NewPage.get \notin Files /\ ~NewPage.read /\ ~NewPage.booted /\ NewPage.active = First
    BY SettingsAssumption DEF NewPage
  <2> QED BY <2>1, <2>2, <2>3
<1> QED BY <1>1, <1>2, <1>3 DEF EnteredInv, Holds, Booting, Saving

\* Every step stores what the user entered, nothing else.
LEMMA NextEnters == UiInv /\ EnteredInv /\ [Next]_vars => EnteredInv'
<1> SUFFICES ASSUME UiInv, EnteredInv, [Next]_vars PROVE EnteredInv'
  OBVIOUS
<1>1. CASE UNCHANGED vars
  BY <1>1 DEF vars, EnteredInv, Holds, Booting, Saving, OrDefault
<1>2. ASSUME NEW t \in Slots, SaveReads(t) \/ SaveWrites(t) \/ SaveReplaces(t)
      PROVE  EnteredInv'
  BY <1>2, RequestsEnter
<1>3. CASE Crash
  BY <1>3, CrashEnters
<1>4. ASSUME NEW p \in Pages,
             \/ \E new : Turns(p, new)
             \/ \E mode \in Modes : Hydrate(p, mode)
             \/ Answers(p) \/ \E b \in BOOLEAN : Open(p, b)
      PROVE  EnteredInv'
  BY <1>4, TurnsEnter, ReadEnters
<1> QED BY <1>1, <1>2, <1>3, <1>4, NextCases

-----------------------------------------------------------------------------
(* Theorems.                                                               *)

\* The invariant of saving holds: one request at a time is between reading and
\* replacing the file.
THEOREM Invariance == Spec => []UiInv
  BY InitHolds, NextKeeps, PTL DEF Spec

\* The settings file is whole at every moment (save_ui_state, load_ui_state).
THEOREM FileStaysWhole == Spec => []FileIsWhole
<1>1. UiInv => FileIsWhole
  BY SettingsAssumption DEF UiInv, TypeOK, FileIsWhole
<1> QED BY <1>1, Invariance, PTL

\* A save changes one axis, and of its anti-sway section what it was posted for.
THEOREM SavesAreConfined == Spec => SaveIsConfined
<1> DEFINE Has(f, d, k) == f[d] # None /\ k \in DOMAIN f[d].anti
           Value(f, d, k) == IF Has(f, d, k) THEN f[d].anti[k] ELSE None
           Confined(t) ==
             /\ slot[t] # None /\ slot'[t] = None
             /\ \A d \in Devices \ {slot[t].device} : file'[d] = file[d]
             /\ LET key(k) == k \in DOMAIN file'[slot[t].device].anti
                    new(k) == IF key(k) THEN file'[slot[t].device].anti[k] ELSE None
                    old(k) == IF file[slot[t].device] = None THEN None
                              ELSE IF k \in DOMAIN file[slot[t].device].anti
                                   THEN file[slot[t].device].anti[k] ELSE None
                IN  /\ new("period") # old("period") => slot[t].setsPeriod
                    /\ new("settings") # old("settings") => slot[t].setsSettings
<1>1. ASSUME UiInv, NEW t \in Slots, SaveReplaces(t) PROVE Confined(t)
  <2> DEFINE r == slot[t]
             e == file[r.device]
  <2>1. /\ r \in SlotType /\ r # None /\ slot'[t] = None
        /\ file' = [file EXCEPT ![r.device] = Merged(@, r)]
    BY <1>1, Replacement DEF SaveReplaces
  <2>2. r.device \in Devices /\ file \in Files /\ e \in Entries \cup {None}
    BY <1>1, <2>1 DEF SlotType, UiInv, TypeOK, Files
  <2>3. /\ file'[r.device] = Merged(e, r)
        /\ \A d \in Devices \ {r.device} : file'[d] = file[d]
    BY <2>1, <2>2 DEF Files
  <2>4. ~r.setsPeriod => "period" \in Protected(r)
    BY DEF Protected
  <2>5. ~r.setsSettings => "settings" \in Protected(r)
    BY DEF Protected
  <2> HIDE DEF r, e
  <2>6. ASSUME NEW k \in Protected(r)
        PROVE  (IF k \in DOMAIN Merged(e, r).anti THEN Merged(e, r).anti[k] ELSE None)
                 = (IF e = None THEN None
                    ELSE IF k \in DOMAIN e.anti THEN e.anti[k] ELSE None)
    BY <2>2, <2>6, MergedKeeps
  <2> QED BY <2>1, <2>3, <2>4, <2>5, <2>6 DEF r, e
<1>2. UiInv /\ [Next]_vars => (file' # file => \E t \in Slots : Confined(t))
  <2> SUFFICES ASSUME UiInv, [Next]_vars, file' # file PROVE \E t \in Slots : Confined(t)
    OBVIOUS
  <2>1. \E t \in Slots : SaveReplaces(t)
    BY NextCases DEF vars, SaveReads, SaveWrites, Crash, Answers, Turns, Hydrate, Open
  <2> QED BY <1>1, <2>1
<1> QED BY <1>2, Invariance, PTL DEF Spec, SaveIsConfined

\* What is stored of an axis was entered for that axis, or is a default that a page
\* saved which could not read the file when it opened, or, a target, is an end of a
\* travel (switchAxis, saveUiState, loadUiState, updateSliders,
\* hydrateUiStateFromServer).
THEOREM StoredComesFromEntry == Spec => []StoredWasEntered
<1>1. UiInv /\ EnteredInv => StoredWasEntered
  BY DEF EnteredInv, Holds, Known, Ours, OrDefault, StoredWasEntered
<1>2. Spec => [](UiInv /\ EnteredInv)
  BY InitHolds, NextKeeps, InitEntered, NextEnters, PTL DEF Spec
<1> QED BY <1>1, <1>2, PTL

-----------------------------------------------------------------------------
(* What is saved is read back.  A form, of a section, is what the page      *)
(* makes of whatever it is given; the server stores a section of that form  *)
(* as it is, and the page makes the same of it again.                       *)

\* What is of the wrong kind is no number, no text and no flag.
LEMMA Kinds ==
    /\ Bad \notin Int /\ Bad # TRUE /\ Bad # FALSE
    /\ Bad # "torque_end" /\ Bad # "set_current" /\ Bad # "forward" /\ Bad # "reverse"
    /\ Bad # "none" /\ Bad # "zvd_terminal" /\ Bad # "zvd_continuous"
    /\ Bad # "manual" /\ Bad # "position" /\ Bad # "linear" /\ Bad # "aggressive"
    /\ Bad # "smooth" /\ Bad # "rotary" /\ Bad # "reciprocating" /\ Bad # "periodic"
    /\ Bad # "deg" /\ Bad # "rad" /\ Bad # "mm" /\ Bad # "cm" /\ Bad # "m"
  BY KindAssumption DEF Words

\* A number in a range.
Between(v, lo, hi) == v \in Int /\ lo =< v /\ v =< hi

\* What a section has is what is found.
LEMMA Found == ASSUME NEW s, NEW k \in DOMAIN s, NEW d PROVE Get(s, k, d) = s[k]
  BY DEF Get

\* Clipping brings every number into the range, and keeps those that are there.
LEMMA Clipped ==
    ASSUME NEW lo \in Int, NEW hi \in Int, lo =< hi
    PROVE  /\ \A v \in Int : Clip(lo, hi, v) \in lo..hi
           /\ \A v \in lo..hi : Clip(lo, hi, v) = v
  BY DEF Clip

\* So does a limit on one side.
LEMMA Bounded ==
    ASSUME NEW lo \in Int
    PROVE  /\ \A v \in Int : AtLeast(lo, v) \in Int /\ AtLeast(lo, v) >= lo
           /\ \A v \in Int : v >= lo => AtLeast(lo, v) = v
  BY DEF AtLeast

\* A number that is missing or of the wrong kind is replaced by a number.
LEMMA Defaulted ==
    ASSUME NEW s, NEW k, NEW keys, Number(s, keys), k \in keys,
           NEW a \in Int \cup {Bad}, NEW d \in Int
    PROVE  /\ OrElse(Get(s, k, a), d) \in Int
           /\ Finite(Get(s, k, a), d) \in Int
  BY Kinds DEF Number, OrElse, Finite, Get

\* A number is not.
LEMMA Taken ==
    ASSUME NEW v \in Int, NEW d
    PROVE  /\ Finite(v, d) = v
           /\ v # 0 \/ d = 0 => OrElse(v, d) = v
  BY Kinds DEF Finite, OrElse

\* A flag is true or not.
LEMMA Flag == ASSUME NEW g, g \in BOOLEAN PROVE (g # FALSE) = g
  OBVIOUS

\* A homing as the page shows it.
HomingForm(t) ==
    /\ t = [method |-> t.method, setPosition |-> t.setPosition,
            backoffDistance |-> t.backoffDistance, direction |-> t.direction,
            speed |-> t.speed, torqueThreshold |-> t.torqueThreshold,
            maxDistance |-> t.maxDistance,
            transmissionSignature |-> t.transmissionSignature,
            transmissionInvalidated |-> t.transmissionInvalidated]
    /\ t.method \in {"torque_end", "set_current"}
    /\ t.direction \in {"forward", "reverse"}
    /\ t.setPosition \in Int
    /\ t.backoffDistance \in 0..Huge
    /\ t.speed \in 1..Huge
    /\ Between(t.torqueThreshold, 1, 100)
    /\ t.maxDistance \in 1..Huge
    /\ t.transmissionSignature # Bad
    /\ t.transmissionInvalidated \in BOOLEAN

\* Whatever it is given, the page shows such a homing.
LEMMA HomingShown ==
    ASSUME NEW s, Number(s, Numbers.homing) PROVE HomingForm(PageHoming(s))
  <1> DEFINE
        position  == Finite(Get(s, "setPosition", 0), 0)
        backoff   == OrElse(Get(s, "backoffDistance", 0), 0)
        speed     == OrElse(Get(s, "speed", 5000), 5000)
        threshold == OrElse(Get(s, "torqueThreshold", 20), 20)
        distance  == OrElse(Get(s, "maxDistance", 10000), 10000)
        signature == Finite(Get(s, "transmissionSignature", "none"), "none")
        keys == Numbers.homing
  <1>1. /\ "setPosition" \in keys /\ "backoffDistance" \in keys /\ "speed" \in keys
        /\ "torqueThreshold" \in keys /\ "maxDistance" \in keys
    BY DEF Numbers
  <1> HIDE DEF keys
  <1>2. Number(s, keys)
    BY DEF keys
  <1>3. Huge \in Nat /\ Huge >= 1
    BY LimitAssumption
  <1>4. /\ position \in Int /\ backoff \in Int /\ speed \in Int
        /\ threshold \in Int /\ distance \in Int
    BY <1>1, <1>2, Defaulted
  <1>5. signature # Bad
    BY Kinds DEF Finite
  <1> HIDE DEF position, backoff, speed, threshold, distance, signature
  <1>6. /\ Clip(0, Huge, backoff) \in 0..Huge
        /\ Clip(1, Huge, speed) \in 1..Huge
        /\ Between(Clip(1, 100, threshold), 1, 100)
        /\ Clip(1, Huge, distance) \in 1..Huge
    BY <1>3, <1>4 DEF Clip, Between
  <1>7. PageHoming(s) =
          [method |-> IF Get(s, "method", Bad) = "torque_end"
                      THEN "torque_end" ELSE "set_current",
           setPosition |-> position,
           backoffDistance |-> Clip(0, Huge, backoff),
           direction |-> IF Get(s, "direction", Bad) = "forward"
                         THEN "forward" ELSE "reverse",
           speed |-> Clip(1, Huge, speed),
           torqueThreshold |-> Clip(1, 100, threshold),
           maxDistance |-> Clip(1, Huge, distance),
           transmissionSignature |-> signature,
           transmissionInvalidated |-> Get(s, "transmissionInvalidated", FALSE) # FALSE]
    BY DEF PageHoming, position, backoff, speed, threshold, distance, signature
  <1> QED
    BY <1>4, <1>5, <1>6, <1>7 DEF HomingForm

\* The server keeps all of it.
LEMMA HomingStored ==
    ASSUME NEW t, HomingForm(t) PROVE StoredHoming(t) = t
  <1>1. DOMAIN t = Numbers.homing \cup Texts.homing \cup {"transmissionInvalidated"}
    BY DEF HomingForm, Numbers, Texts
  <1>2. \A k \in Numbers.homing : t[k] # Bad
    BY Kinds DEF HomingForm, Numbers, Between
  <1>3. \A k \in Texts.homing : t[k] # Bad
    BY Kinds DEF HomingForm, Texts
  <1>4. DOMAIN t = Usable(t, Numbers.homing \cup Texts.homing)
                        \cup Flagged(t, {"transmissionInvalidated"})
    BY <1>1, <1>2, <1>3 DEF Usable, Flagged
  <1>5. t = [k \in DOMAIN t |-> t[k]]
    BY DEF HomingForm
  <1>6. \A k \in DOMAIN t :
           t[k] = CASE k = "transmissionInvalidated" -> t[k] # FALSE
                    [] k = "method" /\ t[k] # "torque_end" -> "set_current"
                    [] k = "direction" /\ t[k] # "forward" -> "reverse"
                    [] OTHER -> t[k]
    BY DEF HomingForm
  <1> QED
    BY <1>4, <1>5, <1>6 DEF StoredHoming

\* The page shows it again.
LEMMA HomingReshown ==
    ASSUME NEW t, HomingForm(t) PROVE PageHoming(t) = t
  <1>1. DOMAIN t = {"method", "setPosition", "backoffDistance", "direction", "speed",
                    "torqueThreshold", "maxDistance", "transmissionSignature",
                    "transmissionInvalidated"}
    BY DEF HomingForm
  <1>2. Huge \in Nat /\ Huge >= 1
    BY LimitAssumption
  <1>3. /\ Finite(t.setPosition, 0) = t.setPosition
        /\ OrElse(t.backoffDistance, 0) = t.backoffDistance
        /\ OrElse(t.speed, 5000) = t.speed
        /\ OrElse(t.torqueThreshold, 20) = t.torqueThreshold
        /\ OrElse(t.maxDistance, 10000) = t.maxDistance
    BY <1>2, Taken DEF HomingForm, Between
  <1>4. /\ Clip(0, Huge, t.backoffDistance) = t.backoffDistance
        /\ Clip(1, Huge, t.speed) = t.speed
        /\ Clip(1, 100, t.torqueThreshold) = t.torqueThreshold
        /\ Clip(1, Huge, t.maxDistance) = t.maxDistance
    BY <1>2 DEF HomingForm, Clip, Between
  <1>5. /\ Get(t, "setPosition", 0) = t.setPosition
        /\ Get(t, "backoffDistance", 0) = t.backoffDistance
        /\ Get(t, "speed", 5000) = t.speed
        /\ Get(t, "torqueThreshold", 20) = t.torqueThreshold
        /\ Get(t, "maxDistance", 10000) = t.maxDistance
        /\ Get(t, "method", Bad) = t.method /\ Get(t, "direction", Bad) = t.direction
        /\ Get(t, "transmissionSignature", "none") = t.transmissionSignature
    BY <1>1 DEF Get
  <1>6. /\ (IF t.method = "torque_end" THEN "torque_end" ELSE "set_current") = t.method
        /\ (IF t.direction = "forward" THEN "forward" ELSE "reverse") = t.direction
        /\ Finite(t.transmissionSignature, "none") = t.transmissionSignature
    BY DEF HomingForm, Finite
  <1> DEFINE raw  == Get(t, "transmissionInvalidated", FALSE)
             flag == raw # FALSE
             now  == t.transmissionInvalidated
  <1>7. flag = now
    <2>1. raw = now
      BY <1>1 DEF Get
    <2>2. now \in BOOLEAN
      BY DEF HomingForm
    <2> HIDE DEF raw, now
    <2>3. raw \in BOOLEAN
      BY <2>1, <2>2
    <2>4. flag = raw
      BY <2>3, Flag
    <2> QED
      BY <2>1, <2>4
  <1>8. PageHoming(t) =
          [method |-> IF Get(t, "method", Bad) = "torque_end"
                      THEN "torque_end" ELSE "set_current",
           setPosition |-> Finite(Get(t, "setPosition", 0), 0),
           backoffDistance |-> Clip(0, Huge, OrElse(Get(t, "backoffDistance", 0), 0)),
           direction |-> IF Get(t, "direction", Bad) = "forward"
                         THEN "forward" ELSE "reverse",
           speed |-> Clip(1, Huge, OrElse(Get(t, "speed", 5000), 5000)),
           torqueThreshold |-> Clip(1, 100, OrElse(Get(t, "torqueThreshold", 20), 20)),
           maxDistance |-> Clip(1, Huge, OrElse(Get(t, "maxDistance", 10000), 10000)),
           transmissionSignature |->
             Finite(Get(t, "transmissionSignature", "none"), "none"),
           transmissionInvalidated |-> flag]
    BY DEF PageHoming
  <1> HIDE DEF flag, raw
  <1> QED
    BY <1>3, <1>4, <1>5, <1>6, <1>7, <1>8 DEF HomingForm

\* An axis that may serve as the sensor.
IsSensor(a) == \E i \in DOMAIN Sensors : Sensors[i] = a

\* The anti-sway settings as the page shows them.
SwayForm(t) ==
    /\ t = [allowedAngle |-> t.allowedAngle, rodLength |-> t.rodLength,
            measuredPeriodS |-> t.measuredPeriodS, algorithm |-> t.algorithm,
            speedRpm |-> t.speedRpm, accelRpmS |-> t.accelRpmS,
            sensorAxis |-> t.sensorAxis]
    /\ Between(t.allowedAngle, 1, 450)
    /\ Between(t.rodLength, 1, 100000)
    /\ Between(t.measuredPeriodS, 0, 10000)
    /\ t.algorithm \in {"zvd_terminal", "zvd_continuous"}
    /\ Between(t.speedRpm, 1, 6000)
    /\ Between(t.accelRpmS, 1, 12000)
    /\ IsSensor(t.sensorAxis)

\* Whatever it is given, the page shows such settings.
LEMMA SwayShown ==
    ASSUME NEW s, Number(s, Numbers.antiSway) PROVE SwayForm(PageAntiSway(s))
  <1> DEFINE
        angle  == OrElse(Get(s, "allowedAngle", 30), 30)
        rod    == OrElse(Get(s, "rodLength", 520), 520)
        period == Finite(Get(s, "measuredPeriodS", 0), 0)
        speed  == OrElse(Get(s, "speedRpm", 120), 120)
        accel  == OrElse(Get(s, "accelRpmS", 300), 300)
        sensor == Get(s, "sensorAxis", Get(s, "sensor_axis", Bad))
        chosen == IF \E i \in DOMAIN Sensors : Sensors[i] = sensor
                  THEN sensor ELSE Head(Sensors)
        keys == Numbers.antiSway
  <1>1. /\ "allowedAngle" \in keys /\ "rodLength" \in keys /\ "measuredPeriodS" \in keys
        /\ "speedRpm" \in keys /\ "accelRpmS" \in keys
    BY DEF Numbers
  <1> HIDE DEF keys
  <1>2. Number(s, keys)
    BY DEF keys
  <1>3. angle \in Int /\ rod \in Int /\ period \in Int /\ speed \in Int /\ accel \in Int
    BY <1>1, <1>2, Defaulted
  <1>4. IsSensor(chosen)
    <2>1. 1 \in DOMAIN Sensors /\ Head(Sensors) = Sensors[1]
      BY LimitAssumption
    <2> HIDE DEF sensor
    <2> QED
      BY <2>1 DEF IsSensor
  <1> HIDE DEF angle, rod, period, speed, accel
  <1>5. /\ Between(Clip(1, 450, angle), 1, 450)
        /\ Between(Clip(1, 100000, rod), 1, 100000)
        /\ Between(Clip(0, 10000, period), 0, 10000)
        /\ Between(Clip(1, 6000, speed), 1, 6000)
        /\ Between(Clip(1, 12000, accel), 1, 12000)
    BY <1>3 DEF Clip, Between
  <1>6. PageAntiSway(s) =
          [allowedAngle |-> Clip(1, 450, angle), rodLength |-> Clip(1, 100000, rod),
           measuredPeriodS |-> Clip(0, 10000, period),
           algorithm |-> IF Get(s, "algorithm", Bad) = "zvd_terminal"
                         THEN "zvd_terminal" ELSE "zvd_continuous",
           speedRpm |-> Clip(1, 6000, speed), accelRpmS |-> Clip(1, 12000, accel),
           sensorAxis |-> chosen]
    BY DEF PageAntiSway, angle, rod, period, speed, accel
  <1> HIDE DEF chosen
  <1> QED
    BY <1>4, <1>5, <1>6 DEF SwayForm

\* The server keeps all of it.
LEMMA SwayStored ==
    ASSUME NEW t, SwayForm(t) PROVE StoredAntiSway(t) = t
  <1>1. DOMAIN t = Numbers.antiSway \cup {"algorithm"} \cup {"sensorAxis"}
    BY DEF SwayForm, Numbers
  <1>2. /\ \A k \in Numbers.antiSway : t[k] # Bad
        /\ t["algorithm"] # Bad
    BY Kinds DEF SwayForm, Numbers, Between
  <1>3. t.sensorAxis # Bad
    <2>1. IsSensor(t.sensorAxis)
      BY DEF SwayForm
    <2> QED
      BY <2>1, KindAssumption DEF IsSensor
  <1>4. Usable(t, Numbers.antiSway \cup {"algorithm"}) = Numbers.antiSway \cup {"algorithm"}
    BY <1>1, <1>2 DEF Usable
  <1>5. Get(t, "sensorAxis", Get(t, "sensor_axis", Bad)) = t.sensorAxis
    BY <1>1, Found
  <1>6. t = [k \in DOMAIN t |-> t[k]]
    BY DEF SwayForm
  <1>7. StoredAntiSway(t) = [k \in DOMAIN t |-> IF k = "sensorAxis" THEN t.sensorAxis ELSE t[k]]
    BY <1>1, <1>3, <1>4, <1>5 DEF StoredAntiSway
  <1> QED
    BY <1>6, <1>7

\* The page shows it again.
LEMMA SwayReshown ==
    ASSUME NEW t, SwayForm(t) PROVE PageAntiSway(t) = t
  <1>1. DOMAIN t = {"allowedAngle", "rodLength", "measuredPeriodS", "algorithm",
                    "speedRpm", "accelRpmS", "sensorAxis"}
    BY DEF SwayForm
  <1>2. /\ OrElse(t.allowedAngle, 30) = t.allowedAngle
        /\ OrElse(t.rodLength, 520) = t.rodLength
        /\ Finite(t.measuredPeriodS, 0) = t.measuredPeriodS
        /\ OrElse(t.speedRpm, 120) = t.speedRpm
        /\ OrElse(t.accelRpmS, 300) = t.accelRpmS
    BY Taken DEF SwayForm, Between
  <1>3. /\ Clip(1, 450, t.allowedAngle) = t.allowedAngle
        /\ Clip(1, 100000, t.rodLength) = t.rodLength
        /\ Clip(0, 10000, t.measuredPeriodS) = t.measuredPeriodS
        /\ Clip(1, 6000, t.speedRpm) = t.speedRpm
        /\ Clip(1, 12000, t.accelRpmS) = t.accelRpmS
    BY DEF SwayForm, Clip, Between
  <1>4. /\ Get(t, "allowedAngle", 30) = t.allowedAngle
        /\ Get(t, "rodLength", 520) = t.rodLength
        /\ Get(t, "measuredPeriodS", 0) = t.measuredPeriodS
        /\ Get(t, "speedRpm", 120) = t.speedRpm
        /\ Get(t, "accelRpmS", 300) = t.accelRpmS
        /\ Get(t, "algorithm", Bad) = t.algorithm
        /\ Get(t, "sensorAxis", Get(t, "sensor_axis", Bad)) = t.sensorAxis
    BY <1>1 DEF Get
  <1>5. (IF t.algorithm = "zvd_terminal" THEN "zvd_terminal" ELSE "zvd_continuous")
           = t.algorithm
    BY DEF SwayForm
  <1>6. \E i \in DOMAIN Sensors : Sensors[i] = t.sensorAxis
    BY DEF SwayForm, IsSensor
  <1>7. PageAntiSway(t) =
          [allowedAngle |-> t.allowedAngle, rodLength |-> t.rodLength,
           measuredPeriodS |-> t.measuredPeriodS, algorithm |-> t.algorithm,
           speedRpm |-> t.speedRpm, accelRpmS |-> t.accelRpmS,
           sensorAxis |-> t.sensorAxis]
    BY <1>2, <1>3, <1>4, <1>5, <1>6 DEF PageAntiSway
  <1> QED
    BY <1>7 DEF SwayForm

\* An incremental curve as the page shows it.
CurveForm(t) ==
    /\ t = [mode |-> t.mode, targetPosition |-> t.targetPosition,
            targetSpeed |-> t.targetSpeed, accel |-> t.accel, decel |-> t.decel,
            dwell |-> t.dwell, blend |-> t.blend]
    /\ t.mode \in {"manual", "position"}
    /\ t.targetPosition \in Int
    /\ t.targetSpeed \in Nat /\ t.accel \in Nat /\ t.decel \in Nat /\ t.dwell \in Nat
    /\ t.blend \in {"linear", "aggressive", "smooth"}

\* Whatever it is given, the page shows such a curve.
LEMMA CurveShown ==
    ASSUME NEW s, Number(s, Numbers.incrementalCurve) PROVE CurveForm(PageCurve(s))
  <1> DEFINE
        value(k) == OrElse(Get(s, k, 0), 0)
        blend == Get(s, "blend", Bad)
        keys == Numbers.incrementalCurve
  <1>1. /\ "targetPosition" \in keys /\ "targetSpeed" \in keys /\ "accel" \in keys
        /\ "decel" \in keys /\ "dwell" \in keys
    BY DEF Numbers
  <1> HIDE DEF keys
  <1>2. Number(s, keys)
    BY DEF keys
  <1>3. \A k \in keys : value(k) \in Int
    BY <1>2, Defaulted
  <1> HIDE DEF value
  <1>4. \A k \in keys : AtLeast(0, value(k)) \in Nat
    BY <1>3 DEF AtLeast
  <1>5. PageCurve(s) =
          [mode |-> IF Get(s, "mode", Bad) = "manual" THEN "manual" ELSE "position",
           targetPosition |-> value("targetPosition"),
           targetSpeed |-> AtLeast(0, value("targetSpeed")),
           accel |-> AtLeast(0, value("accel")), decel |-> AtLeast(0, value("decel")),
           dwell |-> AtLeast(0, value("dwell")),
           blend |-> IF blend \in {"linear", "aggressive"} THEN blend ELSE "smooth"]
    BY DEF PageCurve, value
  <1> HIDE DEF blend
  <1> QED
    BY <1>1, <1>3, <1>4, <1>5 DEF CurveForm

\* The server keeps all of it.
LEMMA CurveStored ==
    ASSUME NEW t, CurveForm(t)
    PROVE  Kept(t, Numbers.incrementalCurve \cup Texts.incrementalCurve) = t
  <1>1. DOMAIN t = Numbers.incrementalCurve \cup Texts.incrementalCurve
    BY DEF CurveForm, Numbers, Texts
  <1>2. \A k \in Numbers.incrementalCurve : t[k] # Bad
    BY Kinds DEF CurveForm, Numbers
  <1>3. \A k \in Texts.incrementalCurve : t[k] # Bad
    BY Kinds DEF CurveForm, Texts
  <1>4. t = [k \in DOMAIN t |-> t[k]]
    BY DEF CurveForm
  <1> QED
    BY <1>1, <1>2, <1>3, <1>4 DEF Kept, Usable

\* The page shows it again.
LEMMA CurveReshown ==
    ASSUME NEW t, CurveForm(t) PROVE PageCurve(t) = t
  <1>1. DOMAIN t = {"mode", "targetPosition", "targetSpeed", "accel", "decel",
                    "dwell", "blend"}
    BY DEF CurveForm
  <1>2. /\ OrElse(t.targetPosition, 0) = t.targetPosition
        /\ AtLeast(0, OrElse(t.targetSpeed, 0)) = t.targetSpeed
        /\ AtLeast(0, OrElse(t.accel, 0)) = t.accel
        /\ AtLeast(0, OrElse(t.decel, 0)) = t.decel
        /\ AtLeast(0, OrElse(t.dwell, 0)) = t.dwell
    BY Kinds DEF CurveForm, OrElse, AtLeast
  <1>3. /\ Get(t, "targetPosition", 0) = t.targetPosition
        /\ Get(t, "targetSpeed", 0) = t.targetSpeed
        /\ Get(t, "accel", 0) = t.accel /\ Get(t, "decel", 0) = t.decel
        /\ Get(t, "dwell", 0) = t.dwell
        /\ Get(t, "mode", Bad) = t.mode /\ Get(t, "blend", Bad) = t.blend
    BY <1>1 DEF Get
  <1>4. /\ (IF t.mode = "manual" THEN "manual" ELSE "position") = t.mode
        /\ (IF t.blend \in {"linear", "aggressive"} THEN t.blend ELSE "smooth") = t.blend
    BY DEF CurveForm
  <1>5. PageCurve(t) =
          [mode |-> t.mode, targetPosition |-> t.targetPosition,
           targetSpeed |-> t.targetSpeed, accel |-> t.accel, decel |-> t.decel,
           dwell |-> t.dwell, blend |-> t.blend]
    BY <1>2, <1>3, <1>4 DEF PageCurve
  <1> QED
    BY <1>5 DEF CurveForm

\* A transmission as the page shows it.
TransmissionForm(t) ==
    /\ t = [type |-> t.type, revs |-> t.revs, amount |-> t.amount,
            direction |-> t.direction, travelMode |-> t.travelMode,
            period |-> t.period, forwardLimit |-> t.forwardLimit,
            reverseLimit |-> t.reverseLimit, unit |-> t.unit]
    /\ t.type \in {"linear", "rotary"}
    /\ t.revs \in Int /\ t.revs >= 1
    /\ t.amount \in Int /\ t.amount >= 1
    /\ t.direction \in {"reverse", "forward"}
    /\ t.travelMode \in {"reciprocating", "periodic"}
    /\ t.type = "linear" => t.travelMode = "reciprocating"
    /\ t.period \in Int /\ t.period >= 1
    /\ t.forwardLimit \in Int /\ t.reverseLimit \in Int
    /\ t.unit \in {"deg", "rad", "mm", "cm", "m"}
    /\ t.type = "linear" <=> t.unit \notin {"deg", "rad"}

\* The unit of a transmission is one of its type.
UnitOf(type, unit) ==
    IF \E i \in DOMAIN Units[type] : Units[type][i] = unit THEN unit ELSE Units[type][1]
LEMMA UnitsKept ==
    ASSUME NEW type \in {"linear", "rotary"}, NEW unit
    PROVE  LET u == UnitOf(type, unit)
               some == IF type = "linear" THEN {"mm", "cm", "m"} ELSE {"deg", "rad"} IN
           u \in some /\ (unit \in some => u = unit)
  <1>1. /\ DOMAIN Units["linear"] = 1..3 /\ DOMAIN Units["rotary"] = 1..2
        /\ Units["linear"][1] = "mm" /\ Units["linear"][2] = "cm"
        /\ Units["linear"][3] = "m"
        /\ Units["rotary"][1] = "deg" /\ Units["rotary"][2] = "rad"
    BY DEF Units
  <1> QED
    BY <1>1 DEF UnitOf

\* Whatever it is given, the page shows such a transmission.
LEMMA TransmissionShown ==
    ASSUME NEW s, Number(s, Numbers.transmission)
    PROVE  TransmissionForm(PageTransmission(s))
  <1> DEFINE
        type   == IF Get(s, "type", Bad) = "linear" THEN "linear" ELSE "rotary"
        given  == OrElse(Get(s, "amount", 360000), IF type = "linear" THEN 1000 ELSE 360000)
        amount == AtLeast(1, given)
        revs   == OrElse(Get(s, "revs", 1000), 1000)
        period == OrElse(Get(s, "period", Bad), amount)
        ahead  == Finite(Get(s, "forwardLimit", Bad), amount)
        behind == Finite(Get(s, "reverseLimit", Bad), -amount)
        unit   == UnitOf(type, Get(s, "unit", Bad))
        back   == Get(s, "travelMode", Bad) = "reciprocating"
        keys   == Numbers.transmission
  <1>1. /\ "revs" \in keys /\ "amount" \in keys /\ "period" \in keys
        /\ "forwardLimit" \in keys /\ "reverseLimit" \in keys
    BY DEF Numbers
  <1> HIDE DEF keys
  <1>2. Number(s, keys)
    BY DEF keys
  <1>3. revs \in Int
    BY <1>1, <1>2, Defaulted
  <1>4. type \in {"linear", "rotary"}
    OBVIOUS
  <1>5. given \in Int
    <2> DEFINE d == IF type = "linear" THEN 1000 ELSE 360000
    <2>1. d \in Int
      OBVIOUS
    <2> HIDE DEF d, type
    <2> QED
      BY <1>1, <1>2, <2>1, Defaulted DEF d
  <1> HIDE DEF given, type
  <1>6. amount \in Int /\ amount >= 1
    BY <1>5 DEF AtLeast
  <1> HIDE DEF amount
  <1>7. period \in Int /\ ahead \in Int /\ behind \in Int
    <2>1. -amount \in Int
      BY <1>6
    <2> DEFINE least == -amount
    <2> HIDE DEF least
    <2> QED
      BY <1>1, <1>2, <1>6, <2>1, Defaulted DEF least
  <1>8. /\ unit \in {"deg", "rad", "mm", "cm", "m"}
        /\ type = "linear" <=> unit \notin {"deg", "rad"}
    BY <1>4, UnitsKept
  <1> HIDE DEF revs, period, ahead, behind, unit, back
  <1>9. /\ AtLeast(1, revs) \in Int /\ AtLeast(1, revs) >= 1
        /\ AtLeast(1, period) \in Int /\ AtLeast(1, period) >= 1
    BY <1>3, <1>7 DEF AtLeast
  <1>10. PageTransmission(s) =
           [type |-> type, revs |-> AtLeast(1, revs), amount |-> amount,
            direction |-> IF Get(s, "direction", Bad) = "reverse"
                          THEN "reverse" ELSE "forward",
            travelMode |-> IF type = "linear" \/ back THEN "reciprocating" ELSE "periodic",
            period |-> AtLeast(1, period), forwardLimit |-> ahead,
            reverseLimit |-> behind, unit |-> unit]
    BY DEF PageTransmission, UnitOf, type, given, amount, revs, period, ahead, behind,
           unit, back
  <1> QED
    BY <1>4, <1>6, <1>7, <1>8, <1>9, <1>10 DEF TransmissionForm

\* The server keeps all of it.
LEMMA TransmissionStored ==
    ASSUME NEW t, TransmissionForm(t)
    PROVE  Kept(t, Numbers.transmission \cup Texts.transmission) = t
  <1>1. DOMAIN t = Numbers.transmission \cup Texts.transmission
    BY DEF TransmissionForm, Numbers, Texts
  <1>2. \A k \in Numbers.transmission : t[k] # Bad
    BY Kinds DEF TransmissionForm, Numbers
  <1>3. \A k \in Texts.transmission : t[k] # Bad
    BY Kinds DEF TransmissionForm, Texts
  <1>4. t = [k \in DOMAIN t |-> t[k]]
    BY DEF TransmissionForm
  <1> QED
    BY <1>1, <1>2, <1>3, <1>4 DEF Kept, Usable

\* The page shows it again.
LEMMA TransmissionReshown ==
    ASSUME NEW t, TransmissionForm(t) PROVE PageTransmission(t) = t
  <1>1. DOMAIN t = {"type", "revs", "amount", "direction", "travelMode", "period",
                    "forwardLimit", "reverseLimit", "unit"}
    BY DEF TransmissionForm
  <1>2. \A d : /\ AtLeast(1, OrElse(t.revs, d)) = t.revs
               /\ AtLeast(1, OrElse(t.amount, d)) = t.amount
               /\ AtLeast(1, OrElse(t.period, d)) = t.period
               /\ Finite(t.forwardLimit, d) = t.forwardLimit
               /\ Finite(t.reverseLimit, d) = t.reverseLimit
    BY Kinds DEF TransmissionForm, OrElse, Finite, AtLeast
  <1>3. /\ Get(t, "type", Bad) = t.type /\ Get(t, "unit", Bad) = t.unit
        /\ Get(t, "travelMode", Bad) = t.travelMode
        /\ Get(t, "direction", Bad) = t.direction
        /\ Get(t, "revs", 1000) = t.revs /\ Get(t, "amount", 360000) = t.amount
        /\ Get(t, "period", Bad) = t.period
        /\ Get(t, "forwardLimit", Bad) = t.forwardLimit
        /\ Get(t, "reverseLimit", Bad) = t.reverseLimit
    BY <1>1 DEF Get
  <1>4. /\ (IF t.type = "linear" THEN "linear" ELSE "rotary") = t.type
        /\ (IF t.direction = "reverse" THEN "reverse" ELSE "forward") = t.direction
        /\ (IF t.type = "linear" \/ t.travelMode = "reciprocating"
            THEN "reciprocating" ELSE "periodic") = t.travelMode
    BY DEF TransmissionForm
  <1>5. UnitOf(t.type, t.unit) = t.unit
    BY UnitsKept DEF TransmissionForm
  <1>6. PageTransmission(t) =
          [type |-> t.type, revs |-> t.revs, amount |-> t.amount,
           direction |-> t.direction, travelMode |-> t.travelMode,
           period |-> t.period, forwardLimit |-> t.forwardLimit,
           reverseLimit |-> t.reverseLimit, unit |-> t.unit]
    BY <1>2, <1>3, <1>4, <1>5 DEF PageTransmission, UnitOf
  <1> QED
    BY <1>6 DEF TransmissionForm

\* A row of a table as the page shows it.
RowForm(r) ==
    /\ r = [row |-> r.row, position |-> r.position, speed |-> r.speed,
            acceleration |-> r.acceleration, dwell |-> r.dwell, enabled |-> r.enabled]
    /\ Between(r.row, 1, MaxRow)
    /\ r.position \in Int
    /\ Between(r.speed, 1, Huge)
    /\ Between(r.acceleration, 0, Huge)
    /\ Between(r.dwell, 0, 60000)
    /\ r.enabled \in BOOLEAN

\* Such a row is not of the wrong kind.
LEMMA RowIsKnown == ASSUME NEW r, RowForm(r) PROVE r \in Rows /\ r # Bad /\ r # Empty
  <1>1. r \in Rows
    BY DEF RowForm, Rows, Between
  <1>2. "row" \in DOMAIN r
    BY DEF RowForm
  <1>3. DOMAIN Empty = {}
    BY DEF Empty
  <1> QED
    BY <1>1, <1>2, <1>3, KindAssumption

\* Whatever it is given, the page shows such a row; without a number it gets
\* that of its place.
LEMMA RowShown ==
    ASSUME NEW r, RowTyped(r), NEW n \in Int
    PROVE  /\ RowForm(PageRow(r, n))
           /\ "row" \notin DOMAIN r /\ Between(n, 1, MaxRow) => PageRow(r, n).row = n
  <1> DEFINE
        row      == OrElse(Get(r, "row", n), n)
        position == Finite(Get(r, "position", 0), 0)
        speed    == Finite(Get(r, "speed", 120000), 120000)
        accel    == Finite(Get(r, "acceleration", 300000), 300000)
        dwell    == OrElse(Get(r, "dwell", 0), 0)
        flag     == Get(r, "enabled", TRUE) # FALSE
        keys     == RowNumbers
  <1>1. /\ "row" \in keys /\ "position" \in keys /\ "speed" \in keys
        /\ "acceleration" \in keys /\ "dwell" \in keys
    BY DEF RowNumbers
  <1> HIDE DEF keys
  <1>2. Number(r, keys)
    BY DEF keys, RowTyped
  <1>3. /\ row \in Int /\ position \in Int /\ speed \in Int /\ accel \in Int
        /\ dwell \in Int
    BY <1>1, <1>2, Defaulted
  <1>4. "row" \notin DOMAIN r /\ Between(n, 1, MaxRow) => row = n
    BY Kinds DEF Between, OrElse, Get
  <1>5. flag \in BOOLEAN
    OBVIOUS
  <1>6. MaxRow \in Nat /\ MaxRow >= 1 /\ Huge \in Nat /\ Huge >= 1
    BY LimitAssumption
  <1> HIDE DEF row, position, speed, accel, dwell, flag
  <1>7. /\ Between(Clip(1, MaxRow, row), 1, MaxRow)
        /\ Between(Clip(1, Huge, speed), 1, Huge)
        /\ Between(Clip(0, Huge, accel), 0, Huge)
        /\ Between(Clip(0, 60000, dwell), 0, 60000)
        /\ Between(row, 1, MaxRow) => Clip(1, MaxRow, row) = row
    BY <1>3, <1>6 DEF Between, Clip
  <1>8. PageRow(r, n) =
          [row |-> Clip(1, MaxRow, row), position |-> position,
           speed |-> Clip(1, Huge, speed), acceleration |-> Clip(0, Huge, accel),
           dwell |-> Clip(0, 60000, dwell), enabled |-> flag]
    BY DEF PageRow, row, position, speed, accel, dwell, flag
  <1> QED
    BY <1>3, <1>4, <1>5, <1>7, <1>8 DEF RowForm

\* The server keeps all of it.
LEMMA RowStored == ASSUME NEW r, RowForm(r) PROVE StoredRow(r) = r
  <1> DEFINE keys == {"row", "position", "speed", "acceleration", "dwell"}
  <1>1. DOMAIN r = keys \cup {"enabled"}
    BY DEF RowForm
  <1>2. \A k \in keys : r[k] # Bad /\ k # "enabled"
    BY Kinds DEF RowForm, Between
  <1> HIDE DEF keys
  <1>3. Usable(r, keys) = keys /\ Flagged(r, {"enabled"}) = {"enabled"}
    BY <1>1, <1>2 DEF Usable, Flagged
  <1>4. r = [k \in DOMAIN r |-> r[k]]
    BY DEF RowForm
  <1>5. r["enabled"] \in BOOLEAN
    BY DEF RowForm
  <1>6. (r["enabled"] # FALSE) = r["enabled"]
    <2> DEFINE g == r["enabled"]
    <2>1. g \in BOOLEAN
      BY <1>5
    <2> HIDE DEF g
    <2>2. (g # FALSE) = g
      BY <2>1, Flag
    <2> QED
      BY <2>2 DEF g
  <1>7. StoredRow(r) = [k \in DOMAIN r |-> IF k = "enabled" THEN r[k] # FALSE ELSE r[k]]
    BY <1>1, <1>3 DEF StoredRow, keys
  <1>8. \A k \in DOMAIN r : (IF k = "enabled" THEN r[k] # FALSE ELSE r[k]) = r[k]
    BY <1>6
  <1> QED
    BY <1>4, <1>7, <1>8

\* The page shows it again, wherever it stands.
LEMMA RowReshown == ASSUME NEW r, RowForm(r), NEW n PROVE PageRow(r, n) = r
  <1>1. DOMAIN r = {"row", "position", "speed", "acceleration", "dwell", "enabled"}
    BY DEF RowForm
  <1>2. /\ OrElse(r.row, n) = r.row
        /\ Finite(r.position, 0) = r.position
        /\ Finite(r.speed, 120000) = r.speed
        /\ Finite(r.acceleration, 300000) = r.acceleration
        /\ OrElse(r.dwell, 0) = r.dwell
    BY Taken DEF RowForm, Between
  <1>3. MaxRow \in Nat /\ MaxRow >= 1 /\ Huge \in Nat /\ Huge >= 1
    BY LimitAssumption
  <1>4. /\ Clip(1, MaxRow, r.row) = r.row
        /\ Clip(1, Huge, r.speed) = r.speed
        /\ Clip(0, Huge, r.acceleration) = r.acceleration
        /\ Clip(0, 60000, r.dwell) = r.dwell
    BY <1>3 DEF RowForm, Between, Clip
  <1>5. /\ Get(r, "row", n) = r.row /\ Get(r, "position", 0) = r.position
        /\ Get(r, "speed", 120000) = r.speed
        /\ Get(r, "acceleration", 300000) = r.acceleration
        /\ Get(r, "dwell", 0) = r.dwell
    BY <1>1 DEF Get
  <1> DEFINE raw  == Get(r, "enabled", TRUE)
             flag == raw # FALSE
             now  == r.enabled
  <1>6. flag = now
    <2>1. raw = now
      BY <1>1 DEF Get
    <2>2. now \in BOOLEAN
      BY DEF RowForm
    <2> HIDE DEF raw, now
    <2>3. raw \in BOOLEAN
      BY <2>1, <2>2
    <2>4. flag = raw
      BY <2>3, Flag
    <2> QED
      BY <2>1, <2>4
  <1>7. PageRow(r, n) =
          [row |-> Clip(1, MaxRow, OrElse(Get(r, "row", n), n)),
           position |-> Finite(Get(r, "position", 0), 0),
           speed |-> Clip(1, Huge, Finite(Get(r, "speed", 120000), 120000)),
           acceleration |->
             Clip(0, Huge, Finite(Get(r, "acceleration", 300000), 300000)),
           dwell |-> Clip(0, 60000, OrElse(Get(r, "dwell", 0), 0)),
           enabled |-> flag]
    BY DEF PageRow
  <1> HIDE DEF flag, raw
  <1> QED
    BY <1>2, <1>4, <1>5, <1>6, <1>7 DEF RowForm

\* A table as the page shows it: its rows are numbered from its start.
TableForm(t) ==
    /\ t = [start |-> t.start, step |-> t.step, cycleCount |-> t.cycleCount,
            editing |-> t.editing, rows |-> t.rows]
    /\ Between(t.start, 1, MaxRow)
    /\ Between(t.step, 1, PageRows) /\ t.step =< Clip(1, PageRows, MaxRow - t.start + 1)
    /\ Between(t.cycleCount, 1, PageCycles)
    /\ t.editing \in BOOLEAN
    /\ t.rows = [k \in 1..t.step |-> t.rows[k]]
    /\ \A k \in 1..t.step : RowForm(t.rows[k]) /\ t.rows[k].row = t.start + k - 1

\* A set of row places that is not empty has a last one.
LEMMA LastPlace ==
    ASSUME NEW n \in Nat, NEW S, S \subseteq 1..n, S # {}
    PROVE  Max(S) \in S
  <1> DEFINE T == {n - i : i \in S}
             R == OpToRel(<, Nat)
  <1>1. T \subseteq Nat /\ T # {}
    <2>1. \A i \in S : i \in 1..n
      OBVIOUS
    <2>2. \A i \in 1..n : n - i \in Nat
      OBVIOUS
    <2>3. PICK i \in S : TRUE
      OBVIOUS
    <2>4. n - i \in T
      BY <2>3
    <2>5. \A x \in T : x \in Nat
      BY <2>1, <2>2
    <2> QED
      BY <2>4, <2>5
  <1>2. IsWellFoundedOn(R, Nat)
    BY NatLessThanWellFounded
  <1>3. \A a, b \in Nat : a < b => <<a, b>> \in R
    BY DEF OpToRel
  <1> HIDE DEF R
  <1>4. PICK x \in T : \A y \in T : ~(<<y, x>> \in R)
    BY <1>1, <1>2, WFMin
  <1>5. \A y \in T : x \in Nat /\ y \in Nat /\ ~(y < x)
    BY <1>1, <1>3, <1>4
  <1>6. PICK i \in S : x = n - i
    BY <1>4
  <1>7. \A j \in S : n - j \in T
    OBVIOUS
  <1> HIDE DEF T
  <1>8. \A j \in S : i >= j
    BY <1>5, <1>6, <1>7
  <1> QED
    BY <1>8 DEF Max

\* The rows that the page makes of a list, and those it shows of them.
Laid(given, start) ==
    [i \in DOMAIN given |-> PageRow(Finite(given[i], Empty), start + i - 1)]
Numbered(rows, n) == {i \in DOMAIN rows : rows[i].row = n}
Listed(rows, start, step) ==
    [k \in 1..step |->
       IF Numbered(rows, start + k - 1) = {} THEN PageRow(Empty, start + k - 1)
       ELSE rows[Max(Numbered(rows, start + k - 1))]]

\* Every place gets a row with the number of the place.
LEMMA RowsListed ==
    ASSUME NEW given, Len(given) \in Nat, DOMAIN given = 1..Len(given),
           \A i \in DOMAIN given : given[i] # Bad => RowTyped(given[i]),
           NEW start \in Nat, start >= 1, NEW step \in Nat, start + step - 1 =< MaxRow
    PROVE  LET shown == Listed(Laid(given, start), start, step) IN
           \A k \in 1..step : RowForm(shown[k]) /\ shown[k].row = start + k - 1
  <1> DEFINE rows == Laid(given, start)
  <1>0. DOMAIN Empty = {} /\ RowTyped(Empty) /\ MaxRow \in Nat
    BY LimitAssumption DEF Empty, RowTyped, Number
  <1>1. DOMAIN rows = 1..Len(given)
    BY DEF Laid
  <1>2. \A i \in DOMAIN rows : RowForm(rows[i])
    <2> SUFFICES ASSUME NEW i \in DOMAIN given PROVE RowForm(rows[i])
      BY <1>1
    <2>1. RowTyped(Finite(given[i], Empty))
      BY <1>0 DEF Finite
    <2>2. start + i - 1 \in Int
      OBVIOUS
    <2>3. rows[i] = PageRow(Finite(given[i], Empty), start + i - 1)
      BY DEF Laid
    <2> QED
      BY <2>1, <2>2, <2>3, RowShown
  <1> HIDE DEF rows
  <1> SUFFICES ASSUME NEW k \in 1..step
               PROVE  /\ RowForm(Listed(rows, start, step)[k])
                      /\ Listed(rows, start, step)[k].row = start + k - 1
    BY DEF rows
  <1> DEFINE n == start + k - 1
             S == Numbered(rows, n)
  <1>3. n \in Int /\ Between(n, 1, MaxRow)
    BY <1>0 DEF Between
  <1>4. Listed(rows, start, step)[k] = IF S = {} THEN PageRow(Empty, n) ELSE rows[Max(S)]
    BY DEF Listed
  <1> HIDE DEF n
  <1>5. CASE S = {}
    <2>1. RowForm(PageRow(Empty, n)) /\ PageRow(Empty, n).row = n
      BY <1>0, <1>3, RowShown
    <2> QED
      BY <1>4, <1>5, <2>1 DEF n
  <1>6. CASE S # {}
    <2>1. S \subseteq 1..Len(given)
      BY <1>1 DEF Numbered
    <2>2. Max(S) \in S
      BY <1>6, <2>1, LastPlace
    <2>3. RowForm(rows[Max(S)]) /\ rows[Max(S)].row = n
      BY <1>2, <2>2 DEF Numbered
    <2> QED
      BY <1>4, <1>6, <2>3 DEF n
  <1> QED
    BY <1>5, <1>6

\* Whatever it is given, the page shows such a table.
LEMMA TableShown ==
    ASSUME NEW s, TableTyped(s) PROVE TableForm(PageTable(s))
  <1> DEFINE
        first  == OrElse(Get(s, "start", 1), 1)
        start  == Clip(1, MaxRow, first)
        most   == Clip(1, PageRows, MaxRow - start + 1)
        number == OrElse(Get(s, "step", 3), 3)
        step   == Clip(1, most, number)
        other  == IF Get(s, "loopMode", Bad) = "cycle" THEN PageCycles ELSE 1
        count  == Finite(Get(s, "cycleCount", 1), other)
        listed == Get(s, "rows", Bad)
        three  == [i \in 1..3 |-> [row |-> i]]
        given  == Finite(listed, three)
        rows   == Listed(Laid(given, start), start, step)
        flag   == Get(s, "editing", FALSE) # FALSE
  <1>1. /\ MaxRow \in Nat /\ MaxRow >= 1 /\ PageRows \in Nat /\ PageRows >= 1
        /\ PageCycles \in Nat /\ PageCycles >= 1
    BY LimitAssumption
  <1>2. first \in Int /\ number \in Int
    BY Kinds DEF TableTyped, OrElse, Get
  <1>3. count \in Int
    <2>1. Number(s, {"cycleCount"}) /\ other \in Int
      BY <1>1 DEF TableTyped
    <2> HIDE DEF other
    <2> QED
      BY <2>1, Defaulted
  <1>4. /\ Len(given) \in Nat /\ DOMAIN given = 1..Len(given)
        /\ \A i \in DOMAIN given : given[i] # Bad => RowTyped(given[i])
    <2>1. CASE listed # Bad
      <3>1. given = listed
        BY <2>1 DEF Finite
      <3>2. /\ Len(listed) \in Nat /\ DOMAIN listed = 1..Len(listed)
            /\ \A i \in DOMAIN listed : listed[i] # Bad => RowTyped(listed[i])
        BY <2>1 DEF TableTyped
      <3> HIDE DEF given, listed
      <3> QED
        BY <3>1, <3>2
    <2>2. CASE listed = Bad
      <3>1. given = three
        BY <2>2 DEF Finite
      <3> HIDE DEF given, listed
      <3>2. Len(three) = 3 /\ DOMAIN three = 1..3
        OBVIOUS
      <3>3. \A i \in 1..3 : RowTyped(three[i])
        BY DEF RowTyped, Number, RowNumbers
      <3> HIDE DEF three
      <3> QED
        BY <3>1, <3>2, <3>3
    <2> QED
      BY <2>1, <2>2
  <1> HIDE DEF first, number, count, given
  <1>5. Between(start, 1, MaxRow)
    BY <1>1, <1>2 DEF Clip, Between
  <1> HIDE DEF start
  <1>6. Between(most, 1, PageRows) /\ start + most - 1 =< MaxRow
    BY <1>1, <1>5 DEF Clip, Between
  <1> HIDE DEF most
  <1>7. Between(step, 1, PageRows) /\ step =< most /\ start + step - 1 =< MaxRow
    BY <1>1, <1>2, <1>5, <1>6 DEF Clip, Between
  <1> HIDE DEF step
  <1>8. Between(Clip(1, PageCycles, count), 1, PageCycles)
    BY <1>1, <1>3 DEF Clip, Between
  <1>9. \A k \in 1..step : RowForm(rows[k]) /\ rows[k].row = start + k - 1
    <2>1. start \in Nat /\ start >= 1 /\ step \in Nat
      BY <1>5, <1>7 DEF Between
    <2> QED
      BY <2>1, <1>4, <1>7, RowsListed
  <1>10. rows = [k \in 1..step |-> rows[k]]
    BY DEF Listed
  <1>11. flag \in BOOLEAN
    OBVIOUS
  <1>12. PageTable(s) =
           [start |-> start, step |-> step, cycleCount |-> Clip(1, PageCycles, count),
            editing |-> flag, rows |-> rows]
    BY DEF PageTable, first, start, most, number, step, count, given, Listed, Laid,
           Numbered
  <1> HIDE DEF rows, flag
  <1>13. step =< Clip(1, PageRows, MaxRow - start + 1)
    BY <1>7 DEF most
  <1> QED
    BY <1>5, <1>7, <1>8, <1>9, <1>10, <1>11, <1>12, <1>13 DEF TableForm

\* The n-th number from 1 is n.
LEMMA Counted == ASSUME NEW m \in Nat, NEW n \in 1..m PROVE Nth(1..m, n) = n
  <1>1. \A i \in 1..m : Cardinality({j \in 1..m : j =< i}) = i
    <2> SUFFICES ASSUME NEW i \in 1..m PROVE Cardinality({j \in 1..m : j =< i}) = i
      OBVIOUS
    <2>1. {j \in 1..m : j =< i} = 1..i
      OBVIOUS
    <2>2. Cardinality(1..i) = i
      <3>1. 1 \in Int /\ i \in Int /\ i >= 1
        OBVIOUS
      <3> QED
        BY <3>1, FS_Interval
    <2> QED
      BY <2>1, <2>2
  <1> DEFINE size(i) == Cardinality({j \in 1..m : j =< i})
  <1>2. \A i \in 1..m : size(i) = i
    BY <1>1
  <1>3. Nth(1..m, n) = CHOOSE i \in 1..m : size(i) = n
    BY DEF Nth
  <1> HIDE DEF size
  <1> QED
    BY <1>2, <1>3

\* A list of rows that the page shows is kept by the server as it is.
LEMMA RowsStored ==
    ASSUME NEW m \in Nat, m >= 1, m =< ServerRows, NEW rows, rows = [k \in 1..m |-> rows[k]],
           \A k \in 1..m : RowForm(rows[k])
    PROVE  StoredRows(rows) = rows /\ rows \in Seq(Rows)
  <1> DEFINE taken == {i \in DOMAIN rows :
                    i =< ServerRows /\ rows[i] # Bad /\ StoredRow(rows[i]) # Empty}
  <1>1. DOMAIN rows = 1..m
    OBVIOUS
  <1>2. \A k \in 1..m : StoredRow(rows[k]) = rows[k] /\ rows[k] # Bad /\ rows[k] # Empty
                        /\ rows[k] \in Rows
    BY RowStored, RowIsKnown
  <1>3. ServerRows \in Nat
    BY LimitAssumption
  <1>4. taken = 1..m
    BY <1>1, <1>2, <1>3
  <1>5. Cardinality(1..m) = m
    <2>1. 1 \in Int /\ m \in Int /\ m >= 1
      OBVIOUS
    <2> QED
      BY <2>1, FS_Interval
  <1>6. StoredRows(rows) = [n \in 1..Cardinality(taken) |-> StoredRow(rows[Nth(taken, n)])]
    BY DEF StoredRows
  <1> HIDE DEF taken
  <1>7. StoredRows(rows) = [n \in 1..m |-> StoredRow(rows[Nth(1..m, n)])]
    BY <1>4, <1>5, <1>6
  <1>8. \A n \in 1..m : StoredRow(rows[Nth(1..m, n)]) = rows[n]
    BY <1>2, Counted
  <1>9. rows \in [1..m -> Rows]
    BY <1>2
  <1>10. StoredRows(rows) = rows
    BY <1>7, <1>8
  <1>11. rows \in Seq(Rows)
    BY <1>9
  <1> QED
    BY <1>10, <1>11

\* The server keeps all of the table.
LEMMA TableStored ==
    ASSUME NEW t, TableForm(t), LimitsFit PROVE StoredTable(t) = t
  <1> DEFINE keys == {"start", "step"}
             count == Get(t, "cycleCount", Bad)
             loop  == Get(t, "loopMode", Bad)
             cycles == IF count # Bad THEN Clip(1, ServerCycles, count)
                  ELSE IF loop = "cycle" THEN ServerCycles
                  ELSE IF loop = "single" THEN 1 ELSE Bad
             rows   == Get(t, "rows", Bad)
             kept   == IF rows = Bad THEN <<>> ELSE StoredRows(rows)
             now    == t.editing
             flag   == t["editing"] # FALSE
  <1>1. DOMAIN t = {"start", "step", "cycleCount", "editing", "rows"}
    BY DEF TableForm
  <1>2. t.start # Bad /\ t.step # Bad
    BY Kinds DEF TableForm, Between
  <1>3. ServerCycles \in Nat /\ PageCycles \in Nat /\ ServerRows \in Nat /\ PageRows \in Nat
        /\ PageCycles =< ServerCycles /\ PageRows =< ServerRows
    BY LimitAssumption DEF LimitsFit
  <1>4. cycles = t.cycleCount /\ t.cycleCount # Bad
    <2>1. count = t.cycleCount
      BY <1>1, Found
    <2>2. Between(t.cycleCount, 1, PageCycles)
      BY DEF TableForm
    <2> HIDE DEF count, loop
    <2> QED
      BY <1>3, <2>1, <2>2, Kinds DEF Between, Clip
  <1>5. kept = t.rows /\ t.rows # <<>>
    <2>1. rows = t.rows
      BY <1>1, Found
    <2>2. t.step \in Nat /\ t.step >= 1 /\ t.step =< ServerRows
      BY <1>3 DEF TableForm, Between
    <2>3. t.rows = [k \in 1..t.step |-> t.rows[k]] /\ \A k \in 1..t.step : RowForm(t.rows[k])
      BY DEF TableForm
    <2>4. StoredRows(t.rows) = t.rows /\ t.rows \in Seq(Rows)
      BY <2>2, <2>3, RowsStored
    <2>5. t.rows # Bad
      BY <2>4, KindAssumption
    <2>6. 1 \in DOMAIN t.rows
      BY <2>2, <2>3
    <2>7. t.rows # <<>>
      BY <2>4, <2>6
    <2> HIDE DEF rows
    <2> QED
      BY <2>1, <2>4, <2>5, <2>7
  <1>6. flag = now
    <2>1. now \in BOOLEAN
      BY DEF TableForm
    <2>2. flag = (now # FALSE)
      OBVIOUS
    <2> HIDE DEF now, flag
    <2>3. (now # FALSE) = now
      BY <2>1, Flag
    <2> QED
      BY <2>2, <2>3
  <1>7. StoredTable(t) =
          [k \in Usable(t, {"start", "step"}) \cup Flagged(t, {"editing"})
                 \cup (IF cycles = Bad THEN {} ELSE {"cycleCount"})
                 \cup (IF kept = <<>> THEN {} ELSE {"rows"}) |->
            CASE k = "cycleCount" -> cycles
              [] k = "editing" -> t[k] # FALSE
              [] k = "rows" -> kept
              [] OTHER -> t[k]]
    BY DEF StoredTable
  <1>8. Usable(t, {"start", "step"}) = keys /\ Flagged(t, {"editing"}) = {"editing"}
    BY <1>1, <1>2 DEF Usable, Flagged
  <1> HIDE DEF cycles, kept
  <1>9. DOMAIN t = keys \cup {"editing"}
                 \cup (IF cycles = Bad THEN {} ELSE {"cycleCount"})
                 \cup (IF kept = <<>> THEN {} ELSE {"rows"})
    BY <1>1, <1>4, <1>5
  <1> HIDE DEF keys
  <1>10. StoredTable(t) =
          [k \in DOMAIN t |->
            CASE k = "cycleCount" -> cycles
              [] k = "editing" -> t[k] # FALSE
              [] k = "rows" -> kept
              [] OTHER -> t[k]]
    BY <1>7, <1>8, <1>9
  <1>11. \A k \in DOMAIN t :
           (CASE k = "cycleCount" -> cycles
              [] k = "editing" -> t[k] # FALSE
              [] k = "rows" -> kept
              [] OTHER -> t[k]) = t[k]
    <2> SUFFICES ASSUME NEW k \in DOMAIN t
                 PROVE  (CASE k = "cycleCount" -> cycles
                           [] k = "editing" -> t[k] # FALSE
                           [] k = "rows" -> kept
                           [] OTHER -> t[k]) = t[k]
      OBVIOUS
    <2>1. CASE k = "editing"
      <3>1. (t[k] # FALSE) = flag /\ t[k] = now
        BY <2>1
      <3> HIDE DEF flag, now
      <3> QED
        BY <1>6, <2>1, <3>1
    <2>2. CASE k # "editing"
      BY <1>4, <1>5, <2>2
    <2> QED
      BY <2>1, <2>2
  <1>12. t = [k \in DOMAIN t |-> t[k]]
    BY DEF TableForm
  <1> QED
    BY <1>10, <1>11, <1>12

\* The last of one place is the place.
LEMMA OnlyPlace == ASSUME NEW k \in Nat PROVE Max({k}) = k
  BY DEF Max

\* The page shows it again.
LEMMA TableReshown ==
    ASSUME NEW t, TableForm(t) PROVE PageTable(t) = t
  <1> DEFINE
        first  == OrElse(Get(t, "start", 1), 1)
        start  == Clip(1, MaxRow, first)
        most   == Clip(1, PageRows, MaxRow - start + 1)
        number == OrElse(Get(t, "step", 3), 3)
        step   == Clip(1, most, number)
        other  == IF Get(t, "loopMode", Bad) = "cycle" THEN PageCycles ELSE 1
        count  == Finite(Get(t, "cycleCount", 1), other)
        listed == Get(t, "rows", Bad)
        three  == [i \in 1..3 |-> [row |-> i]]
        given  == Finite(listed, three)
        rows   == Listed(Laid(given, start), start, step)
        raw    == Get(t, "editing", FALSE)
        flag   == raw # FALSE
        now    == t.editing
  <1>0. PageTable(t) =
           [start |-> start, step |-> step, cycleCount |-> Clip(1, PageCycles, count),
            editing |-> flag, rows |-> rows]
    BY DEF PageTable, Listed, Laid, Numbered
  <1> HIDE DEF other, three
  <1>1. DOMAIN t = {"start", "step", "cycleCount", "editing", "rows"}
    BY DEF TableForm
  <1>2. /\ MaxRow \in Nat /\ MaxRow >= 1 /\ PageRows \in Nat /\ PageRows >= 1
        /\ PageCycles \in Nat /\ PageCycles >= 1
    BY LimitAssumption
  <1>3. /\ Get(t, "start", 1) = t.start /\ Get(t, "step", 3) = t.step
        /\ Get(t, "cycleCount", 1) = t.cycleCount /\ Get(t, "rows", Bad) = t.rows
        /\ raw = t.editing
    BY <1>1 DEF Get
  <1>4. first = t.start /\ number = t.step /\ count = t.cycleCount
    BY <1>3, Taken DEF TableForm, Between
  <1> HIDE DEF first, number, count
  <1>5. start = t.start
    BY <1>2, <1>4 DEF TableForm, Between, Clip
  <1> HIDE DEF start
  <1>6. most = Clip(1, PageRows, MaxRow - t.start + 1)
    BY <1>5
  <1> HIDE DEF most
  <1>7. step = t.step
    <2>1. most \in Int /\ most >= 1 /\ most =< PageRows /\ t.step =< most
      BY <1>2, <1>6 DEF TableForm, Between, Clip
    <2> QED
      BY <1>2, <1>4, <2>1 DEF TableForm, Between, Clip
  <1> HIDE DEF step
  <1>8. Clip(1, PageCycles, count) = t.cycleCount
    BY <1>2, <1>4 DEF TableForm, Between, Clip
  <1>9. flag = now
    <2>1. now \in BOOLEAN /\ raw = now
      BY <1>3 DEF TableForm
    <2> HIDE DEF now, raw
    <2>2. flag = raw
      BY <2>1, Flag
    <2> QED
      BY <2>1, <2>2
  <1>10. given = t.rows
    <2>1. listed = t.rows
      BY <1>3
    <2>2. t.rows # Bad
      <3>1. t.rows = [k \in 1..t.step |-> t.rows[k]] /\ t.step \in Nat
        BY DEF TableForm, Between
      <3>2. \A k \in 1..t.step : t.rows[k] \in Rows
        BY RowIsKnown DEF TableForm
      <3>3. t.rows \in [1..t.step -> Rows]
        BY <3>1, <3>2
      <3>4. t.rows \in Seq(Rows)
        BY <3>1, <3>3
      <3> QED
        BY <3>4, KindAssumption
    <2> HIDE DEF listed
    <2> QED
      BY <2>1, <2>2 DEF Finite
  <1> HIDE DEF given
  <1>11. Laid(t.rows, t.start) = t.rows
    <2>1. t.rows = [k \in 1..t.step |-> t.rows[k]]
      BY DEF TableForm
    <2>2. \A k \in 1..t.step : RowForm(t.rows[k])
      BY DEF TableForm
    <2>3. \A k \in 1..t.step : Finite(t.rows[k], Empty) = t.rows[k]
      BY <2>2, RowIsKnown DEF Finite
    <2>4. \A k \in 1..t.step : PageRow(Finite(t.rows[k], Empty), t.start + k - 1) = t.rows[k]
      BY <2>2, <2>3, RowReshown
    <2>5. DOMAIN t.rows = 1..t.step
      BY <2>1
    <2>6. Laid(t.rows, t.start) = [k \in 1..t.step |-> t.rows[k]]
      BY <2>4, <2>5 DEF Laid
    <2> QED
      BY <2>1, <2>6
  <1>12. Listed(t.rows, t.start, t.step) = t.rows
    <2>1. t.rows = [k \in 1..t.step |-> t.rows[k]]
      BY DEF TableForm
    <2>2. t.start \in Int /\ t.step \in Nat
      BY DEF TableForm, Between
    <2>3. \A k \in 1..t.step : t.rows[k].row = t.start + k - 1
      BY DEF TableForm
    <2>4. \A k \in 1..t.step : Numbered(t.rows, t.start + k - 1) = {k}
      <3>1. DOMAIN t.rows = 1..t.step
        BY <2>1
      <3> QED
        BY <2>2, <2>3, <3>1 DEF Numbered
    <2>5. \A k \in 1..t.step : k \in Nat
      OBVIOUS
    <2>6. \A k \in 1..t.step : Max(Numbered(t.rows, t.start + k - 1)) = k
      BY <2>4, <2>5, OnlyPlace
    <2>7. Listed(t.rows, t.start, t.step) = [k \in 1..t.step |-> t.rows[k]]
      BY <2>4, <2>6 DEF Listed
    <2> QED
      BY <2>1, <2>7
  <1>13. rows = t.rows
    BY <1>5, <1>7, <1>10, <1>11, <1>12
  <1>14. t = [start |-> t.start, step |-> t.step, cycleCount |-> t.cycleCount,
              editing |-> t.editing, rows |-> t.rows]
    BY DEF TableForm
  <1> HIDE DEF flag, rows
  <1> QED
    BY <1>0, <1>5, <1>7, <1>8, <1>9, <1>13, <1>14

\* A section in the form a page shows.
Form(n, t) ==
    CASE n = "homing" -> HomingForm(t)
      [] n = "antiSway" -> SwayForm(t)
      [] n = "incrementalCurve" -> CurveForm(t)
      [] n = "transmission" -> TransmissionForm(t)
      [] n = "multiPoint" -> TableForm(t)

\* The sections have different names.
LEMMA FormOf ==
    \A t : /\ Form("homing", t) = HomingForm(t) /\ Form("antiSway", t) = SwayForm(t)
           /\ Form("incrementalCurve", t) = CurveForm(t)
           /\ Form("transmission", t) = TransmissionForm(t)
           /\ Form("multiPoint", t) = TableForm(t)
  BY DEF Form

\* Whatever the page is given, it shows a section in that form.
LEMMA SectionShown ==
    ASSUME NEW n \in Pageable, NEW s, Typed(n, s) PROVE Form(n, PageSection(n, s))
  <1>1. CASE n = "homing"
    <2>1. Number(s, Numbers.homing) /\ PageSection(n, s) = PageHoming(s)
      BY <1>1 DEF Typed, PageSection
    <2> QED
      BY <1>1, <2>1, HomingShown, FormOf
  <1>2. CASE n = "antiSway"
    <2>1. Number(s, Numbers.antiSway) /\ PageSection(n, s) = PageAntiSway(s)
      BY <1>2 DEF Typed, PageSection
    <2> QED
      BY <1>2, <2>1, SwayShown, FormOf
  <1>3. CASE n = "incrementalCurve"
    <2>1. Number(s, Numbers.incrementalCurve) /\ PageSection(n, s) = PageCurve(s)
      BY <1>3 DEF Typed, PageSection
    <2> QED
      BY <1>3, <2>1, CurveShown, FormOf
  <1>4. CASE n = "transmission"
    <2>1. Number(s, Numbers.transmission) /\ PageSection(n, s) = PageTransmission(s)
      BY <1>4 DEF Typed, PageSection
    <2> QED
      BY <1>4, <2>1, TransmissionShown, FormOf
  <1>5. CASE n = "multiPoint"
    <2>1. TableTyped(s) /\ PageSection(n, s) = PageTable(s)
      BY <1>5 DEF Typed, PageSection
    <2> QED
      BY <1>5, <2>1, TableShown, FormOf
  <1> QED
    BY <1>1, <1>2, <1>3, <1>4, <1>5 DEF Pageable

\* A section in that form is what the server stores, what the page shows of it,
\* and not empty.
LEMMA SectionKept ==
    ASSUME NEW n \in Pageable, NEW t, Form(n, t), LimitsFit
    PROVE  StoredSection(n, t) = t /\ PageSection(n, t) = t /\ t # Empty
  <1>0. DOMAIN Empty = {}
    BY DEF Empty
  <1>1. CASE n = "homing"
    <2>1. HomingForm(t)
      BY <1>1, FormOf
    <2>2. StoredSection(n, t) = StoredHoming(t) /\ PageSection(n, t) = PageHoming(t)
      BY <1>1 DEF StoredSection, PageSection
    <2>3. "method" \in DOMAIN t
      BY <2>1 DEF HomingForm
    <2> QED
      BY <1>0, <2>1, <2>2, <2>3, HomingStored, HomingReshown
  <1>2. CASE n = "antiSway"
    <2>1. SwayForm(t)
      BY <1>2, FormOf
    <2>2. StoredSection(n, t) = StoredAntiSway(t) /\ PageSection(n, t) = PageAntiSway(t)
      BY <1>2 DEF StoredSection, PageSection
    <2>3. "algorithm" \in DOMAIN t
      BY <2>1 DEF SwayForm
    <2> QED
      BY <1>0, <2>1, <2>2, <2>3, SwayStored, SwayReshown
  <1>3. CASE n = "incrementalCurve"
    <2>1. CurveForm(t)
      BY <1>3, FormOf
    <2>2. /\ StoredSection(n, t) = Kept(t, Numbers.incrementalCurve \cup Texts.incrementalCurve)
          /\ PageSection(n, t) = PageCurve(t)
      BY <1>3 DEF StoredSection, PageSection
    <2>3. "mode" \in DOMAIN t
      BY <2>1 DEF CurveForm
    <2> QED
      BY <1>0, <2>1, <2>2, <2>3, CurveStored, CurveReshown
  <1>4. CASE n = "transmission"
    <2>1. TransmissionForm(t)
      BY <1>4, FormOf
    <2>2. /\ StoredSection(n, t) = Kept(t, Numbers.transmission \cup Texts.transmission)
          /\ PageSection(n, t) = PageTransmission(t)
      BY <1>4 DEF StoredSection, PageSection
    <2>3. "type" \in DOMAIN t
      BY <2>1 DEF TransmissionForm
    <2> QED
      BY <1>0, <2>1, <2>2, <2>3, TransmissionStored, TransmissionReshown
  <1>5. CASE n = "multiPoint"
    <2>1. TableForm(t)
      BY <1>5, FormOf
    <2>2. StoredSection(n, t) = StoredTable(t) /\ PageSection(n, t) = PageTable(t)
      BY <1>5 DEF StoredSection, PageSection
    <2>3. "start" \in DOMAIN t
      BY <2>1 DEF TableForm
    <2> QED
      BY <1>0, <2>1, <2>2, <2>3, TableStored, TableReshown
  <1> QED
    BY <1>1, <1>2, <1>3, <1>4, <1>5 DEF Pageable

\* A file of one section that the server keeps has that section.
LEMMA OneStored ==
    ASSUME NEW n, NEW t, t # Bad, t # Empty, StoredSection(n, t) = t
    PROVE  Get(Stored([m \in {n} |-> t]), n, Empty) = t
  <1> DEFINE raw  == [m \in {n} |-> t]
             read == {m \in DOMAIN raw : raw[m] # Bad}
             all  == [m \in read |-> StoredSection(m, raw[m])]
             kept == {m \in read : m = "fields" \/ all[m] # Empty}
  <1>1. read = {n} /\ raw[n] = t
    OBVIOUS
  <1>2. all[n] = t /\ n \in kept
    BY <1>1
  <1>3. Stored(raw) = [m \in kept |-> all[m]]
    BY DEF Stored
  <1> HIDE DEF all, kept
  <1>4. n \in DOMAIN Stored(raw) /\ Stored(raw)[n] = t
    BY <1>2, <1>3
  <1> QED
    BY <1>4 DEF Get

\* What a page saved of a section is what a page shows that reads it back,
\* whatever the page was given, for every limit of a table the server does not
\* set below the page's (_normalize_ui_device_state in mctivity_hmi.py and the
\* normalize...State functions of the page agree field by field).
THEOREM SectionsReadBack == LimitsFit => ReadBack
  <1> SUFFICES ASSUME LimitsFit, NEW n \in Pageable, NEW s \in Given[n]
               PROVE  ReadsBack(n, s)
    BY DEF ReadBack
  <1> DEFINE shown == PageSection(n, s)
  <1>1. Form(n, shown)
    BY GivenAssumption, SectionShown
  <1>2. shown # Bad
    BY KindAssumption
  <1>3. ReadsBack(n, s) <=>
           PageSection(n, Get(Stored([m \in {n} |-> shown]), n, Empty)) = shown
    BY DEF ReadsBack
  <1> HIDE DEF shown
  <1>4. StoredSection(n, shown) = shown /\ PageSection(n, shown) = shown /\ shown # Empty
    BY <1>1, SectionKept
  <1>5. Get(Stored([m \in {n} |-> shown]), n, Empty) = shown
    BY <1>2, <1>4, OneStored
  <1> QED
    BY <1>3, <1>4, <1>5

\* A page that has read the file shows what the page that saved it has shown
\* (saveUiState, _normalize_ui_device_state, hydrateUiStateFromServer), wherever
\* the server's limits of a table are not below the page's.
THEOREM SettingsAreReadBack == LimitsFit => (Spec => []SettingsReadBack)
  <1>1. LimitsFit => SettingsReadBack
    BY SectionsReadBack DEF SettingsReadBack
  <1>2. LimitsFit => LimitsFit'
    BY DEF LimitsFit
  <1> QED
    BY <1>1, <1>2, PTL
=============================================================================
