------------------------------ MODULE UiState -------------------------------
(***************************************************************************)
(* The saved settings of the axes: the file, the request threads that read *)
(* and replace it, and the pages that keep a copy of every axis, edit it,  *)
(* save it 180 ms after a change and read it when they open.  Requests are *)
(* answered in any order, the server may crash and restart at any step.    *)
(*                                                                         *)
(* A profile is cut down to what is saved differently: target, the number  *)
(* read from the position slider, whose limits follow the axis shown (the  *)
(* other number inputs have fixed limits, so they are like a target that   *)
(* always fits); table and homing, read from inputs that all axes share;   *)
(* kept, what is only in the profile (transmission, which is the travel of *)
(* the axis, points, curve, sway speeds); settings, the anti-sway sensor,  *)
(* algorithm, angle and rod; and period, the measured one.  0 is the       *)
(* default of each, an edit gives a new number.                            *)
(***************************************************************************)
EXTENDS UiProfile, TLC

CONSTANTS Devices, First, Aux, Pages, Slots, MaxEvents, MaxSaves, Initial,
    Misfits,    \* <<travel, number>>: beyond that travel, or between the slider's steps
    None, Torn, Sent, Refused

VARIABLES
    file,    \* UI_STATE_PATH: the entry of each axis, None without one; or Torn
    tmp,     \* UI_STATE_PATH + ".tmp", None when it was moved
    lock,    \* holder of _ui_state_lock
    slot,    \* POST /api/ui_state requests on their way
    page,    \* the browsers
    events,  \* edits, changes of axis, tokens entered and crashes (at most MaxEvents)
    saves,   \* requests posted (at most MaxSaves)
    entered, \* the numbers the user gave each axis, and those found at first
    synced   \* no save was accepted from a page that had not read the file when it
             \* opened
vars == <<file, tmp, lock, slot, page, events, saves, entered, synced>>

Nothing == [d \in Devices |-> None]
Defaults == [target |-> 0, table |-> 0, homing |-> 0, kept |-> 0, settings |-> 0, period |-> 0]

\* The travel the slider is written with, and the end of a travel: what the slider
\* takes instead of a number it cannot show is negative, numbers given are not.
Wide == -1
End(travel) == -2 - travel
Fitted(travel, n) == IF <<travel, n>> \in Misfits THEN End(travel) ELSE n

\* A page's profile, and what an entry of the file holds: its anti-sway section may
\* lack either part.
Parts == {"settings", "period"}
Profiles == [target : Int, table : Nat, homing : Nat, kept : Nat, settings : Nat, period : Nat]
Sections == [{} -> Nat] \cup [{"settings"} -> Nat] \cup [{"period"} -> Nat] \cup [Parts -> Nat]
Entries == [target : Int, table : Nat, homing : Nat, kept : Nat, anti : Sections]
Files == [Devices -> Entries \cup {None}]

ASSUME SettingsAssumption ==
    /\ First \in Devices /\ Initial \in Files /\ Misfits \subseteq Int \X Int
    /\ None \notin Entries /\ None \notin Profiles /\ None \notin Devices /\ None \notin Slots
    /\ None \notin Files /\ Torn \notin Files /\ Sent \notin Files /\ Refused \notin Files
    /\ None # Torn /\ None # Sent /\ Refused # Sent /\ Refused # None

NewPage == [
    profile |-> [d \in Devices |-> Defaults],    \* deviceProfiles
    last    |-> Nothing,                         \* lastUiStateSnapshot
    ctl     |-> [target |-> 0, table |-> 0, homing |-> 0],    \* the input elements
    range   |-> Wide,                            \* absPos.min, absPos.max: of which travel
    mode    |-> "other",                         \* modeSelect.value: homing, or another
    active  |-> First, timer |-> None, token |-> FALSE,
    get     |-> None,                            \* GET /api/ui_state: Sent, its answer
    booted  |-> FALSE, read |-> FALSE]           \* bootstrapUi is over; it had an answer

Init ==
    /\ file = Initial /\ tmp = None /\ lock = None /\ events = 0 /\ saves = 0 /\ synced = TRUE
    /\ slot = [t \in Slots |-> None]
    /\ page = [p \in Pages |-> NewPage]
    /\ entered = [d \in Devices |-> IF file[d] = None THEN {0}
           ELSE {file[d].target, file[d].table, file[d].homing}]

----------------------------------------------------------------------------
\* save_ui_state and load_ui_state.

Load == IF file = Torn THEN Nothing ELSE file

\* The entry a request leaves: all of it is the page's, but for what the page
\* did not ask to change, which stays as it is in the file or stays absent.
Protected_X(r) == IF r.setsPeriod THEN {} ELSE {"period"}
Protected(r) == (IF r.setsPeriod THEN {} ELSE {"period"})
                    \cup (IF r.setsSettings THEN {} ELSE {"settings"})
Merged(entry, r) ==
    LET had    == IF entry = None THEN [k \in {} |-> 0] ELSE entry.anti
        sent   == [k \in {"settings", "period"} |-> r.state[k]]
        stays  == Protected(r) \cap DOMAIN had
        comes  == DOMAIN sent \ Protected(r)
    IN  [target |-> r.state.target, table |-> r.state.table, homing |-> r.state.homing,
         kept |-> r.state.kept, anti |-> [k \in stays \cup comes |-> IF k \in stays THEN had[k] ELSE sent[k]]]

LockFree_X == TRUE
LockFree == lock = None

\* Under the lock: read, merge, and open the temporary file, which truncates it;
\* write it; move it over the file.
SaveReads(t) ==
    /\ slot[t] # None /\ slot[t].stage = "sent" /\ LockFree
    /\ IF slot[t].token
       THEN /\ lock' = t /\ tmp' = Torn /\ synced' = (synced /\ slot[t].read)
            /\ slot' = [slot EXCEPT ![t].stage = "open",
                   ![t].merged = [Load EXCEPT ![slot[t].device] = Merged(@, slot[t])]]
       ELSE /\ slot' = [slot EXCEPT ![t] = None]      \* _require_authorized
            /\ UNCHANGED <<lock, tmp, synced>>
    /\ UNCHANGED <<file, page, events, saves, entered>>

SaveWrites(t) ==
    /\ slot[t] # None /\ slot[t].stage = "open"
    /\ tmp' = slot[t].merged
    /\ slot' = [slot EXCEPT ![t].stage = "written"]
    /\ UNCHANGED <<file, lock, page, events, saves, entered, synced>>

SaveReplaces(t) ==
    /\ slot[t] # None /\ slot[t].stage = "written" /\ tmp # None
    /\ file' = tmp /\ tmp' = None
    /\ lock' = None
    /\ slot' = [slot EXCEPT ![t] = None]
    /\ UNCHANGED <<page, events, saves, entered, synced>>

\* What the page gets: the file, or a refusal without the token.
Answers(p) ==
    /\ page[p].get = Sent /\ LockFree
    /\ page' = [page EXCEPT ![p].get = IF page[p].token THEN Load ELSE Refused]
    /\ UNCHANGED <<file, tmp, lock, slot, events, saves, entered, synced>>

Event == events < MaxEvents /\ events' = events + 1

Crash ==
    /\ Event
    /\ lock' = None /\ slot' = [t \in Slots |-> None]
    /\ page' = [p \in Pages |-> [page[p] EXCEPT !.get = IF @ = Sent THEN Refused ELSE @]]
    /\ \/ \E t \in Slots : slot[t] # None
       \/ \E p \in Pages : page[p].get = Sent
    /\ UNCHANGED <<file, tmp, saves, entered, synced>>

----------------------------------------------------------------------------
\* The page: saveUiState, scheduleUiStateSave, persistUiState, loadUiState.

\* A save of one axis cancels the one still waiting for another.
Scheduled(pg, d) == [pg EXCEPT !.timer = d]

\* The inputs a save reads: not the table of the encoder, and the homing panel only
\* while it is shown.
Reads(pg) ==
    {"target"} \cup (IF pg.active = Aux THEN {} ELSE {"table"})
               \cup (IF pg.mode = "homing" THEN {"homing"} ELSE {})

\* saveUiState, of the axis that is shown.
Saved(pg, d, schedule) ==
    LET state == [pg.profile[d] EXCEPT !.target = pg.ctl.target,
                     !.table  = IF "table" \in Reads(pg) THEN pg.ctl.table ELSE @,
                     !.homing = IF "homing" \in Reads(pg) THEN pg.ctl.homing ELSE @]
        kept  == [pg EXCEPT !.profile[d] = state, !.last[d] = state]
    IN  IF schedule /\ pg.last[d] # state THEN Scheduled(kept, d) ELSE kept

\* The axis and its mode are shown in the inputs.  The slider still has the limits of
\* the travel it showed before: a target that does not fit them is changed.
Loaded(pg, d, mode) ==
    [pg EXCEPT !.mode = mode,
        !.ctl = [target |-> Fitted(pg.range, pg.profile[d].target),
                 table  |-> pg.profile[d].table,
                 homing |-> IF mode = "homing" THEN pg.profile[d].homing ELSE pg.ctl.homing]]

\* updateSliders: save, then give the slider the travel of the axis and the profile
\* what the slider makes of its target.
Sliders(pg) ==
    LET d      == pg.active
        saved  == Saved(pg, d, TRUE)
        travel == pg.profile[d].kept
        fit    == Fitted(travel, pg.ctl.target)
    IN  [saved EXCEPT !.range = travel, !.ctl.target = fit, !.profile[d].target = fit]

\* The page posts its profile of the axis as it is now.
Posts(t, pg, d, period, settings) ==
    /\ slot[t] = None
    /\ saves < MaxSaves /\ saves' = saves + 1
    /\ slot' = [slot EXCEPT ![t] = [device |-> d, state |-> pg.profile[d],
           setsPeriod |-> period, setsSettings |-> settings, token |-> pg.token,
           read |-> pg.read, stage |-> "sent", merged |-> None]]

Becomes(p, pg) ==
    /\ page' = [page EXCEPT ![p] = pg]
    /\ UNCHANGED synced

Opened(p) == page[p].booted \/ page[p].get # None

\* A control is moved, or set to a point or to the position of the axis.
EditControl(p) == LET n == events + 1
        pg == page[p]
    IN  /\ Opened(p) /\ Event
        /\ Becomes(p, Sliders([pg EXCEPT !.ctl.target = Fitted(pg.range, n)]))
        /\ entered' = [entered EXCEPT ![pg.active] = @ \cup {n}]
        /\ UNCHANGED <<file, tmp, lock, slot, saves>>

\* A cell of the table or a field of the homing panel.
EditSheet(p, k) == LET n == events + 1
        pg == page[p]
    IN  /\ Opened(p) /\ k \in Reads(pg) /\ Event
        /\ Becomes(p, Saved([pg EXCEPT !.ctl[k] = n], pg.active, TRUE))
        /\ entered' = [entered EXCEPT ![pg.active] = @ \cup {n}]
        /\ UNCHANGED <<file, tmp, lock, slot, saves>>

\* The transmission dialog, and what else is kept in the profile only.
EditKept(p) == LET n == events + 1
        pg == page[p]
    IN  /\ Opened(p) /\ Event
        /\ Becomes(p, Sliders([pg EXCEPT !.profile[pg.active].kept = n]))
        /\ UNCHANGED <<file, tmp, lock, slot, saves, entered>>

\* The mode is chosen, or set by a status or by a refusal of the drive's: the panel
\* is filled before anything reads it.  The encoder's is saved at once.
setMode(p, mode) ==
    LET pg    == page[p]
        panel == IF mode = "homing" THEN pg.profile[pg.active].homing ELSE pg.ctl.homing
        shown == [pg EXCEPT !.mode = mode, !.ctl.homing = panel]
    IN  /\ Opened(p) /\ mode # pg.mode /\ Event
        /\ Becomes(p, IF pg.active = Aux THEN Saved(shown, pg.active, TRUE) ELSE shown)
        /\ UNCHANGED <<file, tmp, lock, slot, saves, entered>>

\* onAntiSwaySettingsChange and calibrateAntiSwayPeriodFromWave: saved at once,
\* with leave to change what they are about.
EditAntiSway(p, key) == \E t \in Slots :
    LET n == events + 1
        pg == page[p]
        changed == Saved([pg EXCEPT !.profile[pg.active][key] = n], pg.active, FALSE)
    IN  /\ Opened(p) /\ pg.active # Aux
        /\ Event
        /\ Becomes(p, changed)
        /\ Posts(t, changed, pg.active, key = "period", key = "settings")
        /\ UNCHANGED <<file, tmp, lock, entered>>

\* An answered status poll redraws the page: updateSliders.
Redraw(p) ==
    /\ page[p].booted /\ page[p].token
    /\ Sliders(page[p]) # page[p]
    /\ Becomes(p, Sliders(page[p]))
    /\ UNCHANGED <<file, tmp, lock, slot, events, saves, entered>>

TimerFires(p) == \E t \in Slots :
    LET d  == page[p].timer
        pg == [page[p] EXCEPT !.timer = None]
        now == IF d = pg.active THEN Saved(pg, d, FALSE) ELSE pg
    IN  /\ d # None
        /\ Becomes(p, now)
        /\ Posts(t, now, d, FALSE, FALSE)
        /\ UNCHANGED <<file, tmp, lock, events, entered>>

switchAxis_X(p, d, mode) ==
    LET moved == [page[p] EXCEPT !.active = d]
    IN  /\ page[p].booted /\ d # page[p].active /\ Event
        /\ Becomes(p, Sliders(Loaded(Saved(moved, d, TRUE), d, mode)))
        /\ UNCHANGED <<file, tmp, lock, slot, saves, entered>>

\* Save the axis that is left, show the other, redraw.
switchAxis(p, d, mode) ==
    LET left  == Saved(page[p], page[p].active, TRUE)
        moved == [left EXCEPT !.active = d]
    IN  /\ page[p].booted /\ d # page[p].active /\ Event
        /\ Becomes(p, Sliders(Loaded(moved, d, mode)))
        /\ UNCHANGED <<file, tmp, lock, slot, saves, entered>>

----------------------------------------------------------------------------
\* bootstrapUi and hydrateUiStateFromServer.

\* The file is asked for when the page opens (the token is kept by the tab), and
\* again when a token is entered.  A page that is closed or reloaded just stops;
\* the reloaded one is another page.
Open(p, token) ==
    /\ page[p].get = None /\ (page[p].booted => token /\ ~page[p].token)
    /\ IF page[p].booted THEN Event ELSE UNCHANGED events
    /\ page' = [page EXCEPT ![p].token = token, ![p].get = Sent]
    /\ UNCHANGED <<file, tmp, lock, slot, saves, entered, synced>>

\* Every axis the answer has replaces the page's; the anti-sway section as a
\* whole.  Only the first answer is also shown in the controls, and saved: the
\* redraw that follows it takes every profile for changed.
Hydrated(pg) ==
    IF pg.get = Refused THEN pg.profile
    ELSE [d \in Devices |->
            LET e == pg.get[d]
                anti(k) == IF k \in DOMAIN e.anti THEN e.anti[k] ELSE 0
            IN  IF e = None THEN pg.profile[d]
                ELSE [target |-> e.target, table |-> e.table, homing |-> e.homing,
                      kept |-> e.kept, settings |-> anti("settings"), period |-> anti("period")]]

Hydrate(p, mode) ==
    LET new == [page[p] EXCEPT !.profile = Hydrated(page[p]), !.get = None,
                    !.booted = TRUE, !.read = @ \/ (~page[p].booted /\ page[p].get # Refused)]
    IN  /\ page[p].get \notin {None, Sent}
        /\ page' = [page EXCEPT ![p] =
               IF page[p].booted THEN new ELSE Sliders(Loaded(new, First, mode))]
        /\ UNCHANGED <<file, tmp, lock, slot, events, saves, entered, synced>>

----------------------------------------------------------------------------
Next ==
    \/ \E t \in Slots :
          SaveReads(t) \/ SaveWrites(t) \/ SaveReplaces(t)
    \/ Crash
    \/ \E p \in Pages :
          \/ Answers(p) \/ EditControl(p) \/ EditKept(p) \/ Redraw(p) \/ TimerFires(p)
          \/ EditAntiSway(p, "settings") \/ EditAntiSway(p, "period")
          \/ EditSheet(p, "table") \/ EditSheet(p, "homing")
          \/ \E mode \in {"homing", "other"} :
                \/ Hydrate(p, mode)
                \/ setMode(p, mode)
                \/ \E d \in Devices : switchAxis(p, d, mode)
          \/ \E b \in BOOLEAN : Open(p, b)
Spec == Init /\ [][Next]_vars
----------------------------------------------------------------------------
\* Properties.

\* The file is whole at every moment, whenever the server crashes and however
\* many saves run: the temporary name is shared, so this rests on the lock as
\* well as on the move (a file that does not parse reads as no settings at all,
\* and the next save would make that permanent).
FileIsWhole == file # Torn

\* A save changes the axis it is for and no other, even when another axis was
\* saved while it was on its way, and changes the anti-sway settings and the
\* measured period of its axis only when the page posted them for that.
SaveIsConfined ==
    [][ file' # file =>
          \E t \in Slots :
             /\ slot[t] # None /\ slot'[t] = None
             /\ \A d \in Devices \ {slot[t].device} : file'[d] = file[d]
             /\ LET key(k) == k \in DOMAIN file'[slot[t].device].anti
                    new(k) == IF key(k) THEN file'[slot[t].device].anti[k] ELSE None
                    old(k) == IF file[slot[t].device] = None THEN None
                              ELSE IF k \in DOMAIN file[slot[t].device].anti
                                   THEN file[slot[t].device].anti[k] ELSE None
                IN  /\ new("period") # old("period") => slot[t].setsPeriod
                    /\ new("settings") # old("settings") => slot[t].setsSettings ]_vars

\* What is stored of an axis was entered for that axis, never for the axis shown
\* before it in the same controls; but a target may be the end of a travel instead,
\* its own or, because loadUiState sets the slider before updateSliders gives it its
\* new limits, that of the axis shown before.  The page's defaults are stored only
\* by a page that could not read the file when it opened (no token yet, server
\* down): it keeps its controls when it reads the file later, and saves them.
StoredWasEntered ==
    \A d \in Devices : file # Torn /\ file[d] # None =>
        LET ours == entered[d] \cup IF synced THEN {} ELSE {0}
        IN  /\ file[d].table \in ours /\ file[d].homing \in ours
            /\ file[d].target \in ours \/ file[d].target < 0

\* A page that has read the file shows of every section what the page that saved
\* it has shown, field by field, although the two sides of the file normalise it
\* in two languages (UiProfile).
SettingsReadBack == \A p \in Pages : page[p].read => ReadBack
=============================================================================
