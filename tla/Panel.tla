------------------------------- MODULE Panel --------------------------------
(***************************************************************************)
(* One page of the HMI between its awaits.  Every button starts a flow: an *)
(* async function that sends commands one after the other, waits for each  *)
(* answer, and in between finds that the user has pressed stop, started    *)
(* something else or gone to the other axis.  What may still be sent is    *)
(* decided by commandSeq and stopRequested of the axis it was started for, *)
(* and for the point table by the selection of the axis as well; what an   *)
(* answer may still change, by the sequence numbers of multiPointRequest.  *)
(*                                                                         *)
(* api sends to the axis that is selected when it is called, apiForDevice  *)
(* to the one it is given.  The server answers in any order, accepts,      *)
(* refuses, or the call fails, whether or not it was carried out.  A dialog*)
(* covers the page: while it is open nothing else is pressed.  The encoder,*)
(* which takes no commands, is left out; payloads, drawing and the preview *)
(* too.                                                                    *)
(***************************************************************************)
EXTENDS Integers, Sequences, FiniteSets, TLC

CONSTANTS Devices, First, Stored, Flows, None, MaxPresses, MaxRequests

\* Stored: the modes of the axes in the settings the page was opened with.

VARIABLES
    active,    \* activeDevice
    rev,       \* multiPointSelectionRevision
    mode,      \* the profiles' mode, of the active axis what modeSelect shows
    motion,    \* motionStateByDevice: commandSeq, stopRequested, latch
    mp,        \* multiPointRequestsByDevice
    shown,     \* multiPointStatusByDevice: the version of the runner it shows
    runner,    \* the server's runner: commands it has carried out
    flow,      \* what the flows are doing, None of a free one
    confirm,   \* the flow whose dialog is open (motionConfirmResolver)
    presses,   \* what the user has done so far (at most MaxPresses)
    cancelled  \* history: flows the user has stopped, replaced or walked away from
vars == <<active, rev, mode, motion, mp, shown, runner, flow, confirm, presses, cancelled>>

Modes == {"position", "anti_sway_position", "incremental", "multi_point", "homing", "gear_cam"}

\* The commands of each flow.  An anti-sway run is a curve, or a step for every impulse.
Script == [
    table       |-> <<"set_mode", "point_table_write", "point_table_run">>,
    position    |-> <<"set_mode", "move_abs">>,
    gear_cam    |-> <<"set_mode", "gear_config", "gear_start">>,
    incremental |-> <<"set_mode", "move_curve_rel">>,
    homing      |-> <<"homing_start_torque">>,
    set_current |-> <<"homing_set_current">>,
    curve       |-> <<"set_mode", "anti_sway_run", "anti_sway_curve_abs">>,
    segments    |-> <<"set_mode", "anti_sway_run", "move_abs", "move_abs">>,
    stop        |-> <<"stop">>,
    table_stop  |-> <<"point_table_stop">>,
    write       |-> <<"point_table_write">>,
    poll        |-> <<"point_table_status">>,
    mode        |-> <<"set_mode">>]
TableCommands == {"point_table_write", "point_table_run", "point_table_stop", "point_table_status"}
Sway == {"curve", "segments"}
Commands == UNION {{Script[k][i] : i \in DOMAIN Script[k]} : k \in DOMAIN Script}

\* A command on its way, and a flow: an async function that has sent at of the
\* commands of its kind.  own and seq are the axis and the sequence number it holds;
\* sel, prev and watch what it remembers of the selection, of the mode it replaced,
\* and the axis at which its wait looks.
Replies == {"ok", "no", "error"}
Requests == [dev : Devices, cmd : Commands, reply : Replies \cup {None}, seen : Nat, seq : Nat]
FlowType == [kind : DOMAIN Script, at : Nat, own : Devices, seq : Nat, sel : Nat,
    prev : Modes \cup {None}, stage : {"sense", "confirm", "sent", "wait", "settle"},
    watch : Devices, req : Requests \cup {None}]

ASSUME PanelAssumption ==
    /\ First \in Devices /\ Stored \subseteq [Devices -> Modes] /\ IsFiniteSet(Flows)
    /\ None \notin Flows /\ None \notin Replies
    /\ None \notin Requests /\ None \notin FlowType

KindsOf(m) ==
    CASE m = "multi_point" -> {"table"}
      [] m = "anti_sway_position" -> Sway
      [] m = "homing" -> {"homing", "set_current"}
      [] OTHER -> {m}

NewFlow(kind, d, seq) == [kind |-> kind, at |-> 0, own |-> d, seq |-> seq,
    sel |-> IF kind = "table" THEN rev ELSE 0,
    prev |-> IF kind = "mode" THEN mode[d] ELSE None,
    stage |-> "sense", watch |-> d, req |-> None]

Init ==
    /\ active = First /\ rev = 0 /\ presses = 0 /\ cancelled = {} /\ confirm = None
    /\ mode \in Stored
    /\ motion = [d \in Devices |-> [seq |-> 0, stop |-> FALSE, latch |-> FALSE]]
    /\ mp = [d \in Devices |-> [issued |-> 0, applied |-> 0, barrier |-> 0, pending |-> 0]]
    /\ shown = [d \in Devices |-> 0] /\ runner = [d \in Devices |-> 0]
    /\ flow = [f \in Flows |-> None]

----------------------------------------------------------------------------
\* Requests.

\* multiPointRequest numbers what it sends; all but a poll raise the barrier.
Issued(before, d, cmd) ==
    LET n == before[d].issued + 1
    IN  IF cmd \notin TableCommands THEN before
        ELSE IF cmd = "point_table_status" THEN [before EXCEPT ![d].issued = n]
        ELSE [before EXCEPT ![d].issued = n, ![d].barrier = n, ![d].pending = @ + 1]

\* The flow's next command goes to the axis d.
Sends(f, fl, d, before) ==
    LET cmd == Script[fl.kind][fl.at + 1]
    IN  /\ flow' = [flow EXCEPT ![f] = [fl EXCEPT !.at = @ + 1, !.stage = "sent",
               !.req = [dev |-> d, cmd |-> cmd, reply |-> None, seen |-> 0,
                        seq |-> IF cmd \in TableCommands THEN before[d].issued + 1 ELSE 0]]]
        /\ mp' = Issued(before, d, cmd)

Ends(f) == flow' = [flow EXCEPT ![f] = None] /\ cancelled' = cancelled \ {f}

\* The server carries out a table command; only a change of a table or a run makes
\* the runner another one.
Serves(f) ==
    /\ flow[f] # None /\ flow[f].stage = "sent"
    /\ flow[f].req.cmd \in TableCommands /\ flow[f].req.reply = None
    /\ \E reply \in {"ok", "no", "error"}, done \in BOOLEAN :
          LET r == flow[f].req
              changes == r.cmd # "point_table_status" /\ done
          IN  /\ (reply = "ok" => done) /\ (reply = "no" => ~done /\ r.cmd # "point_table_status")
              /\ runner' = IF changes THEN [runner EXCEPT ![r.dev] = @ + 1] ELSE runner
              /\ flow' = [flow EXCEPT ![f].req.reply = reply,
                                      ![f].req.seen = IF reply = "error" THEN 0 ELSE runner'[r.dev]]
    /\ UNCHANGED <<active, rev, mode, motion, mp, shown, confirm, presses, cancelled>>

\* An answer comes, and whether it is a good one; of any other command, a refusal
\* and a failed call are the same to the page.
Answered(f, ok) ==
    /\ flow[f] # None /\ flow[f].stage = "sent"
    /\ flow[f].req.cmd \in TableCommands =>
          flow[f].req.reply # None /\ ok = (flow[f].req.reply = "ok")

\* The answer of multiPointRequest: whether it is still current, and what it leaves.
InOrder(r) == r.seq >= mp[r.dev].barrier /\ r.seq > mp[r.dev].applied
Taken(r) == r.reply # "error" /\ (r.cmd \in TableCommands => InOrder(r))
Shows_X(r) == IF r.cmd \in TableCommands /\ Taken(r) THEN [shown EXCEPT ![active] = r.seen] ELSE shown
Shows(r) == IF r.cmd \in TableCommands /\ Taken(r) THEN [shown EXCEPT ![r.dev] = r.seen] ELSE shown
Closed(r) ==
    LET back == IF r.cmd = "point_table_status" THEN 0 ELSE 1
    IN  IF r.cmd \notin TableCommands THEN mp
        ELSE [mp EXCEPT ![r.dev].pending = @ - back,
                         ![r.dev].applied = IF Taken(r) THEN r.seq ELSE @]

----------------------------------------------------------------------------
\* Buttons.

User == confirm = None /\ presses < MaxPresses /\ presses' = presses + 1
Free(f) == flow[f] = None

\* The flows of an axis that were told to go ahead.
Ahead(d) == {f \in Flows : flow[f] # None /\ flow[f].own = d /\ flow[f].seq > 0}

\* A flow takes the axis: the flows before it are superseded.
GoesAhead(f, d) ==
    /\ motion' = [motion EXCEPT ![d] = [seq |-> @.seq + 1, stop |-> FALSE, latch |-> TRUE]]
    /\ cancelled' = (cancelled \cup Ahead(d)) \ {f}

\* What startMultiPointMotion or the incremental editor refuses, or a homing that
\* is not confirmed, has taken the axis all the same.
Refused(d) ==
    /\ motion' = [motion EXCEPT ![d].seq = @ + 1, ![d].latch = FALSE]
    /\ cancelled' = cancelled \cup Ahead(d)
    /\ UNCHANGED <<flow, mp, confirm>>

\* startSinglePointMotion of an axis that is at rest as far as the page knows; of
\* any other the button is the stop button.
Start(f) == \E kind \in KindsOf(mode[active]) :
    LET d == active
    IN  /\ User /\ Free(f) /\ ~motion[d].stop /\ ~motion[d].latch
        /\ CASE kind \in Sway ->
                  /\ flow' = [flow EXCEPT ![f] = NewFlow(kind, d, 0)]
                  /\ UNCHANGED <<motion, mp, confirm, cancelled>>
             [] kind = "position" ->
                  /\ flow' = [flow EXCEPT ![f] = [NewFlow(kind, d, 0) EXCEPT !.stage = "confirm"]]
                  /\ confirm' = f
                  /\ UNCHANGED <<motion, mp, cancelled>>
             [] OTHER ->
                  \/ kind # "gear_cam" /\ Refused(d)
                  \/ /\ GoesAhead(f, d)
                     /\ Sends(f, NewFlow(kind, d, motion[d].seq + 1), d, mp)
                     /\ UNCHANGED confirm
        /\ UNCHANGED <<active, rev, mode, shown, runner>>

\* stopMotion and stopMultiPointMotion; which of them, the mode and the last known
\* state of the runner decide.
Stop(f) == \E kind \in {"stop", "table_stop"} :
    LET d == active
        n == motion[d].seq + 1
    IN  /\ User /\ Free(f)
        /\ kind = "stop" => mode[d] # "multi_point"
        /\ kind = "table_stop" => ~motion[d].stop
        /\ \/ /\ motion[d].stop
              /\ motion' = [motion EXCEPT ![d].seq = n]
              /\ UNCHANGED <<flow, mp>>
           \/ /\ ~motion[d].stop
              /\ motion' = [motion EXCEPT ![d] = [seq |-> n, stop |-> TRUE, latch |-> FALSE]]
              /\ Sends(f, NewFlow(kind, d, n), d, mp)
        /\ cancelled' = cancelled \cup Ahead(d)
        /\ UNCHANGED <<active, rev, mode, shown, runner, confirm>>

\* Buttons that send one command and look at nothing: "set current position", the
\* write of an edited table.
Direct(f, kind) ==
    /\ User /\ Free(f)
    /\ Sends(f, NewFlow(kind, active, 0), active, mp)
    /\ UNCHANGED <<active, rev, mode, motion, shown, runner, confirm, cancelled>>

resetFault ==
    /\ User
    /\ motion' = [motion EXCEPT ![active] = [seq |-> @.seq + 1, stop |-> FALSE, latch |-> FALSE]]
    /\ cancelled' = cancelled \cup Ahead(active)
    /\ UNCHANGED <<active, rev, mode, mp, flow, shown, runner, confirm>>

setMode(f, m) ==
    /\ User /\ Free(f) /\ m # mode[active]
    /\ mode' = [mode EXCEPT ![active] = m]
    /\ Sends(f, NewFlow("mode", active, 0), active, mp)
    /\ UNCHANGED <<active, rev, motion, shown, runner, confirm, cancelled>>

\* Walking away cancels the start of a table, even when the user comes back.
switchAxis(d) ==
    /\ User /\ d # active
    /\ active' = d /\ rev' = rev + 1
    /\ cancelled' = cancelled \cup
           {f \in Flows : flow[f] # None /\ flow[f].kind = "table"}
    /\ UNCHANGED <<mode, motion, mp, shown, runner, flow, confirm>>

\* resolveMotionConfirm.  Only now does the move take the axis: an anti-sway run
\* the one that is selected, a position move the one it was started on.
Confirmed(ok) ==
    LET f == confirm
        fl == flow[f]
        taken == [fl EXCEPT !.own = active, !.watch = active,
                            !.seq = motion[active].seq + 1, !.stage = "wait"]
    IN  /\ confirm # None /\ confirm' = None
        /\ \/ ~ok /\ Ends(f) /\ UNCHANGED <<motion, mp>>
           \/ /\ ok /\ GoesAhead(f, active)
              /\ IF fl.kind \in Sway
                 THEN flow' = [flow EXCEPT ![f] = taken] /\ UNCHANGED mp
                 ELSE Sends(f, taken, active, mp)
        /\ UNCHANGED <<active, rev, mode, shown, runner, presses>>

----------------------------------------------------------------------------
\* What the timers do.

\* refreshMultiPointStatus, every 700 ms: not while a command is pending.
MayPoll_X(d) == TRUE
MayPoll(d) == mp[d].pending = 0
Poll(f) ==
    /\ Free(f) /\ MayPoll(active) /\ mp[active].issued < MaxRequests
    /\ mode[active] = "multi_point" \/ shown[active] > 0
    /\ Sends(f, NewFlow("poll", active, 0), active, mp)
    /\ UNCHANGED <<active, rev, mode, motion, shown, runner, confirm, presses, cancelled>>

\* render of a status that says the axis does not move, however old it is; the
\* latch goes when that has lasted.
Redraw == \E latch \in {FALSE, motion[active].latch} :
    /\ motion[active].stop \/ motion[active].latch # latch
    /\ motion' = [motion EXCEPT ![active].stop = FALSE, ![active].latch = latch]
    /\ UNCHANGED <<active, rev, mode, mp, shown, runner, flow, confirm, presses, cancelled>>

----------------------------------------------------------------------------
\* What a flow does when it goes on.

Superseded_X(fl) == motion[fl.own].stop
Superseded(fl) == fl.seq # motion[fl.own].seq \/ motion[fl.own].stop

\* current() in startMultiPointMotion.
Current(fl) ==
    ~Superseded(fl) /\ fl.sel = rev /\ fl.own = active /\ mode[active] = "multi_point"

Unlatched(fl) == IF fl.seq = motion[fl.own].seq
                 THEN [motion EXCEPT ![fl.own].latch = FALSE] ELSE motion

\* startMultiPointMotion: a request is answered.
TableGoesOn(f, ok) ==
    LET fl == flow[f]
        good == ok /\ Taken(fl.req)
    IN  /\ Answered(f, ok) /\ fl.kind = "table"
        /\ shown' = Shows(fl.req)
        /\ \/ /\ good /\ fl.at < 3 /\ Current(fl)
              /\ Sends(f, fl, fl.own, Closed(fl.req))
              /\ UNCHANGED <<motion, cancelled>>
           \/ /\ ~(good /\ fl.at < 3 /\ Current(fl))
              /\ Ends(f) /\ mp' = Closed(fl.req)
              /\ motion' = IF good /\ fl.at = 3 THEN motion ELSE Unlatched(fl)
        /\ UNCHANGED <<active, rev, mode, runner, confirm, presses>>

\* startSinglePointMotion in the other modes, and startHoming.
Singles == {"position", "incremental", "gear_cam", "homing"}
SingleGoesOn(f, ok) ==
    LET fl == flow[f]
        more == fl.at < Len(Script[fl.kind])
    IN  /\ Answered(f, ok) /\ fl.kind \in Singles
        /\ \/ /\ ok /\ more /\ ~Superseded(fl)
              /\ Sends(f, fl, active, mp)
              /\ UNCHANGED <<motion, cancelled>>
           \/ /\ ~(ok /\ more /\ ~Superseded(fl))
              /\ Ends(f) /\ UNCHANGED mp
              /\ motion' = IF ok THEN motion ELSE Unlatched(fl)
        /\ UNCHANGED <<active, rev, mode, shown, runner, confirm, presses>>

\* The rest of a flow that ends here: the motion state, the mode.
Over(f, m, newMode) ==
    /\ Ends(f) /\ motion' = m /\ mode' = newMode
    /\ shown' = Shows(flow[f].req) /\ mp' = Closed(flow[f].req)
    /\ UNCHANGED <<active, rev, runner, confirm, presses>>

\* A plain stop of an axis that still moves keeps its flag until render drops it;
\* the stop of a gear or a homing drops the latch as well, whoever has it by now.
Answer(f, ok) ==
    LET fl == flow[f]
        was == motion[fl.own]
        keeps == IF ok THEN {was.stop, FALSE} ELSE {FALSE}
    IN  /\ Answered(f, ok)
        /\ \/ /\ fl.kind = "stop"
              /\ \E stop \in keeps, latch \in {was.latch, FALSE} :
                    Over(f, [motion EXCEPT ![fl.own].stop = stop, ![fl.own].latch = latch], mode)
           \/ /\ fl.kind = "table_stop"
              /\ Over(f, IF fl.seq = was.seq THEN [motion EXCEPT ![fl.own].stop = FALSE]
                         ELSE motion, mode)
           \/ /\ fl.kind = "set_current"
              /\ Over(f, IF fl.seq > 0 THEN Unlatched(fl)
                         ELSE IF ok THEN motion
                         ELSE [motion EXCEPT ![active].latch = FALSE], mode)
           \/ /\ fl.kind = "mode"
              /\ Over(f, motion, IF ok THEN mode ELSE [mode EXCEPT ![active] = fl.prev])
           \/ /\ fl.kind \in {"write", "poll"}
              /\ Over(f, motion, mode)

----------------------------------------------------------------------------
\* The anti-sway run.

\* startAntiSwayRun: the sensor has been read; something may block the run.
Sensed(f) ==
    /\ flow[f] # None /\ flow[f].stage = "sense"
    /\ \/ Ends(f) /\ UNCHANGED mp
       \/ Sends(f, flow[f], active, mp) /\ UNCHANGED cancelled
    /\ UNCHANGED <<active, rev, mode, motion, shown, runner, confirm, presses>>

\* The plan has come; a dry run ends with it.  Another dialog is closed by this one.
Planned(f, ok) ==
    LET fl == flow[f]
        goesOn == [flow EXCEPT ![f].stage = "confirm"]
    IN  /\ Answered(f, ok) /\ fl.kind \in Sway /\ fl.at \in {1, 2}
        /\ \/ /\ ok /\ fl.at = 1
              /\ Sends(f, fl, active, mp)
              /\ UNCHANGED <<confirm, cancelled>>
           \/ /\ ok /\ fl.at = 2
              /\ flow' = IF confirm = None THEN goesOn ELSE [goesOn EXCEPT ![confirm] = None]
              /\ cancelled' = cancelled \ {confirm}
              /\ confirm' = f
              /\ UNCHANGED mp
           \/ /\ ~ok \/ fl.at = 2
              /\ Ends(f) /\ UNCHANGED <<mp, confirm>>
        /\ UNCHANGED <<active, rev, mode, motion, shown, runner, presses>>

\* A wait looks at the axis that was selected when it began.
Waited(f) ==
    LET fl == flow[f]
        seen == [fl EXCEPT !.own = fl.watch]
    IN  /\ fl # None /\ fl.stage = "wait"
        /\ \/ ~Superseded(seen) /\ Sends(f, fl, active, mp) /\ UNCHANGED cancelled
           \/ Superseded(seen) /\ Ends(f) /\ UNCHANGED mp
        /\ UNCHANGED <<active, rev, mode, motion, shown, runner, confirm, presses>>

\* executeAntiSwayContinuousCurve: the sway has the right phase, or never gets it
\* in time.
PhaseGate(f) == Waited(f) /\ flow[f].kind = "curve"

\* executeAntiSwaySegments: the next impulse is due.
Due(f) == Waited(f) /\ flow[f].kind = "segments"

\* A motion of the run is answered; the last one is waited for and observed.
Moved(f, ok) ==
    LET fl == flow[f]
        next == IF fl.at < Len(Script[fl.kind]) THEN "wait" ELSE "settle"
    IN  /\ Answered(f, ok) /\ fl.kind \in Sway /\ fl.at > 2
        /\ \/ /\ ok /\ ~Superseded(fl)
              /\ flow' = [flow EXCEPT ![f] = [fl EXCEPT !.stage = next, !.watch = active,
                                                       !.req = None]]
              /\ UNCHANGED <<motion, cancelled>>
           \/ /\ ~ok \/ Superseded(fl)
              /\ Ends(f)
              /\ motion' = IF Superseded(fl) THEN motion ELSE Unlatched(fl)
        /\ UNCHANGED <<active, rev, mode, mp, shown, runner, confirm, presses>>

\* It has settled, or not in time, or a stop was seen.
Settled(f) ==
    /\ flow[f] # None /\ flow[f].stage = "settle"
    /\ Ends(f) /\ motion' \in {motion, Unlatched(flow[f])}
    /\ UNCHANGED <<active, rev, mode, mp, shown, runner, confirm, presses>>

Next ==
    \/ \E d \in Devices : switchAxis(d)
    \/ \E ok \in BOOLEAN : Confirmed(ok)
    \/ Redraw \/ resetFault
    \/ \E f \in Flows :
          \/ Start(f) \/ Stop(f) \/ Poll(f) \/ Serves(f)
          \/ \E kind \in {"set_current", "write"} : Direct(f, kind)
          \/ \E m \in Modes : setMode(f, m)
          \/ \E ok \in BOOLEAN : \/ TableGoesOn(f, ok) \/ SingleGoesOn(f, ok) \/ Answer(f, ok)
                                \/ Planned(f, ok) \/ Moved(f, ok)
          \/ Sensed(f) \/ PhaseGate(f) \/ Due(f) \/ Settled(f)

Spec == Init /\ [][Next]_vars

----------------------------------------------------------------------------
\* Properties.

\* A flow sends nothing more after the user has stopped its axis, started something
\* else there, or, for a table, gone to the other axis, whatever answers and old
\* statuses come in between.  A step of an anti-sway run whose wait began on the
\* other axis is the exception: that wait looks at the wrong axis.  Flows that
\* have no number yet (seq 0: an anti-sway run that is still planned or waits in
\* its dialog, a move in its dialog, a change of the mode, a button that sends one
\* command) are not cancelled by a stop: Ahead leaves them out, because the code
\* has nothing to tell them by.  A confirmed dialog takes a number of its own.
StopIsFinal == [][\A f \in Flows :
    (/\ flow[f] # None /\ flow'[f] # None /\ flow'[f].at # flow[f].at
     /\ flow[f].watch = flow[f].own)
        => f \notin cancelled]_vars

\* What the page shows of an axis' runner comes from an answer about that axis,
\* also when the user has gone to the other one while it was on its way.
RunnerShownIsItsOwn == [][\A d \in Devices : shown'[d] # shown[d] =>
    \E f \in Flows : flow[f] # None /\ flow[f].req # None
        /\ flow[f].req.dev = d /\ flow[f].req.reply # None]_vars

\* What the page shows of a runner never goes back behind what it has shown, in
\* whatever order commands and polls are served and answered.
RunnerNeverGoesBack == [][\A d \in Devices : shown'[d] >= shown[d]]_vars
=============================================================================
