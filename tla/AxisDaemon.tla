----------------------------- MODULE AxisDaemon ------------------------------
(***************************************************************************)
(* One servo axis of the motion daemon (mctivity_motiond.c): the commands  *)
(* of handle_command and the 1 ms cycle of axis_cycle_logic.  The daemon is*)
(* one thread: a cycle reads the drive, moves the target, writes the       *)
(* controlword, and only then serves the commands that have arrived.       *)
(*                                                                         *)
(* What may move the target (a generator) is kept exactly; how far it moves*)
(* it is not: a speed is a number of deceleration steps, distances, times  *)
(* and torques are choices, and target says what became of the target      *)
(* position: "held", "stepped" by a generator, or set to the measured      *)
(* "pos"ition.  The drive is the environment: its feedback is arbitrary in *)
(* every cycle.  The CSP axis (mctivity) follows the target, the PP axis   *)
(* (fv3) starts a move of its own on a pulse of the controlword.           *)
(* fv3_halt_cycles is never set by the code and is left out, and the DECEL *)
(* state of homing begins and ends within one cycle.                       *)
(*                                                                         *)
(* A definition whose name ends in _X is a faulty variant that no          *)
(* specification uses.                                                     *)
(***************************************************************************)
EXTENDS Naturals

CONSTANTS
    SettleCycles,   \* ENABLE_SETTLE_CYCLES
    GlitchCycles,   \* MOTION_ and HOMING_SERVO_GLITCH_CYCLES
    PulseCycles,    \* length of a PP trigger
    HoldCycles,     \* cycles a fast PP movement counts as motion
    ResetCycles,    \* length of a fault reset
    MaxSpeed        \* bound: deceleration steps from the highest speed

ASSUME CycleAssumption ==
    /\ SettleCycles \in Nat \ {0}
    /\ GlitchCycles \in Nat
    /\ PulseCycles \in Nat \ {0}
    /\ HoldCycles \in Nat
    /\ ResetCycles \in Nat
    /\ MaxSpeed \in Nat \ {0}

VARIABLES
    ax,     \* axis_runtime_t
    seen    \* what has happened to the axis (history)

vars == <<ax, seen>>

Speeds == 0..MaxSpeed
Modes  == {"other", "homing", "gear_cam"}    \* control_mode

\* The last position of the gear master: there is none, it is of the configured
\* master, or it is of the other of the two masters an axis may have.
Bases == {"none", "own", "other"}

AxisType ==
    [pp : BOOLEAN, servo : BOOLEAN, enabled : BOOLEAN, fault : BOOLEAN,
     settle : 0..SettleCycles, mode : Modes,
     motion : {"none", "profile", "timed"}, unready : 0..GlitchCycles,
     stopv : Speeds, jog : BOOLEAN, pulse : 0..PulseCycles,
     hold : 0..HoldCycles, reset : 0..ResetCycles,
     gear : BOOLEAN, base : Bases,
     homing : {"idle", "search", "abort", "backoff"},
     hUnready : 0..GlitchCycles,
     target : {"held", "stepped", "pos"}, moving : BOOLEAN,
     cw : {"off", "reset", "pulse", "run"}]

\* acted: a command since the last cycle; down: cycles in a row with the servo
\* requested and not enabled; latched: a fault since the last enable; tracked:
\* the last cycle sampled the gear master; settled: the axis counted its settle
\* cycles to the end since the last enable.
SeenType ==
    [acted : BOOLEAN, down : 0..2 * GlitchCycles + 1, latched : BOOLEAN,
     tracked : BOOLEAN, settled : BOOLEAN]

-----------------------------------------------------------------------------
(* Helpers of the commands.                                                *)

ready_for_motion(a) == a.enabled /\ a.settle = 0 /\ ~a.fault

axis_motion_in_progress(a) ==
    a.motion # "none" \/ a.stopv > 0 \/ a.jog \/ a.pulse > 0

clear_motion(a) == [a EXCEPT !.motion = "none", !.unready = 0]

\* Faulty: the state of the homing survives.
clear_homing_X(a) == [a EXCEPT !.hUnready = 0]
clear_homing(a) == [a EXCEPT !.homing = "idle", !.hUnready = 0]

\* Faulty: a gear goes on.
GearOff_X(a) == [a EXCEPT !.base = "none"]
GearOff(a) == [a EXCEPT !.gear = FALSE, !.base = "none"]

\* The reset that most commands share.
Stopped(a) ==
    GearOff(clear_homing(clear_motion(
        [a EXCEPT !.stopv = 0, !.jog = FALSE, !.pulse = 0])))

AtPos(a) == [a EXCEPT !.target = "pos"]

\* A command is executed and the axis becomes b; or it is refused.
Do(b) ==
    /\ ax' = b
    /\ seen' = [seen EXCEPT !.acted = TRUE]

-----------------------------------------------------------------------------
(* Commands.                                                               *)

Enable ==
    /\ ax' = [AtPos(Stopped(ax)) EXCEPT !.servo = TRUE, !.settle = SettleCycles]
    /\ seen' = [seen EXCEPT !.acted = TRUE, !.latched = FALSE,
                              !.settled = FALSE]

Disable == Do([AtPos(Stopped(ax)) EXCEPT !.servo = FALSE, !.settle = 0])

FaultReset ==
    Do([AtPos(Stopped(ax)) EXCEPT !.servo = FALSE, !.settle = 0,
                                  !.reset = ResetCycles])

\* A stop decelerates from the velocity of the profile, else from the last
\* step of the target, for the PP axis from that of the feedback; if any is 0
\* it holds.
Stop ==
    \E v \in Speeds :
        LET a == [Stopped(ax) EXCEPT !.settle = 0] IN
        Do(CASE ax.enabled /\ v > 0 /\ ax.pp  ->
                    [a EXCEPT !.pulse = PulseCycles, !.target = "stepped"]
             [] ax.enabled /\ v > 0 /\ ~ax.pp -> [a EXCEPT !.stopv = v]
             [] ~(ax.enabled /\ v > 0)        -> IF ax.pp THEN AtPos(a) ELSE a)

\* set_zero, home and homing_set_current.
SetZero ==
    \E mode \in {ax.mode, "homing"} :
        Do([AtPos(Stopped(ax)) EXCEPT !.settle = 0, !.mode = mode])

SetMode ==
    \E mode \in Modes :
        LET a == [Stopped(ax) EXCEPT !.mode = mode] IN
        Do(IF mode = "other" THEN a ELSE AtPos(a))

HomingStart ==
    /\ ready_for_motion(ax)
    /\ Do([AtPos(Stopped(ax)) EXCEPT !.mode = "homing", !.homing = "search"])

\* abort_homing: decelerate from the speed of the search.
abort_homing(a, v) == [a EXCEPT !.homing = "abort", !.stopv = v]

HomingStop ==
    IF ax.homing = "idle" THEN Do(AtPos(ax))
    ELSE \E v \in Speeds \ {0} : Do(abort_homing(ax, v))

\* What the last position of a master is when the other master is configured.
Exchanged(base) ==
    CASE base = "own" -> "other" [] base = "other" -> "own" [] base = "none" -> "none"

\* gear_config: a running gear, a motion or a stop goes on, and so does the last
\* position of the master when another master is configured.
GearConfig ==
    \E base \in {ax.base, Exchanged(ax.base)} :
        Do([clear_homing(ax) EXCEPT !.mode = "gear_cam", !.base = base])

GearStart ==
    /\ ready_for_motion(ax)
    /\ Do([Stopped(ax) EXCEPT !.mode = "gear_cam", !.gear = TRUE])

\* gear_stop: a motion, a stop or a jog goes on.
GearStop == Do(AtPos([GearOff(clear_homing(ax)) EXCEPT !.pulse = 0]))

\* move_abs and move_rel: start_motion_to, or a trigger of the PP axis.
Move ==
    /\ ready_for_motion(ax)
    /\ LET a == [Stopped(ax) EXCEPT !.mode = "other"] IN
       IF ax.pp THEN Do([a EXCEPT !.pulse = PulseCycles, !.target = "stepped"])
       ELSE \E kind \in {"profile", "timed"} :
               Do([AtPos(a) EXCEPT !.motion = kind])

\* move_curve_rel, and the anti-sway curves of the CSP axis; a zero distance
\* or an invalid limit starts nothing.
MoveCurve ==
    /\ ready_for_motion(ax)
    /\ \E kind \in {"none", "timed"} :
          Do([AtPos(Stopped(ax)) EXCEPT !.mode = "other", !.motion = kind])

Jog ==
    /\ ready_for_motion(ax)
    /\ \E on \in BOOLEAN :
          Do([Stopped(ax) EXCEPT !.mode = "other", !.jog = on])

Torque == Do([Stopped(ax) EXCEPT !.mode = "other"])

Command ==
    \/ Enable \/ Disable \/ FaultReset \/ Stop \/ SetZero \/ SetMode
    \/ HomingStart \/ HomingStop \/ GearConfig \/ GearStart \/ GearStop
    \/ Move \/ MoveCurve \/ Jog \/ Torque

-----------------------------------------------------------------------------
(* The cycle.  An operator named after a branch of axis_cycle_logic is the *)
(* set of the states that branch can leave the axis in.                    *)

Inputs == [enabled : BOOLEAN, fault : BOOLEAN, wc : BOOLEAN,
           gap : BOOLEAN, fast : BOOLEAN, master : BOOLEAN]

\* Read the drive; a fast movement of the PP axis counts as motion for a while.
Sensed(a, in) ==
    [a EXCEPT !.enabled = in.enabled, !.fault = in.fault,
        !.hold = IF ~a.pp THEN 0
                 ELSE IF in.fast THEN HoldCycles
                 ELSE IF a.hold > 0 THEN a.hold - 1 ELSE 0]

\* Faulty: the servo request survives a fault.
Checked_X(a) ==
    IF a.fault THEN [Stopped(a) EXCEPT !.hold = 0] ELSE a
\* A fault clears the servo request and everything that moves the target.
Checked(a) ==
    IF a.fault THEN [Stopped(a) EXCEPT !.servo = FALSE, !.hold = 0] ELSE a

KeepGear(a)   == a.mode = "gear_cam" /\ a.gear
HomingRuns(a) == a.mode = "homing" /\ a.homing # "idle"

Settled(a) ==
    [a EXCEPT !.settle = IF a.enabled /\ a.settle > 0 THEN a.settle - 1 ELSE @]

cancel_homing(a) ==
    AtPos([clear_homing(a) EXCEPT !.stopv = 0, !.jog = FALSE])

\* update_homing while the servo is not ready: held, then cancelled.
HomingHeld(a) ==
    IF a.hUnready < GlitchCycles
      THEN AtPos([a EXCEPT !.hUnready = @ + 1])
      ELSE cancel_homing(a)

\* The search goes on; or the torque was held long enough: the position is
\* assigned and the axis backs off, if it has to; or the timeout or the
\* distance is exceeded and the deceleration makes its first step.
Search(a) ==
    {[a EXCEPT !.target = "stepped"],
     AtPos([a EXCEPT !.homing = "backoff", !.stopv = 0]),
     AtPos([clear_homing(a) EXCEPT !.stopv = 0])}
    \cup {[abort_homing(a, v) EXCEPT !.stopv = v - 1, !.target = "stepped"] :
             v \in Speeds \ {0}}

Backoff(a) ==
    {[a EXCEPT !.target = "stepped"], [clear_homing(a) EXCEPT !.target = "held"]}

AbortDecel(a) ==
    {IF a.stopv > 0 THEN [a EXCEPT !.stopv = @ - 1, !.target = "stepped"]
                    ELSE AtPos(clear_homing(a))}

update_homing(a, in) ==
    IF ~a.servo \/ a.fault \/ ~in.wc \/ ~a.enabled \/ a.settle > 0
      THEN {HomingHeld(a)}
      ELSE LET b == [a EXCEPT !.hUnready = 0] IN
           CASE b.homing = "search"  -> Search(b)
             [] b.homing = "backoff" -> Backoff(b)
             [] b.homing = "abort"   -> AbortDecel(b)

cancel_axis_motion(a) ==
    AtPos([clear_motion(a) EXCEPT !.stopv = 0, !.jog = FALSE, !.pulse = 0,
                                  !.hold = 0])

\* Faulty: a held motion is never given up.
MotionHeldForever_X(a) == [Settled(a) EXCEPT !.target = "held"]
\* Faulty: it is held for a cycle too many.
MotionHeldLonger_X(a) ==
    IF a.unready <= GlitchCycles
      THEN [Settled(a) EXCEPT !.unready = @ + 1, !.target = "held"]
      ELSE cancel_axis_motion(Settled(a))
\* A motion whose servo is not ready keeps its target, then is cancelled.
MotionHeld(a) ==
    IF a.unready < GlitchCycles
      THEN [Settled(a) EXCEPT !.unready = @ + 1, !.target = "held"]
      ELSE cancel_axis_motion(Settled(a))

\* Faulty: the gear keeps the position its master had before.
GearHeld_X(a) == [a EXCEPT !.gear = KeepGear(a)]
GearHeld(a) == [a EXCEPT !.gear = KeepGear(a), !.base = "none"]

\* The servo is requested but not enabled, or still settles.
NotReady(a, in) ==
    LET b == GearHeld(a) IN
    IF HomingRuns(a)
      THEN update_homing(Settled([clear_motion(b) EXCEPT
               !.stopv = 0, !.jog = FALSE, !.pulse = 0, !.hold = 0,
               !.target = "pos"]), in)
    ELSE IF axis_motion_in_progress(a) THEN {MotionHeld(b)}
    ELSE {AtPos(Settled(clear_homing(clear_motion(
             [b EXCEPT !.stopv = 0, !.jog = FALSE, !.pulse = 0, !.hold = 0]))))}

\* The first sample of the master is the base of the following steps.
GearTrack(a, in) ==
    IF ~in.master THEN {AtPos([a EXCEPT !.base = "none"])}
    ELSE {[a EXCEPT !.base = "own", !.target = t] :
             t \in IF a.base = "none" THEN {"held"} ELSE {"held", "stepped"}}

\* A move, a curve or a profile goes on, dwells or ends.
MotionStep(a) ==
    LET b == [a EXCEPT !.unready = 0] IN
    {[b EXCEPT !.target = t] : t \in {"held", "stepped"}}
    \cup {[clear_motion(b) EXCEPT !.target = t] : t \in {"held", "stepped"}}

StopStep(a) == [a EXCEPT !.unready = 0, !.stopv = @ - 1, !.target = "stepped"]

JogStep(a) == [a EXCEPT !.unready = 0, !.target = "stepped"]

\* Neither requested nor driven: everything follows the measured position.
Released(a) == AtPos([Stopped(a) EXCEPT !.hold = 0])

\* The order of the branches is that of the code.
Branches(a, in) ==
    IF a.servo /\ (~a.enabled \/ a.settle > 0) THEN NotReady(a, in)
    ELSE IF KeepGear(a) /\ a.enabled THEN GearTrack(a, in)
    ELSE IF HomingRuns(a) /\ a.enabled THEN update_homing(a, in)
    ELSE IF a.motion # "none" /\ a.enabled THEN MotionStep(a)
    ELSE IF a.stopv > 0 /\ a.enabled THEN {StopStep(a)}
    ELSE IF a.jog /\ a.enabled THEN {JogStep(a)}
    ELSE IF ~a.servo THEN {Released(a)}
    ELSE {[a EXCEPT !.target = "held"]}

pp_active(a, in) ==
    a.pp /\ a.servo /\ a.enabled /\ (a.pulse > 0 \/ in.gap \/ a.hold > 0)

\* Faulty: a jog is not a motion.
IsMoving_X(a, in) ==
    \/ a.motion # "none" \/ a.stopv > 0 \/ a.homing # "idle"
    \/ pp_active(a, in) \/ KeepGear(a)
\* The moving flag of the status.
IsMoving(a, in) ==
    \/ a.motion # "none" \/ a.jog \/ a.stopv > 0 \/ a.homing # "idle"
    \/ pp_active(a, in) \/ KeepGear(a)

\* The controlword; a pulse and a fault reset last a number of cycles.
Output(a, in) ==
    IF a.reset > 0 /\ in.wc THEN [a EXCEPT !.cw = "reset", !.reset = @ - 1]
    ELSE IF a.pulse > 0 /\ a.servo /\ in.wc
           THEN [a EXCEPT !.cw = "pulse", !.pulse = @ - 1]
    ELSE [a EXCEPT !.cw = IF a.servo /\ in.wc THEN "run" ELSE "off"]

\* The master of a gear was sampled in this cycle.
Samples(a, in) ==
    /\ ~(a.servo /\ (~a.enabled \/ a.settle > 0))
    /\ KeepGear(a) /\ a.enabled /\ in.master

CycleWith(in) ==
    LET a == Checked(Sensed(ax, in)) IN
    /\ \E b \in Branches(a, in) :
          ax' = Output([b EXCEPT !.moving = IsMoving(b, in)], in)
    /\ seen' = [acted   |-> FALSE,
                down    |-> IF ~a.servo \/ a.enabled THEN 0
                            ELSE IF seen.down > 2 * GlitchCycles THEN seen.down
                            ELSE seen.down + 1,
                latched |-> seen.latched \/ in.fault,
                tracked |-> Samples(a, in),
                settled |-> seen.settled \/ (ax.settle > 0 /\ ax'.settle = 0)]

\* A gap to the target and a fast movement matter to the PP axis only, and the
\* readiness of the master to a running gear.
Cycle ==
    \E in \in Inputs :
        /\ in.gap \/ in.fast => ax.pp
        /\ in.master => ax.gear
        /\ CycleWith(in)

Init ==
    /\ \E pp \in BOOLEAN :
          ax = [pp |-> pp, servo |-> FALSE, enabled |-> FALSE, fault |-> FALSE,
                settle |-> 0, mode |-> "other",
                motion |-> "none", unready |-> 0, stopv |-> 0, jog |-> FALSE,
                pulse |-> 0, hold |-> 0, reset |-> 0, gear |-> FALSE,
                base |-> "none", homing |-> "idle", hUnready |-> 0,
                target |-> "held", moving |-> FALSE, cw |-> "off"]
    /\ seen = [acted |-> FALSE, down |-> 0, latched |-> FALSE, tracked |-> FALSE,
                settled |-> FALSE]

Next == Command \/ Cycle

Spec == Init /\ [][Next]_vars

-----------------------------------------------------------------------------
(* Properties.                                                             *)

\* The state of an axis has the shape the code gives it.
TypeOK == ax \in AxisType /\ seen \in SeenType

\* "Homing is an exclusive control mode", and so is everything else: at most
\* one generator moves the target, under the control mode it belongs to, after
\* whatever sequence of commands, faults and lost enables.
OneGenerator ==
    /\ ax.homing # "idle" =>
          /\ ax.mode = "homing"
          /\ ax.motion = "none" /\ ~ax.jog /\ ax.pulse = 0 /\ ~ax.gear
          /\ ax.stopv > 0 => ax.homing = "abort"
    /\ ax.gear =>
          /\ ax.mode = "gear_cam"
          /\ ax.motion = "none" /\ ~ax.jog /\ ax.pulse = 0 /\ ax.stopv = 0
    /\ ax.motion # "none" => ~ax.jog /\ ax.pulse = 0 /\ ax.stopv = 0
    /\ ax.jog => ax.pulse = 0 /\ ax.stopv = 0
    /\ ax.pulse > 0 => ax.pp /\ ax.stopv = 0

\* An axis that never finished settling after an enable has nothing to move.
SettlingIsIdle ==
    ax.settle > 0 => ~axis_motion_in_progress(ax) /\ ax.homing = "idle" /\ ~ax.gear

\* The standstill a status reports lasts: unless a command came in between,
\* the next cycle does not step the target, and the only trigger it may send to
\* the PP drive is one that was pending when the enable feedback was lost.  That
\* one is sent on while the axis reports standstill, but not longer than a held
\* motion lasts.  This is what a client relies on that has seen still samples.
StillStaysStill ==
    [][~ax.moving /\ ~seen.acted /\ ~seen'.acted =>
          /\ ax'.target # "stepped"
          /\ ax'.cw = "pulse" => /\ ax.pulse > 0 /\ ax.servo /\ ~ax.enabled
                                 /\ seen.down <= 2 * GlitchCycles]_vars

\* A motion or a homing survives a lost enable for the glitch time and not
\* longer.  A gear_config or gear_stop can turn the end of a homing into a stop,
\* which then has a glitch time of its own: hence twice the time.  After it
\* all that can be left is a gear, which is held for as long as the enable is
\* lost and goes on when it returns: until then its target is the measured
\* position, and it has no position of its master to make a step from.
LostEnableCancels ==
    seen.down > 2 * GlitchCycles =>
        /\ ~axis_motion_in_progress(ax) /\ ax.homing = "idle"
        /\ ax.target = "pos" /\ ax.base = "none"

\* After a fault the drive is told to run again only when someone enables it;
\* a fault reset, a stop or a motion command does not.
FaultLatches ==
    seen.latched => ~ax.servo /\ ax.cw \in {"off", "reset"}

\* A gear step is computed from a position one cycle old: a gear that was held,
\* stopped or lost its master starts from a new base.  The position is that of
\* the configured master, except in the first cycle after a gear_config: the
\* code keeps the base of a running gear when the master changes, and the step
\* of that cycle is the difference of two axes.
GearBaseFresh ==
    ax.base # "none" =>
        /\ ax.gear /\ seen.tracked
        /\ ax.base = "other" => seen.acted

\* "servo is not ready for motion; enable and wait for settle first": nothing
\* moves the target of an axis that did not settle in full since it was enabled.
\* The code does not keep this: a stop, a set_zero or a home ends the settling
\* at once, and the next motion is accepted as soon as the drive is enabled.
SettledBeforeMotion ==
    ax.servo /\ (ax.motion # "none" \/ ax.jog \/ ax.homing # "idle" \/ ax.gear)
        => seen.settled
=============================================================================
