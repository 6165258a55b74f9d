------------------------------- MODULE Homing -------------------------------
(***************************************************************************)
(* The torque homing of the motion daemon in numbers: update_homing and    *)
(* the commands that start, stop and clear it, with the integer steps of   *)
(* velocity_step_counts and decelerate_velocity.  AxisDaemon models the    *)
(* same homing without distances but next to everything else.              *)
(*                                                                         *)
(* The axis is a line of counts with an obstruction at Wall.  In every     *)
(* cycle the drive either stays or reaches the target as far as the wall   *)
(* lets it, the torque is above the threshold or not, and the servo is     *)
(* ready or not.  The int32 limits are out of reach of the bounds.         *)
(*                                                                         *)
(* A definition whose name ends in _X is a faulty variant that no          *)
(* specification uses.                                                     *)
(***************************************************************************)
EXTENDS Integers

CONSTANTS
    Scale,          \* cycles in a second: 1000
    Speeds,         \* search speeds, counts per second
    Decels,         \* decelerations, counts per second lost in a cycle
    Offsets,        \* from the obstruction to the backoff target; 0 for none
    Wall,           \* position of the obstruction, ahead of the start
    MaxDistance,    \* homing_max_distance_counts
    TimeoutCycles,  \* homing_timeout_cycles
    HoldCycles,     \* homing_torque_hold_required
    GlitchCycles,   \* HOMING_SERVO_GLITCH_CYCLES
    MaxCommands,    \* bound: commands in a behaviour
    MaxUnready      \* bound: cycles in which the servo is not ready

ASSUME HomingAssumption ==
    /\ Scale \in Nat \ {0}
    /\ Speeds \subseteq Nat \ {0}
    /\ Decels \subseteq Nat
    /\ Offsets \subseteq Int
    /\ Wall \in Nat
    /\ {MaxDistance, GlitchCycles, MaxCommands, MaxUnready}
          \subseteq Nat
    /\ {HoldCycles, TimeoutCycles} \subseteq Nat \ {0}

VARIABLES
    ax,         \* the fields of axis_runtime_t that homing uses
    cmds,       \* commands given
    notReady,   \* cycles the servo was not ready
    cycles,     \* the cycle counter, modulo 2
    seen        \* what the last cycles did (history)

vars == <<ax, cmds, notReady, cycles, seen>>

States == {"idle", "search", "abort", "backoff"}

AxType ==
    [st : States, dir : {-1, 1}, vel : Int, decel : Nat, stopv : Int,
     rem : (1 - Scale)..(Scale - 1), target : Int, pos : Int, start : Int,
     off : Offsets \cup {0}, back : Int, elapsed : 0..TimeoutCycles + 1,
     hold : 0..HoldCycles, unready : 0..GlitchCycles]

\* last: the velocity of the last step; stepped: the last cycle made a step;
\* high: cycles of a search in a row with the torque above the threshold;
\* assigned: the last cycle assigned the coordinate.
SeenType ==
    [last : Int, stepped : BOOLEAN, high : 0..HoldCycles, assigned : BOOLEAN]

-----------------------------------------------------------------------------
(* Arithmetic.                                                             *)

Sign(x) == IF x > 0 THEN 1 ELSE IF x < 0 THEN -1 ELSE 0
Abs(x) == IF x < 0 THEN -x ELSE x

\* Division in C rounds towards zero.
Quotient(x, d) == Sign(x) * (Abs(x) \div d)

\* Faulty: what a cycle does not use of the velocity is lost.
velocity_step_X(rem, v) == [step |-> Quotient(v, Scale), rem |-> 0]
\* velocity_step_counts: what a cycle does not use is left for the next one.
velocity_step(rem, v) ==
    LET step == Quotient(rem + v, Scale)
    IN  [step |-> step, rem |-> rem + v - step * Scale]

\* A deceleration below one count per cycle still ends.
decelerate(v, d) ==
    LET step == IF d < 1 THEN 1 ELSE d
    IN  IF Abs(v) > step THEN v - Sign(v) * step ELSE 0

-----------------------------------------------------------------------------
(* Commands.                                                               *)

Command(b) ==
    /\ cmds < MaxCommands
    /\ cmds' = cmds + 1
    /\ ax' = b
    /\ UNCHANGED <<notReady, cycles, seen>>

\* homing_start_torque.
HomingStart ==
    \E d \in {-1, 1}, speed \in Speeds, dec \in Decels, off \in Offsets :
        Command([ax EXCEPT !.st = "search", !.dir = d, !.vel = d * speed,
            !.decel = dec, !.stopv = 0, !.rem = 0, !.target = ax.pos,
            !.start = ax.pos, !.off = off, !.back = 0, !.elapsed = 0,
            !.hold = 0, !.unready = 0])

abort_homing(a) == [a EXCEPT !.st = "abort", !.stopv = a.vel]

\* homing_stop with a deceleration of its own.
HomingStop ==
    /\ ax.st # "idle"
    /\ \E dec \in Decels : Command(abort_homing([ax EXCEPT !.decel = dec]))

clear_homing(a) ==
    [a EXCEPT !.st = "idle", !.vel = 0, !.decel = 0, !.back = 0, !.off = 0,
              !.start = 0, !.elapsed = 0, !.hold = 0, !.unready = 0]

\* Any command that resets the axis: stop, disable, set_mode, a motion.
Reset ==
    /\ ax.st # "idle"
    /\ Command([clear_homing(ax) EXCEPT !.stopv = 0, !.rem = 0,
                                        !.target = ax.pos])

-----------------------------------------------------------------------------
(* The cycle.                                                              *)

AtPos(a) == [a EXCEPT !.target = a.pos]

\* The axis b after a step with velocity v.
Step(b, v) ==
    LET s == velocity_step(b.rem, v)
    IN  [b EXCEPT !.target = @ + s.step, !.rem = s.rem]

\* A lost enable also drops the velocity of a stop, an incomplete working
\* counter does not.
Dropped(a) == [a EXCEPT !.stopv = 0, !.rem = 0]

\* The servo is not ready: held, then cancelled.
Held(a) ==
    IF a.unready < GlitchCycles THEN AtPos([a EXCEPT !.unready = @ + 1])
    ELSE AtPos([clear_homing(a) EXCEPT !.stopv = 0, !.rem = 0])

\* One step of a deceleration; the step is made before the velocity changes.
AbortDecel(a) ==
    IF a.stopv # 0
      THEN [Step(a, a.stopv) EXCEPT !.stopv = decelerate(a.stopv, a.decel)]
      ELSE AtPos([clear_homing(a) EXCEPT !.rem = 0])

TooFar(a) == Abs(a.pos - a.start) > MaxDistance
\* Faulty: without a limit.
TimedOut_X(a) == FALSE
TimedOut(a) == a.elapsed > TimeoutCycles

\* The end of the axis is found: the coordinate is assigned where it stands,
\* and the axis backs off if it has to.
Contact(a) ==
    LET b == [AtPos(a) EXCEPT !.stopv = 0, !.rem = 0]
    IN  IF a.off # 0 THEN [b EXCEPT !.st = "backoff", !.back = a.pos + a.off]
                     ELSE clear_homing(b)

Search(a) ==
    IF TooFar(a) \/ TimedOut(a) THEN AbortDecel(abort_homing(a))
    ELSE IF a.hold >= HoldCycles THEN Contact(a)
    ELSE [Step(a, a.vel) EXCEPT !.elapsed = @ + 1]

\* The velocity of a backoff is that of the search, towards its target.
BackoffVelocity(a) == Sign(a.back - a.target) * Abs(a.vel)

\* Faulty: the last step is made in full.
Clip_X(a, t) == t
\* A step does not go beyond the backoff target.
Clip(a, t) == IF Sign(a.back - a.target) * (t - a.back) > 0 THEN a.back ELSE t

Backoff(a) ==
    IF a.target = a.back THEN [clear_homing(a) EXCEPT !.rem = 0]
    ELSE LET b == Step(a, BackoffVelocity(a))
         IN  [b EXCEPT !.target = Clip(a, b.target)]

\* The torque is counted while the search goes on, not while it is held.
Counted(a, torque) ==
    [a EXCEPT !.unready = 0,
              !.hold = IF a.st # "search" \/ TooFar(a) \/ TimedOut(a) THEN @
                       ELSE IF torque THEN @ + 1 ELSE 0]

update_homing(a, ready, torque) ==
    IF a.st = "idle" THEN a
    ELSE IF ~ready THEN Held(a)
    ELSE LET b == Counted(a, torque)
         IN  CASE b.st = "search"  -> Search(b)
               [] b.st = "backoff" -> Backoff(b)
               [] b.st = "abort"   -> AbortDecel(b)

\* Where the drive may be in the next cycle.
Positions == {ax.pos, IF ax.target > Wall THEN Wall ELSE ax.target}

\* The velocity of a step from a to b; a search that ends steps with stopv.
VelocityOf(a, b) ==
    CASE a.st = "backoff" -> BackoffVelocity(a)
      [] a.st = "abort"   -> a.stopv
      [] a.st = "search"  -> a.vel

CycleWith(now, p, ready, torque) ==
    LET a == [now EXCEPT !.pos = p]
        b == update_homing(a, ready, torque)
        steps == a.st # "idle" /\ ready /\ b.st # "idle"
                    /\ ~(a.st = "search" /\ b.st = "backoff")
    IN  /\ ax' = b
        /\ seen' = [last     |-> IF steps THEN VelocityOf(a, b) ELSE 0,
                    stepped  |-> steps,
                    high     |-> IF a.st # "search" \/ ~torque THEN 0
                                 ELSE IF seen.high < HoldCycles THEN seen.high + 1
                                 ELSE HoldCycles,
                    assigned |-> /\ a.st = "search" /\ ready
                                 /\ b.st \in {"idle", "backoff"}]

Cycle ==
    /\ UNCHANGED cmds
    /\ cycles' = 1 - cycles
    /\ \E p \in Positions, torque \in BOOLEAN :
          \/ CycleWith(ax, p, TRUE, torque) /\ UNCHANGED notReady
          \/ /\ ax.st # "idle" /\ notReady < MaxUnready
             /\ notReady' = notReady + 1
             /\ \E now \in {ax, Dropped(ax)} : CycleWith(now, p, FALSE, torque)

Init ==
    /\ ax = [st |-> "idle", dir |-> 1, vel |-> 0, decel |-> 0, stopv |-> 0,
             rem |-> 0, target |-> 0, pos |-> 0, start |-> 0, off |-> 0,
             back |-> 0, elapsed |-> 0, hold |-> 0, unready |-> 0]
    /\ cmds = 0
    /\ notReady = 0
    /\ cycles = 0
    /\ seen = [last |-> 0, stepped |-> FALSE, high |-> 0, assigned |-> FALSE]

Next == HomingStart \/ HomingStop \/ Reset \/ Cycle

Spec == Init /\ [][Next]_vars

\* The daemon runs its cycles for ever, commands and glitches are bounded.
\* The counter of the cycles advances with every cycle and with nothing else.
FairSpec == Spec /\ WF_cycles(cycles' = 1 - cycles)

-----------------------------------------------------------------------------
(* Properties.                                                             *)

\* The state of a homing has the shape the code gives it.
TypeOK == ax \in AxType /\ seen \in SeenType

Between(x, lo, hi) == x \in lo..hi \/ x \in hi..lo

\* A backoff that is not held goes towards its target only, never beyond it,
\* and ends exactly there, whatever the speed and the remainder are.
BackoffApproaches ==
    [][ax.st = "backoff" /\ cmds' = cmds /\ notReady' = notReady =>
          /\ Between(ax'.target, ax.target, ax.back)
          /\ ax'.st # "backoff" => ax'.target = ax.back]_vars

\* Every homing ends: the search at its timeout at the latest, a deceleration
\* because it loses speed in every cycle, a backoff because the remainder of
\* the velocity adds up to counts.
HomingEnds == ax.st # "idle" ~> ax.st = "idle"

\* "controlled deceleration": while a homing is being stopped the axis neither
\* turns round nor gets faster from one step to the next.  The code does not
\* keep this: every homing_stop starts from the velocity of the search.
ControlledDeceleration ==
    [][ax.st = "abort" /\ seen.stepped /\ seen'.stepped /\ cmds' = cmds =>
          /\ Sign(seen'.last) = Sign(seen.last)
          /\ Abs(seen'.last) <= Abs(seen.last)]_vars

\* "detect a sustained torque threshold": the coordinate is assigned only after
\* as many cycles in a row with the torque above the threshold as were asked
\* for.  The code does not keep this: the count survives a hold.
SustainedTorque == seen.assigned => seen.high >= HoldCycles
=============================================================================
