----------------------------- MODULE AxisProofs -----------------------------
(***************************************************************************)
(* Proofs about AxisDaemon, for every length of the settle, glitch, pulse, *)
(* hold and reset times.                                                   *)
(*                                                                         *)
(* A command and a branch of the cycle each rewrite a record of many       *)
(* fields.  A lemma first says, field by field, what an operator does to   *)
(* any axis; the invariants follow from these facts alone.                 *)
(***************************************************************************)
EXTENDS AxisDaemon, TLAPS

-----------------------------------------------------------------------------
(* The inductive invariant.                                                *)

\* Nothing moves the target of a.
Quiet(a) ==
    /\ a.motion = "none" /\ ~a.jog /\ a.stopv = 0 /\ a.pulse = 0
    /\ a.homing = "idle" /\ ~a.gear

\* OneGenerator, of any axis.
Exclusive(a) ==
    /\ a.homing # "idle" =>
          /\ a.mode = "homing"
          /\ a.motion = "none" /\ ~a.jog /\ a.pulse = 0 /\ ~a.gear
          /\ a.stopv > 0 => a.homing = "abort"
    /\ a.gear =>
          /\ a.mode = "gear_cam"
          /\ a.motion = "none" /\ ~a.jog /\ a.pulse = 0 /\ a.stopv = 0
    /\ a.motion # "none" => ~a.jog /\ a.pulse = 0 /\ a.stopv = 0
    /\ a.jog => a.pulse = 0 /\ a.stopv = 0
    /\ a.pulse > 0 => a.pp /\ a.stopv = 0

Settling(a) == a.settle > 0 => Quiet(a)

\* How long a homing and a motion have been held when the enable has been lost
\* for d cycles.
Grace(a, d) ==
    /\ a.homing # "idle" => d <= a.hUnready
    /\ axis_motion_in_progress(a) => d <= a.unready + GlitchCycles

\* Nothing moves the target of a, except perhaps a pulse to the PP drive.
Standing(a) ==
    a.motion = "none" /\ ~a.jog /\ a.stopv = 0 /\ a.homing = "idle" /\ ~a.gear

\* What is known of an axis that reports standstill at the end of a cycle.
Still(a) == Standing(a) /\ (a.enabled => a.pulse = 0)

Inv(a, s) ==
    /\ a \in AxisType /\ s \in SeenType
    /\ Exclusive(a)
    /\ Settling(a)
    /\ s.down > 0 => ~a.enabled /\ ~s.tracked
    /\ s.down > 2 * GlitchCycles => a.target = "pos"
    /\ Grace(a, s.down)
    /\ s.latched => ~a.servo /\ a.cw \in {"off", "reset"}
    /\ a.base # "none" => a.gear /\ s.tracked
    /\ a.base = "other" => s.acted
    /\ ~s.acted /\ ~a.moving => Still(a)

AxisInv == Inv(ax, seen)

-----------------------------------------------------------------------------
(* Types.                                                                  *)

\* The bounds of the counters, as the assumption on the constants gives them.
LEMMA Bounds ==
  /\ 0 \in 0..PulseCycles /\ 0 \in 0..GlitchCycles /\ 0 \in 0..HoldCycles
  /\ 0 \in 0..ResetCycles /\ 0 \in 0..SettleCycles /\ 0 \in Speeds
  /\ SettleCycles \in 0..SettleCycles /\ ResetCycles \in 0..ResetCycles
  /\ PulseCycles \in 0..PulseCycles /\ HoldCycles \in 0..HoldCycles
  /\ GlitchCycles \in Nat /\ Speeds \subseteq Nat
  BY CycleAssumption DEF Speeds

\* The fields whose values are numbers.
LEMMA Numbers ==
  ASSUME NEW a \in AxisType
  PROVE  /\ a.settle \in Nat /\ a.settle <= SettleCycles
         /\ a.unready \in Nat /\ a.unready <= GlitchCycles
         /\ a.hUnready \in Nat /\ a.hUnready <= GlitchCycles
         /\ a.stopv \in Nat /\ a.pulse \in Nat /\ a.hold \in Nat
         /\ a.reset \in Nat
  BY CycleAssumption DEF AxisType, Speeds

\* clear_motion keeps the shape of an axis.
LEMMA ClearMotion ==
  ASSUME NEW a \in AxisType
  PROVE  clear_motion(a) \in AxisType
  BY Bounds DEF AxisType, clear_motion

\* clear_homing keeps the shape of an axis.
LEMMA ClearHoming ==
  ASSUME NEW a \in AxisType
  PROVE  clear_homing(a) \in AxisType
  BY Bounds DEF AxisType, clear_homing

\* GearOff keeps the shape of an axis.
LEMMA GearOffType ==
  ASSUME NEW a \in AxisType
  PROVE  GearOff(a) \in AxisType
  BY DEF AxisType, Bases, GearOff

\* AtPos keeps the shape of an axis.
LEMMA AtPosType ==
  ASSUME NEW a \in AxisType
  PROVE  AtPos(a) \in AxisType
  BY DEF AxisType, AtPos

\* The reset that most commands share keeps the shape of an axis.
LEMMA StoppedType ==
  ASSUME NEW a \in AxisType
  PROVE  Stopped(a) \in AxisType
<1>1. [a EXCEPT !.stopv = 0, !.jog = FALSE, !.pulse = 0] \in AxisType
  BY Bounds DEF AxisType
<1> QED BY <1>1, GearOffType, ClearMotion, ClearHoming DEF Stopped

\* What AtPos leaves alone.
LEMMA AtPosEffect ==
  ASSUME NEW a \in AxisType
  PROVE  /\ AtPos(a) \in AxisType
         /\ AtPos(a).target = "pos"
         /\ AtPos(a).motion = a.motion /\ AtPos(a).jog = a.jog
         /\ AtPos(a).stopv = a.stopv /\ AtPos(a).pulse = a.pulse
         /\ AtPos(a).homing = a.homing /\ AtPos(a).gear = a.gear
         /\ AtPos(a).base = a.base /\ AtPos(a).pp = a.pp
         /\ AtPos(a).servo = a.servo /\ AtPos(a).enabled = a.enabled
         /\ AtPos(a).fault = a.fault /\ AtPos(a).settle = a.settle
         /\ AtPos(a).mode = a.mode /\ AtPos(a).hold = a.hold
         /\ AtPos(a).reset = a.reset /\ AtPos(a).moving = a.moving
         /\ AtPos(a).cw = a.cw /\ AtPos(a).unready = a.unready
         /\ AtPos(a).hUnready = a.hUnready
<1>1. AtPos(a) \in AxisType
  BY AtPosType
<1> QED BY <1>1 DEF AxisType, AtPos

\* The reset that most commands share leaves nothing that moves the target.
LEMMA StoppedEffect ==
  ASSUME NEW a \in AxisType
  PROVE  /\ Stopped(a) \in AxisType
         /\ Quiet(Stopped(a)) /\ Stopped(a).base = "none"
         /\ Stopped(a).pp = a.pp /\ Stopped(a).servo = a.servo
         /\ Stopped(a).enabled = a.enabled /\ Stopped(a).fault = a.fault
         /\ Stopped(a).settle = a.settle /\ Stopped(a).mode = a.mode
         /\ Stopped(a).hold = a.hold /\ Stopped(a).reset = a.reset
         /\ Stopped(a).moving = a.moving /\ Stopped(a).cw = a.cw
         /\ Stopped(a).unready = 0 /\ Stopped(a).hUnready = 0
         /\ Stopped(a).target = a.target
<1>1. Stopped(a) \in AxisType
  BY StoppedType
<1>2. QED
  BY ZenonT(60), <1>1
  DEF AxisType, Stopped, GearOff, clear_homing, clear_motion, Quiet

-----------------------------------------------------------------------------
(* Commands.                                                               *)

\* The axis b after a command leaves of the axis a what the invariant needs.
Commanded(a, b) ==
    /\ b \in AxisType
    /\ b.enabled = a.enabled /\ b.cw = a.cw
    /\ b.servo = a.servo \/ ~b.servo
    /\ ~a.enabled => b.target \in {a.target, "pos"}

\* The facts about b that keep the invariant when a command makes it the axis.
LEMMA CommandKeeps ==
  ASSUME AxisInv, NEW b, Commanded(ax, b), Exclusive(b), Settling(b),
         Grace(b, seen.down), b.base # "none" => ax.base # "none" /\ b.gear, Do(b)
  PROVE  AxisInv'
<1>1. seen' \in SeenType /\ seen'.acted /\ seen'.down = seen.down
      /\ seen'.latched = seen.latched /\ seen'.tracked = seen.tracked
  BY DEF AxisInv, Inv, Do, SeenType
<1>2. seen.down > 2 * GlitchCycles => b.target = "pos"
  <2>1. seen.down \in Nat
    BY Bounds DEF AxisInv, Inv, SeenType
  <2>2. seen.down > 2 * GlitchCycles => seen.down > 0
    BY <2>1, Bounds
  <2> QED BY <2>2 DEF AxisInv, Inv, Commanded
<1> QED BY <1>1, <1>2 DEF AxisInv, Inv, Do, Commanded

\* A command after which nothing moves the target keeps the invariant.
LEMMA QuietCommand ==
  ASSUME AxisInv, NEW b, Commanded(ax, b), Quiet(b), b.base = "none", Do(b)
  PROVE  AxisInv'
<1>1. Exclusive(b) /\ Settling(b) /\ Grace(b, seen.down)
  BY DEF Quiet, Exclusive, Settling, Grace, axis_motion_in_progress
<1> QED BY <1>1, CommandKeeps

\* So does one that starts something: it needs the enable, which is not lost.
LEMMA StartCommand ==
  ASSUME AxisInv, ax.enabled,
         NEW b, Commanded(ax, b), Exclusive(b), b.settle = 0, b.base = "none", Do(b)
  PROVE  AxisInv'
<1>1. seen.down = 0
  BY CycleAssumption DEF AxisInv, Inv, SeenType
<1>2. Grace(b, seen.down)
  BY <1>1, Numbers, Bounds DEF Grace, Commanded
<1>3. Settling(b)
  BY DEF Settling
<1> QED BY <1>2, <1>3, CommandKeeps

\* The reset state that the commands below start from.
LEMMA ResetAxis ==
  ASSUME AxisInv
  PROVE  \A a \in {Stopped(ax), AtPos(Stopped(ax))} :
            /\ Commanded(ax, a) /\ Quiet(a) /\ a.base = "none"
            /\ a.pp = ax.pp /\ a.settle = ax.settle /\ a.mode = ax.mode
            /\ a.servo = ax.servo
<1>1. ax \in AxisType
  BY DEF AxisInv, Inv
<1>2. Commanded(ax, Stopped(ax)) /\ Quiet(Stopped(ax)) /\ Stopped(ax).base = "none"
  BY <1>1, StoppedEffect DEF Commanded
<1>3. Commanded(ax, AtPos(Stopped(ax))) /\ Quiet(AtPos(Stopped(ax)))
      /\ AtPos(Stopped(ax)).base = "none"
  BY <1>1, <1>2, StoppedEffect, AtPosEffect DEF Commanded, Quiet
<1> QED BY <1>1, <1>2, <1>3, StoppedEffect, AtPosEffect

\* An enable ends the memory of a fault and leaves nothing moving.
LEMMA EnableKeeps ==
  ASSUME AxisInv, Enable
  PROVE  AxisInv'
<1> DEFINE a == AtPos(Stopped(ax))
           b == [a EXCEPT !.servo = TRUE, !.settle = SettleCycles]
<1>1. /\ a \in AxisType /\ Quiet(a) /\ a.base = "none" /\ a.enabled = ax.enabled
      /\ a.target = "pos"
  BY ResetAxis, StoppedEffect, AtPosEffect DEF Commanded, AxisInv, Inv
<1>2. /\ b \in AxisType /\ Quiet(b) /\ b.base = "none"
      /\ b.enabled = ax.enabled /\ b.target = "pos"
  <2> HIDE DEF a
  <2> QED BY <1>1, Bounds DEF AxisType, Quiet
<1>3. Exclusive(b) /\ Settling(b) /\ Grace(b, seen.down)
  <2> HIDE DEF b
  <2> QED BY <1>2 DEF Quiet, Exclusive, Settling, Grace, axis_motion_in_progress
<1>4. /\ seen' \in SeenType /\ seen'.acted /\ seen'.down = seen.down
      /\ ~seen'.latched /\ seen'.tracked = seen.tracked
  BY DEF AxisInv, Inv, Enable, SeenType
<1>5. ax' = b
  BY DEF Enable
<1> HIDE DEF b
<1> QED BY <1>2, <1>3, <1>4, <1>5 DEF AxisInv, Inv

\* Disable, fault reset, a new zero, a new mode and a staged torque.
LEMMA QuietCommandsKeep ==
  ASSUME AxisInv, Disable \/ FaultReset \/ SetZero \/ SetMode \/ Torque
  PROVE  AxisInv'
<1> DEFINE r == Stopped(ax)
           a == AtPos(Stopped(ax))
<1>1. /\ Commanded(ax, r) /\ Quiet(r) /\ r.base = "none" /\ r.servo = ax.servo
      /\ Commanded(ax, a) /\ Quiet(a) /\ a.base = "none" /\ a.servo = ax.servo
  BY ResetAxis
<1>2. r \in AxisType /\ a \in AxisType /\ ax \in AxisType
  BY <1>1 DEF Commanded, AxisInv, Inv
<1>3. r.servo \in BOOLEAN /\ a.servo \in BOOLEAN /\ ax.mode \in Modes
  BY <1>2 DEF AxisType
<1>4. CASE Disable
  <2> DEFINE b == [a EXCEPT !.servo = FALSE, !.settle = 0]
  <2>1. Do(b)
    BY <1>4 DEF Disable
  <2>2. b.servo = FALSE
    BY <1>2 DEF AxisType
  <2> HIDE DEF a
  <2>3. /\ b \in AxisType /\ Quiet(b) /\ b.base = "none"
        /\ b.enabled = a.enabled /\ b.cw = a.cw /\ b.target = a.target
    BY <1>1, <1>2, <2>2, Bounds DEF AxisType, Quiet, Modes
  <2> HIDE DEF b
  <2>4. Commanded(ax, b)
    BY <1>1, <2>2, <2>3 DEF Commanded
  <2> QED BY <2>1, <2>3, <2>4, QuietCommand
<1>5. CASE FaultReset
  <2> DEFINE b == [a EXCEPT !.servo = FALSE, !.settle = 0, !.reset = ResetCycles]
  <2>1. Do(b)
    BY <1>5 DEF FaultReset
  <2>2. b.servo = FALSE
    BY <1>2 DEF AxisType
  <2> HIDE DEF a
  <2>3. /\ b \in AxisType /\ Quiet(b) /\ b.base = "none"
        /\ b.enabled = a.enabled /\ b.cw = a.cw /\ b.target = a.target
    BY <1>1, <1>2, <2>2, Bounds DEF AxisType, Quiet, Modes
  <2> HIDE DEF b
  <2>4. Commanded(ax, b)
    BY <1>1, <2>2, <2>3 DEF Commanded
  <2> QED BY <2>1, <2>3, <2>4, QuietCommand
<1>6. CASE SetZero
  <2>1. PICK m \in {ax.mode, "homing"} : Do([a EXCEPT !.settle = 0, !.mode = m])
    BY <1>6 DEF SetZero
  <2> DEFINE b == [a EXCEPT !.settle = 0, !.mode = m]
  <2>2. m \in Modes
    BY <1>3 DEF Modes
  <2>3. b.servo = a.servo
    BY <1>2 DEF AxisType
  <2> HIDE DEF a
  <2>4. /\ b \in AxisType /\ Quiet(b) /\ b.base = "none"
        /\ b.enabled = a.enabled /\ b.cw = a.cw /\ b.target = a.target
    BY <1>1, <1>2, <2>2, <2>3, Bounds DEF AxisType, Quiet, Modes
  <2> HIDE DEF b
  <2>5. Commanded(ax, b)
    BY <1>1, <2>2, <2>3, <2>4 DEF Commanded
  <2> QED BY <2>1, <2>4, <2>5, QuietCommand DEF b
<1>7. CASE SetMode
  <2>1. PICK m \in Modes :
           Do(LET q == [r EXCEPT !.mode = m]
              IN  IF m = "other" THEN q ELSE AtPos(q))
    BY <1>7 DEF SetMode
  <2> DEFINE q == [r EXCEPT !.mode = m]
  <2>2. q.servo = r.servo
    BY <1>2 DEF AxisType
  <2>3. /\ q \in AxisType /\ Quiet(q) /\ q.base = "none"
        /\ q.enabled = r.enabled /\ q.cw = r.cw /\ q.target = r.target
    <3> HIDE DEF r
    <3> QED BY <1>1, <1>2, Bounds DEF AxisType, Quiet
  <2>4. Do(q) \/ Do(AtPos(q))
    BY <2>1
  <2> HIDE DEF q
  <2>5. Commanded(ax, q)
    BY <1>1, <2>2, <2>3 DEF Commanded
  <2>6. Commanded(ax, AtPos(q)) /\ Quiet(AtPos(q)) /\ AtPos(q).base = "none"
    BY <2>3, <2>5, AtPosEffect DEF Commanded, Quiet
  <2> QED BY <2>3, <2>4, <2>5, <2>6, QuietCommand
<1>8. CASE Torque
  <2> DEFINE b == [r EXCEPT !.mode = "other"]
  <2>1. Do(b)
    BY <1>8 DEF Torque
  <2>2. b.servo = r.servo
    BY <1>2 DEF AxisType
  <2> HIDE DEF r
  <2>3. /\ b \in AxisType /\ Quiet(b) /\ b.base = "none"
        /\ b.enabled = r.enabled /\ b.cw = r.cw /\ b.target = r.target
    BY <1>1, <1>2, <2>2, Bounds DEF AxisType, Quiet, Modes
  <2> HIDE DEF b
  <2>4. Commanded(ax, b)
    BY <1>1, <2>2, <2>3 DEF Commanded
  <2> QED BY <2>1, <2>3, <2>4, QuietCommand
<1> QED BY <1>4, <1>5, <1>6, <1>7, <1>8
\* A stop needs the enable to decelerate; otherwise it holds.
LEMMA StopKeeps ==
  ASSUME AxisInv, Stop
  PROVE  AxisInv'
<1> DEFINE r == Stopped(ax)
           a == [r EXCEPT !.settle = 0]
           p == [a EXCEPT !.pulse = PulseCycles, !.target = "stepped"]
           d(v) == [a EXCEPT !.stopv = v]
<1>1. PICK v \in Speeds :
         Do(CASE ax.enabled /\ v > 0 /\ ax.pp  -> p
              [] ax.enabled /\ v > 0 /\ ~ax.pp -> d(v)
              [] ~(ax.enabled /\ v > 0)        -> IF ax.pp THEN AtPos(a) ELSE a)
  BY DEF Stop
<1>2. /\ r \in AxisType /\ Commanded(ax, r) /\ Quiet(r) /\ r.base = "none"
      /\ r.pp = ax.pp /\ ax \in AxisType
  BY ResetAxis DEF Commanded, AxisInv, Inv
<1>3. ax.enabled \in BOOLEAN /\ ax.pp \in BOOLEAN
  BY <1>2 DEF AxisType
<1> HIDE DEF r
<1>4. /\ a \in AxisType /\ Quiet(a) /\ a.base = "none" /\ a.settle = 0 /\ a.pp = r.pp
      /\ a.enabled = r.enabled /\ a.cw = r.cw /\ a.servo = r.servo
      /\ a.target = r.target
  BY <1>2, Bounds DEF AxisType, Quiet
<1> HIDE DEF a
<1>5. Commanded(ax, a)
  BY <1>2, <1>4 DEF Commanded
<1>6. CASE ax.enabled /\ v > 0 /\ ax.pp
  <2>1. /\ p \in AxisType /\ Exclusive(p) /\ p.settle = 0 /\ p.base = "none"
        /\ p.enabled = a.enabled /\ p.cw = a.cw /\ p.servo = a.servo
    BY <1>2, <1>4, <1>6, Bounds DEF AxisType, Quiet, Exclusive
  <2>2. Do(p)
    BY <1>1, <1>6
  <2> HIDE DEF p
  <2>3. Commanded(ax, p)
    BY <1>6, <1>5, <2>1 DEF Commanded
  <2> QED BY <1>6, <2>1, <2>2, <2>3, StartCommand
<1>7. CASE ax.enabled /\ v > 0 /\ ~ax.pp
  <2> DEFINE b == d(v)
  <2>1. /\ b \in AxisType /\ Exclusive(b) /\ b.settle = 0 /\ b.base = "none"
        /\ b.enabled = a.enabled /\ b.cw = a.cw /\ b.servo = a.servo
    BY <1>2, <1>4, <1>7, Bounds DEF AxisType, Quiet, Exclusive
  <2>2. Do(b)
    BY <1>1, <1>7
  <2> HIDE DEF b
  <2>3. Commanded(ax, b)
    BY <1>7, <1>5, <2>1 DEF Commanded
  <2> QED BY <1>7, <2>1, <2>2, <2>3, StartCommand
<1>8. CASE ~(ax.enabled /\ v > 0)
  <2>1. Do(a) \/ Do(AtPos(a))
    BY <1>1, <1>8
  <2>2. Commanded(ax, AtPos(a)) /\ Quiet(AtPos(a)) /\ AtPos(a).base = "none"
    BY <1>4, <1>5, AtPosEffect DEF Commanded, Quiet
  <2> QED BY <1>4, <1>5, <2>1, <2>2, QuietCommand
<1> QED BY <1>3, <1>6, <1>7, <1>8

\* A homing starts its search on an axis that nothing else moves.
LEMMA HomingStartKeeps ==
  ASSUME AxisInv, HomingStart
  PROVE  AxisInv'
<1> DEFINE a == AtPos(Stopped(ax))
           b == [a EXCEPT !.mode = "homing", !.homing = "search"]
<1>1. /\ a \in AxisType /\ Commanded(ax, a) /\ Quiet(a) /\ a.base = "none"
      /\ a.settle = 0 /\ ax.enabled
  BY ResetAxis DEF Commanded, HomingStart, ready_for_motion
<1>2. Do(b)
  BY DEF HomingStart
<1> HIDE DEF a
<1>3. b \in AxisType
  BY ZenonT(60), <1>1 DEF AxisType, Modes
<1>4. /\ Exclusive(b) /\ b.settle = 0 /\ b.base = "none"
      /\ b.enabled = a.enabled /\ b.cw = a.cw /\ b.servo = a.servo
  BY <1>1, Bounds DEF AxisType, Quiet, Exclusive
<1> HIDE DEF b
<1>5. Commanded(ax, b)
  BY <1>1, <1>3, <1>4 DEF Commanded
<1> QED BY <1>1, <1>2, <1>4, <1>5, StartCommand

\* The abort of a homing may be held as long as a motion after the homing was.
LEMMA HomingStopKeeps ==
  ASSUME AxisInv, HomingStop
  PROVE  AxisInv'
<1>1. ax \in AxisType /\ seen.down \in Nat
  BY Bounds DEF AxisInv, Inv, SeenType
<1>2. CASE ax.homing = "idle"
  <2>1. Do(AtPos(ax))
    BY <1>2 DEF HomingStop
  <2>2. Commanded(ax, AtPos(ax))
    BY <1>1, AtPosEffect DEF Commanded
  <2>3. /\ Exclusive(AtPos(ax)) /\ Settling(AtPos(ax))
        /\ Grace(AtPos(ax), seen.down)
    BY <1>1, AtPosEffect
    DEF AxisInv, Inv, Exclusive, Settling, Quiet, Grace, axis_motion_in_progress
  <2> QED BY <1>1, <2>1, <2>2, <2>3, AtPosEffect, CommandKeeps DEF AxisInv, Inv
<1>3. CASE ax.homing # "idle"
  <2>1. PICK v \in Speeds \ {0} : Do(abort_homing(ax, v))
    BY <1>3 DEF HomingStop
  <2> DEFINE b == abort_homing(ax, v)
  <2>2. /\ b \in AxisType /\ b.homing = "abort" /\ b.stopv = v
        /\ b.mode = ax.mode /\ b.motion = ax.motion /\ b.jog = ax.jog
        /\ b.pulse = ax.pulse /\ b.gear = ax.gear /\ b.base = ax.base
        /\ b.settle = ax.settle /\ b.pp = ax.pp /\ b.servo = ax.servo
        /\ b.enabled = ax.enabled /\ b.cw = ax.cw
        /\ b.unready = ax.unready /\ b.hUnready = ax.hUnready
        /\ b.target = ax.target
    BY <1>1 DEF AxisType, abort_homing
  <2> HIDE DEF b
  <2>3. Commanded(ax, b)
    BY <1>1, <2>2 DEF Commanded
  <2>4. ax.settle = 0
    BY <1>1, <1>3, Numbers DEF AxisInv, Inv, Settling, Quiet
  <2>5. Exclusive(b) /\ Settling(b)
    BY <1>3, <2>2, <2>4 DEF AxisInv, Inv, Exclusive, Settling
  <2>6. Grace(b, seen.down)
    BY <1>1, <1>3, <2>2, Numbers, Bounds DEF AxisInv, Inv, Grace
  <2> QED BY <2>1, <2>2, <2>3, <2>5, <2>6, CommandKeeps DEF AxisInv, Inv, b
<1> QED BY <1>2, <1>3
\* A gear starts without a base, on an axis that nothing else moves.
LEMMA GearStartKeeps ==
  ASSUME AxisInv, GearStart
  PROVE  AxisInv'
<1> DEFINE a == Stopped(ax)
           b == [a EXCEPT !.mode = "gear_cam", !.gear = TRUE]
<1>1. /\ a \in AxisType /\ Commanded(ax, a) /\ Quiet(a) /\ a.base = "none"
      /\ a.settle = 0 /\ ax.enabled
  BY ResetAxis DEF Commanded, GearStart, ready_for_motion
<1>2. Do(b)
  BY DEF GearStart
<1> HIDE DEF a
<1>3. b \in AxisType
  BY ZenonT(60), <1>1 DEF AxisType, Modes
<1>4. /\ Exclusive(b) /\ b.settle = 0 /\ b.base = "none"
      /\ b.enabled = a.enabled /\ b.cw = a.cw /\ b.servo = a.servo
  BY <1>1, Bounds DEF AxisType, Quiet, Exclusive
<1> HIDE DEF b
<1>5. Commanded(ax, b)
  BY <1>1, <1>3, <1>4 DEF Commanded
<1> QED BY <1>1, <1>2, <1>4, <1>5, StartCommand

\* gear_config leaves a running gear and a motion as they are.
LEMMA GearConfigKeeps ==
  ASSUME AxisInv, GearConfig
  PROVE  AxisInv'
<1>1. ax \in AxisType
  BY DEF AxisInv, Inv
<1>2. PICK n \in {ax.base, Exchanged(ax.base)} :
         Do([clear_homing(ax) EXCEPT !.mode = "gear_cam", !.base = n])
  BY DEF GearConfig
<1>3. n \in Bases /\ (n # "none" => ax.base # "none")
  BY <1>1 DEF AxisType, Bases, Exchanged
<1> DEFINE c == clear_homing(ax)
           b == [c EXCEPT !.mode = "gear_cam", !.base = n]
<1>4. /\ c \in AxisType
      /\ c.homing = "idle" /\ c.stopv = ax.stopv
      /\ c.motion = ax.motion /\ c.jog = ax.jog /\ c.pulse = ax.pulse
      /\ c.gear = ax.gear /\ c.settle = ax.settle
      /\ c.pp = ax.pp /\ c.servo = ax.servo /\ c.enabled = ax.enabled
      /\ c.cw = ax.cw /\ c.unready = ax.unready /\ c.target = ax.target
  <2>1. c \in AxisType
    BY <1>1, ClearHoming
  <2> QED BY <1>1, <2>1 DEF AxisType, clear_homing
<1>5. Do(b)
  BY <1>2
<1> HIDE DEF c
<1>6. b \in AxisType
  BY <1>3, <1>4 DEF AxisType, Modes
<1>7. /\ b.homing = "idle" /\ b.stopv = ax.stopv /\ b.mode = "gear_cam"
      /\ b.motion = ax.motion /\ b.jog = ax.jog /\ b.pulse = ax.pulse
      /\ b.gear = ax.gear /\ b.base = n /\ b.settle = ax.settle
      /\ b.pp = ax.pp /\ b.servo = ax.servo /\ b.enabled = ax.enabled
      /\ b.cw = ax.cw /\ b.unready = ax.unready /\ b.target = ax.target
  BY <1>4 DEF AxisType
<1> HIDE DEF b
<1>8. Commanded(ax, b)
  BY <1>6, <1>7 DEF Commanded
<1>9. Exclusive(b) /\ Settling(b) /\ Grace(b, seen.down)
  BY <1>7 DEF AxisInv, Inv, Exclusive, Settling, Quiet, Grace,
              axis_motion_in_progress
<1>10. b.base # "none" => ax.base # "none" /\ b.gear
  BY <1>3, <1>7 DEF AxisInv, Inv
<1> QED BY <1>5, <1>8, <1>9, <1>10, CommandKeeps

\* gear_stop leaves a motion, a stop or a jog as it is.
LEMMA GearStopKeeps ==
  ASSUME AxisInv, GearStop
  PROVE  AxisInv'
<1> DEFINE a == [GearOff(clear_homing(ax)) EXCEPT !.pulse = 0]
           b == AtPos(a)
<1>1. ax \in AxisType
  BY DEF AxisInv, Inv
<1>2. a \in AxisType
  <2>1. GearOff(clear_homing(ax)) \in AxisType
    BY <1>1, ClearHoming, GearOffType
  <2> QED BY <2>1, Bounds DEF AxisType
<1>3. /\ a.homing = "idle" /\ a.stopv = ax.stopv /\ a.mode = ax.mode
      /\ a.motion = ax.motion /\ a.jog = ax.jog /\ a.pulse = 0
      /\ ~a.gear /\ a.base = "none" /\ a.settle = ax.settle
      /\ a.pp = ax.pp /\ a.servo = ax.servo /\ a.enabled = ax.enabled
      /\ a.cw = ax.cw /\ a.unready = ax.unready
  BY <1>1 DEF AxisType, clear_homing, GearOff
<1>4. Do(b)
  BY DEF GearStop
<1> HIDE DEF a
<1>5. Commanded(ax, b) /\ b.base = "none"
  BY <1>2, <1>3, AtPosEffect DEF Commanded
<1>6. Exclusive(a) /\ Settling(a) /\ Grace(a, seen.down)
  BY <1>3 DEF AxisInv, Inv, Exclusive, Settling, Quiet, Grace,
              axis_motion_in_progress
<1>7. Exclusive(b) /\ Settling(b) /\ Grace(b, seen.down)
  BY <1>2, <1>6, AtPosEffect
  DEF Exclusive, Settling, Quiet, Grace, axis_motion_in_progress
<1> HIDE DEF b
<1> QED BY <1>4, <1>5, <1>7, CommandKeeps

\* move_abs and move_rel: a profile of the CSP axis, a trigger of the PP axis.
LEMMA MoveKeeps ==
  ASSUME AxisInv, Move
  PROVE  AxisInv'
<1> DEFINE r == Stopped(ax)
           a == [r EXCEPT !.mode = "other"]
           p == [a EXCEPT !.pulse = PulseCycles, !.target = "stepped"]
           m(kind) == [AtPos(a) EXCEPT !.motion = kind]
<1>1. /\ r \in AxisType /\ Commanded(ax, r) /\ Quiet(r) /\ r.base = "none"
      /\ r.settle = 0 /\ ax.enabled /\ r.pp = ax.pp
  BY ResetAxis DEF Commanded, Move, ready_for_motion
<1>2. IF ax.pp THEN Do(p)
      ELSE \E kind \in {"profile", "timed"} : Do(m(kind))
  BY DEF Move
<1> HIDE DEF r
<1>3. a \in AxisType
  BY <1>1 DEF AxisType, Modes
<1>4. /\ Quiet(a) /\ a.base = "none" /\ a.settle = 0 /\ a.pp = r.pp
      /\ a.enabled = r.enabled /\ a.cw = r.cw /\ a.servo = r.servo
  BY <1>1 DEF AxisType, Quiet
<1> HIDE DEF a
<1>5. Commanded(ax, a)
  BY <1>1, <1>3, <1>4 DEF Commanded
<1>6. CASE ax.pp
  <2>1. /\ p \in AxisType /\ Exclusive(p) /\ p.settle = 0 /\ p.base = "none"
        /\ p.enabled = a.enabled /\ p.cw = a.cw /\ p.servo = a.servo
    BY <1>1, <1>3, <1>4, <1>6, Bounds DEF AxisType, Quiet, Exclusive
  <2>2. Do(p)
    BY <1>2, <1>6
  <2> HIDE DEF p
  <2>3. Commanded(ax, p)
    BY <1>1, <1>5, <2>1 DEF Commanded
  <2> QED BY <1>1, <2>1, <2>2, <2>3, StartCommand
<1>7. CASE ~ax.pp
  <2>1. PICK kind \in {"profile", "timed"} : Do(m(kind))
    BY <1>2, <1>7
  <2> DEFINE q == AtPos(a)
             b == [q EXCEPT !.motion = kind]
  <2>2. /\ q \in AxisType /\ Commanded(ax, q) /\ Quiet(q) /\ q.base = "none"
        /\ q.settle = 0
    BY <1>3, <1>4, <1>5, AtPosEffect DEF Commanded, Quiet
  <2>3. Do(b)
    BY <2>1
  <2> HIDE DEF q
  <2>4. /\ b \in AxisType /\ Exclusive(b) /\ b.settle = 0 /\ b.base = "none"
        /\ b.enabled = q.enabled /\ b.cw = q.cw /\ b.servo = q.servo
    BY <2>2, Bounds DEF AxisType, Quiet, Exclusive
  <2> HIDE DEF b
  <2>5. Commanded(ax, b)
    BY <1>1, <2>2, <2>4 DEF Commanded
  <2> QED BY <1>1, <2>3, <2>4, <2>5, StartCommand
<1> QED BY <1>6, <1>7

\* A curve is timed; one that is refused starts nothing.
LEMMA MoveCurveKeeps ==
  ASSUME AxisInv, MoveCurve
  PROVE  AxisInv'
<1>1. PICK kind \in {"none", "timed"} :
         Do([AtPos(Stopped(ax)) EXCEPT !.mode = "other", !.motion = kind])
  BY DEF MoveCurve
<1> DEFINE a == AtPos(Stopped(ax))
           b == [a EXCEPT !.mode = "other", !.motion = kind]
<1>2. /\ a \in AxisType /\ Commanded(ax, a) /\ Quiet(a) /\ a.base = "none"
      /\ a.settle = 0 /\ ax.enabled
  BY ResetAxis DEF Commanded, MoveCurve, ready_for_motion
<1>3. Do(b)
  BY <1>1
<1> HIDE DEF a
<1>4. b \in AxisType
  <2>1. kind \in {"none", "profile", "timed"} /\ "other" \in Modes
    BY DEF Modes
  <2> QED BY ZenonT(60), <1>2, <2>1 DEF AxisType
<1>5. /\ Exclusive(b) /\ b.settle = 0 /\ b.base = "none"
      /\ b.enabled = a.enabled /\ b.cw = a.cw /\ b.servo = a.servo
  BY <1>2, Bounds DEF AxisType, Quiet, Exclusive
<1> HIDE DEF b
<1>6. Commanded(ax, b)
  BY <1>2, <1>4, <1>5 DEF Commanded
<1> QED BY <1>2, <1>3, <1>5, <1>6, StartCommand

\* A jog starts or ends on an axis that nothing else moves.
LEMMA JogKeeps ==
  ASSUME AxisInv, Jog
  PROVE  AxisInv'
<1>1. PICK on \in BOOLEAN :
         Do([Stopped(ax) EXCEPT !.mode = "other", !.jog = on])
  BY DEF Jog
<1> DEFINE a == Stopped(ax)
           b == [a EXCEPT !.mode = "other", !.jog = on]
<1>2. /\ a \in AxisType /\ Commanded(ax, a) /\ Quiet(a) /\ a.base = "none"
      /\ a.settle = 0 /\ ax.enabled
  BY ResetAxis DEF Commanded, Jog, ready_for_motion
<1>3. Do(b)
  BY <1>1
<1> HIDE DEF a
<1>4. b \in AxisType
  <2>1. [a EXCEPT !.mode = "other", !.jog = TRUE] \in AxisType
    BY ZenonT(60), <1>2 DEF AxisType, Modes
  <2>2. [a EXCEPT !.mode = "other", !.jog = FALSE] \in AxisType
    BY ZenonT(60), <1>2 DEF AxisType, Modes
  <2>3. on = TRUE \/ on = FALSE
    OBVIOUS
  <2> QED BY <2>1, <2>2, <2>3
<1>5. /\ Exclusive(b) /\ b.settle = 0 /\ b.base = "none"
      /\ b.enabled = a.enabled /\ b.cw = a.cw /\ b.servo = a.servo
  BY <1>2, Bounds DEF AxisType, Quiet, Exclusive
<1> HIDE DEF b
<1>6. Commanded(ax, b)
  BY <1>2, <1>4, <1>5 DEF Commanded
<1> QED BY <1>2, <1>3, <1>5, <1>6, StartCommand

\* No command breaks the invariant.
LEMMA CommandsKeep ==
  ASSUME AxisInv, Command
  PROVE  AxisInv'
  BY EnableKeeps, QuietCommandsKeep, StopKeeps, HomingStartKeeps,
     HomingStopKeeps, GearConfigKeeps, GearStartKeeps, GearStopKeeps,
     MoveKeeps, MoveCurveKeeps, JogKeeps
  DEF Command
-----------------------------------------------------------------------------
(* The homing and the branches of the cycle.                               *)

\* An axis whose homing runs, and what update_homing makes of it.
HomingAxis(a) ==
    /\ a \in AxisType
    /\ a.mode = "homing" /\ a.homing # "idle" /\ a.settle = 0
    /\ a.motion = "none" /\ ~a.jog /\ a.pulse = 0 /\ ~a.gear /\ a.base = "none"
    /\ a.stopv > 0 => a.homing = "abort"

HomingResult(a, b) ==
    /\ b \in AxisType
    /\ b.pp = a.pp /\ b.servo = a.servo /\ b.enabled = a.enabled
    /\ b.mode = a.mode /\ b.settle = 0
    /\ b.motion = "none" /\ ~b.jog /\ b.pulse = 0 /\ ~b.gear /\ b.base = "none"
    /\ b.homing # "idle" => (b.stopv > 0 => b.homing = "abort")
    /\ ~a.enabled => /\ a.stopv = 0 => b.stopv = 0
                     /\ b.target = "pos"
                     /\ b.homing # "idle" => b.hUnready = a.hUnready + 1

\* The fields that a step of the homing leaves alone.
SameRest(a, b) ==
    /\ b.pp = a.pp /\ b.servo = a.servo /\ b.enabled = a.enabled
    /\ b.mode = a.mode /\ b.settle = a.settle /\ b.motion = a.motion
    /\ b.jog = a.jog /\ b.pulse = a.pulse /\ b.gear = a.gear /\ b.base = a.base

\* A homing is held, or cancelled when it was held for the glitch time.
LEMMA HomingHeldResult ==
  ASSUME NEW a, HomingAxis(a)
  PROVE  HomingResult(a, HomingHeld(a))
<1>1. a \in AxisType
  BY DEF HomingAxis
<1>2. CASE a.hUnready < GlitchCycles
  <2> DEFINE b == [a EXCEPT !.hUnready = @ + 1]
  <2>1. a.hUnready + 1 \in 0..GlitchCycles
    BY <1>1, <1>2, Numbers, Bounds
  <2>2. b \in AxisType
    BY <1>1, <2>1 DEF AxisType
  <2>3. SameRest(a, b) /\ b.stopv = a.stopv /\ b.homing = a.homing
        /\ b.hUnready = a.hUnready + 1
    BY <1>1 DEF AxisType, SameRest
  <2>4. HomingHeld(a) = AtPos(b)
    BY <1>2 DEF HomingHeld
  <2> HIDE DEF b
  <2> QED BY <2>2, <2>3, <2>4, AtPosEffect DEF HomingAxis, HomingResult, SameRest
<1>3. CASE ~(a.hUnready < GlitchCycles)
  <2> DEFINE b == [clear_homing(a) EXCEPT !.stopv = 0, !.jog = FALSE]
  <2>1. b \in AxisType
    <3>1. clear_homing(a) \in AxisType
      BY <1>1, ClearHoming
    <3> QED BY <3>1, Bounds DEF AxisType
  <2>2. /\ b.pp = a.pp /\ b.servo = a.servo /\ b.enabled = a.enabled
        /\ b.mode = a.mode /\ b.settle = a.settle /\ b.motion = a.motion
        /\ ~b.jog /\ b.pulse = a.pulse /\ b.gear = a.gear
        /\ b.base = a.base /\ b.stopv = 0 /\ b.homing = "idle"
    BY <1>1 DEF AxisType, clear_homing
  <2>3. HomingHeld(a) = AtPos(b)
    BY <1>3 DEF HomingHeld, cancel_homing
  <2> HIDE DEF b
  <2> QED BY <2>1, <2>2, <2>3, AtPosEffect DEF HomingAxis, HomingResult, SameRest
<1> QED BY <1>2, <1>3

\* The search: the four states it can leave the axis in.
LEMMA SearchResult ==
  ASSUME NEW a, HomingAxis(a), a.homing = "search", a.enabled,
         NEW b \in Search(a)
  PROVE  HomingResult(a, b)
<1>1. a \in AxisType /\ a.stopv = 0
  BY Numbers DEF HomingAxis
<1> DEFINE off == [a EXCEPT !.homing = "backoff", !.stopv = 0]
           ended == [clear_homing(a) EXCEPT !.stopv = 0]
           decel(v) == [abort_homing(a, v) EXCEPT !.stopv = v - 1,
                                                  !.target = "stepped"]
<1>2. CASE b = [a EXCEPT !.target = "stepped"]
  <2>1. b \in AxisType
    BY <1>1, <1>2 DEF AxisType
  <2>2. SameRest(a, b) /\ b.stopv = a.stopv /\ b.homing = a.homing
    BY <1>1, <1>2 DEF AxisType, SameRest
  <2> QED BY <2>1, <2>2 DEF HomingAxis, HomingResult, SameRest
<1>3. CASE b = AtPos(off)
  <2>1. off \in AxisType
    BY ZenonT(60), <1>1, Bounds DEF AxisType
  <2>2. SameRest(a, off) /\ off.stopv = 0
    BY <1>1 DEF AxisType, SameRest
  <2> HIDE DEF off
  <2>3. /\ b \in AxisType /\ SameRest(off, b) /\ b.stopv = off.stopv
    BY <1>3, <2>1, AtPosEffect DEF SameRest
  <2>4. ~(b.stopv > 0)
    BY <2>2, <2>3
  <2> QED BY <2>2, <2>3, <2>4 DEF HomingAxis, HomingResult, SameRest
<1>4. CASE b = AtPos(ended)
  <2>1. ended \in AxisType
    <3>1. clear_homing(a) \in AxisType
      BY <1>1, ClearHoming
    <3> QED BY <3>1, Bounds DEF AxisType
  <2>2. SameRest(a, ended) /\ ended.stopv = 0 /\ ended.homing = "idle"
    BY <1>1 DEF AxisType, clear_homing, SameRest
  <2> HIDE DEF ended
  <2> QED BY ZenonT(60), <1>4, <2>1, <2>2, AtPosEffect DEF HomingAxis, HomingResult, SameRest
<1>5. ASSUME NEW v \in Speeds \ {0}, b = decel(v)
      PROVE  HomingResult(a, b)
  <2>1. v - 1 \in Speeds
    BY CycleAssumption DEF Speeds
  <2>2. b \in AxisType
    BY ZenonT(60), <1>1, <1>5, <2>1 DEF AxisType, abort_homing
  <2>3. SameRest(a, b) /\ b.homing = "abort"
    BY <1>1, <1>5 DEF AxisType, abort_homing, SameRest
  <2> QED BY <2>2, <2>3 DEF HomingAxis, HomingResult, SameRest
<1> QED BY <1>2, <1>3, <1>4, <1>5 DEF Search

\* A backoff goes on or ends.
LEMMA BackoffResult ==
  ASSUME NEW a, HomingAxis(a), a.homing = "backoff", a.enabled,
         NEW b \in Backoff(a)
  PROVE  HomingResult(a, b)
<1>1. a \in AxisType /\ a.stopv = 0
  BY Numbers DEF HomingAxis
<1>2. CASE b = [a EXCEPT !.target = "stepped"]
  <2>1. b \in AxisType
    BY <1>1, <1>2 DEF AxisType
  <2>2. SameRest(a, b) /\ b.stopv = a.stopv /\ b.homing = a.homing
    BY <1>1, <1>2 DEF AxisType, SameRest
  <2> QED BY <2>1, <2>2 DEF HomingAxis, HomingResult, SameRest
<1>3. CASE b = [clear_homing(a) EXCEPT !.target = "held"]
  <2>1. b \in AxisType
    <3>1. clear_homing(a) \in AxisType
      BY <1>1, ClearHoming
    <3> QED BY <1>3, <3>1 DEF AxisType
  <2>2. SameRest(a, b) /\ b.stopv = a.stopv /\ b.homing = "idle"
    BY <1>1, <1>3 DEF AxisType, clear_homing, SameRest
  <2> QED BY <1>1, <2>1, <2>2 DEF HomingAxis, HomingResult, SameRest
<1> QED BY <1>2, <1>3 DEF Backoff

\* The deceleration of an aborted homing goes on or ends.
LEMMA AbortDecelResult ==
  ASSUME NEW a, HomingAxis(a), a.homing = "abort", a.enabled,
         NEW b \in AbortDecel(a)
  PROVE  HomingResult(a, b)
<1>1. a \in AxisType
  BY DEF HomingAxis
<1>2. CASE a.stopv > 0
  <2>1. b = [a EXCEPT !.stopv = @ - 1, !.target = "stepped"]
    BY <1>2 DEF AbortDecel
  <2>2. a.stopv - 1 \in Speeds
    BY <1>1, <1>2, CycleAssumption DEF Speeds, AxisType
  <2>3. b \in AxisType
    BY <1>1, <2>1, <2>2 DEF AxisType
  <2>4. SameRest(a, b) /\ b.homing = a.homing
    BY <1>1, <2>1 DEF AxisType, SameRest
  <2> QED BY <2>3, <2>4 DEF HomingAxis, HomingResult, SameRest
<1>3. CASE ~(a.stopv > 0)
  <2> DEFINE c == clear_homing(a)
  <2>1. b = AtPos(c)
    BY <1>3 DEF AbortDecel
  <2>2. c \in AxisType
    BY <1>1, ClearHoming
  <2>3. SameRest(a, c) /\ c.stopv = a.stopv /\ c.homing = "idle"
    BY <1>1 DEF AxisType, clear_homing, SameRest
  <2> HIDE DEF c
  <2> QED BY ZenonT(60), <2>1, <2>2, <2>3, AtPosEffect DEF HomingAxis, HomingResult, SameRest
<1> QED BY <1>2, <1>3

\* Whatever the drive reports, update_homing leaves the axis to the homing or
\* to nothing.
LEMMA UpdateHoming ==
  ASSUME NEW a, HomingAxis(a), NEW in \in Inputs, NEW b \in update_homing(a, in)
  PROVE  HomingResult(a, b)
<1> DEFINE lost == ~a.servo \/ a.fault \/ ~in.wc \/ ~a.enabled \/ a.settle > 0
           c == [a EXCEPT !.hUnready = 0]
<1>1. CASE lost
  BY <1>1, HomingHeldResult DEF update_homing
<1>2. CASE ~lost
  <2>1. a \in AxisType /\ a.enabled
    BY <1>2 DEF HomingAxis
  <2>2. c \in AxisType
    BY <2>1, Bounds DEF AxisType
  <2>3. SameRest(a, c) /\ c.stopv = a.stopv /\ c.homing = a.homing
    BY <2>1 DEF AxisType, SameRest
  <2>4. b \in CASE c.homing = "search"  -> Search(c)
                [] c.homing = "backoff" -> Backoff(c)
                [] c.homing = "abort"   -> AbortDecel(c)
    BY <1>2 DEF update_homing
  <2> HIDE DEF c
  <2>5. HomingAxis(c) /\ c.enabled
    BY <2>1, <2>2, <2>3 DEF HomingAxis, SameRest
  <2>6. c.homing \in {"search", "backoff", "abort"}
    BY <2>5 DEF HomingAxis, AxisType
  <2>7. HomingResult(c, b)
    BY <2>4, <2>5, <2>6, SearchResult, BackoffResult, AbortDecelResult
  <2> QED BY <2>1, <2>3, <2>7 DEF HomingResult, SameRest
<1> QED BY <1>1, <1>2
\* An axis as a branch of the cycle finds it.
Sound(a) ==
    a \in AxisType /\ Exclusive(a) /\ Settling(a) /\ (a.base # "none" => a.gear)

\* What is still held of a when the servo is not enabled.
Held(a, b) ==
    /\ b.homing # "idle" => a.homing # "idle" /\ b.hUnready = a.hUnready + 1
    /\ axis_motion_in_progress(b) =>
          axis_motion_in_progress(a) /\ b.unready = a.unready + 1
    /\ ~axis_motion_in_progress(b) => b.target = "pos"

\* What every branch makes of the axis.
Branched(a, in, b) ==
    /\ b \in AxisType
    /\ b.pp = a.pp /\ b.servo = a.servo /\ b.enabled = a.enabled
    /\ Exclusive(b) /\ Settling(b)
    /\ a.servo /\ ~a.enabled => Held(a, b)
    /\ b.base # "none" => b.gear /\ Samples(a, in)
    /\ b.base # "other"
    /\ Standing(a) => b.target # "stepped"
    /\ b.pulse > 0 => a.pulse > 0 /\ a.servo

\* The fields that neither the settling nor a lost master of a gear changes.
SameMotion(a, b) ==
    /\ b.pp = a.pp /\ b.servo = a.servo /\ b.enabled = a.enabled
    /\ b.mode = a.mode /\ b.motion = a.motion /\ b.unready = a.unready
    /\ b.stopv = a.stopv /\ b.jog = a.jog /\ b.pulse = a.pulse
    /\ b.homing = a.homing /\ b.hUnready = a.hUnready

\* A settling axis counts down; nothing else changes.
LEMMA SettledEffect ==
  ASSUME NEW a \in AxisType
  PROVE  /\ Settled(a) \in AxisType /\ SameMotion(a, Settled(a))
         /\ Settled(a).gear = a.gear /\ Settled(a).base = a.base
         /\ Settled(a).target = a.target
         /\ Settled(a).settle > 0 => a.settle > 0
<1> DEFINE n == IF a.enabled /\ a.settle > 0 THEN a.settle - 1 ELSE a.settle
<1>1. n \in 0..SettleCycles /\ (n > 0 => a.settle > 0)
  BY Numbers, CycleAssumption
<1>2. Settled(a) = [a EXCEPT !.settle = n]
  BY DEF Settled, AxisType
<1> HIDE DEF n
<1>3. Settled(a) \in AxisType
  BY <1>1, <1>2 DEF AxisType
<1>4. Settled(a).settle = n
  BY <1>2 DEF AxisType
<1>5. SameMotion(a, Settled(a)) /\ Settled(a).gear = a.gear
      /\ Settled(a).base = a.base /\ Settled(a).target = a.target
  BY <1>2 DEF AxisType, SameMotion
<1> QED BY <1>1, <1>3, <1>4, <1>5

\* A held gear loses its base, and is dropped outside its mode.
LEMMA GearHeldEffect ==
  ASSUME NEW a \in AxisType
  PROVE  /\ GearHeld(a) \in AxisType /\ SameMotion(a, GearHeld(a))
         /\ GearHeld(a).settle = a.settle /\ GearHeld(a).base = "none"
         /\ GearHeld(a).gear = KeepGear(a)
<1> DEFINE k == KeepGear(a)
<1>1. k \in BOOLEAN
  BY DEF KeepGear, AxisType
<1>2. GearHeld(a) = [a EXCEPT !.gear = k, !.base = "none"]
  BY DEF GearHeld
<1> HIDE DEF k
<1>3. CASE k = TRUE
  BY ZenonT(60), <1>2, <1>3 DEF AxisType, Bases, SameMotion, k
<1>4. CASE k = FALSE
  BY ZenonT(60), <1>2, <1>4 DEF AxisType, Bases, SameMotion, k
<1> QED BY <1>1, <1>3, <1>4
\* What a cancelled motion leaves of an axis.
LEMMA CancelMotionEffect ==
  ASSUME NEW a \in AxisType
  PROVE  LET b == cancel_axis_motion(a) IN
         /\ b \in AxisType
         /\ b.pp = a.pp /\ b.servo = a.servo /\ b.enabled = a.enabled
         /\ b.mode = a.mode /\ b.homing = a.homing /\ b.gear = a.gear
         /\ b.base = a.base /\ b.settle = a.settle
         /\ b.motion = "none" /\ b.stopv = 0 /\ ~b.jog /\ b.pulse = 0
         /\ b.target = "pos"
<1> DEFINE c == [clear_motion(a) EXCEPT !.stopv = 0, !.jog = FALSE,
                                        !.pulse = 0, !.hold = 0]
<1>1. c \in AxisType
  <2>1. clear_motion(a) \in AxisType
    BY ClearMotion
  <2> QED BY <2>1, Bounds DEF AxisType
<1>2. /\ c.pp = a.pp /\ c.servo = a.servo /\ c.enabled = a.enabled
      /\ c.mode = a.mode /\ c.homing = a.homing /\ c.gear = a.gear
      /\ c.base = a.base /\ c.settle = a.settle
      /\ c.motion = "none" /\ c.stopv = 0 /\ ~c.jog /\ c.pulse = 0
  BY DEF AxisType, clear_motion
<1>3. cancel_axis_motion(a) = AtPos(c)
  BY DEF cancel_axis_motion
<1> HIDE DEF c
<1> QED BY <1>1, <1>2, <1>3, AtPosEffect

\* A motion is held for the glitch time, then cancelled.
LEMMA MotionHeldBranch ==
  ASSUME NEW a, Sound(a), NEW in, ~HomingRuns(a), axis_motion_in_progress(a),
         a.servo
  PROVE  Branched(a, in, MotionHeld(GearHeld(a)))
<1> DEFINE g == GearHeld(a)
           m == Settled(g)
<1>1. a \in AxisType /\ a.unready = g.unready
  BY GearHeldEffect DEF Sound, SameMotion
<1>2. /\ m \in AxisType /\ SameMotion(a, m) /\ m.base = "none"
      /\ m.gear = KeepGear(a) /\ (m.settle > 0 => a.settle > 0)
  <2>1. /\ g \in AxisType /\ SameMotion(a, g) /\ g.base = "none"
        /\ g.gear = KeepGear(a) /\ g.settle = a.settle
    BY <1>1, GearHeldEffect
  <2> HIDE DEF g
  <2>2. /\ m \in AxisType /\ SameMotion(g, m) /\ m.base = g.base
        /\ m.gear = g.gear /\ (m.settle > 0 => g.settle > 0)
    BY <2>1, SettledEffect
  <2> QED BY <2>1, <2>2 DEF SameMotion
<1>3. ~(a.settle > 0) /\ a.homing = "idle" /\ ~a.gear
  BY <1>1, Numbers
  DEF Sound, Settling, Quiet, Exclusive, HomingRuns, axis_motion_in_progress
<1>4. ~m.gear
  BY <1>2, <1>3 DEF KeepGear
<1>5. CASE a.unready < GlitchCycles
  <2> HIDE DEF g
  <2> DEFINE b == [m EXCEPT !.unready = @ + 1, !.target = "held"]
  <2>1. MotionHeld(g) = b
    BY <1>1, <1>5 DEF MotionHeld
  <2> HIDE DEF m
  <2>2. m.unready + 1 \in 0..GlitchCycles /\ m.unready = a.unready
    BY <1>1, <1>2, <1>5, Numbers, Bounds DEF SameMotion
  <2>3. b \in AxisType
    BY <1>2, <2>2 DEF AxisType
  <2>4. /\ b.pp = m.pp /\ b.servo = m.servo /\ b.enabled = m.enabled
        /\ b.mode = m.mode /\ b.motion = m.motion /\ b.stopv = m.stopv
        /\ b.jog = m.jog /\ b.pulse = m.pulse /\ b.homing = m.homing
        /\ b.gear = m.gear /\ b.base = m.base /\ b.settle = m.settle
        /\ b.unready = m.unready + 1 /\ b.target = "held"
    BY <1>2 DEF AxisType
  <2> HIDE DEF b
  <2>5. Exclusive(b) /\ Settling(b)
    BY <1>2, <1>3, <1>4, <2>4 DEF Sound, Exclusive, Settling, SameMotion
  <2>6. Held(a, b)
    BY <1>2, <1>3, <2>4 DEF Held, SameMotion, axis_motion_in_progress
  <2> QED BY <1>2, <2>1, <2>3, <2>4, <2>5, <2>6 DEF Branched, SameMotion, g
<1>6. CASE ~(a.unready < GlitchCycles)
  <2> HIDE DEF g
  <2> DEFINE b == cancel_axis_motion(m)
  <2>1. MotionHeld(g) = b
    BY <1>1, <1>6 DEF MotionHeld
  <2> HIDE DEF m
  <2>2. /\ b \in AxisType
        /\ b.pp = m.pp /\ b.servo = m.servo /\ b.enabled = m.enabled
        /\ b.mode = m.mode /\ b.homing = m.homing /\ b.gear = m.gear
        /\ b.base = m.base /\ b.settle = m.settle
        /\ b.motion = "none" /\ b.stopv = 0 /\ ~b.jog /\ b.pulse = 0
        /\ b.target = "pos"
    BY <1>2, CancelMotionEffect
  <2> HIDE DEF b
  <2>3. Exclusive(b) /\ Settling(b) /\ Held(a, b) /\ ~(b.pulse > 0)
    BY <1>2, <1>3, <1>4, <2>2
    DEF Exclusive, Settling, Held, SameMotion, axis_motion_in_progress
  <2> QED BY <1>2, <2>1, <2>2, <2>3 DEF Branched, SameMotion, g
<1> QED BY <1>5, <1>6

\* A homing is held likewise, whatever else moved the target is forgotten.
LEMMA HomingHeldBranch ==
  ASSUME NEW a, Sound(a), NEW in \in Inputs, HomingRuns(a), a.servo,
         NEW b \in NotReady(a, in)
  PROVE  Branched(a, in, b)
<1> DEFINE g == GearHeld(a)
           k == [clear_motion(g) EXCEPT !.stopv = 0, !.jog = FALSE, !.pulse = 0,
                                        !.hold = 0, !.target = "pos"]
           m == Settled(k)
<1>1. /\ a \in AxisType /\ a.mode = "homing" /\ a.homing # "idle"
      /\ a.settle = 0
  BY Numbers DEF Sound, HomingRuns, Settling, Quiet
<1>2. b \in update_homing(m, in)
  BY DEF NotReady
<1>3. /\ g \in AxisType /\ SameMotion(a, g) /\ g.settle = 0 /\ g.base = "none"
      /\ g.gear = KeepGear(a)
  BY <1>1, GearHeldEffect
<1> HIDE DEF g
<1>4. k \in AxisType
  <2>1. clear_motion(g) \in AxisType
    BY <1>3, ClearMotion
  <2> QED BY <2>1, Bounds DEF AxisType
<1>5. /\ k.pp = g.pp /\ k.servo = g.servo /\ k.enabled = g.enabled
      /\ k.mode = g.mode /\ k.homing = g.homing /\ k.hUnready = g.hUnready
      /\ k.settle = g.settle /\ k.gear = g.gear /\ k.base = g.base
      /\ k.motion = "none" /\ k.stopv = 0 /\ ~k.jog /\ k.pulse = 0
  BY <1>3 DEF AxisType, clear_motion
<1> HIDE DEF k
<1>6. HomingAxis(m) /\ m.stopv = 0 /\ SameMotion(k, m)
  <2>1. m \in AxisType /\ SameMotion(k, m) /\ m.gear = k.gear /\ m.base = k.base
        /\ ~(m.settle > 0)
    BY <1>3, <1>4, <1>5, SettledEffect, Numbers
  <2> HIDE DEF m
  <2>2. m.settle = 0 /\ m.stopv = 0 /\ ~(m.stopv > 0)
    BY <1>5, <2>1, Numbers DEF SameMotion
  <2> QED BY ZenonT(60), <1>1, <1>3, <1>5, <2>1, <2>2 DEF HomingAxis, SameMotion, KeepGear
<1> HIDE DEF m
<1>7. HomingResult(m, b)
  BY <1>2, <1>6, UpdateHoming
<1>8. /\ b.pp = a.pp /\ b.servo = a.servo /\ b.enabled = a.enabled
      /\ b.mode = a.mode /\ m.hUnready = a.hUnready /\ m.enabled = a.enabled
  BY <1>3, <1>5, <1>6, <1>7 DEF SameMotion, HomingResult
<1>9. /\ ~(b.pulse > 0) /\ ~(b.settle > 0)
      /\ m.stopv = 0 /\ ~a.enabled => ~(b.stopv > 0)
  BY <1>7, <1>8 DEF HomingResult
<1>10. Exclusive(b) /\ Settling(b) /\ ~Standing(a)
  BY <1>1, <1>7, <1>8, <1>9
  DEF Exclusive, Settling, Standing, HomingResult
<1>11. ~a.enabled => Held(a, b)
  BY <1>1, <1>6, <1>7, <1>8, <1>9 DEF Held, HomingResult, axis_motion_in_progress
<1> QED BY <1>7, <1>8, <1>9, <1>10, <1>11 DEF Branched, HomingResult
\* Nothing was going on: the axis follows the measured position; a gear stays.
LEMMA IdleHeldBranch ==
  ASSUME NEW a, Sound(a), NEW in, ~HomingRuns(a),
         ~axis_motion_in_progress(a), a.servo, ~a.enabled \/ a.settle > 0,
         NEW b \in NotReady(a, in)
  PROVE  Branched(a, in, b)
<1> DEFINE g == GearHeld(a)
           k == [g EXCEPT !.stopv = 0, !.jog = FALSE, !.pulse = 0, !.hold = 0]
           h == clear_homing(clear_motion(k))
           m == Settled(h)
<1>1. a \in AxisType
  BY DEF Sound
<1>2. b = AtPos(m)
  BY DEF NotReady
<1>3. /\ g \in AxisType /\ SameMotion(a, g) /\ g.settle = a.settle /\ g.base = "none"
      /\ g.gear = KeepGear(a)
  BY <1>1, GearHeldEffect
<1> HIDE DEF g
<1>4. k \in AxisType
  BY <1>3, Bounds DEF AxisType
<1>5. /\ k.pp = g.pp /\ k.servo = g.servo /\ k.enabled = g.enabled
      /\ k.mode = g.mode /\ k.settle = g.settle /\ k.gear = g.gear
      /\ k.base = g.base /\ k.stopv = 0 /\ ~k.jog /\ k.pulse = 0
  BY <1>3 DEF AxisType
<1> HIDE DEF k
<1>6. h \in AxisType
  BY <1>4, ClearMotion, ClearHoming
<1>7. /\ h.pp = g.pp /\ h.servo = g.servo /\ h.enabled = g.enabled
      /\ h.mode = g.mode /\ h.settle = g.settle /\ h.gear = g.gear
      /\ h.base = g.base /\ h.stopv = 0 /\ ~h.jog /\ h.pulse = 0
      /\ h.motion = "none" /\ h.homing = "idle"
  BY <1>4, <1>5 DEF AxisType, clear_motion, clear_homing
<1> HIDE DEF h
<1>8. /\ m \in AxisType /\ SameMotion(h, m) /\ m.gear = h.gear
      /\ m.base = h.base /\ (m.settle > 0 => h.settle > 0)
  BY <1>6, SettledEffect
<1> HIDE DEF m
<1>9. /\ b \in AxisType /\ b.target = "pos"
      /\ b.pp = a.pp /\ b.servo = a.servo /\ b.enabled = a.enabled
      /\ b.mode = a.mode /\ b.stopv = 0 /\ ~b.jog /\ b.pulse = 0
      /\ b.motion = "none" /\ b.homing = "idle"
      /\ b.base = "none" /\ b.gear = KeepGear(a) /\ (b.settle > 0 => a.settle > 0)
  <2>1. /\ m.pp = a.pp /\ m.servo = a.servo /\ m.enabled = a.enabled
        /\ m.mode = a.mode /\ m.gear = KeepGear(a) /\ m.base = "none"
        /\ (m.settle > 0 => a.settle > 0)
    BY <1>3, <1>7, <1>8 DEF SameMotion
  <2>2. /\ m.stopv = 0 /\ ~m.jog /\ m.pulse = 0
        /\ m.motion = "none" /\ m.homing = "idle"
    BY <1>7, <1>8 DEF SameMotion
  <2> QED BY <1>2, <1>8, <2>1, <2>2, AtPosEffect
<1>10. ~(b.pulse > 0)
  BY <1>9
<1>11. Exclusive(b) /\ Settling(b) /\ Held(a, b)
  BY <1>9, <1>10
  DEF Exclusive, Settling, Quiet, Held, Sound, KeepGear, axis_motion_in_progress
<1> QED BY <1>9, <1>10, <1>11 DEF Branched

\* The three ways of an axis that is requested but not ready.
LEMMA NotReadyBranch ==
  ASSUME NEW a, Sound(a), NEW in \in Inputs, a.servo,
         ~a.enabled \/ a.settle > 0, NEW b \in NotReady(a, in)
  PROVE  Branched(a, in, b)
<1>1. CASE HomingRuns(a)
  BY <1>1, HomingHeldBranch
<1>2. CASE ~HomingRuns(a) /\ axis_motion_in_progress(a)
  <2>1. b = MotionHeld(GearHeld(a))
    BY <1>2 DEF NotReady
  <2> QED BY <1>2, <2>1, MotionHeldBranch
<1>3. CASE ~HomingRuns(a) /\ ~axis_motion_in_progress(a)
  BY <1>3, IdleHeldBranch
<1> QED BY <1>1, <1>2, <1>3

\* The other branches are taken only by an axis that is not held.
LEMMA GearBranch ==
  ASSUME NEW a, Sound(a), NEW in, KeepGear(a), a.enabled,
         ~(a.servo /\ (~a.enabled \/ a.settle > 0)), NEW b \in GearTrack(a, in)
  PROVE  Branched(a, in, b)
<1>1. /\ a \in AxisType /\ a.gear /\ a.mode = "gear_cam" /\ a.homing = "idle"
      /\ a.motion = "none" /\ ~a.jog /\ a.pulse = 0 /\ a.stopv = 0
      /\ ~(a.settle > 0)
  BY Numbers DEF Sound, Exclusive, Settling, Quiet, KeepGear
<1>2. CASE ~in.master
  <2> DEFINE c == [a EXCEPT !.base = "none"]
  <2>1. b = AtPos(c)
    BY <1>2 DEF GearTrack
  <2>2. c \in AxisType /\ SameMotion(a, c) /\ c.base = "none" /\ c.gear = a.gear
        /\ c.settle = a.settle
    BY <1>1 DEF AxisType, Bases, SameMotion
  <2> HIDE DEF c
  <2>3. /\ b \in AxisType /\ SameMotion(a, b) /\ b.base = c.base
        /\ b.gear = c.gear /\ b.settle = c.settle
    BY <2>1, <2>2, AtPosEffect DEF SameMotion
  <2>4. ~(b.settle > 0) /\ ~(b.pulse > 0) /\ ~(b.stopv > 0)
    BY <1>1, <2>2, <2>3 DEF SameMotion
  <2>5. Exclusive(b) /\ Settling(b) /\ ~Standing(a)
    BY <1>1, <2>3, <2>4 DEF Exclusive, Settling, SameMotion, Standing
  <2> QED BY <2>2, <2>3, <2>4, <2>5 DEF Branched, SameMotion
<1>3. CASE in.master
  <2>1. PICK t \in {"held", "stepped"} :
           b = [a EXCEPT !.base = "own", !.target = t]
    BY <1>3 DEF GearTrack
  <2>2. b \in AxisType
    BY <1>1, <2>1 DEF AxisType, Bases
  <2>3. SameMotion(a, b) /\ b.gear = a.gear /\ b.settle = a.settle
        /\ b.base = "own"
    BY <1>1, <2>1 DEF AxisType, SameMotion
  <2>4. ~(b.settle > 0) /\ ~(b.pulse > 0) /\ ~(b.stopv > 0) /\ Samples(a, in)
    BY <1>1, <1>3, <2>3 DEF SameMotion, Samples
  <2>5. Exclusive(b) /\ Settling(b) /\ ~Standing(a)
    BY <1>1, <2>3, <2>4 DEF Exclusive, Settling, SameMotion, Standing
  <2> QED BY <1>1, <2>2, <2>3, <2>4, <2>5 DEF Branched, SameMotion
<1> QED BY <1>2, <1>3

\* A homing of an axis that is enabled.
LEMMA HomingBranch ==
  ASSUME NEW a, Sound(a), NEW in \in Inputs, HomingRuns(a), a.enabled,
         NEW b \in update_homing(a, in)
  PROVE  Branched(a, in, b)
<1>1. HomingAxis(a)
  BY Numbers DEF Sound, HomingRuns, HomingAxis, Exclusive, Settling, Quiet
<1>2. HomingResult(a, b)
  BY <1>1, UpdateHoming
<1>3. ~(b.pulse > 0) /\ ~(b.settle > 0)
  BY <1>2 DEF HomingResult
<1>4. Exclusive(b) /\ Settling(b) /\ ~Standing(a)
  BY <1>1, <1>2, <1>3
  DEF HomingAxis, HomingResult, Exclusive, Settling, Standing
<1> QED BY <1>2, <1>3, <1>4 DEF Branched, HomingResult
\* A step of a move, a curve or a profile; it may be its last.
LEMMA MotionBranch ==
  ASSUME NEW a, Sound(a), NEW in, a.motion # "none", a.enabled,
         NEW b \in MotionStep(a)
  PROVE  Branched(a, in, b)
<1> DEFINE c == [a EXCEPT !.unready = 0]
<1>1. /\ a \in AxisType /\ a.homing = "idle" /\ ~a.gear /\ a.base = "none"
      /\ ~a.jog /\ a.pulse = 0 /\ a.stopv = 0 /\ ~(a.settle > 0)
  BY Numbers DEF Sound, Exclusive, Settling, Quiet
<1>2. /\ c \in AxisType
      /\ c.pp = a.pp /\ c.servo = a.servo /\ c.enabled = a.enabled
      /\ c.mode = a.mode /\ c.motion = a.motion /\ c.homing = a.homing
      /\ c.gear = a.gear /\ c.base = a.base /\ c.jog = a.jog
      /\ c.pulse = a.pulse /\ c.stopv = a.stopv /\ c.settle = a.settle
  BY <1>1, Bounds DEF AxisType
<1>3. PICK t \in {"held", "stepped"} :
         b \in {[c EXCEPT !.target = t], [clear_motion(c) EXCEPT !.target = t]}
  BY DEF MotionStep
<1> HIDE DEF c
<1>4. /\ b \in AxisType
      /\ b.pp = c.pp /\ b.servo = c.servo /\ b.enabled = c.enabled
      /\ b.mode = c.mode /\ b.homing = c.homing /\ b.gear = c.gear
      /\ b.base = c.base /\ b.jog = c.jog /\ b.pulse = c.pulse
      /\ b.stopv = c.stopv /\ b.settle = c.settle
  <2>1. CASE b = [c EXCEPT !.target = t]
    BY <1>2, <2>1 DEF AxisType
  <2>2. CASE b = [clear_motion(c) EXCEPT !.target = t]
    <3> DEFINE d == clear_motion(c)
    <3>1. /\ d \in AxisType
          /\ d.pp = c.pp /\ d.servo = c.servo /\ d.enabled = c.enabled
          /\ d.mode = c.mode /\ d.homing = c.homing /\ d.gear = c.gear
          /\ d.base = c.base /\ d.jog = c.jog /\ d.pulse = c.pulse
          /\ d.stopv = c.stopv /\ d.settle = c.settle
      <4>1. d \in AxisType
        BY <1>2, ClearMotion
      <4> QED BY <1>2, <4>1 DEF AxisType, clear_motion
    <3> HIDE DEF d
    <3>2. b = [d EXCEPT !.target = t]
      BY <2>2 DEF d
    <3> QED BY <3>1, <3>2 DEF AxisType
  <2> QED BY <1>3, <2>1, <2>2
<1>5. ~(b.pulse > 0) /\ ~(b.settle > 0)
  BY <1>1, <1>2, <1>4
<1>6. Exclusive(b) /\ Settling(b) /\ ~Standing(a)
  BY <1>1, <1>2, <1>4, <1>5 DEF Exclusive, Settling, Standing
<1> QED BY <1>1, <1>2, <1>4, <1>5, <1>6 DEF Branched

\* A step of a deceleration.
LEMMA StopBranch ==
  ASSUME NEW a, Sound(a), NEW in, a.motion = "none", a.stopv > 0, a.enabled,
         ~HomingRuns(a)
  PROVE  Branched(a, in, StopStep(a))
<1> DEFINE b == StopStep(a)
<1>1. /\ a \in AxisType /\ ~(a.settle > 0) /\ a.stopv # 0
  BY Numbers DEF Sound, Settling, Quiet
<1>2. a.homing = "idle" /\ ~a.gear /\ a.base = "none" /\ ~a.jog /\ ~(a.pulse > 0)
  BY <1>1 DEF Sound, Exclusive, HomingRuns
<1>3. a.stopv - 1 \in Speeds /\ a.pulse = 0
  BY <1>1, <1>2, Numbers, CycleAssumption DEF Speeds, AxisType
<1>4. b \in AxisType
  <2> DEFINE n == a.stopv - 1
  <2>1. n \in Speeds
    BY <1>3
  <2>2. b = [a EXCEPT !.unready = 0, !.stopv = n, !.target = "stepped"]
    BY <1>1 DEF StopStep, AxisType
  <2> HIDE DEF n, b
  <2> QED BY <1>1, <2>1, <2>2, Bounds DEF AxisType
<1>5. /\ b.pp = a.pp /\ b.servo = a.servo /\ b.enabled = a.enabled
      /\ b.mode = a.mode /\ b.motion = a.motion /\ b.homing = a.homing
      /\ b.gear = a.gear /\ b.base = a.base /\ b.jog = a.jog
      /\ b.pulse = a.pulse /\ b.settle = a.settle
  BY <1>1 DEF AxisType, StopStep
<1> HIDE DEF b
<1>6. Exclusive(b) /\ Settling(b) /\ ~Standing(a)
  BY <1>1, <1>2, <1>5 DEF Exclusive, Settling, Standing
<1> QED BY <1>2, <1>4, <1>5, <1>6 DEF Branched, b

\* A step of a jog.
LEMMA JogBranch ==
  ASSUME NEW a, Sound(a), NEW in, a.jog, a.enabled
  PROVE  Branched(a, in, JogStep(a))
<1> DEFINE b == JogStep(a)
<1>1. /\ a \in AxisType /\ ~(a.settle > 0)
      /\ a.homing = "idle" /\ ~a.gear /\ a.base = "none" /\ a.motion = "none"
      /\ a.pulse = 0 /\ a.stopv = 0
  BY Numbers DEF Sound, Settling, Quiet, Exclusive
<1>2. b \in AxisType
  BY <1>1, Bounds DEF AxisType, JogStep
<1>3. /\ b.pp = a.pp /\ b.servo = a.servo /\ b.enabled = a.enabled
      /\ b.mode = a.mode /\ b.motion = a.motion /\ b.homing = a.homing
      /\ b.gear = a.gear /\ b.base = a.base /\ b.jog = a.jog
      /\ b.pulse = a.pulse /\ b.stopv = a.stopv /\ b.settle = a.settle
  BY <1>1 DEF AxisType, JogStep
<1> HIDE DEF b
<1>4. ~(b.pulse > 0)
  BY <1>1, <1>3
<1>5. Exclusive(b) /\ Settling(b) /\ ~Standing(a)
  BY <1>1, <1>3, <1>4 DEF Exclusive, Settling, Standing
<1> QED BY <1>1, <1>2, <1>3, <1>4, <1>5 DEF Branched, b

\* Not requested: nothing moves the target any more.
LEMMA ReleasedBranch ==
  ASSUME NEW a, Sound(a), NEW in, ~a.servo
  PROVE  Branched(a, in, Released(a))
<1> DEFINE c == Stopped(a)
           d == [c EXCEPT !.hold = 0]
           b == AtPos(d)
<1>1. a \in AxisType
  BY DEF Sound
<1>2. /\ c \in AxisType /\ Quiet(c) /\ c.base = "none"
      /\ c.pp = a.pp /\ c.servo = a.servo /\ c.enabled = a.enabled
  BY <1>1, StoppedEffect
<1>3. Released(a) = b
  BY DEF Released
<1> HIDE DEF c
<1>4. /\ d \in AxisType /\ Quiet(d) /\ d.base = "none"
      /\ d.pp = c.pp /\ d.servo = c.servo /\ d.enabled = c.enabled
  BY <1>2, Bounds DEF AxisType, Quiet
<1> HIDE DEF d
<1>5. /\ b \in AxisType /\ Quiet(b) /\ b.base = "none" /\ b.target = "pos"
      /\ b.pp = d.pp /\ b.servo = d.servo /\ b.enabled = d.enabled
  BY <1>4, AtPosEffect DEF Quiet
<1> HIDE DEF b
<1>6. Exclusive(b) /\ Settling(b) /\ ~(b.pulse > 0)
  BY <1>5 DEF Quiet, Exclusive, Settling
<1> QED BY <1>2, <1>3, <1>4, <1>5, <1>6 DEF Branched

\* Requested, ready, and nothing to do.
LEMMA HeldBranch ==
  ASSUME NEW a, Sound(a), NEW in, a.servo, a.enabled, ~KeepGear(a)
  PROVE  Branched(a, in, [a EXCEPT !.target = "held"])
<1> DEFINE b == [a EXCEPT !.target = "held"]
<1>1. a \in AxisType /\ a.base = "none"
  BY DEF Sound, KeepGear, Exclusive
<1>2. b \in AxisType
  BY <1>1 DEF AxisType
<1>3. SameMotion(a, b) /\ b.gear = a.gear /\ b.base = a.base
      /\ b.settle = a.settle /\ b.target = "held"
  BY <1>1 DEF AxisType, SameMotion
<1> HIDE DEF b
<1>4. Exclusive(b) /\ Settling(b)
  BY <1>3 DEF Sound, Exclusive, Settling, Quiet, SameMotion
<1> QED BY <1>1, <1>2, <1>3, <1>4 DEF Branched, SameMotion, b

\* The branches are tried in the order of the code.
LEMMA BranchesSound ==
  ASSUME NEW a, Sound(a), NEW in \in Inputs, NEW b \in Branches(a, in)
  PROVE  Branched(a, in, b)
<1> DEFINE held == a.servo /\ (~a.enabled \/ a.settle > 0)
<1>1. CASE held
  BY <1>1, NotReadyBranch DEF Branches
<1>2. CASE ~held /\ KeepGear(a) /\ a.enabled
  BY <1>2, GearBranch DEF Branches
<1>3. CASE ~held /\ ~(KeepGear(a) /\ a.enabled) /\ HomingRuns(a) /\ a.enabled
  BY <1>3, HomingBranch DEF Branches
<1>4. CASE /\ ~held /\ ~(KeepGear(a) /\ a.enabled)
           /\ ~(HomingRuns(a) /\ a.enabled)
  <2>1. CASE a.motion # "none" /\ a.enabled
    BY <1>4, <2>1, MotionBranch DEF Branches
  <2>2. CASE a.motion = "none" /\ a.stopv > 0 /\ a.enabled
    BY <1>4, <2>2, StopBranch DEF Branches
  <2>3. CASE /\ ~(a.motion # "none" /\ a.enabled) /\ ~(a.stopv > 0 /\ a.enabled)
             /\ a.jog /\ a.enabled
    BY <1>4, <2>3, JogBranch DEF Branches
  <2>4. CASE /\ ~(a.motion # "none" /\ a.enabled) /\ ~(a.stopv > 0 /\ a.enabled)
             /\ ~(a.jog /\ a.enabled) /\ ~a.servo
    BY <1>4, <2>4, ReleasedBranch DEF Branches
  <2>5. CASE /\ ~(a.motion # "none" /\ a.enabled) /\ ~(a.stopv > 0 /\ a.enabled)
             /\ ~(a.jog /\ a.enabled) /\ a.servo
    <3>1. a.enabled
      BY <1>4, <2>5
    <3> QED BY <1>4, <2>5, <3>1, HeldBranch DEF Branches
  <2> QED BY <2>1, <2>2, <2>3, <2>4, <2>5
<1> QED BY <1>1, <1>2, <1>3, <1>4
-----------------------------------------------------------------------------
(* The cycle.                                                              *)

\* Reading the drive changes nothing that moves the target.
LEMMA SensedEffect ==
  ASSUME NEW a \in AxisType, NEW in \in Inputs
  PROVE  LET b == Sensed(a, in) IN
         /\ b \in AxisType /\ b.enabled = in.enabled /\ b.fault = in.fault
         /\ b.pp = a.pp /\ b.servo = a.servo /\ b.mode = a.mode
         /\ b.motion = a.motion /\ b.unready = a.unready /\ b.stopv = a.stopv
         /\ b.jog = a.jog /\ b.pulse = a.pulse /\ b.homing = a.homing
         /\ b.hUnready = a.hUnready /\ b.gear = a.gear /\ b.base = a.base
         /\ b.settle = a.settle /\ b.cw = a.cw
<1> DEFINE h == IF ~a.pp THEN 0
                ELSE IF in.fast THEN HoldCycles
                ELSE IF a.hold > 0 THEN a.hold - 1 ELSE 0
           e == in.enabled
           f == in.fault
           b == Sensed(a, in)
<1>1. h \in 0..HoldCycles
  <2>1. a.hold \in 0..HoldCycles
    BY DEF AxisType
  <2> QED BY <2>1, CycleAssumption
<1>2. e \in BOOLEAN /\ f \in BOOLEAN
  BY DEF Inputs
<1>3. b = [a EXCEPT !.enabled = e, !.fault = f, !.hold = h]
  BY DEF Sensed
<1> HIDE DEF h, e, f, b
<1>4. b \in AxisType
  BY ZenonT(60), <1>1, <1>2, <1>3 DEF AxisType
<1>5. b.enabled = e /\ b.fault = f
  BY <1>3 DEF AxisType
<1>6. /\ b.pp = a.pp /\ b.servo = a.servo /\ b.mode = a.mode
      /\ b.motion = a.motion /\ b.unready = a.unready /\ b.stopv = a.stopv
      /\ b.jog = a.jog /\ b.pulse = a.pulse /\ b.homing = a.homing
      /\ b.hUnready = a.hUnready /\ b.gear = a.gear /\ b.base = a.base
      /\ b.settle = a.settle /\ b.cw = a.cw
  BY <1>3 DEF AxisType
<1> QED BY <1>4, <1>5, <1>6 DEF b, e, f

\* The axis as the branches find it: after a fault nothing is left of what it
\* did and the servo is not requested.
Found(a) ==
    /\ Sound(a)
    /\ a.servo => ax.servo
    /\ a.fault => ~a.servo
    /\ a.base # "none" => ax.base # "none"
    /\ Grace(a, seen.down)
    /\ Standing(ax) => Standing(a)
    /\ a.pulse > 0 => ax.pulse > 0

\* What reading the drive and checking for a fault leaves of the axis.
LEMMA CheckedSensed ==
  ASSUME AxisInv, NEW in \in Inputs
  PROVE  LET a == Checked(Sensed(ax, in)) IN
         Found(a) /\ a.enabled = in.enabled /\ a.fault = in.fault
<1> DEFINE s == Sensed(ax, in)
           a == Checked(s)
<1> SUFFICES Found(a) /\ a.enabled = in.enabled /\ a.fault = in.fault
  OBVIOUS
<1>1. ax \in AxisType /\ Exclusive(ax) /\ Settling(ax) /\ (ax.base # "none" => ax.gear)
      /\ Grace(ax, seen.down)
  BY DEF AxisInv, Inv
<1>2. /\ s \in AxisType /\ s.enabled = in.enabled /\ s.fault = in.fault
      /\ s.pp = ax.pp /\ s.servo = ax.servo /\ s.mode = ax.mode
      /\ s.motion = ax.motion /\ s.unready = ax.unready /\ s.stopv = ax.stopv
      /\ s.jog = ax.jog /\ s.pulse = ax.pulse /\ s.homing = ax.homing
      /\ s.hUnready = ax.hUnready /\ s.gear = ax.gear /\ s.base = ax.base
      /\ s.settle = ax.settle
  BY <1>1, SensedEffect
<1> HIDE DEF s
<1>3. CASE s.fault
  <2> DEFINE r == Stopped(s)
             c == [r EXCEPT !.servo = FALSE, !.hold = 0]
  <2>1. a = c
    BY <1>3 DEF Checked
  <2>2. /\ r \in AxisType /\ Quiet(r) /\ r.base = "none"
        /\ r.enabled = s.enabled /\ r.fault = s.fault
    BY <1>2, StoppedEffect
  <2> HIDE DEF a, r
  <2>3. /\ c \in AxisType /\ Quiet(c) /\ c.base = "none" /\ ~c.servo
        /\ c.enabled = r.enabled /\ c.fault = r.fault
    BY <2>2, Bounds DEF AxisType, Quiet
  <2> HIDE DEF c
  <2>4. ~(c.pulse > 0)
    BY <2>3 DEF Quiet
  <2>5. Exclusive(c) /\ Settling(c) /\ Grace(c, seen.down) /\ Standing(c)
    BY <2>3, <2>4
    DEF Quiet, Exclusive, Settling, Grace, Standing, axis_motion_in_progress
  <2> QED BY <1>2, <2>1, <2>2, <2>3, <2>4, <2>5 DEF Found, Sound, a
<1>4. CASE ~s.fault
  <2>1. a = s
    BY <1>4 DEF Checked
  <2>2. Exclusive(s) /\ Settling(s) /\ Grace(s, seen.down)
        /\ (Standing(ax) => Standing(s))
    BY <1>1, <1>2
    DEF Exclusive, Settling, Quiet, Grace, Standing, axis_motion_in_progress
  <2> QED BY <1>1, <1>2, <1>4, <2>1, <2>2 DEF Found, Sound
<1> QED BY <1>3, <1>4

\* The controlword counts a pulse and a fault reset; the rest stays.
LEMMA OutputEffect ==
  ASSUME NEW b \in AxisType, NEW in \in Inputs, NEW moving \in BOOLEAN
  PROVE  LET c == Output([b EXCEPT !.moving = moving], in) IN
         /\ c \in AxisType /\ c.moving = moving
         /\ c.pp = b.pp /\ c.servo = b.servo /\ c.enabled = b.enabled
         /\ c.mode = b.mode /\ c.motion = b.motion /\ c.unready = b.unready
         /\ c.stopv = b.stopv /\ c.jog = b.jog /\ c.homing = b.homing
         /\ c.hUnready = b.hUnready /\ c.gear = b.gear /\ c.base = b.base
         /\ c.settle = b.settle /\ c.target = b.target
         /\ c.pulse > 0 => b.pulse > 0
         /\ c.cw = "pulse" => b.pulse > 0
         /\ ~b.servo => c.cw \in {"off", "reset"}
<1> DEFINE m == [b EXCEPT !.moving = moving]
           c == Output(m, in)
           Rest(x, y) ==
             /\ y.moving = x.moving
             /\ y.pp = x.pp /\ y.servo = x.servo /\ y.enabled = x.enabled
             /\ y.mode = x.mode /\ y.motion = x.motion
             /\ y.unready = x.unready /\ y.stopv = x.stopv /\ y.jog = x.jog
             /\ y.homing = x.homing /\ y.hUnready = x.hUnready
             /\ y.gear = x.gear /\ y.base = x.base
             /\ y.settle = x.settle /\ y.target = x.target
<1>1. m \in AxisType
  BY DEF AxisType
<1>2. /\ m.moving = moving
      /\ m.pp = b.pp /\ m.servo = b.servo /\ m.enabled = b.enabled
      /\ m.mode = b.mode /\ m.motion = b.motion /\ m.unready = b.unready
      /\ m.stopv = b.stopv /\ m.jog = b.jog /\ m.homing = b.homing
      /\ m.hUnready = b.hUnready /\ m.gear = b.gear /\ m.base = b.base
      /\ m.settle = b.settle /\ m.target = b.target /\ m.pulse = b.pulse
  BY DEF AxisType
<1> HIDE DEF m
<1>3. /\ c \in AxisType /\ Rest(m, c)
      /\ c.pulse > 0 => m.pulse > 0
      /\ c.cw = "pulse" => m.pulse > 0
      /\ ~m.servo => c.cw \in {"off", "reset"}
  <2>1. CASE m.reset > 0 /\ in.wc
    <3> DEFINE n == m.reset - 1
    <3>1. n \in 0..ResetCycles
      <4>1. m.reset \in 0..ResetCycles
        BY <1>1 DEF AxisType
      <4> QED BY <2>1, <4>1, CycleAssumption
    <3>2. c = [m EXCEPT !.cw = "reset", !.reset = n]
      BY <1>1, <2>1 DEF Output, AxisType
    <3> HIDE DEF n, c
    <3>3. c \in AxisType
      BY <1>1, <3>1, <3>2 DEF AxisType
    <3> QED BY <1>1, <3>2, <3>3 DEF AxisType
  <2>2. CASE ~(m.reset > 0 /\ in.wc) /\ m.pulse > 0 /\ m.servo /\ in.wc
    <3> DEFINE n == m.pulse - 1
    <3>1. n \in 0..PulseCycles
      <4>1. m.pulse \in 0..PulseCycles
        BY <1>1 DEF AxisType
      <4> QED BY <2>2, <4>1, CycleAssumption
    <3>2. c = [m EXCEPT !.cw = "pulse", !.pulse = n]
      BY <1>1, <2>2 DEF Output, AxisType
    <3> HIDE DEF n, c
    <3>3. c \in AxisType
      BY <1>1, <3>1, <3>2 DEF AxisType
    <3>4. Rest(m, c)
      BY <1>1, <3>2 DEF AxisType
    <3> QED BY <2>2, <3>3, <3>4
  <2>3. CASE ~(m.reset > 0 /\ in.wc) /\ ~(m.pulse > 0 /\ m.servo /\ in.wc)
    <3>1. PICK o \in {"off", "run"} :
             /\ c = [m EXCEPT !.cw = o]
             /\ ~m.servo => o = "off"
      BY <2>3 DEF Output
    <3> HIDE DEF c
    <3>2. c \in AxisType
      BY <1>1, <3>1 DEF AxisType
    <3>3. Rest(m, c) /\ c.pulse = m.pulse /\ c.cw = o
      BY <1>1, <3>1 DEF AxisType
    <3> QED BY <3>1, <3>2, <3>3
  <2> QED BY <2>1, <2>2, <2>3
<1> HIDE DEF c
<1> QED BY <1>2, <1>3 DEF c, m
\* IsMoving sees everything but a pulse to a PP drive that is not enabled.
LEMMA NotMovingIsStill ==
  ASSUME NEW b \in AxisType, Exclusive(b), NEW in, ~IsMoving(b, in)
  PROVE  Standing(b) /\ (b.servo /\ b.enabled => ~(b.pulse > 0))
<1>1. ~(b.stopv > 0) /\ b.motion = "none" /\ ~b.jog /\ b.homing = "idle"
      /\ ~pp_active(b, in) /\ ~KeepGear(b)
  BY DEF IsMoving
<1>2. b.stopv = 0
  BY <1>1, Numbers
<1>3. ~b.gear
  BY <1>1 DEF Exclusive, KeepGear
<1>4. b.servo /\ b.enabled => ~(b.pulse > 0)
  BY <1>1 DEF Exclusive, pp_active
<1> QED BY <1>1, <1>2, <1>3, <1>4 DEF Standing

\* A cycle keeps the invariant; from standstill it neither steps the target nor
\* starts a trigger.
LEMMA CycleKeeps ==
  ASSUME AxisInv, Cycle
  PROVE  /\ AxisInv'
         /\ Standing(ax) => ax'.target # "stepped"
         /\ ax'.cw = "pulse" => ax.pulse > 0 /\ ax.servo
<1>1. PICK in \in Inputs : CycleWith(in)
  BY DEF Cycle
<1> DEFINE a == Checked(Sensed(ax, in))
<1>2. Found(a) /\ a.enabled = in.enabled /\ a.fault = in.fault
  BY CheckedSensed
<1>3. PICK b \in Branches(a, in) :
         ax' = Output([b EXCEPT !.moving = IsMoving(b, in)], in)
  BY <1>1 DEF CycleWith
<1>4. /\ seen'.acted = FALSE
      /\ seen'.down = IF ~a.servo \/ a.enabled THEN 0
                      ELSE IF seen.down > 2 * GlitchCycles THEN seen.down
                      ELSE seen.down + 1
      /\ seen'.latched = (seen.latched \/ in.fault)
      /\ seen'.tracked = Samples(a, in)
      /\ seen' \in SeenType
  <2> DEFINE d == IF ~a.servo \/ a.enabled THEN 0
                  ELSE IF seen.down > 2 * GlitchCycles THEN seen.down
                  ELSE seen.down + 1
             l == seen.latched \/ in.fault
             t == Samples(a, in)
             e == seen.settled \/ (ax.settle > 0 /\ ax'.settle = 0)
  <2>1. seen' = [acted |-> FALSE, down |-> d, latched |-> l, tracked |-> t,
                 settled |-> e]
    BY <1>1 DEF CycleWith
  <2>2. seen.down \in 0..2 * GlitchCycles + 1 /\ seen.latched \in BOOLEAN
        /\ seen.settled \in BOOLEAN
    BY DEF AxisInv, Inv, SeenType
  <2>3. d \in 0..2 * GlitchCycles + 1
    BY <2>2, Bounds
  <2>4. l \in BOOLEAN /\ t \in BOOLEAN /\ e \in BOOLEAN
    BY <2>2 DEF Inputs, Samples
  <2> HIDE DEF d, l, t, e
  <2>5. seen' \in SeenType
    BY <2>1, <2>3, <2>4 DEF SeenType
  <2>6. seen'.acted = FALSE /\ seen'.down = d /\ seen'.latched = l
        /\ seen'.tracked = t
    BY <2>1
  <2> QED BY <2>5, <2>6 DEF d, l, t
<1> HIDE DEF a
<1>5. Branched(a, in, b)
  BY <1>2, <1>3, BranchesSound DEF Found
<1>6. IsMoving(b, in) \in BOOLEAN
  BY DEF IsMoving
<1>7. /\ ax' \in AxisType /\ ax'.moving = IsMoving(b, in)
      /\ ax'.pp = b.pp /\ ax'.servo = b.servo /\ ax'.enabled = b.enabled
      /\ ax'.mode = b.mode /\ ax'.motion = b.motion
      /\ ax'.unready = b.unready /\ ax'.stopv = b.stopv /\ ax'.jog = b.jog
      /\ ax'.homing = b.homing /\ ax'.hUnready = b.hUnready
      /\ ax'.gear = b.gear /\ ax'.base = b.base
      /\ ax'.settle = b.settle /\ ax'.target = b.target
      /\ ax'.pulse > 0 => b.pulse > 0
      /\ ax'.cw = "pulse" => b.pulse > 0
      /\ ~b.servo => ax'.cw \in {"off", "reset"}
  BY <1>3, <1>5, <1>6, OutputEffect DEF Branched
<1>8. Exclusive(ax') /\ Settling(ax')
  <2>1. b \in AxisType /\ Exclusive(b) /\ Settling(b)
    BY <1>5 DEF Branched
  <2>2. ax'.pulse = 0 \/ ax'.pulse > 0
    BY <1>7, Numbers
  <2>3. b.pulse > 0 => b.pulse # 0
    OBVIOUS
  <2>4. ~(ax'.pulse > 0) => ax'.pulse = 0
    BY <2>2
  <2>5. Exclusive(ax')
    BY <1>7, <2>1, <2>3, <2>4 DEF Exclusive
  <2> QED BY <1>7, <2>1, <2>3, <2>4, <2>5 DEF Settling, Quiet
<1>9. seen'.down > 0 => ~ax'.enabled /\ ~seen'.tracked
  BY <1>4, <1>5, <1>7 DEF Branched, Samples
<1>10. Grace(ax', seen'.down)
  <2>1. CASE ~a.servo \/ a.enabled
    <3>1. seen'.down = 0
      BY <1>4, <2>1
    <3> QED BY <1>7, <3>1, Numbers, Bounds DEF Grace
  <2>2. CASE a.servo /\ ~a.enabled
    <3>1. Held(a, b) /\ Grace(a, seen.down)
      BY <1>2, <1>5, <2>2 DEF Branched, Found
    <3>2. seen'.down <= seen.down + 1
      <4>1. seen.down \in Nat
        BY Bounds DEF AxisInv, Inv, SeenType
      <4> QED BY <1>4, <2>2, <4>1
    <3>3. /\ seen.down \in Nat /\ seen'.down \in Nat
          /\ a.unready \in Nat /\ a.hUnready \in Nat
      <4>1. a \in AxisType
        BY <1>2 DEF Found, Sound
      <4> QED BY <1>4, <4>1, Numbers, Bounds DEF AxisInv, Inv, SeenType
    <3>4. axis_motion_in_progress(ax') => axis_motion_in_progress(b)
      BY <1>7 DEF axis_motion_in_progress
    <3>5. ax'.homing # "idle" => seen'.down <= ax'.hUnready
      BY <1>7, <3>1, <3>2, <3>3 DEF Held, Grace
    <3>6. axis_motion_in_progress(ax') => seen'.down <= ax'.unready + GlitchCycles
      BY <1>7, <3>1, <3>2, <3>3, <3>4, Bounds DEF Held, Grace
    <3> QED BY <3>5, <3>6 DEF Grace
  <2>3. a.servo \in BOOLEAN /\ a.enabled \in BOOLEAN
    BY <1>2 DEF Found, Sound, AxisType
  <2> QED BY <2>1, <2>2, <2>3
<1>11. seen'.latched => ~ax'.servo /\ ax'.cw \in {"off", "reset"}
  <2>1. seen'.latched => ~a.servo
    BY <1>2, <1>4 DEF Found, AxisInv, Inv
  <2> QED BY <1>5, <1>7, <2>1 DEF Branched
<1>12. (ax'.base # "none" => ax'.gear /\ seen'.tracked) /\ ax'.base # "other"
  BY <1>4, <1>5, <1>7 DEF Branched
<1>13. ~ax'.moving => Still(ax')
  <2>1. SUFFICES ASSUME ~ax'.moving
                 PROVE  Still(ax')
    OBVIOUS
  <2>2. Standing(b) /\ (b.servo /\ b.enabled => ~(b.pulse > 0))
    BY <1>5, <1>7, <2>1, NotMovingIsStill DEF Branched
  <2>3. b.pulse > 0 => b.servo
    BY <1>5 DEF Branched
  <2>4. ax'.enabled => ~(ax'.pulse > 0)
    BY <1>7, <2>2, <2>3
  <2>5. ax'.enabled => ax'.pulse = 0
    BY <1>7, <2>4, Numbers
  <2> QED BY <1>7, <2>2, <2>5 DEF Still, Standing
<1>14. Standing(ax) => ax'.target # "stepped"
  BY <1>2, <1>5, <1>7 DEF Found, Branched
<1>15. ax'.cw = "pulse" => ax.pulse > 0 /\ ax.servo
  BY <1>2, <1>5, <1>7 DEF Found, Branched
<1>16. seen'.down > 2 * GlitchCycles => ax'.target = "pos"
  <2> SUFFICES ASSUME seen'.down > 2 * GlitchCycles
               PROVE  ax'.target = "pos"
    OBVIOUS
  <2>1. a.servo /\ ~a.enabled
    BY <1>4, Bounds
  <2>2. /\ Held(a, b) /\ Grace(a, seen.down)
        /\ a \in AxisType /\ b \in AxisType
    BY <1>2, <1>5, <2>1 DEF Branched, Found, Sound
  <2>3. /\ seen.down \in Nat /\ seen'.down \in Nat
        /\ seen'.down <= seen.down + 1
    <3>1. seen.down \in Nat
      BY Bounds DEF AxisInv, Inv, SeenType
    <3> QED BY <1>4, <2>1, <3>1, Bounds DEF SeenType
  <2>4. ~axis_motion_in_progress(b)
    <3> SUFFICES ASSUME axis_motion_in_progress(b)
                 PROVE  FALSE
      OBVIOUS
    <3>1. b.unready = a.unready + 1 /\ seen.down <= a.unready + GlitchCycles
      BY <2>2 DEF Held, Grace
    <3>2. /\ a.unready \in Nat /\ b.unready \in Nat
          /\ b.unready <= GlitchCycles /\ GlitchCycles \in Nat
      BY <2>2, Numbers, Bounds
    <3> QED BY <2>3, <3>1, <3>2
  <2> QED BY <1>7, <2>2, <2>4 DEF Held
<1> QED BY <1>4, <1>7, <1>8, <1>9, <1>10, <1>11, <1>12, <1>13, <1>14, <1>15, <1>16
        DEF AxisInv, Inv
-----------------------------------------------------------------------------
(* The theorems.                                                           *)

\* The daemon starts with an axis that nothing moves.
LEMMA InitHolds ==
  ASSUME Init
  PROVE  AxisInv
<1>1. ax \in AxisType
  <2>1. PICK pp \in BOOLEAN :
          ax = [pp |-> pp, servo |-> FALSE, enabled |-> FALSE, fault |-> FALSE,
                settle |-> 0, mode |-> "other",
                motion |-> "none", unready |-> 0, stopv |-> 0, jog |-> FALSE,
                pulse |-> 0, hold |-> 0, reset |-> 0, gear |-> FALSE,
                base |-> "none", homing |-> "idle", hUnready |-> 0,
                target |-> "held", moving |-> FALSE, cw |-> "off"]
    BY DEF Init
  <2> QED BY <2>1, Bounds DEF AxisType, Modes, Bases
<1>2. /\ ~ax.servo /\ ~ax.enabled /\ ax.settle = 0 /\ ax.motion = "none"
      /\ ax.stopv = 0 /\ ~ax.jog /\ ax.pulse = 0 /\ ~ax.gear /\ ax.base = "none"
      /\ ax.homing = "idle"
  BY DEF Init
<1>3. /\ seen \in SeenType /\ seen.down = 0 /\ ~seen.latched
  BY Bounds DEF Init, SeenType
<1>4. ~(seen.down > 0) /\ ~(seen.down > 2 * GlitchCycles)
  BY <1>3, Bounds
<1>5. Exclusive(ax) /\ Settling(ax) /\ Grace(ax, seen.down) /\ Still(ax)
  BY <1>2, <1>3
  DEF Exclusive, Settling, Grace, Still, Standing, Quiet, axis_motion_in_progress
<1> QED BY <1>1, <1>2, <1>3, <1>4, <1>5 DEF AxisInv, Inv

\* The invariant is inductive.
LEMMA NextKeeps ==
  ASSUME AxisInv, [Next]_vars
  PROVE  AxisInv'
<1>1. CASE Command
  BY <1>1, CommandsKeep
<1>2. CASE Cycle
  BY <1>2, CycleKeeps
<1>3. CASE UNCHANGED vars
  BY <1>3
  DEF vars, AxisInv, Inv, Exclusive, Settling, Quiet, Grace, Still, Standing,
      axis_motion_in_progress
<1> QED BY <1>1, <1>2, <1>3 DEF Next

\* The invariant holds in every state: whatever sequence of commands and drive
\* feedback, what may move the target, how long it was held and what the
\* history remembers of a fault stay consistent.
THEOREM AxisInvariant == Spec => []AxisInv
<1>1. Init => AxisInv
  BY InitHolds
<1>2. AxisInv /\ [Next]_vars => AxisInv'
  BY NextKeeps
<1> QED BY <1>1, <1>2, PTL DEF Spec

\* An axis always has the shape the code gives it.
THEOREM TypeCorrect == Spec => []TypeOK
<1>1. AxisInv => TypeOK
  BY DEF AxisInv, Inv, TypeOK
<1> QED BY <1>1, AxisInvariant, PTL

\* At most one generator moves the target, in the control mode it belongs to.
THEOREM GeneratorsExclude == Spec => []OneGenerator
<1>1. AxisInv => OneGenerator
  BY DEF AxisInv, Inv, Exclusive, OneGenerator
<1> QED BY <1>1, AxisInvariant, PTL

\* Nothing moves the target of an axis that still settles.
THEOREM SettlingHasNoMotion == Spec => []SettlingIsIdle
<1>1. AxisInv => SettlingIsIdle
  <2> SUFFICES ASSUME AxisInv, ax.settle > 0
               PROVE  ~axis_motion_in_progress(ax) /\ ax.homing = "idle" /\ ~ax.gear
    BY DEF SettlingIsIdle
  <2>1. Quiet(ax)
    BY DEF AxisInv, Inv, Settling
  <2>2. ~(ax.stopv > 0) /\ ~(ax.pulse > 0)
    BY <2>1 DEF Quiet
  <2> QED BY <2>1, <2>2 DEF Quiet, axis_motion_in_progress
<1> QED BY <1>1, AxisInvariant, PTL

\* A lost enable outlasts twice the glitch time only with nothing left but a
\* gear, whose target is the measured position and which has no base.
THEOREM LostEnableEnds == Spec => []LostEnableCancels
<1>1. AxisInv => LostEnableCancels
  <2> SUFFICES ASSUME AxisInv, seen.down > 2 * GlitchCycles
               PROVE  /\ ~axis_motion_in_progress(ax) /\ ax.homing = "idle"
                      /\ ax.target = "pos" /\ ax.base = "none"
    BY DEF LostEnableCancels
  <2>1. /\ seen.down \in Nat /\ GlitchCycles \in Nat
        /\ ax.unready \in Nat /\ ax.unready <= GlitchCycles
        /\ ax.hUnready \in Nat /\ ax.hUnready <= GlitchCycles
    BY Numbers, Bounds DEF AxisInv, Inv, SeenType
  <2>2. ~(seen.down <= ax.hUnready) /\ ~(seen.down <= ax.unready + GlitchCycles)
    BY <2>1
  <2>3. seen.down > 0
    BY <2>1
  <2> QED BY <2>2, <2>3 DEF AxisInv, Inv, Grace
<1> QED BY <1>1, AxisInvariant, PTL

\* A fault ends the drive's permission to run until the next enable.
THEOREM FaultsLatch == Spec => []FaultLatches
<1>1. AxisInv => FaultLatches
  BY DEF AxisInv, Inv, FaultLatches
<1> QED BY <1>1, AxisInvariant, PTL

\* The base of a gear step is one cycle old, and of the configured master but
\* for the first cycle after a gear_config.
THEOREM GearBaseIsFresh == Spec => []GearBaseFresh
<1>1. AxisInv => GearBaseFresh
  BY DEF AxisInv, Inv, GearBaseFresh
<1> QED BY <1>1, AxisInvariant, PTL

\* A standstill that the status reports lasts until the next command, but for a
\* trigger that was pending when the enable feedback was lost.
THEOREM StandstillLasts == Spec => StillStaysStill
<1> DEFINE Pending == /\ ax.pulse > 0 /\ ax.servo /\ ~ax.enabled
                      /\ seen.down <= 2 * GlitchCycles
           P == ~ax.moving /\ ~seen.acted /\ ~seen'.acted =>
                   /\ ax'.target # "stepped"
                   /\ ax'.cw = "pulse" => Pending
<1>1. AxisInv /\ [Next]_vars => [P]_vars
  <2> SUFFICES ASSUME AxisInv, Next, ~ax.moving, ~seen.acted, ~seen'.acted
               PROVE  /\ ax'.target # "stepped"
                      /\ ax'.cw = "pulse" => Pending
    OBVIOUS
  <2>1. ~Command
    <3>1. seen \in SeenType
      BY DEF AxisInv, Inv
    <3>2. \A b : ~Do(b)
      BY <3>1 DEF Do, SeenType
    <3>3. ~Enable
      BY <3>1 DEF Enable, SeenType
    <3> QED BY <3>2, <3>3
            DEF Command, Disable, FaultReset, Stop, SetZero, SetMode,
                HomingStart, HomingStop, GearConfig, GearStart, GearStop, Move,
                MoveCurve, Jog, Torque
  <2>2. Cycle
    BY <2>1 DEF Next
  <2>3. Still(ax)
    BY DEF AxisInv, Inv
  <2>4. ASSUME ax'.cw = "pulse"
        PROVE  Pending
    <3>1. ax.pulse > 0 /\ ax.servo
      BY <2>2, <2>4, CycleKeeps
    <3>2. ~ax.enabled
      BY <2>3, <3>1 DEF Still
    <3>3. /\ seen.down \in Nat /\ GlitchCycles \in Nat
          /\ ax.unready \in Nat /\ ax.unready <= GlitchCycles
      BY Numbers, Bounds DEF AxisInv, Inv, SeenType
    <3>4. seen.down <= ax.unready + GlitchCycles
      BY <3>1 DEF AxisInv, Inv, Grace, axis_motion_in_progress
    <3> QED BY <3>1, <3>2, <3>3, <3>4
  <2> QED BY <2>2, <2>3, <2>4, CycleKeeps DEF Still
<1> QED BY <1>1, AxisInvariant, PTL DEF Spec, StillStaysStill
=============================================================================
