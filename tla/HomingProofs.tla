----------------------------- MODULE HomingProofs -----------------------------
(***************************************************************************)
(* Theorems about Homing, for all speeds, decelerations, offsets and       *)
(* limits: what a homing keeps count of stays within its limits, and a     *)
(* backoff goes to its target and never beyond it.                         *)
(*                                                                         *)
(* The remainder of the velocity could turn the first steps of a backoff   *)
(* round, and a hold moves the target back to the drive.  That neither     *)
(* happens needs the invariant Ahead: a backoff has its target, its drive  *)
(* and its remainder on the same side of where it goes.                    *)
(***************************************************************************)
EXTENDS Homing, TLAPS

-----------------------------------------------------------------------------
(* Arithmetic.                                                             *)

\* What the division rounds off is less than the divisor, and both parts have
\* the sign of what is divided.
LEMMA Rounded ==
    ASSUME NEW x \in Int
    PROVE  LET q == Quotient(x, Scale)
               r == x - q * Scale IN
           /\ q \in Int /\ r \in (1 - Scale)..(Scale - 1)
           /\ x >= 0 => q >= 0 /\ r >= 0
           /\ x =< 0 => q =< 0 /\ r =< 0
  <1> DEFINE S == Scale
             d == Abs(x) \div S
             m == Abs(x) % S
  <1>1. S \in Nat /\ S > 0
    BY HomingAssumption
  <1>2. Abs(x) \in Nat /\ (x >= 0 => x = Abs(x)) /\ (x =< 0 => x = -Abs(x))
    BY DEF Abs
  <1>3. /\ d \in Nat /\ m \in 0..(S - 1) /\ Abs(x) = S * d + m
    <2> DEFINE y == Abs(x)
    <2> HIDE DEF S
    <2>1. \A z \in Nat : /\ z \div S \in Nat /\ z % S \in 0..(S - 1)
                         /\ z = S * (z \div S) + (z % S)
      BY <1>1
    <2> QED
      BY <1>2, <2>1
  <1> HIDE DEF d, m
  <1>4. CASE x > 0
    <2>1. Quotient(x, Scale) = d
      BY <1>3, <1>4 DEF Quotient, Sign, d
    <2>2. x - d * S = m
      <3>1. x = S * d + m /\ d * S = S * d /\ S * d \in Int
        BY <1>1, <1>2, <1>3, <1>4
      <3> QED
        BY <1>3, <3>1
    <2> QED
      BY <1>1, <1>3, <1>4, <2>1, <2>2
  <1>5. CASE x < 0
    <2>1. Quotient(x, Scale) = -d
      BY <1>3, <1>5 DEF Quotient, Sign, d
    <2>2. x - (-d) * S = -m
      BY <1>1, <1>2, <1>3, <1>5
    <2> QED
      BY <1>1, <1>3, <1>5, <2>1, <2>2
  <1>6. CASE x = 0
    <2>1. Quotient(x, Scale) = 0
      BY <1>3, <1>6 DEF Quotient, Sign, d
    <2> QED
      BY <1>1, <1>6, <2>1
  <1> QED
    BY <1>4, <1>5, <1>6

\* The step of a cycle and what is left of the velocity.
LEMMA VelocityStep ==
    ASSUME NEW rem \in Int, NEW v \in Int
    PROVE  LET s == velocity_step(rem, v) IN
           /\ s.step \in Int /\ s.rem \in (1 - Scale)..(Scale - 1)
           /\ rem >= 0 /\ v >= 0 => s.step >= 0 /\ s.rem >= 0
           /\ rem =< 0 /\ v =< 0 => s.step =< 0 /\ s.rem =< 0
  <1> DEFINE x == rem + v
             q == Quotient(x, Scale)
  <1>1. x \in Int
    OBVIOUS
  <1>2. velocity_step(rem, v) = [step |-> q, rem |-> x - q * Scale]
    <2>1. q \in Int /\ q * Scale \in Int
      <3>1. q \in Int
        BY <1>1, Rounded
      <3>2. Scale \in Int
        BY HomingAssumption
      <3> HIDE DEF q
      <3> QED
        BY <3>1, <3>2
    <2>2. velocity_step(rem, v) = [step |-> q, rem |-> rem + (v - q * Scale)]
      BY DEF velocity_step
    <2> HIDE DEF q
    <2> QED
      BY <2>1, <2>2
  <1>3. /\ q \in Int /\ x - q * Scale \in (1 - Scale)..(Scale - 1)
        /\ x >= 0 => q >= 0 /\ x - q * Scale >= 0
        /\ x =< 0 => q =< 0 /\ x - q * Scale =< 0
    BY <1>1, Rounded
  <1>4. /\ rem >= 0 /\ v >= 0 => x >= 0
        /\ rem =< 0 /\ v =< 0 => x =< 0
    OBVIOUS
  <1> HIDE DEF x, q
  <1> QED
    BY <1>2, <1>3, <1>4

\* The sign and the magnitude of a number.
LEMMA SignType == \A x \in Int : Sign(x) \in {-1, 0, 1} /\ Abs(x) \in Nat
  BY DEF Sign, Abs

\* A velocity that is slowed down is a number.
LEMMA Decelerated ==
    ASSUME NEW v \in Int, NEW d \in Nat
    PROVE  decelerate(v, d) \in Int
  BY SignType DEF decelerate, Sign

-----------------------------------------------------------------------------
(* The invariant.                                                          *)

\* A backoff has its target, its drive and its remainder on the side it goes to.
Ahead(a) ==
    \/ /\ a.off > 0 /\ a.rem >= 0
       /\ a.target =< a.back /\ a.pos =< a.back
    \/ /\ a.off < 0 /\ a.rem =< 0
       /\ a.target >= a.back /\ a.pos >= a.back

\* The axis between two cycles.
Sound(a) ==
    /\ a \in AxType
    /\ a.pos =< Wall
    /\ a.st = "search" => a.hold < HoldCycles
    /\ a.st = "backoff" => Ahead(a)

HomingInv ==
    /\ Sound(ax)
    /\ seen \in SeenType
    /\ cmds \in Nat /\ notReady \in Nat

\* What a step of an axis changes, and where it goes.
LEMMA Stepped ==
    ASSUME NEW a \in AxType, NEW v \in Int
    PROVE  /\ Step(a, v) \in AxType
           /\ \E t \in Int, r \in (1 - Scale)..(Scale - 1) :
                /\ Step(a, v) = [a EXCEPT !.target = t, !.rem = r]
                /\ a.rem >= 0 /\ v >= 0 => t >= a.target /\ r >= 0
                /\ a.rem =< 0 /\ v =< 0 => t =< a.target /\ r =< 0
  <1> DEFINE s == velocity_step(a.rem, v)
             t == a.target + s.step
             r == s.rem
  <1>1. a.rem \in Int /\ a.target \in Int
    BY HomingAssumption DEF AxType
  <1>2. /\ s.step \in Int /\ s.rem \in (1 - Scale)..(Scale - 1)
        /\ a.rem >= 0 /\ v >= 0 => s.step >= 0 /\ s.rem >= 0
        /\ a.rem =< 0 /\ v =< 0 => s.step =< 0 /\ s.rem =< 0
    BY <1>1, VelocityStep
  <1>3. Step(a, v) = [a EXCEPT !.target = t, !.rem = r]
    BY DEF Step, AxType
  <1> HIDE DEF s
  <1>4. /\ t \in Int /\ r \in (1 - Scale)..(Scale - 1)
        /\ a.rem >= 0 /\ v >= 0 => t >= a.target /\ r >= 0
        /\ a.rem =< 0 /\ v =< 0 => t =< a.target /\ r =< 0
    BY <1>1, <1>2
  <1> HIDE DEF t, r
  <1>5. [a EXCEPT !.target = t, !.rem = r] \in AxType
    BY <1>4 DEF AxType
  <1> QED
    BY <1>3, <1>4, <1>5

\* Where the axis may be when a cycle begins.
LEMMA Moved ==
    ASSUME NEW a, Sound(a), NEW p \in {a.pos, IF a.target > Wall THEN Wall ELSE a.target}
    PROVE  LET b == [a EXCEPT !.pos = p] IN
           /\ Sound(b)
           /\ b.st = a.st /\ b.target = a.target /\ b.back = a.back /\ b.vel = a.vel
           /\ b.rem = a.rem /\ b.stopv = a.stopv
  <1> DEFINE b == [a EXCEPT !.pos = p]
  <1>1. a \in AxType /\ a.pos \in Int /\ a.target \in Int /\ a.back \in Int /\ Wall \in Int
    BY HomingAssumption DEF Sound, AxType
  <1>2. p \in Int /\ p =< Wall
    BY <1>1 DEF Sound
  <1>3. b \in AxType
    BY <1>1, <1>2 DEF AxType
  <1>4. /\ b.pos = p
        /\ b.st = a.st /\ b.target = a.target /\ b.back = a.back /\ b.vel = a.vel
        /\ b.rem = a.rem /\ b.stopv = a.stopv /\ b.off = a.off /\ b.hold = a.hold
    BY <1>1 DEF AxType
  <1> HIDE DEF b
  <1>5. b.st = "backoff" => Ahead(b)
    BY <1>1, <1>2, <1>4 DEF Sound, Ahead
  <1> QED
    BY <1>2, <1>3, <1>4, <1>5 DEF Sound, b

-----------------------------------------------------------------------------
(* The branches of update_homing.                                          *)

\* Clearing leaves an idle axis where it is.
LEMMA Cleared ==
    ASSUME NEW a \in AxType
    PROVE  /\ clear_homing(a) \in AxType /\ clear_homing(a).st = "idle"
           /\ clear_homing(a).pos = a.pos /\ clear_homing(a).target = a.target
  <1>1. /\ 0 \in Offsets \cup {0} /\ 0 \in 0..TimeoutCycles + 1 /\ 0 \in 0..HoldCycles
        /\ 0 \in 0..GlitchCycles /\ 0 \in Nat /\ 0 \in Int /\ "idle" \in States
    BY HomingAssumption DEF States
  <1> QED
    BY <1>1 DEF clear_homing, AxType

\* An axis that is told to stand where it is, its velocity dropped.
LEMMA Stands ==
    ASSUME NEW a \in AxType, NEW p \in Int
    PROVE  LET b == [a EXCEPT !.stopv = 0, !.rem = 0, !.target = p] IN
           /\ b \in AxType /\ b.target = p /\ b.rem = 0
           /\ b.st = a.st /\ b.pos = a.pos /\ b.off = a.off /\ b.hold = a.hold
  <1>1. 0 \in (1 - Scale)..(Scale - 1) /\ 0 \in Int
    BY HomingAssumption
  <1> QED
    BY <1>1 DEF AxType

\* An axis that is sent back to a place.
LEMMA Retreats ==
    ASSUME NEW a \in AxType, NEW k \in Int
    PROVE  LET b == [a EXCEPT !.st = "backoff", !.back = k] IN
           /\ b \in AxType /\ b.st = "backoff" /\ b.back = k
           /\ b.pos = a.pos /\ b.target = a.target /\ b.rem = a.rem /\ b.off = a.off
  <1>1. "backoff" \in States
    BY DEF States
  <1> QED
    BY <1>1 DEF AxType

\* An axis that waits for its drive is where it was.
LEMMA HeldSound ==
    ASSUME NEW a, Sound(a)
    PROVE  Sound(Held(a))
  <1>1. a \in AxType /\ a.pos \in Int /\ a.back \in Int
    BY DEF Sound, AxType
  <1>2. CASE a.unready < GlitchCycles
    <2> DEFINE b == [a EXCEPT !.unready = a.unready + 1, !.target = a.pos]
    <2>1. Held(a) = b
      BY <1>1, <1>2 DEF Held, AtPos, AxType
    <2>2. a.unready + 1 \in 0..GlitchCycles
      BY <1>1, <1>2, HomingAssumption DEF AxType
    <2>3. b \in AxType
      BY <1>1, <2>2 DEF AxType
    <2>4. /\ b.pos = a.pos /\ b.target = a.pos /\ b.st = a.st /\ b.hold = a.hold
          /\ b.back = a.back /\ b.rem = a.rem /\ b.off = a.off
      BY <1>1 DEF AxType
    <2> HIDE DEF b
    <2> QED
      BY <1>1, <2>1, <2>3, <2>4 DEF Sound, Ahead
  <1>3. CASE ~(a.unready < GlitchCycles)
    <2> DEFINE c == clear_homing(a)
               b == [c EXCEPT !.stopv = 0, !.rem = 0, !.target = a.pos]
    <2>1. c \in AxType /\ c.st = "idle" /\ c.pos = a.pos
      BY <1>1, Cleared
    <2> HIDE DEF c
    <2>2. b \in AxType /\ b.st = "idle" /\ b.pos = a.pos
      BY <1>1, <2>1, Stands
    <2>3. Held(a) = b
      BY <1>3, <2>1 DEF Held, AtPos, AxType, c
    <2> HIDE DEF b
    <2> QED
      BY <2>2, <2>3 DEF Sound
  <1> QED
    BY <1>2, <1>3

\* An aborted search stands or slows down in front of the wall.
LEMMA AbortSound ==
    ASSUME NEW a \in AxType, a.st = "abort", a.pos =< Wall
    PROVE  Sound(AbortDecel(a))
  <1>1. a.stopv \in Int /\ a.decel \in Nat /\ a.pos \in Int
    BY DEF AxType
  <1>2. CASE a.stopv # 0
    <2> DEFINE v == decelerate(a.stopv, a.decel)
    <2>1. v \in Int
      BY <1>1, Decelerated
    <2>2. PICK t \in Int, r \in (1 - Scale)..(Scale - 1) :
             /\ Step(a, a.stopv) = [a EXCEPT !.target = t, !.rem = r]
             /\ a.rem >= 0 /\ a.stopv >= 0 => t >= a.target /\ r >= 0
             /\ a.rem =< 0 /\ a.stopv =< 0 => t =< a.target /\ r =< 0
      BY <1>1, Stepped
    <2> DEFINE b == [[a EXCEPT !.target = t, !.rem = r] EXCEPT !.stopv = v]
    <2>3. AbortDecel(a) = [Step(a, a.stopv) EXCEPT !.stopv = v]
      BY <1>1, <1>2, <2>2 DEF AbortDecel, AxType
    <2>4. AbortDecel(a) = b
      BY <2>2, <2>3
    <2> HIDE DEF v
    <2>5. b \in AxType /\ b.st = "abort" /\ b.pos = a.pos
      BY <2>1, <2>2 DEF AxType
    <2> HIDE DEF b
    <2> QED
      BY <2>4, <2>5 DEF Sound
  <1>3. CASE a.stopv = 0
    <2> DEFINE c == clear_homing(a)
               b == [c EXCEPT !.rem = 0, !.target = a.pos]
    <2>1. c \in AxType /\ c.st = "idle" /\ c.pos = a.pos
      BY Cleared
    <2> HIDE DEF c
    <2>2. 0 \in (1 - Scale)..(Scale - 1)
      BY HomingAssumption
    <2>3. b \in AxType /\ b.st = "idle" /\ b.pos = a.pos
      BY <1>1, <2>1, <2>2 DEF AxType
    <2>4. AbortDecel(a) = b
      BY <1>3, <2>1 DEF AbortDecel, AtPos, AxType, c
    <2> HIDE DEF b
    <2> QED
      BY <2>3, <2>4 DEF Sound
  <1> QED
    BY <1>2, <1>3

\* Counting the torque of a cycle.
LEMMA CountedType ==
    ASSUME NEW a, Sound(a), NEW torque \in BOOLEAN
    PROVE  LET b == Counted(a, torque) IN
           /\ b \in AxType
           /\ b.st = a.st /\ b.pos = a.pos /\ b.target = a.target /\ b.back = a.back
           /\ b.rem = a.rem /\ b.off = a.off /\ b.vel = a.vel /\ b.stopv = a.stopv
           /\ TooFar(b) <=> TooFar(a)
           /\ TimedOut(b) <=> TimedOut(a)
  <1> DEFINE h == IF a.st # "search" \/ TooFar(a) \/ TimedOut(a) THEN a.hold
                  ELSE IF torque THEN a.hold + 1 ELSE 0
             b == [a EXCEPT !.unready = 0, !.hold = h]
  <1>1. a \in AxType /\ a.hold \in 0..HoldCycles
        /\ HoldCycles \in Nat /\ 0 \in 0..GlitchCycles
    BY HomingAssumption DEF Sound, AxType
  <1>2. h \in 0..HoldCycles
    BY <1>1 DEF Sound
  <1>3. Counted(a, torque) = b
    BY <1>1 DEF Counted, AxType
  <1> HIDE DEF h
  <1>4. /\ b \in AxType
        /\ b.st = a.st /\ b.pos = a.pos /\ b.target = a.target /\ b.back = a.back
        /\ b.rem = a.rem /\ b.off = a.off /\ b.vel = a.vel /\ b.stopv = a.stopv
        /\ b.start = a.start /\ b.elapsed = a.elapsed
    BY <1>1, <1>2 DEF AxType
  <1> HIDE DEF b
  <1> QED
    BY <1>3, <1>4 DEF TooFar, TimedOut

\* A search goes on, is aborted, or turns back from where it met the wall.
LEMMA SearchSound ==
    ASSUME NEW a \in AxType, a.st = "search", a.pos =< Wall
    PROVE  Sound(Search(a))
  <1>1. /\ a.pos \in Int /\ a.vel \in Int /\ a.hold \in 0..HoldCycles
        /\ a.elapsed \in 0..TimeoutCycles + 1 /\ a.off \in Int
    <2>1. Offsets \cup {0} \subseteq Int
      BY HomingAssumption
    <2> QED
      BY <2>1 DEF AxType
  <1>2. /\ 0 \in (1 - Scale)..(Scale - 1) /\ HoldCycles \in Nat /\ TimeoutCycles \in Nat
    BY HomingAssumption DEF AxType
  <1>3. CASE TooFar(a) \/ TimedOut(a)
    <2>1. /\ abort_homing(a) \in AxType /\ abort_homing(a).st = "abort"
          /\ abort_homing(a).pos = a.pos
      BY <1>1, <1>2 DEF abort_homing, AxType, States
    <2> QED
      BY <1>3, <2>1, AbortSound DEF Search
  <1>4. CASE ~(TooFar(a) \/ TimedOut(a)) /\ a.hold >= HoldCycles
    <2> DEFINE b == [a EXCEPT !.stopv = 0, !.rem = 0, !.target = a.pos]
    <2>1. /\ b \in AxType /\ b.pos = a.pos /\ b.target = a.pos /\ b.rem = 0
          /\ b.off = a.off /\ b.hold = a.hold
      BY <1>1, <1>2, Stands
    <2>2. b = [AtPos(a) EXCEPT !.stopv = 0, !.rem = 0]
      BY <1>1, <1>2 DEF AtPos, AxType
    <2>3. Search(a) = IF a.off # 0 THEN [b EXCEPT !.st = "backoff", !.back = a.pos + a.off]
                      ELSE clear_homing(b)
      BY <1>4, <2>2 DEF Search, Contact
    <2> HIDE DEF b
    <2>4. CASE a.off # 0
      <3> DEFINE k == a.pos + a.off
                 c == [b EXCEPT !.st = "backoff", !.back = k]
      <3>1. k \in Int /\ (a.off > 0 => a.pos =< k) /\ (a.off < 0 => a.pos >= k)
            /\ (a.off > 0 \/ a.off < 0)
        BY <1>1, <1>2, <2>4
      <3> HIDE DEF k
      <3>2. /\ c \in AxType /\ c.st = "backoff" /\ c.pos = a.pos /\ c.target = a.pos
            /\ c.rem = 0 /\ c.off = a.off /\ c.back = k
        BY <2>1, <3>1, Retreats
      <3> HIDE DEF c
      <3>3. Sound(c)
        BY <1>1, <1>2, <3>1, <3>2 DEF Sound, Ahead
      <3>4. Search(a) = c
        BY <2>3, <2>4 DEF c, k
      <3> QED
        BY <3>3, <3>4
    <2>5. CASE a.off = 0
      BY <2>1, <2>3, <2>5, Cleared DEF Sound
    <2> QED
      BY <2>4, <2>5
  <1>5. CASE ~(TooFar(a) \/ TimedOut(a)) /\ ~(a.hold >= HoldCycles)
    <2>1. PICK t \in Int, r \in (1 - Scale)..(Scale - 1) :
             /\ Step(a, a.vel) = [a EXCEPT !.target = t, !.rem = r]
             /\ a.rem >= 0 /\ a.vel >= 0 => t >= a.target /\ r >= 0
             /\ a.rem =< 0 /\ a.vel =< 0 => t =< a.target /\ r =< 0
      BY <1>1, <1>2, Stepped
    <2> DEFINE s == [a EXCEPT !.target = t, !.rem = r]
               e == a.elapsed + 1
               b == [s EXCEPT !.elapsed = e]
    <2>2. Search(a) = b
      BY <1>5, <2>1 DEF Search, AxType
    <2>3. e \in 0..TimeoutCycles + 1
      BY <1>1, <1>2, <1>5 DEF TimedOut
    <2> HIDE DEF e
    <2>4. b \in AxType /\ b.st = "search" /\ b.pos = a.pos /\ b.hold = a.hold
      BY <2>1, <2>3 DEF AxType
    <2> HIDE DEF b
    <2> QED
      BY <1>1, <1>2, <1>5, <2>2, <2>4 DEF Sound
  <1> QED
    BY <1>3, <1>4, <1>5

\* A step of a backoff goes on towards its target.
LEMMA Approach ==
    ASSUME NEW a \in AxType, Ahead(a), a.target # a.back
    PROVE  \E k \in Int, r \in (1 - Scale)..(Scale - 1) :
             /\ Backoff(a) = [a EXCEPT !.target = k, !.rem = r]
             /\ a.off > 0 => a.target =< k /\ k =< a.back /\ r >= 0
             /\ a.off < 0 => a.target >= k /\ k >= a.back /\ r =< 0
  <1>1. /\ a.target \in Int /\ a.back \in Int /\ a.vel \in Int /\ a.off \in Int
        /\ a.rem \in Int /\ Abs(a.vel) \in Nat
    <2>1. Offsets \cup {0} \subseteq Int
      BY HomingAssumption
    <2>2. (1 - Scale)..(Scale - 1) \subseteq Int
      BY HomingAssumption
    <2> QED
      BY <2>1, <2>2, SignType DEF AxType
  <1> DEFINE v == BackoffVelocity(a)
  <1>2. /\ a.off > 0 => a.back > a.target /\ v = Abs(a.vel)
        /\ a.off < 0 => a.back < a.target /\ v = -Abs(a.vel)
        /\ (a.off > 0 /\ a.rem >= 0) \/ (a.off < 0 /\ a.rem =< 0)
    <2>1. \/ a.off > 0 /\ a.rem >= 0 /\ a.back > a.target
          \/ a.off < 0 /\ a.rem =< 0 /\ a.back < a.target
      BY <1>1 DEF Ahead
    <2>2. /\ a.back > a.target => Sign(a.back - a.target) = 1
          /\ a.back < a.target => Sign(a.back - a.target) = -1
      BY <1>1 DEF Sign
    <2>3. v = Sign(a.back - a.target) * Abs(a.vel)
      BY DEF BackoffVelocity
    <2> HIDE DEF v
    <2>4. /\ a.back > a.target => v = Abs(a.vel)
          /\ a.back < a.target => v = -Abs(a.vel)
      BY <1>1, <2>2, <2>3
    <2>5. CASE a.off > 0 /\ a.rem >= 0 /\ a.back > a.target
      BY <1>1, <2>4, <2>5
    <2>6. CASE a.off < 0 /\ a.rem =< 0 /\ a.back < a.target
      BY <1>1, <2>4, <2>6
    <2> QED
      BY <2>1, <2>5, <2>6
  <1>3. v \in Int
    BY <1>1, <1>2
  <1>4. PICK t \in Int, r \in (1 - Scale)..(Scale - 1) :
           /\ Step(a, v) = [a EXCEPT !.target = t, !.rem = r]
           /\ a.rem >= 0 /\ v >= 0 => t >= a.target /\ r >= 0
           /\ a.rem =< 0 /\ v =< 0 => t =< a.target /\ r =< 0
    <2> HIDE DEF v
    <2> QED
      BY <1>3, Stepped
  <1> DEFINE k == Clip(a, t)
  <1>5. /\ k \in Int
        /\ a.off > 0 => a.target =< k /\ k =< a.back /\ r >= 0
        /\ a.off < 0 => a.target >= k /\ k >= a.back /\ r =< 0
    <2>1. CASE a.off > 0
      <3>1. Sign(a.back - a.target) = 1 /\ v >= 0 /\ a.rem >= 0
        BY <1>1, <1>2, <2>1 DEF Sign
      <3>2. k = IF t > a.back THEN a.back ELSE t
        BY <1>1, <3>1 DEF Clip
      <3> HIDE DEF v, k
      <3> QED
        BY <1>1, <1>2, <1>4, <2>1, <3>1, <3>2
    <2>2. CASE a.off < 0
      <3>1. Sign(a.back - a.target) = -1 /\ v =< 0 /\ a.rem =< 0
        BY <1>1, <1>2, <2>2 DEF Sign
      <3>2. k = IF t < a.back THEN a.back ELSE t
        BY <1>1, <3>1 DEF Clip
      <3> HIDE DEF v, k
      <3> QED
        BY <1>1, <1>2, <1>4, <2>2, <3>1, <3>2
    <2> QED
      BY <1>2, <2>1, <2>2
  <1>6. Backoff(a) = [a EXCEPT !.target = k, !.rem = r]
    <2> DEFINE b == [a EXCEPT !.target = t, !.rem = r]
    <2>1. b.target = t /\ [b EXCEPT !.target = k] = [a EXCEPT !.target = k, !.rem = r]
      BY DEF AxType
    <2> HIDE DEF v
    <2>2. Step(a, v) = b
      BY <1>4
    <2>3. Backoff(a) = [Step(a, v) EXCEPT !.target = Clip(a, Step(a, v).target)]
      BY DEF Backoff, v
    <2> HIDE DEF b
    <2> QED
      BY <2>1, <2>2, <2>3
  <1> QED
    BY <1>5, <1>6

\* A backoff steps towards its target and ends exactly there.
LEMMA BackoffSound ==
    ASSUME NEW a \in AxType, a.st = "backoff", a.pos =< Wall, Ahead(a)
    PROVE  LET b == Backoff(a) IN
           /\ Sound(b)
           /\ Between(b.target, a.target, a.back)
           /\ b.st # "backoff" => b.target = a.back
  <1>1. a.target \in Int /\ a.back \in Int /\ a.pos \in Int
    BY DEF AxType
  <1>2. CASE a.target = a.back
    <2> DEFINE c == clear_homing(a)
               b == [c EXCEPT !.rem = 0]
    <2>1. c \in AxType /\ c.st = "idle" /\ c.pos = a.pos /\ c.target = a.target
      BY Cleared
    <2> HIDE DEF c
    <2>2. 0 \in (1 - Scale)..(Scale - 1)
      BY HomingAssumption
    <2>3. b \in AxType /\ b.st = "idle" /\ b.pos = a.pos /\ b.target = a.target
      BY <2>1, <2>2 DEF AxType
    <2>4. Backoff(a) = b
      BY <1>2 DEF Backoff, c
    <2> HIDE DEF b
    <2> QED
      BY <1>1, <1>2, <2>3, <2>4 DEF Sound, Between
  <1>3. CASE a.target # a.back
    <2>1. PICK k \in Int, r \in (1 - Scale)..(Scale - 1) :
             /\ Backoff(a) = [a EXCEPT !.target = k, !.rem = r]
             /\ a.off > 0 => a.target =< k /\ k =< a.back /\ r >= 0
             /\ a.off < 0 => a.target >= k /\ k >= a.back /\ r =< 0
      BY <1>3, Approach
    <2> DEFINE b == [a EXCEPT !.target = k, !.rem = r]
    <2>2. /\ b \in AxType /\ b.st = "backoff" /\ b.pos = a.pos /\ b.target = k
          /\ b.rem = r /\ b.off = a.off /\ b.back = a.back
      BY <2>1 DEF AxType
    <2> HIDE DEF b
    <2>3. Sound(b)
      BY <1>1, <2>1, <2>2 DEF Sound, Ahead
    <2>4. Between(b.target, a.target, a.back)
      BY <1>1, <2>1, <2>2 DEF Ahead, Between
    <2> QED
      BY <2>1, <2>2, <2>3, <2>4 DEF b
  <1> QED
    BY <1>2, <1>3

\* A cycle keeps the axis sound, and a backoff on its way.
LEMMA UpdateSound ==
    ASSUME NEW a, Sound(a), NEW ready \in BOOLEAN, NEW torque \in BOOLEAN
    PROVE  LET b == update_homing(a, ready, torque) IN
           /\ Sound(b)
           /\ ready /\ a.st = "backoff" =>
                /\ Between(b.target, a.target, a.back)
                /\ b.st # "backoff" => b.target = a.back
  <1> DEFINE c == Counted(a, torque)
  <1>1. a.st \in States
    BY DEF Sound, AxType
  <1>2. CASE a.st = "idle"
    BY <1>2 DEF update_homing
  <1>3. CASE a.st # "idle" /\ ~ready
    BY <1>3, HeldSound DEF update_homing
  <1>4. CASE a.st # "idle" /\ ready
    <2>1. /\ c \in AxType
          /\ c.st = a.st /\ c.pos = a.pos /\ c.target = a.target /\ c.back = a.back
          /\ c.rem = a.rem /\ c.off = a.off
      BY CountedType
    <2>2. update_homing(a, ready, torque) =
            CASE c.st = "search"  -> Search(c)
              [] c.st = "backoff" -> Backoff(c)
              [] c.st = "abort"   -> AbortDecel(c)
      BY <1>4 DEF update_homing
    <2> HIDE DEF c
    <2>3. c.pos =< Wall /\ (c.st = "backoff" => Ahead(c))
      BY <2>1 DEF Sound, Ahead
    <2>4. CASE a.st = "search"
      BY <2>1, <2>2, <2>3, <2>4, SearchSound
    <2>5. CASE a.st = "backoff"
      <3>1. update_homing(a, ready, torque) = Backoff(c)
        BY <2>1, <2>2, <2>5
      <3> QED
        BY <2>1, <2>3, <2>5, <3>1, BackoffSound
    <2>6. CASE a.st = "abort"
      BY <2>1, <2>2, <2>3, <2>6, AbortSound
    <2> QED
      BY <1>1, <1>4, <2>4, <2>5, <2>6 DEF States
  <1> QED
    BY <1>2, <1>3, <1>4

-----------------------------------------------------------------------------
(* The steps of the specification.                                         *)

\* An axis that loses its velocity and stays where it is.
LEMMA DroppedType ==
    ASSUME NEW a \in AxType
    PROVE  LET b == Dropped(a) IN
           /\ b \in AxType /\ b.pos = a.pos /\ b.target = a.target /\ b.st = a.st
           /\ b.hold = a.hold /\ b.off = a.off /\ b.back = a.back /\ b.rem = 0
  <1>1. 0 \in (1 - Scale)..(Scale - 1) /\ 0 \in Int
    BY HomingAssumption
  <1> QED
    BY <1>1 DEF Dropped, AxType

\* The axis of a cycle in which the servo may just have been lost.
LEMMA DroppedSound ==
    ASSUME NEW a, Sound(a), NEW now \in {a, Dropped(a)}
    PROVE  Sound(now) /\ now.pos = a.pos /\ now.target = a.target /\ now.st = a.st
  <1> DEFINE b == Dropped(a)
  <1>1. /\ b \in AxType /\ b.pos = a.pos /\ b.target = a.target /\ b.st = a.st
        /\ b.hold = a.hold /\ b.off = a.off /\ b.back = a.back /\ b.rem = 0
    BY DroppedType DEF Sound
  <1>2. now = a \/ now = b
    OBVIOUS
  <1> HIDE DEF b
  <1>3. Sound(b)
    BY <1>1 DEF Sound, Ahead
  <1> QED
    BY <1>1, <1>2, <1>3

\* What the cycle notes of itself.
LEMMA SeenKept ==
    ASSUME NEW now, NEW p, NEW ready \in BOOLEAN, NEW torque \in BOOLEAN,
           seen \in SeenType, Sound([now EXCEPT !.pos = p]), CycleWith(now, p, ready, torque)
    PROVE  seen' \in SeenType
  <1> DEFINE a == [now EXCEPT !.pos = p]
             b == update_homing(a, ready, torque)
             steps == a.st # "idle" /\ ready /\ b.st # "idle"
                         /\ ~(a.st = "search" /\ b.st = "backoff")
             last == IF steps THEN VelocityOf(a, b) ELSE 0
             high == IF a.st # "search" \/ ~torque THEN 0
                     ELSE IF seen.high < HoldCycles THEN seen.high + 1
                     ELSE HoldCycles
             assigned == /\ a.st = "search" /\ ready
                         /\ b.st \in {"idle", "backoff"}
  <1>1. seen' = [last |-> last, stepped |-> steps, high |-> high, assigned |-> assigned]
    BY DEF CycleWith
  <1>2. a.st \in States /\ a.vel \in Int /\ a.stopv \in Int /\ BackoffVelocity(a) \in Int
    <2>1. /\ a.st \in States /\ a.vel \in Int /\ a.stopv \in Int
          /\ a.back \in Int /\ a.target \in Int
      BY DEF Sound, AxType
    <2> HIDE DEF a
    <2>2. a.back - a.target \in Int
      BY <2>1
    <2>3. Sign(a.back - a.target) \in Int /\ Abs(a.vel) \in Int
      BY <2>1, <2>2, SignType
    <2> QED
      BY <2>1, <2>3 DEF BackoffVelocity
  <1> HIDE DEF a
  <1>3. last \in Int
    BY <1>2 DEF VelocityOf, States
  <1>4. high \in 0..HoldCycles
    BY HomingAssumption DEF SeenType
  <1>5. steps \in BOOLEAN /\ assigned \in BOOLEAN
    OBVIOUS
  <1> HIDE DEF last, steps, high, assigned
  <1> QED
    BY <1>1, <1>3, <1>4, <1>5 DEF SeenType

\* A cycle in which the servo is ready, and one in which it is not.
LEMMA CycleSound ==
    ASSUME HomingInv, NEW now \in {ax, Dropped(ax)}, NEW p \in Positions,
           NEW ready \in BOOLEAN, NEW torque \in BOOLEAN,
           CycleWith(now, p, ready, torque)
    PROVE  /\ Sound(ax') /\ seen' \in SeenType
           /\ ready /\ ax.st = "backoff" /\ now = ax =>
                /\ Between(ax'.target, ax.target, ax.back)
                /\ ax'.st # "backoff" => ax'.target = ax.back
  <1> DEFINE a == [now EXCEPT !.pos = p]
  <1>1. Sound(now) /\ now.pos = ax.pos /\ now.target = ax.target /\ now.st = ax.st
    BY DroppedSound DEF HomingInv
  <1>2. p \in {now.pos, IF now.target > Wall THEN Wall ELSE now.target}
    BY <1>1 DEF Positions
  <1>3. Sound(a) /\ a.st = now.st /\ a.target = now.target /\ a.back = now.back
    BY <1>1, <1>2, Moved
  <1>4. ax' = update_homing(a, ready, torque)
    BY DEF CycleWith
  <1>5. seen' \in SeenType
    BY <1>3, SeenKept DEF HomingInv
  <1> HIDE DEF a
  <1>6. /\ Sound(ax')
        /\ ready /\ a.st = "backoff" =>
             /\ Between(ax'.target, a.target, a.back)
             /\ ax'.st # "backoff" => ax'.target = a.back
    BY <1>3, <1>4, UpdateSound
  <1> QED
    BY <1>1, <1>3, <1>5, <1>6

\* The axis stands at its start to begin with.
LEMMA HomingInit == Init => HomingInv
  <1>1. /\ 0 \in (1 - Scale)..(Scale - 1) /\ 0 \in 0..TimeoutCycles + 1
        /\ 0 \in 0..HoldCycles /\ 0 \in 0..GlitchCycles /\ 0 =< Wall
    BY HomingAssumption
  <1> QED
    BY <1>1 DEF Init, HomingInv, Sound, AxType, SeenType, States

\* A command gives the axis another state and leaves the rest.
LEMMA CommandKeeps ==
    ASSUME HomingInv, NEW b, Sound(b), Command(b)
    PROVE  HomingInv'
  BY DEF Command, HomingInv, SeenType

\* The axis that homing_start_torque sets up.
Begun(a, d, v, dec, off) ==
    [a EXCEPT !.st = "search", !.dir = d, !.vel = v, !.decel = dec, !.stopv = 0,
              !.rem = 0, !.target = a.pos, !.start = a.pos, !.off = off, !.back = 0,
              !.elapsed = 0, !.hold = 0, !.unready = 0]

\* What a homing begins with.
LEMMA Started ==
    ASSUME NEW a \in AxType, NEW d \in {-1, 1}, NEW v \in Int, NEW dec \in Nat,
           NEW off \in Offsets, a.pos =< Wall
    PROVE  Sound(Begun(a, d, v, dec, off))
  <1> DEFINE b == Begun(a, d, v, dec, off)
  <1>1. /\ 0 \in (1 - Scale)..(Scale - 1) /\ 0 \in 0..TimeoutCycles + 1 /\ 0 \in Int
        /\ 0 \in 0..HoldCycles /\ 0 \in 0..GlitchCycles /\ off \in Offsets \cup {0}
        /\ "search" \in States /\ 0 < HoldCycles
    BY HomingAssumption DEF States
  <1>2. b \in AxType /\ b.st = "search" /\ b.hold = 0 /\ b.pos = a.pos
    BY <1>1 DEF Begun, AxType
  <1> HIDE DEF b
  <1>3. Sound(b)
    BY <1>1, <1>2 DEF Sound
  <1> QED
    BY <1>3 DEF b

\* A start of a homing keeps the invariant.
LEMMA StartKeeps == ASSUME HomingInv, HomingStart PROVE HomingInv'
  <1>1. PICK d \in {-1, 1}, speed \in Speeds, dec \in Decels, off \in Offsets :
           Command(Begun(ax, d, d * speed, dec, off))
    BY DEF HomingStart, Begun
  <1>2. d * speed \in Int /\ dec \in Nat
    BY HomingAssumption
  <1>3. ax \in AxType /\ ax.pos =< Wall
    BY DEF HomingInv, Sound
  <1>4. Sound(Begun(ax, d, d * speed, dec, off))
    BY <1>2, <1>3, Started
  <1> QED
    BY <1>1, <1>4, CommandKeeps

\* A stop of a homing keeps the invariant.
LEMMA StopKeeps == ASSUME HomingInv, HomingStop PROVE HomingInv'
  <1>1. PICK dec \in Decels : Command(abort_homing([ax EXCEPT !.decel = dec]))
    BY DEF HomingStop
  <1>2. ax \in AxType /\ dec \in Nat /\ ax.pos =< Wall
    BY HomingAssumption DEF HomingInv, Sound
  <1> DEFINE b == abort_homing([ax EXCEPT !.decel = dec])
  <1>3. b \in AxType /\ b.st = "abort" /\ b.pos = ax.pos
    BY <1>2 DEF abort_homing, AxType, States
  <1> HIDE DEF b
  <1>4. Sound(b)
    BY <1>2, <1>3 DEF Sound
  <1> QED
    BY <1>1, <1>4, CommandKeeps DEF b

\* Every command that resets a homing keeps the invariant.
LEMMA ResetKeeps == ASSUME HomingInv, Reset PROVE HomingInv'
  <1> DEFINE c == clear_homing(ax)
             b == [c EXCEPT !.stopv = 0, !.rem = 0, !.target = ax.pos]
  <1>1. ax \in AxType /\ ax.pos \in Int /\ ax.pos =< Wall
    BY DEF HomingInv, Sound, AxType
  <1>2. c \in AxType /\ c.st = "idle" /\ c.pos = ax.pos
    BY <1>1, Cleared
  <1>3. Command(b)
    BY DEF Reset
  <1> HIDE DEF c
  <1>4. b \in AxType /\ b.st = "idle" /\ b.pos = ax.pos
    BY <1>1, <1>2, Stands
  <1> HIDE DEF b
  <1>5. Sound(b)
    BY <1>1, <1>4 DEF Sound
  <1> QED
    BY <1>3, <1>5, CommandKeeps

\* A cycle is one with the servo ready, or one that is counted as not ready.
LEMMA CycleKeeps ==
    ASSUME HomingInv, Cycle
    PROVE  /\ HomingInv'
           /\ ax.st = "backoff" /\ notReady' = notReady =>
                /\ Between(ax'.target, ax.target, ax.back)
                /\ ax'.st # "backoff" => ax'.target = ax.back
  <1>1. cmds' = cmds /\ cmds \in Nat /\ notReady \in Nat
    BY DEF Cycle, HomingInv
  <1>2. PICK p \in Positions, torque \in BOOLEAN :
           \/ CycleWith(ax, p, TRUE, torque) /\ notReady' = notReady
           \/ /\ notReady' = notReady + 1
              /\ \E now \in {ax, Dropped(ax)} : CycleWith(now, p, FALSE, torque)
    BY DEF Cycle
  <1>3. CASE CycleWith(ax, p, TRUE, torque) /\ notReady' = notReady
    BY <1>1, <1>3, CycleSound DEF HomingInv
  <1>4. CASE /\ notReady' = notReady + 1
             /\ \E now \in {ax, Dropped(ax)} : CycleWith(now, p, FALSE, torque)
    <2>1. PICK now \in {ax, Dropped(ax)} : CycleWith(now, p, FALSE, torque)
      BY <1>4
    <2>2. Sound(ax') /\ seen' \in SeenType
      BY <2>1, CycleSound
    <2> QED
      BY <1>1, <1>4, <2>2 DEF HomingInv
  <1> QED
    BY <1>2, <1>3, <1>4

\* Every step keeps the invariant.
LEMMA HomingNext == ASSUME HomingInv, [Next]_vars PROVE HomingInv'
  <1>1. CASE UNCHANGED vars
    BY <1>1 DEF vars, HomingInv
  <1> QED
    BY <1>1, StartKeeps, StopKeeps, ResetKeeps, CycleKeeps DEF Next

-----------------------------------------------------------------------------
(* The theorems.                                                           *)

\* Whatever is commanded, and whatever the drive does, the counters of a homing
\* stay within their limits, the remainder below a count per cycle, and a
\* backoff has everything on the side it goes to.
THEOREM HomingInvHolds == Spec => []HomingInv
  BY HomingInit, HomingNext, PTL DEF Spec

\* The counts of update_homing, and what velocity_step_counts leaves of the
\* velocity, never leave their ranges.
THEOREM HomingTypes == Spec => []TypeOK
  <1>1. HomingInv => TypeOK
    BY DEF HomingInv, Sound, TypeOK
  <1> QED
    BY <1>1, HomingInvHolds, PTL

\* At every speed, deceleration and remainder, and after every hold, a backoff
\* goes towards its target only, never beyond it, and ends exactly there
\* (update_homing: HOMING_STATE_BACKOFF).
THEOREM BackoffsApproach == Spec => BackoffApproaches
  <1>1. ASSUME HomingInv, [Next]_vars
        PROVE  [ax.st = "backoff" /\ cmds' = cmds /\ notReady' = notReady =>
                  /\ Between(ax'.target, ax.target, ax.back)
                  /\ ax'.st # "backoff" => ax'.target = ax.back]_vars
    <2> SUFFICES ASSUME Next, ax.st = "backoff", cmds' = cmds, notReady' = notReady
                 PROVE  /\ Between(ax'.target, ax.target, ax.back)
                        /\ ax'.st # "backoff" => ax'.target = ax.back
      BY <1>1
    <2>1. cmds \in Nat
      BY <1>1 DEF HomingInv
    <2>2. \A b : ~Command(b)
      BY <2>1 DEF Command
    <2>3. ~HomingStart /\ ~HomingStop /\ ~Reset
      BY <2>2 DEF HomingStart, HomingStop, Reset
    <2> QED
      BY <1>1, <2>3, CycleKeeps DEF Next
  <1> QED
    BY <1>1, HomingInvHolds, PTL DEF Spec, BackoffApproaches

=============================================================================
