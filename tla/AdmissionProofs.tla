--------------------------- MODULE AdmissionProofs ---------------------------
(***************************************************************************)
(* Proofs about what Gateway lets in: the tables and rules of CommandRules,*)
(* the modules of Assembly, and what they make of every request that a     *)
(* thread serves.                                                          *)
(***************************************************************************)
EXTENDS GatewayProofs, FiniteSetTheorems, WellFoundedInduction

-----------------------------------------------------------------------------
(* Numbers: what the daemon is asked for.                                  *)

\* Where the rules look for a number there is one, or NotInt.
NumbersIn(c, p) ==
    \A f \in Numeric(c) \cap DOMAIN p : p[f] \in Int \cup {NotInt}

\* Of a command that is checked, every field the daemon looks for is one the
\* server checks, and every one it reads as unsigned has a lower limit.
LEMMA Fields ==
    ASSUME NEW c
    PROVE  /\ DaemonReads(c) \subseteq RequiredInts(c) \cup OptionalInts(c)
           /\ Unsigned(c) \subseteq Nonnegative \cup Positive
           /\ ZeroIsDefault(c) \subseteq ZeroIsFree \cup Positive
  <1>1. DaemonReads(c) \subseteq RequiredInts(c) \cup OptionalInts(c)
    BY DEF DaemonReads
  <1>2. Unsigned(c) \subseteq Nonnegative \cup Positive
    BY DEF Unsigned, Nonnegative, Positive, Decels, Profile, CurveRates, Ratios
  <1>3. ZeroIsDefault(c) \subseteq ZeroIsFree \cup Positive
    BY DEF ZeroIsDefault, ZeroIsFree, Positive, Decels, Profile, CurveRates, Ratios
  <1> QED
    BY <1>1, <1>2, <1>3

\* The anti-sway and table commands carry no number for the daemon, nor does a
\* request for the status.
LEMMA Unread ==
    ASSUME NEW c \in SwayCommands \cup TableCommands \cup {"status"}
    PROVE  DaemonReads(c) = {}
  BY DEF DaemonReads, RequiredInts, OptionalInts, CurveCommands, GearSetup, Moves,
     SwayCommands, TableCommands

\* Of the limits of the daemon, the checks of the server miss the least timeout.
LEMMA WithinRange ==
    ASSUME NEW c, NEW p, NumbersValid(c, p), NEW f \in DOMAIN p, p[f] \in Int,
           f \in RequiredInts(c) \cup OptionalInts(c), OutOfRange(c, f, p[f])
    PROVE  f = "timeout_ms" /\ p[f] = 0
  <1>1. CASE c = "homing_start_torque"
    <2>1. /\ p["direction"] \in {-1, 1} /\ p["speed_rpm"] > 0
          /\ \A g \in HomingLimited \cap DOMAIN p : p[g] =< MaxValue
          /\ "torque_threshold" \in DOMAIN p =>
               p["torque_threshold"] > 0 /\ p["torque_threshold"] =< MaxValue
      BY <1>1 DEF NumbersValid, Has, Limited
    <2>2. \A g \in {"backoff_distance", "timeout_ms", "torque_hold_ms"} \cap DOMAIN p :
             p[g] >= 0 /\ p[g] =< MaxValue
      BY <2>1 DEF NumbersValid, Nonnegative, HomingLimited
    <2>3. "max_distance" \in DOMAIN p => p["max_distance"] =< MaxValue
      BY <2>1 DEF HomingLimited
    <2>4. MaxValue \in Nat
      BY LimitAssumption
    <2>5. \/ f = "direction" /\ p[f] \notin {-1, 1}
          \/ f = "speed_rpm" /\ p[f] = 0
          \/ f \in {"torque_threshold", "timeout_ms"} /\ p[f] \notin 1..MaxValue
          \/ f \in {"backoff_distance", "torque_hold_ms"} /\ p[f] \notin 0..MaxValue
          \/ f = "max_distance" /\ p[f] > MaxValue
      BY <1>1 DEF OutOfRange, CurveCommands
    <2>6. f \notin {"direction", "speed_rpm"}
      BY <2>1, <2>5
    <2>7. f # "max_distance"
      BY <2>3, <2>4, <2>5
    <2>8. f \notin {"backoff_distance", "torque_hold_ms"}
      BY <2>2, <2>4, <2>5
    <2>9. f # "torque_threshold"
      BY <2>1, <2>4, <2>5
    <2>10. f = "timeout_ms" /\ p[f] \notin 1..MaxValue
      BY <2>5, <2>6, <2>7, <2>8, <2>9
    <2>11. p[f] >= 0 /\ p[f] =< MaxValue
      BY <2>2, <2>10
    <2> QED
      BY <2>4, <2>10, <2>11
  <1>2. CASE c \in CurveCommands
    <2>1. (\A g \in Profile : p[g] > 0) /\ p["natural_period_ms"] \in MinPeriod..MaxValue
      BY <1>2 DEF NumbersValid
    <2> QED
      BY <1>2, <2>1 DEF OutOfRange, CurveCommands
  <1>3. CASE c = "move_curve_rel"
    <2>1. \A g \in CurveRates \cap DOMAIN p : p[g] > 0
      BY DEF NumbersValid, Positive
    <2> QED
      BY <1>3, <2>1 DEF OutOfRange, CurveCommands
  <1> QED
    BY <1>1, <1>2, <1>3 DEF OutOfRange

\* The number checks of the server give the daemon what it needs.
LEMMA ValidIsUsable ==
    ASSUME NEW c, NEW p, NumbersIn(c, p), NumbersValid(c, p)
    PROVE  Executable(c, p)
  <1>1. /\ RequiredInts(c) \subseteq DOMAIN p
        /\ \A f \in (RequiredInts(c) \cup OptionalInts(c)) \cap DOMAIN p :
              Int32(p[f]) /\ p[f] \in Int
    BY DEF NumbersValid, NumbersIn, Numeric, Int32
  <1>2. ASSUME NEW f \in DaemonReads(c) \cap DOMAIN p
        PROVE  Finds(c, p, f)
    <2>1. Int32(p[f]) /\ p[f] \in Int
      BY <1>1, Fields
    <2>2. ASSUME f \in Unsigned(c)
          PROVE  p[f] >= 0
      <3>1. p[f] >= 0 \/ p[f] > 0
        BY <2>2, Fields DEF NumbersValid
      <3> QED
        BY <2>1, <3>1
    <2> QED
      BY <2>1, <2>2 DEF Finds, Has
  <1>3. ASSUME NEW f \in DaemonRefuses(c, p)
        PROVE  f = "timeout_ms" /\ Get(p, f, 1) = 0
    <2>1. /\ f \in DaemonReads(c)
          /\ IF Finds(c, p, f) THEN OutOfRange(c, f, p[f]) ELSE f \in Demanded(c)
      BY DEF DaemonRefuses
    <2>2. f \in Demanded(c) => f \in DOMAIN p
      BY <1>1 DEF Demanded
    <2>3. f \in DOMAIN p /\ OutOfRange(c, f, p[f])
      BY <1>2, <2>1, <2>2 DEF Finds, Has
    <2>4. f \in RequiredInts(c) \cup OptionalInts(c) /\ p[f] \in Int
      BY <1>1, <2>1, <2>3, Fields
    <2> QED
      BY <2>3, <2>4, WithinRange DEF Get
  <1>4. ASSUME NEW f \in DaemonSupplies(c, p)
        PROVE  f \in ZeroIsFree /\ Get(p, f, 1) = 0
    <2>1. /\ f \in DaemonReads(c)
          /\ \/ f \in RequiredInts(c) /\ ~Has(p, f)
             \/ Has(p, f) /\ ~Finds(c, p, f)
             \/ Finds(c, p, f) /\ p[f] = 0 /\ f \in ZeroIsDefault(c)
      BY DEF DaemonSupplies
    <2>2. f \in DOMAIN p /\ p[f] = 0 /\ f \in ZeroIsDefault(c)
      BY <1>1, <1>2, <2>1 DEF Finds, Has
    <2>3. f \notin Positive
      BY <2>2 DEF NumbersValid
    <2> QED
      BY <2>2, <2>3, Fields DEF Get
  <1> QED
    BY <1>3, <1>4 DEF Executable

\* A request that is admitted is one that the daemon can use.
LEMMA AdmittedUsable ==
    ASSUME NEW r \in Requests, NEW s, Refusal(r, s) = "none"
    PROVE  Executable(r.p["cmd"], Clean(r.p))
  <1> DEFINE p == r.p
             c == r.p["cmd"]
             caps == s.capabilities
             dev == NormalDevice(Get(p, "device", "mctivity"), caps)
  <1>1. /\ c \in ValidCommands
        /\ dev = "aux_encoder" => c = "status"
        /\ dev # "aux_encoder" => Sanitary(p, dev, caps)
    BY DEF Refusal
  <1>2. /\ DOMAIN Clean(p) \subseteq {"cmd"} \cup FieldOrder(c)
        /\ \A f \in DOMAIN Clean(p) : Clean(p)[f] = p[f]
        /\ DOMAIN Clean(p) = {"cmd"} \cup (FieldOrder(c) \cap DOMAIN p)
    BY DEF Clean
  <1>3. CASE c \in SwayCommands \cup TableCommands \cup {"status"}
    BY <1>3, Unread DEF Executable, DaemonRefuses, DaemonSupplies
  <1>4. CASE c \notin {"status"} \cup SwayCommands \cup TableCommands
    <2>1. NumbersValid(c, Clean(p))
      BY <1>1, <1>4 DEF Sanitary
    <2>2. NumbersIn(c, Clean(p))
      <3> SUFFICES ASSUME NEW f \in Numeric(c) \cap DOMAIN Clean(p)
                   PROVE  Clean(p)[f] \in Int \cup {NotInt}
        BY DEF NumbersIn
      <3>1. f \in DOMAIN p
        <4>1. "cmd" \notin Numeric(c)
          BY DEF Numeric, RequiredInts, OptionalInts, Profile, CurveRates, Moves,
             CurveCommands, GearSetup, Decels, Bounds, Ratios
        <4> QED
          BY <1>2, <4>1
      <3> QED
        BY <1>2, <3>1, RequestAssumption
    <2> QED
      BY <2>1, <2>2, ValidIsUsable
  <1> QED
    BY <1>3, <1>4

-----------------------------------------------------------------------------
(* The order of checks.                                                    *)

\* A set of natural numbers that is not empty has a least member.
LEMMA NatMin ==
    ASSUME NEW T, T \subseteq Nat, T # {}
    PROVE  \E x \in T : \A y \in T : x =< y
  <1> DEFINE R == OpToRel(<, Nat)
  <1>1. IsWellFoundedOn(R, Nat)
    BY NatLessThanWellFounded
  <1>2. \A a, b \in Nat : a < b => <<a, b>> \in R
    BY DEF OpToRel
  <1> HIDE DEF R
  <1>3. PICK x \in T : \A y \in T : ~(<<y, x>> \in R)
    BY <1>1, WFMin
  <1>4. \A y \in T : x \in Nat /\ y \in Nat /\ ~(y < x)
    BY <1>2, <1>3
  <1>5. \A y \in T : x =< y
    BY <1>4
  <1> QED
    BY <1>5

\* If a check of an order hits, the first that does is one of them.
LEMMA FirstHits ==
    ASSUME NEW n \in Nat, NEW S, NEW order \in [1..n -> S], NEW hits, "none" \notin S
    PROVE  /\ First(order, hits) \in S \cup {"none"}
           /\ First(order, hits) = "none" <=> \A i \in 1..n : order[i] \notin hits
           /\ First(order, hits) # "none" => First(order, hits) \in hits
  <1> DEFINE at == {i \in 1..n : order[i] \in hits}
  <1>1. DOMAIN order = 1..n /\ at \subseteq Nat
    OBVIOUS
  <1>2. CASE at = {}
    BY <1>1, <1>2 DEF First
  <1>3. CASE at # {}
    <2>1. \E i \in at : \A j \in at : i =< j
      BY <1>1, <1>3, NatMin
    <2> DEFINE k == CHOOSE i \in at : \A j \in at : i =< j
    <2>2. k \in at
      BY <2>1
    <2>3. First(order, hits) = order[k]
      BY <1>1, <1>3 DEF First
    <2> QED
      BY <2>2, <2>3
  <1> QED
    BY <1>2, <1>3

\* The envelope is blamed for one of its own faults.
LEMMA EnvelopeFault ==
    ASSUME NEW hits
    PROVE  First(Faults, hits) \in
             {"path", "host", "origin", "content_type", "body", "none"}
  <1> DEFINE S == {"path", "host", "origin", "content_type", "body"}
  <1>1. Faults \in [1..5 -> S] /\ "none" \notin S /\ 5 \in Nat
    BY DEF Faults
  <1> HIDE DEF S
  <1>2. First(Faults, hits) \in S \cup {"none"}
    BY <1>1, FirstHits
  <1> QED
    BY <1>2 DEF S

\* A request that is refused as unsanitary has passed the checks before.
LEMMA UnsanitaryBy ==
    ASSUME NEW r, NEW s, Refusal(r, s) = "unsanitary"
    PROVE  \E dev : ~Sanitary(r.p, dev, s.capabilities)
  <1>1. First(Faults, r.faults) # "unsanitary"
    BY EnvelopeFault
  <1> QED
    BY <1>1 DEF Refusal

\* Of a move_abs that is not valid some field is blamed.
LEMMA BlameFound ==
    ASSUME NEW p, NumbersIn("move_abs", p), p["cmd"] = "move_abs",
           Blame(p) = "none"
    PROVE  NumbersValid("move_abs", Clean(p))
  <1> DEFINE Checked == {"pos", "move_ms", "speed_rpm", "acceleration_rpm_s", "min_pos",
                         "max_pos"}
             order == <<"pos", "move_ms", "speed_rpm", "acceleration_rpm_s", "min_pos",
                        "max_pos">>
             bad == {f \in {"pos"} \cup DOMAIN p : ~Int32(Get(p, f, NotInt))}
             out == {f \in (Profile \cup {"move_ms"}) \cap DOMAIN p :
                       p[f] \notin 1..MaxValue}
             bounded == Bounds \subseteq DOMAIN p
  <1>1. /\ order \in [1..6 -> Checked]
        /\ \A f \in Checked : \E i \in 1..6 : order[i] = f
    OBVIOUS
  <1>2. /\ Ranged \in [1..3 -> {"speed_rpm", "acceleration_rpm_s", "move_ms"}]
        /\ \A f \in {"speed_rpm", "acceleration_rpm_s", "move_ms"} :
              \E i \in 1..3 : Ranged[i] = f
    BY DEF Ranged
  <1>3. First(order, bad) = "none" <=> \A i \in 1..6 : order[i] \notin bad
    <2>1. "none" \notin Checked /\ 6 \in Nat
      OBVIOUS
    <2> HIDE DEF Checked, order, bad
    <2> QED
      BY <1>1, <2>1, FirstHits
  <1>4. First(Ranged, out) = "none" <=> \A i \in 1..3 : Ranged[i] \notin out
    <2> DEFINE S == {"speed_rpm", "acceleration_rpm_s", "move_ms"}
    <2>1. Ranged \in [1..3 -> S] /\ "none" \notin S /\ 3 \in Nat
      BY <1>2
    <2> HIDE DEF S, out
    <2> QED
      BY <2>1, FirstHits
  <1>5. /\ First(order, bad) = "none" /\ First(Ranged, out) = "none"
        /\ ~(bounded /\ p["min_pos"] > p["max_pos"])
        /\ ~(bounded /\ p["pos"] \notin p["min_pos"]..p["max_pos"])
    BY DEF Blame
  <1> HIDE DEF order
  <1>6. \A f \in Checked : f \notin bad
    BY <1>1, <1>3, <1>5
  <1>7. /\ "pos" \in DOMAIN p
        /\ \A f \in Checked \cap DOMAIN p : Int32(p[f])
    BY <1>6 DEF Get, Int32
  <1>8. \A f \in {"speed_rpm", "acceleration_rpm_s", "move_ms"} \cap DOMAIN p :
           p[f] \in 1..MaxValue
    BY <1>2, <1>4, <1>5 DEF Profile
  <1>9. /\ RequiredInts("move_abs") = {"pos"}
        /\ OptionalInts("move_abs") = Checked \ {"pos"}
        /\ FieldOrder("move_abs") = Checked
    BY DEF RequiredInts, OptionalInts, FieldOrder, Moves, CurveCommands, GearSetup,
       SwayCommands, Profile, Bounds
  <1>10. /\ DOMAIN Clean(p) = {"cmd"} \cup (Checked \cap DOMAIN p)
         /\ \A f \in DOMAIN Clean(p) : Clean(p)[f] = p[f]
    BY <1>9 DEF Clean
  <1>11. \A f \in Checked \cap DOMAIN p : p[f] \in Int
    BY <1>7, <1>9 DEF NumbersIn, Numeric, Int32
  <1>12. /\ Nonnegative \cap ({"cmd"} \cup Checked)
              \subseteq {"speed_rpm", "acceleration_rpm_s", "move_ms"}
         /\ Limited \cap ({"cmd"} \cup Checked)
              \subseteq {"speed_rpm", "acceleration_rpm_s", "move_ms"}
         /\ Positive \cap ({"cmd"} \cup Checked) = {}
         /\ LimitedBothWays \cap ({"cmd"} \cup Checked) = {}
         /\ "torque_threshold" \notin {"cmd"} \cup Checked
         /\ Bounds \subseteq Checked /\ "cmd" \notin Bounds
    BY DEF Nonnegative, Limited, Positive, LimitedBothWays, Decels, Profile, CurveRates,
       Ratios, Bounds
  <1> HIDE DEF Checked
  <1> DEFINE K == Clean(p)
  <1>13. RequiredInts("move_abs") \subseteq DOMAIN K
    BY <1>7, <1>9, <1>10 DEF Checked
  <1>14. \A f \in (RequiredInts("move_abs") \cup OptionalInts("move_abs")) \cap DOMAIN K :
            Int32(K[f])
    BY <1>7, <1>9, <1>10 DEF Checked
  <1>15. \A f \in DOMAIN K :
            f \in {"speed_rpm", "acceleration_rpm_s", "move_ms"} =>
              K[f] \in Int /\ K[f] >= 1 /\ K[f] =< MaxValue
    <2>1. \A f \in {"speed_rpm", "acceleration_rpm_s", "move_ms"} : f # "cmd"
      OBVIOUS
    <2> QED
      BY <1>8, <1>10, <2>1, LimitAssumption
  <1>16. Bounds \subseteq DOMAIN K => K["min_pos"] =< K["max_pos"]
    <2> SUFFICES ASSUME Bounds \subseteq DOMAIN K
                 PROVE  K["min_pos"] =< K["max_pos"]
      OBVIOUS
    <2>1. bounded /\ Bounds \subseteq Checked \cap DOMAIN p
      BY <1>10, <1>12
    <2>2. /\ p["min_pos"] \in Int /\ p["max_pos"] \in Int
          /\ K["min_pos"] = p["min_pos"] /\ K["max_pos"] = p["max_pos"]
      BY <1>10, <1>11, <2>1 DEF Bounds
    <2> QED
      BY <1>5, <2>1, <2>2
  <1> HIDE DEF K
  <1>17. DOMAIN K \subseteq {"cmd"} \cup Checked
    BY <1>10 DEF K
  <1>18. /\ \A f \in Nonnegative \cap DOMAIN K : K[f] >= 0
         /\ \A f \in Positive \cap DOMAIN K : K[f] > 0
         /\ \A f \in Limited \cap DOMAIN K : K[f] =< MaxValue
         /\ \A f \in LimitedBothWays \cap DOMAIN K : K[f] \in -MaxValue..MaxValue
         /\ ~Has(K, "torque_threshold")
    BY <1>12, <1>15, <1>17 DEF Has
  <1>19. NumbersValid("move_abs", K)
    BY <1>13, <1>14, <1>16, <1>18 DEF NumbersValid, CurveCommands
  <1> QED
    BY <1>19 DEF K

\* The first of some fields that is outside its range is one of them.
LEMMA RangeHit ==
    ASSUME NEW out, First(Ranged, out) # "none"
    PROVE  /\ First(Ranged, out) \in {"speed_rpm", "acceleration_rpm_s", "move_ms"}
           /\ First(Ranged, out) \in out
  <1> DEFINE S == {"speed_rpm", "acceleration_rpm_s", "move_ms"}
  <1>1. Ranged \in [1..3 -> S] /\ "none" \notin S /\ 3 \in Nat
    BY DEF Ranged
  <1> HIDE DEF S
  <1>2. /\ First(Ranged, out) \in S \cup {"none"}
        /\ First(Ranged, out) # "none" => First(Ranged, out) \in out
    BY <1>1, FirstHits
  <1> QED
    BY <1>2 DEF S

\* What is blamed is a fault, or what the answer is stricter about.
LEMMA BlameFits ==
    ASSUME NEW p, NumbersIn("move_abs", p)
    PROVE  Blame(p) \in {"none"} \cup AtFault(p) \cup Suspected(p)
  <1> DEFINE Checked == {"pos", "move_ms", "speed_rpm", "acceleration_rpm_s", "min_pos",
                         "max_pos"}
             order == <<"pos", "move_ms", "speed_rpm", "acceleration_rpm_s", "min_pos",
                        "max_pos">>
             bad == {f \in {"pos"} \cup DOMAIN p : ~Int32(Get(p, f, NotInt))}
             out == {f \in (Profile \cup {"move_ms"}) \cap DOMAIN p :
                       p[f] \notin 1..MaxValue}
             bounded == Bounds \subseteq DOMAIN p
             given == {f \in {"pos", "move_ms"} \cup Profile \cup Bounds : Has(p, f)}
             malformed == First(order, bad)
             outside == First(Ranged, out)
  <1>1. order \in [1..6 -> Checked] /\ \A f \in Checked : \E i \in 1..6 : order[i] = f
    OBVIOUS
  <1>2. Blame(p) = IF malformed # "none" THEN malformed
                   ELSE IF bounded /\ p["min_pos"] > p["max_pos"] THEN "motion_bounds"
                   ELSE IF bounded /\ p["pos"] \notin p["min_pos"]..p["max_pos"] THEN "pos"
                   ELSE outside
    BY DEF Blame
  <1>3. given = Checked \cap DOMAIN p
    BY DEF Has, Profile, Bounds
  <1>4. /\ malformed \in Checked \cup {"none"}
        /\ malformed = "none" <=> \A i \in 1..6 : order[i] \notin bad
        /\ malformed # "none" => malformed \in bad
    <2>1. "none" \notin Checked /\ 6 \in Nat
      OBVIOUS
    <2> HIDE DEF Checked, order, bad
    <2> QED
      BY <1>1, <2>1, FirstHits
  <1> HIDE DEF order, malformed, given
  <1>5. CASE malformed # "none"
    <2>1. malformed \in Checked /\ malformed \in bad
      BY <1>4, <1>5
    <2>2. CASE malformed \in DOMAIN p
      <3>1. malformed \in given /\ ~Int32(p[malformed])
        BY <1>3, <2>1, <2>2 DEF Get
      <3> QED
        BY <1>2, <1>5, <3>1 DEF AtFault, given
    <2>3. CASE malformed \notin DOMAIN p
      <3>1. malformed = "pos" /\ malformed \notin given
        BY <1>3, <2>1, <2>3
      <3> QED
        BY <1>2, <1>5, <3>1 DEF AtFault, given
    <2> QED
      BY <2>2, <2>3
  <1>6. CASE malformed = "none"
    <2>1. \A f \in Checked : f \notin bad
      BY <1>1, <1>4, <1>6
    <2>2. /\ "pos" \in DOMAIN p
          /\ \A f \in Checked \cap DOMAIN p : Int32(p[f])
      BY <2>1 DEF Get, Int32
    <2>3. \A f \in Checked \cap DOMAIN p : p[f] \in Int
      BY <2>2 DEF NumbersIn, Numeric, RequiredInts, OptionalInts, Moves, CurveCommands,
         GearSetup, Profile, Bounds, Int32
    <2> HIDE DEF bad
    <2>4. CASE bounded /\ p["min_pos"] > p["max_pos"]
      <3>1. Bounds \subseteq given /\ \A f \in Bounds : Int32(p[f])
        BY <1>3, <2>2, <2>4 DEF Bounds
      <3> QED
        BY <1>2, <1>6, <2>4, <3>1 DEF AtFault, given
    <2>5. CASE /\ ~(bounded /\ p["min_pos"] > p["max_pos"])
               /\ bounded /\ p["pos"] \notin p["min_pos"]..p["max_pos"]
      <3>1. \A f \in Bounds \cup {"pos"} : Int32(Get(p, f, NotInt))
        BY <2>2, <2>5 DEF Get, Bounds
      <3> QED
        BY <1>2, <1>6, <2>5, <3>1 DEF Suspected
    <2>6. CASE /\ ~(bounded /\ p["min_pos"] > p["max_pos"])
               /\ ~(bounded /\ p["pos"] \notin p["min_pos"]..p["max_pos"])
               /\ outside # "none"
      <3>1. outside \in {"speed_rpm", "acceleration_rpm_s", "move_ms"} /\ outside \in out
        BY <2>6, RangeHit
      <3> HIDE DEF outside
      <3>2. /\ outside \in DOMAIN p /\ p[outside] \notin 1..MaxValue
            /\ outside \in (Profile \cup {"move_ms"}) /\ outside \in Checked
        BY <3>1 DEF Profile
      <3> HIDE DEF out, Checked
      <3>3. /\ p[outside] \in Int /\ Int32(p[outside])
            /\ p[outside] = 0 \/ p[outside] \notin 0..MaxValue
        BY <2>2, <2>3, <3>2, LimitAssumption
      <3>4. Blame(p) = outside
        BY <1>2, <1>6, <2>6
      <3>5. CASE p[outside] = 0
        BY <3>2, <3>4, <3>5 DEF Suspected
      <3>6. CASE p[outside] \notin 0..MaxValue
        <4>1. outside \in given \cap (Profile \cup {"move_ms"})
          BY <1>3, <3>2
        <4> QED
          BY <3>3, <3>4, <3>6, <4>1 DEF AtFault, given
      <3> QED
        BY <3>3, <3>5, <3>6
    <2> QED
      BY <1>2, <1>6, <2>4, <2>5, <2>6
  <1> QED
    BY <1>5, <1>6

-----------------------------------------------------------------------------
(* The segments of an anti-sway run.                                       *)

\* Rounding to the even quarter keeps the order, and keeps whole numbers.
LEMMA QuartersRounded ==
    /\ \A q \in Int : RoundQuarter(q) \in Int
    /\ \A q, r \in Int : q =< r => RoundQuarter(q) =< RoundQuarter(r)
    /\ \A x \in Int : RoundQuarter(4 * x) = x
  <1>1. ASSUME NEW q \in Int
        PROVE  /\ RoundQuarter(q) \in Int
               /\ RoundQuarter(q) = q \div 4 \/ RoundQuarter(q) = q \div 4 + 1
               /\ q \div 4 \in Int /\ q % 4 \in 0..3 /\ q = 4 * (q \div 4) + (q % 4)
    <2> DEFINE f == q \div 4
               m == q % 4
    <2>1. f \in Int /\ m \in 0..3 /\ q = 4 * f + m
      OBVIOUS
    <2>2. RoundQuarter(q) = IF m = 3 \/ (m = 2 /\ f % 2 = 1) THEN f + 1 ELSE f
      BY DEF RoundQuarter
    <2> HIDE DEF f, m
    <2>3. RoundQuarter(q) = f \/ RoundQuarter(q) = f + 1
      BY <2>2
    <2>4. RoundQuarter(q) \in Int
      BY <2>1, <2>3
    <2> QED
      BY <2>1, <2>3, <2>4 DEF f, m
  <1>2. ASSUME NEW q \in Int, NEW r \in Int, q =< r
        PROVE  RoundQuarter(q) =< RoundQuarter(r)
    <2>1. CASE q \div 4 = r \div 4
      <3>1. q % 4 =< r % 4
        BY <1>1, <1>2, <2>1
      <3> QED
        BY <1>1, <2>1, <3>1 DEF RoundQuarter
    <2>2. CASE q \div 4 < r \div 4
      BY <1>1, <2>2
    <2>3. q \div 4 =< r \div 4
      BY <1>1, <1>2
    <2> QED
      BY <1>1, <2>1, <2>2, <2>3
  <1>3. ASSUME NEW x \in Int
        PROVE  RoundQuarter(4 * x) = x
    <2>1. 4 * x \in Int /\ (4 * x) \div 4 = x /\ (4 * x) % 4 = 0
      OBVIOUS
    <2> QED
      BY <2>1 DEF RoundQuarter
  <1> QED
    BY <1>1, <1>2, <1>3

\* A step that goes the way of the whole has a product that is not negative.
LEMMA SameWay ==
    ASSUME NEW u \in Int, NEW v \in Int, NEW from \in Int, NEW to \in Int,
           \/ from =< to /\ u =< v
           \/ to =< from /\ v =< u
    PROVE  (v - u) * (to - from) >= 0
  <1>1. ASSUME NEW x \in Int, NEW y \in Int, (x >= 0 /\ y >= 0) \/ (x =< 0 /\ y =< 0)
        PROVE  x * y >= 0
    BY <1>1
  <1>2. /\ v - u \in Int /\ to - from \in Int
        /\ \/ v - u >= 0 /\ to - from >= 0
           \/ v - u =< 0 /\ to - from =< 0
    OBVIOUS
  <1> QED
    BY <1>1, <1>2

\* Whatever the plan, its targets lead from where it begins to where it ends.
LEMMA SegmentsLead ==
    ASSUME NEW from \in Int, NEW to \in Int, NEW terminal \in BOOLEAN
    PROVE  Leads(from, SegmentTargets(from, to, terminal), to)
  <1>1. CASE terminal
    <2>1. SegmentTargets(from, to, terminal) = <<to>>
      BY <1>1 DEF SegmentTargets, Covered
    <2>2. /\ Len(<<from>> \o <<to>>) = 2
          /\ (<<from>> \o <<to>>)[1] = from /\ (<<from>> \o <<to>>)[2] = to
      OBVIOUS
    <2>3. (to - from) * (to - from) >= 0
      BY SameWay
    <2> QED
      BY <2>1, <2>2, <2>3 DEF Leads
  <1>2. CASE ~terminal
    <2> DEFINE a == RoundQuarter(4 * from + (to - from) * 1)
               b == RoundQuarter(4 * from + (to - from) * 3)
               S == [i \in 1..3 |-> IF i = 3 THEN to ELSE
                       RoundQuarter(4 * from + (to - from) * <<1, 3, 4>>[i])]
    <2>1. SegmentTargets(from, to, terminal) = S
      BY <1>2 DEF SegmentTargets, Covered
    <2>2. /\ 4 * from + (to - from) * 1 \in Int /\ 4 * from + (to - from) * 3 \in Int
          /\ 4 * from \in Int /\ 4 * to \in Int
      OBVIOUS
    <2>3. a \in Int /\ b \in Int
      BY <2>2, QuartersRounded
    <2>4. from =< to => from =< a /\ a =< b /\ b =< to
      <3> SUFFICES ASSUME from =< to
                   PROVE  from =< a /\ a =< b /\ b =< to
        OBVIOUS
      <3>1. /\ 4 * from =< 4 * from + (to - from) * 1
            /\ 4 * from + (to - from) * 1 =< 4 * from + (to - from) * 3
            /\ 4 * from + (to - from) * 3 =< 4 * to
        OBVIOUS
      <3>2. RoundQuarter(4 * from) =< a /\ a =< b /\ b =< RoundQuarter(4 * to)
        BY <2>2, <3>1, QuartersRounded
      <3> QED
        BY <3>2, QuartersRounded
    <2>5. to =< from => a =< from /\ b =< a /\ to =< b
      <3> SUFFICES ASSUME to =< from
                   PROVE  a =< from /\ b =< a /\ to =< b
        OBVIOUS
      <3>1. /\ 4 * from >= 4 * from + (to - from) * 1
            /\ 4 * from + (to - from) * 1 >= 4 * from + (to - from) * 3
            /\ 4 * from + (to - from) * 3 >= 4 * to
        OBVIOUS
      <3>2. a =< RoundQuarter(4 * from) /\ b =< a /\ RoundQuarter(4 * to) =< b
        BY <2>2, <3>1, QuartersRounded
      <3> QED
        BY <3>2, QuartersRounded
    <2>6. S \in Seq(Int) /\ Len(S) = 3 /\ S[1] = a /\ S[2] = b /\ S[3] = to
      <3>1. \A i \in 1..3 : S[i] = IF i = 3 THEN to ELSE IF i = 1 THEN a ELSE b
        OBVIOUS
      <3>2. S[1] = a /\ S[2] = b /\ S[3] = to
        BY <3>1
      <3>3. S = [i \in 1..3 |-> S[i]]
        OBVIOUS
      <3> HIDE DEF S, a, b
      <3>4. S = <<S[1], S[2], S[3]>>
        BY <3>3
      <3>5. S = <<a, b, to>>
        BY <3>2, <3>4
      <3> QED
        BY <2>3, <3>5
    <2> HIDE DEF S, a, b
    <2> DEFINE way == <<from>> \o S
    <2>7. /\ Len(way) = 4 /\ way[1] = from /\ way[2] = a /\ way[3] = b /\ way[4] = to
      <3>1. <<from>> \in Seq(Int) /\ Len(<<from>>) = 1 /\ <<from>>[1] = from
        OBVIOUS
      <3>2. /\ Len(way) = Len(<<from>>) + Len(S)
            /\ \A i \in 1..(Len(<<from>>) + Len(S)) :
                  way[i] = IF i =< Len(<<from>>) THEN <<from>>[i] ELSE S[i - Len(<<from>>)]
        BY <2>6, <3>1, ConcatProperties
      <3> HIDE DEF way
      <3>3. /\ Len(way) = 4
            /\ \A i \in 1..4 : way[i] = IF i =< 1 THEN <<from>>[i] ELSE S[i - 1]
        BY <2>6, <3>1, <3>2
      <3>4. /\ way[1] = <<from>>[1] /\ way[2] = S[2 - 1] /\ way[3] = S[3 - 1]
            /\ way[4] = S[4 - 1]
        BY <3>3
      <3> QED
        BY <2>6, <3>1, <3>3, <3>4
    <2> HIDE DEF way
    <2>8. \A i \in 2..4 : (way[i] - way[i - 1]) * (to - from) >= 0
      <3>1. from =< to \/ to =< from
        OBVIOUS
      <3>2. /\ (a - from) * (to - from) >= 0
            /\ (b - a) * (to - from) >= 0
            /\ (to - b) * (to - from) >= 0
        BY <2>3, <2>4, <2>5, <3>1, SameWay
      <3> HIDE DEF way
      <3> SUFFICES ASSUME NEW i \in 2..4
                   PROVE  (way[i] - way[i - 1]) * (to - from) >= 0
        OBVIOUS
      <3>3. CASE i = 2
        BY <2>7, <3>2, <3>3
      <3>4. CASE i = 3
        BY <2>7, <3>2, <3>4
      <3>5. CASE i = 4
        BY <2>7, <3>2, <3>5
      <3> QED
        BY <3>3, <3>4, <3>5
    <2>9. Leads(from, S, to)
      BY <2>7, <2>8 DEF Leads, way
    <2> QED
      BY <2>1, <2>9
  <1> QED
    BY <1>1, <1>2

\* What is prepared for an admitted run leads from where it starts to its
\* target.
LEMMA PreparedLeads ==
    ASSUME NEW r \in Requests, NEW s, Refusal(r, s) = "none",
           r.p["cmd"] = "anti_sway_run"
    PROVE  Leads(SwayRequest(r.p).from, PreparedRun(r.p).segments, SwayRequest(r.p).to)
  <1> DEFINE p == r.p
             q == SwayRequest(p)
             dev == NormalDevice(Get(p, "device", "mctivity"), s.capabilities)
  <1>1. Sanitary(p, dev, s.capabilities)
    BY DEF Refusal
  <1>2. SwayValid(p, dev, s.capabilities)
    BY <1>1 DEF Sanitary, TableCommands, SwayCommands
  <1>3. /\ Int32(Get(p, "target_counts", 0))
        /\ Int32(Get(p, "current_counts", Get(p, "target_counts", 0)))
    BY <1>2 DEF SwayValid
  <1>4. \A f \in {"target_counts", "current_counts"} \cap DOMAIN p :
           p[f] \in Int \cup {NotInt}
    BY RequestAssumption DEF Numeric
  <1>5. q.from \in Int /\ q.to \in Int /\ q.terminal \in BOOLEAN
    BY <1>3, <1>4 DEF SwayRequest, Get, Int32, Terminal
  <1> HIDE DEF q
  <1>6. Leads(q.from, SegmentTargets(q.from, q.to, q.terminal), q.to)
    BY <1>5, SegmentsLead
  <1>7. PreparedRun(p).segments = SegmentTargets(q.from, q.to, q.terminal)
    BY DEF PreparedRun, q
  <1> QED
    BY <1>6, <1>7 DEF q

-----------------------------------------------------------------------------
(* What the threads serve.                                                 *)

\* What is known of an answer.
LEMMA OutcomeParts ==
    ASSUME NEW r, NEW s
    PROVE  /\ Outcome(r, s).flaws = Flaws(Refusal(r, s), r.p)
           /\ Outcome(r, s).cmd \in {"none", r.p["cmd"]}
           /\ Outcome(r, s).cmd # "none" =>
                /\ Refusal(r, s) = "none"
                /\ Outcome(r, s).cmd = r.p["cmd"]
                /\ Outcome(r, s).dev =
                     NormalDevice(Get(r.p, "device", "mctivity"), s.capabilities)
                /\ Outcome(r, s).key = FeatureKey(s.registry, r.p)
  BY DEF Outcome, NoRequest

\* A thread serves no request, or one of those that arrive at the server.
LEMMA Served ==
    ASSUME GatewayInv, NEW t \in Threads
    PROVE  /\ asm \in Assemblies
           /\ \/ thread[t].req = NoRequest
              \/ \E r \in Requests : thread[t].req = Outcome(r, Servers[asm])
  <1>1. thread[t].req \in Known(asm) /\ asm \in Assemblies
    BY DEF GatewayInv, Threaded, ThreadRecord
  <1> QED
    BY <1>1 DEF Known, Outcomes

\* No request falls short in any of the three ways.
LEMMA Flawless ==
    ASSUME NEW r \in Requests, NEW s
    PROVE  Flaws(Refusal(r, s), r.p) = {}
  <1> DEFINE p == r.p
             no == Refusal(r, s)
  <1>1. "unusable" \notin Flaws(no, p)
    BY AdmittedUsable DEF Flaws
  <1>2. "unexplained" \notin Flaws(no, p)
    <2> SUFFICES ASSUME no = "unsanitary", p["cmd"] = "move_abs",
                        Blame(p) \notin AtFault(p) \cup Suspected(p)
                 PROVE  FALSE
      BY DEF Flaws
    <2>1. NumbersIn("move_abs", p)
      BY RequestAssumption DEF NumbersIn
    <2>2. NumbersValid("move_abs", Clean(p))
      BY <2>1, BlameFits, BlameFound
    <2>3. PICK dev : ~Sanitary(p, dev, s.capabilities)
      BY UnsanitaryBy
    <2>4. Sanitary(p, dev, s.capabilities)
      BY <2>2 DEF Sanitary, TableCommands, SwayCommands, GearSetup
    <2> QED
      BY <2>3, <2>4
  <1>3. "detour" \notin Flaws(no, p)
    BY PreparedLeads DEF Flaws
  <1> QED
    BY <1>1, <1>2, <1>3 DEF Flaws

\* A request that is being carried out has no flaw the server looks for.
LEMMA ServedFlawless ==
    ASSUME GatewayInv, NEW t \in Threads
    PROVE  thread[t].req.flaws = {}
  <1>1. CASE thread[t].req = NoRequest
    BY <1>1 DEF NoRequest
  <1>2. CASE \E r \in Requests : thread[t].req = Outcome(r, Servers[asm])
    BY <1>2, OutcomeParts, Flawless
  <1> QED
    BY <1>1, <1>2, Served

\* The daemon refuses no admitted command for its numbers but a homing with a
\* timeout of 0, and puts no number of its own in the place of one it was sent
\* but of a zero that stands for its default (_validate_command_numbers against
\* find_u32 and find_i32): for every limit and every request that JSON can
\* express.
THEOREM Usable == Spec => []AdmittedIsUsable
  <1>1. GatewayInv => AdmittedIsUsable
    BY ServedFlawless DEF AdmittedIsUsable
  <1> QED
    BY <1>1, GatewayInvHolds, PTL

\* The answer to a move_abs that is refused for its fields names one it was
\* refused for, or a zero or a target outside its bounds, which the answer
\* judges more strictly (_sanitize_rejection_detail, _validate_command_numbers).
THEOREM Explained == Spec => []RefusalIsExplained
  <1>1. GatewayInv => RefusalIsExplained
    BY ServedFlawless DEF RefusalIsExplained
  <1> QED
    BY <1>1, GatewayInvHolds, PTL

\* The segments of an admitted anti-sway run never turn back, from whatever
\* position to whatever target, although the quarters are rounded
\* (_execution_segments).
THEOREM LeadOn == Spec => []SegmentsLeadOn
  <1>1. GatewayInv => SegmentsLeadOn
    BY ServedFlawless DEF SegmentsLeadOn
  <1> QED
    BY <1>1, GatewayInvHolds, PTL

-----------------------------------------------------------------------------
(* Recursion over the natural numbers.                                     *)

\* Induction, with the property as a set.
LEMMA SetInduction ==
    ASSUME NEW T, 0 \in T, \A n \in Nat : n \in T => n + 1 \in T
    PROVE  Nat \subseteq T
  <1> SUFFICES ASSUME Nat \ T # {}
               PROVE  FALSE
    OBVIOUS
  <1>1. PICK m \in Nat \ T : \A n \in Nat \ T : m =< n
    BY NatMin
  <1>2. m - 1 \in Nat /\ m - 1 + 1 = m
    BY <1>1
  <1>3. m - 1 \in T
    BY <1>1, <1>2
  <1> QED
    BY <1>1, <1>2, <1>3

\* A first value and a rule for the next one make a function.
LEMMA Recursion ==
    ASSUME NEW D, NEW x \in D, NEW G \in [D -> D]
    PROVE  \E f \in [Nat -> D] : f[0] = x /\ \A n \in Nat : f[n + 1] = G[f[n]]
  <1> DEFINE Runs(n) == {h \in [0..n -> D] :
                           h[0] = x /\ \A k \in 0..(n - 1) : h[k + 1] = G[h[k]]}
  <1>1. \A n \in Nat : Runs(n) # {}
    <2> DEFINE T == {n \in Nat : Runs(n) # {}}
    <2>1. 0 \in T
      <3>1. [i \in 0..0 |-> x] \in Runs(0)
        OBVIOUS
      <3> QED
        BY <3>1
    <2>2. ASSUME NEW n \in Nat, n \in T
          PROVE  n + 1 \in T
      <3>1. PICK h : h \in Runs(n)
        BY <2>2
      <3> DEFINE g == [i \in 0..(n + 1) |-> IF i = n + 1 THEN G[h[n]] ELSE h[i]]
      <3>2. /\ h \in [0..n -> D] /\ h[0] = x
            /\ \A k \in 0..(n - 1) : h[k + 1] = G[h[k]]
        BY <3>1
      <3>3. h[n] \in D /\ G[h[n]] \in D
        BY <3>2
      <3>4. \A i \in 0..(n + 1) : i = n + 1 \/ i \in 0..n
        OBVIOUS
      <3>5. g \in [0..(n + 1) -> D]
        BY <3>2, <3>3, <3>4
      <3>6. g[0] = x
        BY <3>2
      <3>7. ASSUME NEW k \in 0..n
            PROVE  g[k + 1] = G[g[k]]
        <4>1. CASE k = n
          BY <4>1
        <4>2. CASE k # n
          <5>1. k \in 0..(n - 1) /\ k + 1 # n + 1 /\ k # n + 1
                /\ k \in 0..(n + 1) /\ k + 1 \in 0..(n + 1)
            BY <4>2
          <5> QED
            BY <3>2, <5>1
        <4> QED
          BY <4>1, <4>2
      <3> HIDE DEF g
      <3>8. n + 1 - 1 = n
        OBVIOUS
      <3>9. g \in Runs(n + 1)
        BY <3>5, <3>6, <3>7, <3>8
      <3> QED
        BY <3>9
    <2> HIDE DEF T
    <2>3. Nat \subseteq T
      BY <2>1, <2>2, SetInduction
    <2> QED
      BY <2>3 DEF T
  <1>2. ASSUME NEW n \in Nat, NEW m \in Nat, NEW g \in Runs(n), NEW h \in Runs(m),
               NEW k \in Nat, k =< n, k =< m
        PROVE  g[k] = h[k]
    <2> DEFINE T == {i \in Nat : i =< n /\ i =< m => g[i] = h[i]}
    <2>1. 0 \in T
      OBVIOUS
    <2>2. ASSUME NEW i \in Nat, i \in T
          PROVE  i + 1 \in T
      <3> SUFFICES ASSUME i + 1 =< n, i + 1 =< m
                   PROVE  g[i + 1] = h[i + 1]
        OBVIOUS
      <3>1. i \in 0..(n - 1) /\ i \in 0..(m - 1)
        OBVIOUS
      <3> QED
        BY <2>2, <3>1
    <2> HIDE DEF T
    <2>3. Nat \subseteq T
      BY <2>1, <2>2, SetInduction
    <2> QED
      BY <1>2, <2>3 DEF T
  <1> DEFINE H(n) == CHOOSE h : h \in Runs(n)
             f    == [n \in Nat |-> H(n)[n]]
  <1>3. \A n \in Nat : H(n) \in Runs(n)
    BY <1>1
  <1> HIDE DEF H
  <1>4. ASSUME NEW n \in Nat
        PROVE  f[n] \in D /\ f[n + 1] = G[f[n]]
    <2>1. H(n) \in Runs(n) /\ H(n + 1) \in Runs(n + 1) /\ n + 1 \in Nat
      BY <1>3
    <2>2. f[n] = H(n)[n] /\ f[n + 1] = H(n + 1)[n + 1]
      BY <2>1
    <2>3. H(n)[n] \in D
      BY <2>1
    <2>4. H(n + 1)[n + 1] = G[H(n + 1)[n]]
      <3>1. n \in 0..(n + 1 - 1)
        OBVIOUS
      <3> QED
        BY <2>1, <3>1
    <2>5. H(n + 1)[n] = H(n)[n]
      <3>1. n =< n + 1 /\ n =< n
        OBVIOUS
      <3> HIDE DEF Runs
      <3> QED
        BY <1>2, <2>1, <3>1
    <2> QED
      BY <2>2, <2>3, <2>4, <2>5
  <1>5. f[0] = x
    <2>1. H(0) \in Runs(0)
      BY <1>3
    <2> QED
      BY <2>1
  <1>6. f \in [Nat -> D]
    BY <1>4
  <1> HIDE DEF f
  <1> QED
    BY <1>4, <1>5, <1>6

\* A chain of subsets of a finite set that grows until it repeats itself has
\* stopped growing when it is as long as the set is large.
LEMMA Chain ==
    ASSUME NEW S, IsFiniteSet(S), NEW f \in [Nat -> SUBSET S],
           \A n \in Nat : f[n] \subseteq f[n + 1],
           \A n \in Nat : f[n + 1] = f[n] => f[n + 2] = f[n + 1]
    PROVE  f[Cardinality(S) + 1] = f[Cardinality(S)]
  <1> DEFINE T == {n \in Nat : f[n + 1] = f[n] \/ Cardinality(f[n]) >= n}
             c == Cardinality(S)
  <1>1. c \in Nat
    BY FS_CardinalityType
  <1>2. \A n \in Nat : /\ f[n] \subseteq S /\ IsFiniteSet(f[n])
                       /\ Cardinality(f[n]) \in Nat /\ Cardinality(f[n]) =< c
                       /\ Cardinality(f[n]) = c => f[n] = S
    BY FS_Subset, FS_CardinalityType
  <1>3. 0 \in T
    BY <1>2
  <1>4. ASSUME NEW n \in Nat, n \in T
        PROVE  n + 1 \in T
    <2>1. n + 1 \in Nat /\ n + 1 + 1 = n + 2
      OBVIOUS
    <2>2. CASE f[n + 1] = f[n]
      BY <2>1, <2>2
    <2>3. CASE f[n + 1] # f[n] /\ Cardinality(f[n]) >= n
      <3>1. /\ IsFiniteSet(f[n + 1]) /\ f[n] \in SUBSET f[n + 1]
            /\ Cardinality(f[n + 1]) \in Nat /\ Cardinality(f[n]) \in Nat
        BY <1>2, <2>1
      <3>2. Cardinality(f[n]) =< Cardinality(f[n + 1])
            /\ Cardinality(f[n]) # Cardinality(f[n + 1])
        BY <2>3, <3>1, FS_Subset
      <3>3. Cardinality(f[n + 1]) >= n + 1
        BY <2>3, <3>1, <3>2
      <3> QED
        BY <2>1, <3>3
    <2> QED
      BY <1>4, <2>2, <2>3
  <1> HIDE DEF T
  <1>5. c \in T
    BY <1>1, <1>3, <1>4, SetInduction
  <1>6. CASE Cardinality(f[c]) >= c
    <2>1. Cardinality(f[c]) = c
      BY <1>1, <1>2, <1>6
    <2>2. f[c] = S
      BY <1>1, <1>2, <2>1
    <2>3. c + 1 \in Nat /\ f[c] \subseteq f[c + 1] /\ f[c + 1] \subseteq S
      BY <1>1, <1>2
    <2> QED
      BY <2>2, <2>3
  <1> QED
    BY <1>5, <1>6 DEF T

-----------------------------------------------------------------------------
(* The modules of an assembly.                                             *)

\* A round removes modules and never brings one back.
LEMMA SupportedShrinks == ASSUME NEW S PROVE Supported(S) \subseteq S
  BY DEF Supported

\* The rounds start with what is found; each keeps what the one before
\* supports.
LEMMA RoundsOf ==
    ASSUME NEW a
    PROVE  /\ Rounds(a) \in [Nat -> SUBSET Found(a)]
           /\ Rounds(a)[0] = Found(a)
           /\ \A n \in Nat : Rounds(a)[n + 1] = Supported(Rounds(a)[n])
  <1> DEFINE D == SUBSET Found(a)
             G == [S \in D |-> Supported(S)]
             IsRounds(f) == f = [n \in Nat |-> IF n = 0 THEN Found(a)
                                               ELSE Supported(f[n - 1])]
  <1>1. G \in [D -> D] /\ Found(a) \in D
    BY SupportedShrinks
  <1>2. PICK f \in [Nat -> D] : f[0] = Found(a) /\ \A n \in Nat : f[n + 1] = G[f[n]]
    <2> HIDE DEF D, G
    <2> QED
      BY <1>1, Recursion, Z3
  <1>3. \A n \in Nat : f[n] \in D
    BY <1>2
  <1>4. \A n \in Nat : f[n] = IF n = 0 THEN Found(a) ELSE Supported(f[n - 1])
    <2> SUFFICES ASSUME NEW n \in Nat, n # 0
                 PROVE  f[n] = Supported(f[n - 1])
      BY <1>2
    <2>1. n - 1 \in Nat /\ n - 1 + 1 = n
      OBVIOUS
    <2>2. f[n] = G[f[n - 1]] /\ f[n - 1] \in D
      BY <1>2, <1>3, <2>1
    <2> QED
      BY <2>2
  <1>5. IsRounds(f)
    BY <1>2, <1>4
  <1>6. Rounds(a) = CHOOSE g : IsRounds(g)
    BY DEF Rounds
  <1> DEFINE g == Rounds(a)
  <1>7. IsRounds(g)
    <2> HIDE DEF IsRounds
    <2> QED
      BY <1>5, <1>6
  <1> HIDE DEF g
  <1>8. g[0] = Found(a) /\ \A n \in Nat : g[n + 1] = Supported(g[n])
    <2>1. \A n \in Nat : n + 1 \in Nat /\ n + 1 # 0 /\ n + 1 - 1 = n
      OBVIOUS
    <2> QED
      BY <1>7, <2>1
  <1> DEFINE T == {n \in Nat : g[n] \in D}
  <1>9. 0 \in T /\ \A n \in Nat : n \in T => n + 1 \in T
    <2>1. ASSUME NEW S \in D
          PROVE  Supported(S) \in D
      BY SupportedShrinks
    <2> QED
      BY <1>8, <2>1
  <1> HIDE DEF T
  <1>10. Nat \subseteq T
    BY <1>9, SetInduction
  <1>11. g \in [Nat -> D]
    BY <1>7, <1>10 DEF T
  <1> QED
    BY <1>8, <1>11 DEF g

\* What a module needs within n steps is in its manifest, and in those of what
\* it needs within one step less.
LEMMA WithinOf ==
    ASSUME NEW m \in DOMAIN Manifest
    PROVE  /\ Within(m) \in [Nat -> SUBSET DOMAIN Manifest]
           /\ Within(m)[0] = {m}
           /\ \A n \in Nat : Within(m)[n + 1] = WithRequired(Within(m)[n])
  <1> DEFINE D == SUBSET DOMAIN Manifest
             itself == {m}
             G == [S \in D |-> WithRequired(S)]
             IsWithin(f) == f = [n \in Nat |-> IF n = 0 THEN itself
                                               ELSE WithRequired(f[n - 1])]
  <1>1. \A S \in D : WithRequired(S) \in D
    BY ManifestAssumption DEF WithRequired
  <1>2. G \in [D -> D] /\ itself \in D
    BY <1>1
  <1> HIDE DEF itself
  <1>3. PICK f \in [Nat -> D] : f[0] = itself /\ \A n \in Nat : f[n + 1] = G[f[n]]
    <2> HIDE DEF D, G
    <2> QED
      BY <1>2, Recursion, Z3
  <1>4. \A n \in Nat : f[n] \in D
    BY <1>3
  <1>5. \A n \in Nat : f[n] = IF n = 0 THEN itself ELSE WithRequired(f[n - 1])
    <2> SUFFICES ASSUME NEW n \in Nat, n # 0
                 PROVE  f[n] = WithRequired(f[n - 1])
      BY <1>3
    <2>1. n - 1 \in Nat /\ n - 1 + 1 = n
      OBVIOUS
    <2>2. f[n] = G[f[n - 1]] /\ f[n - 1] \in D
      BY <1>3, <1>4, <2>1
    <2> QED
      BY <2>2
  <1>6. IsWithin(f)
    BY <1>3, <1>5
  <1>7. Within(m) = CHOOSE g : IsWithin(g)
    BY DEF Within, itself
  <1> DEFINE g == Within(m)
  <1>8. IsWithin(g)
    <2> HIDE DEF IsWithin
    <2> QED
      BY <1>6, <1>7
  <1> HIDE DEF g
  <1>9. g[0] = itself /\ \A n \in Nat : g[n + 1] = WithRequired(g[n])
    <2>1. \A n \in Nat : n + 1 \in Nat /\ n + 1 # 0 /\ n + 1 - 1 = n
      OBVIOUS
    <2> QED
      BY <1>8, <2>1
  <1> DEFINE T == {n \in Nat : g[n] \in D}
  <1>10. 0 \in T /\ \A n \in Nat : n \in T => n + 1 \in T
    BY <1>1, <1>2, <1>9
  <1> HIDE DEF T
  <1>11. Nat \subseteq T
    BY <1>10, SetInduction
  <1>12. g \in [Nat -> D]
    BY <1>8, <1>11 DEF T
  <1> QED
    BY <1>9, <1>12 DEF g, itself

\* A module needs itself and, of what it needs, everything that requires:
\* the steps in which a manifest can be reached are enough.
LEMMA NeedsClosed ==
    ASSUME NEW m \in DOMAIN Manifest
    PROVE  /\ m \in Needs(m) /\ Needs(m) \subseteq DOMAIN Manifest
           /\ WithRequired(Needs(m)) = Needs(m)
           /\ \A n \in Nat : Within(m)[n] \subseteq Needs(m)
  <1> DEFINE f == Within(m)
             c == Cardinality(DOMAIN Manifest)
  <1>1. /\ f \in [Nat -> SUBSET DOMAIN Manifest]
        /\ f[0] = {m}
        /\ \A n \in Nat : f[n + 1] = WithRequired(f[n])
    BY WithinOf
  <1>2. IsFiniteSet(DOMAIN Manifest) /\ c \in Nat
    BY AssemblyAssumption, FS_CardinalityType
  <1> HIDE DEF f
  <1>3. /\ \A n \in Nat : f[n] \subseteq f[n + 1]
        /\ \A n \in Nat : f[n + 1] = f[n] => f[n + 2] = f[n + 1]
    <2>1. \A n \in Nat : n + 1 \in Nat /\ n + 1 + 1 = n + 2
      OBVIOUS
    <2> QED
      BY <1>1, <2>1 DEF WithRequired
  <1>4. f[c + 1] = f[c]
    BY <1>1, <1>2, <1>3, Chain
  <1>5. Needs(m) = f[c]
    BY DEF Needs, f
  <1> HIDE DEF c
  <1>6. \A n \in Nat : f[n] \subseteq f[c]
    <2> DEFINE Up == {k \in Nat : \A n \in Nat : f[n] \subseteq f[n + k]}
    <2>1. 0 \in Up
      BY <1>1
    <2>2. \A k \in Nat : k \in Up => k + 1 \in Up
      <3>1. \A n, k \in Nat : n + k \in Nat /\ n + (k + 1) = (n + k) + 1
        OBVIOUS
      <3> QED
        BY <1>3, <3>1
    <2>3. Nat \subseteq Up
      <3> HIDE DEF Up
      <3> QED
        BY <2>1, <2>2, SetInduction
    <2> DEFINE Past == {k \in Nat : f[c + k] = f[c]}
    <2>4. 0 \in Past
      BY <1>2
    <2>5. \A k \in Nat : k \in Past => k + 1 \in Past
      <3>1. \A k \in Nat : c + k \in Nat /\ c + (k + 1) = (c + k) + 1
        BY <1>2
      <3> QED
        BY <1>1, <1>2, <1>4, <3>1
    <2>6. Nat \subseteq Past
      <3> HIDE DEF Past
      <3> QED
        BY <2>4, <2>5, SetInduction
    <2> SUFFICES ASSUME NEW n \in Nat
                 PROVE  f[n] \subseteq f[c]
      OBVIOUS
    <2>7. f[n] \subseteq f[n + c] /\ n + c = c + n
      BY <1>2, <2>3
    <2>8. f[c + n] = f[c]
      BY <2>6
    <2> QED
      BY <2>7, <2>8
  <1>7. m \in f[c]
    BY <1>1, <1>6
  <1> QED
    BY <1>1, <1>2, <1>4, <1>5, <1>6, <1>7 DEF f

\* Who needs a module needs what that module needs.
LEMMA NeedsWithin ==
    ASSUME NEW m \in DOMAIN Manifest, NEW S, m \in S,
           \A k \in S : Manifest[k].requires \subseteq S
    PROVE  Needs(m) \subseteq S
  <1> DEFINE T == {n \in Nat : Within(m)[n] \subseteq S}
  <1>1. 0 \in T /\ \A n \in Nat : n \in T => n + 1 \in T
    BY WithinOf DEF WithRequired
  <1> HIDE DEF T
  <1>2. Nat \subseteq T
    BY <1>1, SetInduction
  <1>3. Cardinality(DOMAIN Manifest) \in Nat
    BY AssemblyAssumption, FS_CardinalityType
  <1> QED
    BY <1>2, <1>3 DEF T, Needs

\* What is loaded needs another round no more.
LEMMA LoadedSupported ==
    ASSUME NEW a \in Assemblies
    PROVE  /\ Cardinality(Found(a)) \in Nat
           /\ Loaded(a) \subseteq Found(a)
           /\ Supported(Loaded(a)) = Loaded(a)
  <1> DEFINE S == Found(a)
             c == Cardinality(S)
             g == Rounds(a)
             f == [n \in Nat |-> S \ g[n]]
  <1>1. IsFiniteSet(S) /\ c \in Nat
    BY AssemblyAssumption, FS_Subset, FS_CardinalityType
  <1>2. /\ g \in [Nat -> SUBSET S]
        /\ \A n \in Nat : g[n + 1] = Supported(g[n])
    BY RoundsOf
  <1> HIDE DEF g, S, c
  <1>3. /\ f \in [Nat -> SUBSET S]
        /\ \A n \in Nat : n + 1 \in Nat /\ n + 2 \in Nat /\ n + 2 = (n + 1) + 1
        /\ \A n \in Nat : f[n] = S \ g[n]
    OBVIOUS
  <1> HIDE DEF f
  <1>4. \A n \in Nat : g[n] \subseteq S /\ g[n + 1] \subseteq g[n]
    BY <1>2, SupportedShrinks
  <1>5. \A n \in Nat : f[n] \subseteq f[n + 1]
    BY <1>3, <1>4
  <1>6. \A n \in Nat : f[n + 1] = f[n] => f[n + 2] = f[n + 1]
    <2> SUFFICES ASSUME NEW n \in Nat, f[n + 1] = f[n]
                 PROVE  f[n + 2] = f[n + 1]
      OBVIOUS
    <2>1. g[n + 1] = g[n]
      <3>1. \A k \in Nat : g[k] = S \ f[k]
        BY <1>3, <1>4
      <3> QED
        BY <1>3, <3>1
    <2>2. g[n + 2] = Supported(g[n + 1]) /\ g[n + 1] = Supported(g[n])
      BY <1>2, <1>3
    <2>3. g[n + 2] = g[n + 1]
      BY <2>1, <2>2
    <2> QED
      BY <1>3, <2>3
  <1>7. f[c + 1] = f[c]
    <2>1. f[Cardinality(S) + 1] = f[Cardinality(S)]
      BY <1>1, <1>3, <1>5, <1>6, Chain
    <2> QED
      BY <2>1 DEF c
  <1>8. g[c + 1] = g[c] /\ g[c + 1] = Supported(g[c])
    <2>1. c + 1 \in Nat /\ S \ g[c + 1] = S \ g[c]
      BY <1>1, <1>3, <1>7
    <2>2. g[c] \subseteq S /\ g[c + 1] \subseteq S
      BY <1>1, <1>4, <2>1
    <2>3. g[c + 1] = g[c]
      BY Zenon, <2>1, <2>2
    <2> QED
      BY <1>1, <1>2, <2>3
  <1>9. Loaded(a) = g[c]
    BY DEF Loaded, g, c, S
  <1> QED
    BY <1>1, <1>4, <1>8, <1>9 DEF c, S

\* Exactly what has all it needs is loaded.
LEMMA LoadedAvailable ==
    ASSUME NEW a \in Assemblies
    PROVE  Loaded(a) = Available[a]
  <1>1. Available[a] = {m \in Found(a) : Needs(m) \subseteq Found(a)}
    BY DEF Available
  <1>2. Found(a) \subseteq DOMAIN Manifest
    BY AssemblyAssumption
  <1>3. ASSUME NEW m \in Loaded(a)
        PROVE  m \in Available[a]
    <2>1. \A k \in Loaded(a) : Manifest[k].requires \subseteq Loaded(a)
      BY LoadedSupported DEF Supported
    <2>2. m \in DOMAIN Manifest /\ m \in Found(a)
      BY <1>2, <1>3, LoadedSupported
    <2>3. Needs(m) \subseteq Loaded(a)
      BY <2>1, <2>2, NeedsWithin
    <2> QED
      BY <1>1, <2>2, <2>3, LoadedSupported
  <1>4. \A m \in Available[a] : Manifest[m].requires \subseteq Available[a]
    <2> SUFFICES ASSUME NEW m \in Available[a], NEW k \in Manifest[m].requires
                 PROVE  k \in Available[a]
      OBVIOUS
    <2>1. m \in DOMAIN Manifest /\ Needs(m) \subseteq Found(a)
      BY <1>1, <1>2
    <2>2. /\ m \in Needs(m) /\ WithRequired(Needs(m)) = Needs(m)
      BY <2>1, NeedsClosed
    <2>3. k \in Needs(m)
      BY <2>2 DEF WithRequired
    <2>4. k \in DOMAIN Manifest /\ k \in Found(a)
      BY <1>2, <2>1, <2>3
    <2>5. \A i \in Needs(m) : Manifest[i].requires \subseteq Needs(m)
      BY <2>2 DEF WithRequired
    <2>6. Needs(k) \subseteq Needs(m)
      BY <2>3, <2>4, <2>5, NeedsWithin
    <2> QED
      BY <1>1, <2>1, <2>4, <2>6
  <1>5. Available[a] \subseteq Loaded(a)
    <2> DEFINE g == Rounds(a)
               T == {n \in Nat : Available[a] \subseteq g[n]}
    <2>1. 0 \in T
      BY <1>1, RoundsOf
    <2>2. \A n \in Nat : n \in T => n + 1 \in T
      BY <1>4, RoundsOf DEF Supported
    <2> HIDE DEF T, g
    <2>3. Nat \subseteq T
      BY <2>1, <2>2, SetInduction
    <2>4. Cardinality(Found(a)) \in T
      BY <2>3, LoadedSupported
    <2> QED
      BY <2>4 DEF T, g, Loaded
  <1> QED
    BY <1>3, <1>5

\* A module that is found and not loaded is missed in the round that drops it.
LEMMA DroppedIsReported ==
    ASSUME NEW a \in Assemblies, a.profile # Unreadable,
           NEW m \in Found(a) \ Loaded(a)
    PROVE  \E q : <<"module_missing_requirement", m, q>> \in Warnings(a)
  <1> DEFINE c == Cardinality(Found(a))
             g == Rounds(a)
             T == {n \in Nat : m \notin g[n]}
  <1>1. /\ c \in Nat /\ g[0] = Found(a)
        /\ \A n \in Nat : g[n + 1] = Supported(g[n])
        /\ Loaded(a) = g[c]
    BY RoundsOf, LoadedSupported DEF Loaded
  <1> HIDE DEF c, g
  <1>2. c \in T /\ 0 \notin T /\ T \subseteq Nat
    BY <1>1
  <1>3. PICK n \in T : \A k \in T : n =< k
    <2> HIDE DEF T
    <2> QED
      BY <1>2, NatMin
  <1>4. n \in Nat /\ n # 0 /\ n =< c /\ n - 1 \in Nat /\ n - 1 \in 0..c /\ n - 1 + 1 = n
    BY <1>1, <1>2, <1>3
  <1>5. n - 1 \notin T
    BY <1>3, <1>4
  <1>6. m \in g[n - 1] /\ m \notin Supported(g[n - 1])
    <2>1. g[n] = Supported(g[n - 1])
      BY <1>1, <1>4
    <2> QED
      BY <1>3, <1>4, <1>5, <2>1
  <1>7. PICK q \in Manifest[m].requires : q \notin g[n - 1]
    BY <1>6 DEF Supported
  <1> DEFINE S == g[n - 1]
             w == <<"module_missing_requirement", m, q>>
  <1>8. S \in {Rounds(a)[k] : k \in 0..Cardinality(Found(a))}
    BY <1>4 DEF c, g
  <1>9. w \in UNION {{<<"module_missing_requirement", i, r>> :
                         r \in Manifest[i].requires \ S} : i \in S}
    <2>1. w \in {<<"module_missing_requirement", m, r>> : r \in Manifest[m].requires \ S}
      BY <1>7
    <2> QED
      BY <1>6, <2>1
  <1> HIDE DEF S, w
  <1> DEFINE Missed == UNION {UNION {{<<"module_missing_requirement", i, r>> :
                                   r \in Manifest[i].requires \ R} : i \in R} :
                              R \in {Rounds(a)[k] : k \in 0..Cardinality(Found(a))}}
  <1>10. w \in Missed
    BY <1>8, <1>9
  <1>11. Missed \subseteq Warnings(a)
    BY DEF Warnings
  <1> QED
    BY <1>10, <1>11 DEF w

\* An assembly loads what it can, reports the rest, and is healthy only with
\* the whole profile.
LEMMA AssemblySound == ASSUME NEW a \in Assemblies PROVE Sound[a]
  <1>1. ASSUME NEW m \in Requested(a) \ Loaded(a)
        PROVE  \E w \in Warnings(a) : Len(w) > 1 /\ w[2] = m
    <2>1. a.profile # Unreadable
      BY <1>1 DEF Requested
    <2>2. CASE m \in a.missing
      <3> DEFINE w == <<"module_manifest_missing", m>>
      <3>1. Len(w) > 1 /\ w[2] = m
        OBVIOUS
      <3>2. w \in {<<"module_manifest_missing", k>> : k \in Requested(a) \cap a.missing}
        BY <1>1, <2>2
      <3> HIDE DEF w
      <3>3. w \in Warnings(a)
        BY <2>1, <3>2 DEF Warnings
      <3> QED
        BY <3>1, <3>3
    <2>3. CASE m \notin a.missing
      <3>1. m \in Found(a) \ Loaded(a)
        BY <1>1, <2>3 DEF Found
      <3>2. PICK q : <<"module_missing_requirement", m, q>> \in Warnings(a)
        BY <2>1, <3>1, DroppedIsReported
      <3> DEFINE w == <<"module_missing_requirement", m, q>>
      <3>3. Len(w) > 1 /\ w[2] = m
        OBVIOUS
      <3> QED
        BY <3>2, <3>3
    <2> QED
      BY <2>2, <2>3
  <1>2. ASSUME Healthy(a)
        PROVE  a.profile # Unreadable /\ Loaded(a) = Requested(a)
    <2>1. Warnings(a) = {}
      BY <1>2 DEF Healthy
    <2>2. Requested(a) \subseteq Loaded(a)
      BY <1>1, <2>1
    <2>3. Loaded(a) \subseteq Requested(a)
      BY LoadedSupported DEF Found
    <2>4. a.profile # Unreadable
      BY <2>1 DEF Warnings
    <2> QED
      BY <2>2, <2>3, <2>4
  <1> QED
    BY <1>1, <1>2, LoadedAvailable DEF Sound

\* However the modules depend on each other, the server loads exactly those
\* that have all they need, reports what it was asked for and left out, and
\* calls itself healthy only with all of its profile (_build_module_runtime,
\* /api/health/modular).
THEOREM AssembliesSound == Spec => []AssemblyIsSound
  <1>1. GatewayInv => AssemblyIsSound
    BY AssemblySound DEF GatewayInv, Threaded, AssemblyIsSound
  <1> QED
    BY <1>1, GatewayInvHolds, PTL

\* What the admission has looked at before it lets a command pass.
LEMMA AdmittedBy ==
    ASSUME NEW r, NEW a \in Assemblies, NEW c, c = r.p["cmd"], c # "status",
           Refusal(r, Server(a)) = "none"
    PROVE  LET dev == NormalDevice(Get(r.p, "device", "mctivity"), Capabilities(a))
               key == FeatureKey(Registry(a), r.p) IN
           /\ dev \in Axes /\ DeviceCapability(dev) \subseteq Capabilities(a)
           /\ key \in Handled => key \in Enabled(a)
           /\ c \in CurveCommands => a.execute
  <1> DEFINE s   == Server(a)
             dev == NormalDevice(Get(r.p, "device", "mctivity"), Capabilities(a))
             key == FeatureKey(Registry(a), r.p)
  <1>1. /\ s.capabilities = Capabilities(a) /\ s.registry = Registry(a)
        /\ s.enabled = Enabled(a) /\ s.execute = a.execute
    BY DEF Server
  <1>2. /\ dev # "none" /\ dev # "aux_encoder"
        /\ ~(NeedsExecution(r.p) /\ ~a.execute)
        /\ ~(key \in Handled /\ key \notin Enabled(a))
    <2> HIDE DEF s
    <2>1. Refusal(r, s) = "none"
      BY DEF s
    <2> QED
      BY <1>1, <2>1 DEF Refusal
  <1>3. dev \in Axes /\ DeviceCapability(dev) \subseteq Capabilities(a)
    BY <1>2 DEF NormalDevice, Axes
  <1> QED
    BY <1>2, <1>3 DEF NeedsExecution

\* A command on its way belongs to an axis that is assembled and to a feature
\* that has a logic module with everything it needs; an anti-sway curve only to
\* a server that may execute it (do_POST, resolve_enabled_feature_keys,
\* execution_is_allowed).
THEOREM Assembled == Spec => []AdmittedIsAssembled
  <1>1. GatewayInv => AdmittedIsAssembled
    <2> SUFFICES ASSUME GatewayInv, NEW t \in Threads,
                        thread[t].req.cmd \notin {"none", "status"}
                 PROVE  LET q == thread[t].req
                            registry == Servers[asm].registry IN
                        /\ q.dev \in Axes
                        /\ DeviceCapability(q.dev) \subseteq Servers[asm].capabilities
                        /\ q.key \in Handled =>
                             \E i \in DOMAIN registry :
                                /\ registry[i].key = q.key
                                /\ registry[i].logic \cap Available[asm] # {}
                        /\ q.cmd \in CurveCommands => asm.execute
      BY DEF AdmittedIsAssembled
    <2> DEFINE q == thread[t].req
    <2>1. asm \in Assemblies /\ q # NoRequest
      BY Served DEF NoRequest
    <2>2. PICK r \in Requests : q = Outcome(r, Servers[asm])
      BY <2>1, Served
    <2>3. /\ Servers[asm] = Server(asm)
          /\ Servers[asm].capabilities = Capabilities(asm)
          /\ Servers[asm].registry = Registry(asm)
      BY <2>1 DEF Servers, Server
    <2> HIDE DEF q
    <2>4. /\ Refusal(r, Server(asm)) = "none" /\ q.cmd = r.p["cmd"]
          /\ q.dev = NormalDevice(Get(r.p, "device", "mctivity"), Capabilities(asm))
          /\ q.key = FeatureKey(Registry(asm), r.p)
      BY <2>2, <2>3, OutcomeParts DEF q
    <2>5. /\ q.dev \in Axes /\ DeviceCapability(q.dev) \subseteq Capabilities(asm)
          /\ q.key \in Handled => q.key \in Enabled(asm)
          /\ q.cmd \in CurveCommands => asm.execute
      <3>1. q.cmd # "status"
        BY DEF q
      <3> QED
        BY <2>1, <2>4, <3>1, AdmittedBy
    <2>6. ASSUME q.key \in Enabled(asm)
          PROVE  \E i \in DOMAIN Registry(asm) :
                    /\ Registry(asm)[i].key = q.key
                    /\ Registry(asm)[i].logic \cap Available[asm] # {}
      BY <2>1, <2>6, LoadedAvailable DEF Enabled
    <2> QED
      BY <2>3, <2>5, <2>6 DEF q
  <1> QED
    BY <1>1, GatewayInvHolds, PTL
=============================================================================
