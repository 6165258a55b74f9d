---------------------------- MODULE CommandRules ----------------------------
(***************************************************************************)
(* The tables and rules by which the HMI server admits a command: which    *)
(* fields it keeps, which of them must be integers within limits, which    *)
(* capability and which feature a command needs, and what its feature does *)
(* before it tells the daemon (mctivity_hmi.py, feature_*.py).  Everything *)
(* here is a function of the request; Gateway gives it a state.            *)
(*                                                                         *)
(* A payload is a function from field names to values.  A number is small: *)
(* MaxValue stands for every upper limit of the configuration, MinPeriod   *)
(* for the shortest pendulum period, and NotInt for a value that is not an *)
(* integer of 32 bits.  A name outside the known ones is "other", the      *)
(* synonyms of the encoder are "afm60".                                    *)
(***************************************************************************)
EXTENDS Integers, Sequences, FiniteSets

CONSTANTS
    MaxValue,    \* MAX_SPEED_RPM, MAX_ACCEL_RPM_S, MAX_MOVE_MS, ...
    MinPeriod,   \* 50 ms, the least natural_period_ms
    MaxRow,      \* 255, the greatest row number of a table
    NotInt       \* a value _strict_int raises for

ASSUME LimitAssumption ==
    /\ MaxValue \in Nat \ {0}
    /\ MinPeriod \in 1..MaxValue
    /\ MaxRow \in Nat \ {0}

Has(p, f)        == f \in DOMAIN p
Get(p, f, d)     == IF f \in DOMAIN p THEN p[f] ELSE d
\* _strict_int without and with its bounds.
Int32(v)         == v # NotInt
IntIn(v, lo, hi) == Int32(v) /\ lo =< v /\ v =< hi

-----------------------------------------------------------------------------
(* Commands and their fields.                                              *)

Bounds     == {"min_pos", "max_pos"}
Profile    == {"speed_rpm", "acceleration_rpm_s"}
Decels     == {"deceleration_rpm_s", "deceleration_counts_s2", "deceleration"}
Ratios     == {"master_ratio", "slave_ratio", "gear_master_ratio",
               "gear_slave_ratio"}
CurveRates == {"vmax_counts_s", "accel_counts_s2", "decel_counts_s2"}
Pendulum   == {"rod_length_mm", "natural_period_s", "allowed_angle_deg"}

CurveCommands == {"anti_sway_curve_abs", "terminal_anti_sway_curve_abs"}
SwayCommands  == {"anti_sway_input", "anti_sway_run"}
GearSetup     == {"gear_config", "gear_start"}
Moves         == {"move_abs", "move_rel"}
TableCommands == {"point_table_write", "point_table_run", "point_table_stop",
                  "point_table_clear", "point_table_status"}
ZeroCommands  == {"set_zero", "home"}
ResetCommands == {"fault_reset", "reset_fault"}
HomingCommands == {"homing_set_current", "homing_start_torque", "homing_stop"}
ValidCommands ==
    {"status", "set_mode", "enable", "disable", "stop", "move_curve_rel",
     "jog_velocity", "torque_cmd", "gear_stop"}
    \cup CurveCommands \cup SwayCommands \cup GearSetup \cup Moves
    \cup TableCommands \cup ZeroCommands \cup ResetCommands \cup HomingCommands

RequiredInts(c) ==
    CASE c = "move_abs"           -> {"pos"}
      [] c = "move_rel"           -> {"delta"}
      [] c = "move_curve_rel"     -> {"target_delta_counts"} \cup CurveRates
      [] c = "jog_velocity"       -> {"velocity"}
      [] c = "torque_cmd"         -> {"torque"}
      [] c = "homing_set_current" -> {"position"}
      [] c = "homing_start_torque" ->
           {"direction", "speed_rpm", "torque_threshold", "set_position",
            "max_distance"}
      [] c \in CurveCommands      -> {"pos", "natural_period_ms"} \cup Profile
      [] OTHER                    -> {}

OptionalInts(c) ==
    CASE c = "stop"            -> Decels \cup {"acceleration_rpm_s"}
      [] c = "homing_stop"     -> Decels
      [] c = "homing_start_torque" ->
           {"backoff_distance", "backoff_position", "acceleration_rpm_s",
            "deceleration_rpm_s", "timeout_ms", "torque_hold_ms"}
      [] c \in Moves           -> {"move_ms"} \cup Profile \cup Bounds
      [] c = "anti_sway_input" -> Profile
      [] c \in CurveCommands   -> Bounds
      [] c = "move_curve_rel"  -> {"dwell_ms"} \cup Bounds
      [] c \in GearSetup       -> Ratios
      [] OTHER                 -> {}

\* _COMMAND_FIELD_ORDER without "cmd" and "device".
FieldOrder(c) ==
    RequiredInts(c) \cup OptionalInts(c) \cup
    CASE c = "set_mode"          -> {"mode"}
      [] c = "move_curve_rel"    -> {"blend"}
      [] c \in GearSetup         -> {"master", "master_axis"}
      [] c \in SwayCommands      ->
           {"sensor_axis", "current_counts", "target_counts", "algorithm"}
             \cup Profile \cup Pendulum
             \cup (IF c = "anti_sway_run" THEN {"dry_run"} ELSE {})
      [] c = "point_table_write" -> {"start", "step", "cycle_count", "rows"}
      [] c = "point_table_run"   -> {"cycle_count"}
      [] OTHER                   -> {}

Nonnegative == Decels \cup Profile \cup
    {"move_ms", "dwell_ms", "backoff_distance", "timeout_ms", "torque_hold_ms"}
Positive == CurveRates \cup Ratios \cup {"max_distance", "natural_period_ms"}
\* Fields with an upper limit wherever they occur, and those with one on the
\* absolute value.
Limited == CurveRates \cup Decels \cup Profile \cup Ratios \cup
    {"move_ms", "torque_threshold"}
LimitedBothWays == {"velocity", "torque"}
HomingLimited ==
    {"max_distance", "backoff_distance", "timeout_ms", "torque_hold_ms"}

\* _validate_command_numbers.  Faulty: the range of a field is not checked
\* unless the command requires it.
NumbersValid_X(c, p) ==
    /\ RequiredInts(c) \subseteq DOMAIN p
    /\ \A f \in (RequiredInts(c) \cup OptionalInts(c)) \cap DOMAIN p : Int32(p[f])
    /\ \A f \in Nonnegative \cap RequiredInts(c) : p[f] >= 0
    /\ \A f \in Positive \cap RequiredInts(c) : p[f] > 0
NumbersValid(c, p) ==
    LET Present(S) == S \cap DOMAIN p IN
    /\ RequiredInts(c) \subseteq DOMAIN p
    /\ \A f \in Present(RequiredInts(c) \cup OptionalInts(c)) : Int32(p[f])
    /\ \A f \in Present(Nonnegative) : p[f] >= 0
    /\ \A f \in Present(Positive) : p[f] > 0
    /\ Bounds \subseteq DOMAIN p => p["min_pos"] =< p["max_pos"]
    /\ \A f \in Present(Limited) : p[f] =< MaxValue
    /\ \A f \in Present(LimitedBothWays) : p[f] \in -MaxValue..MaxValue
    /\ Has(p, "torque_threshold") => p["torque_threshold"] > 0
    /\ c = "homing_start_torque" =>
         /\ p["direction"] \in {-1, 1}
         /\ p["speed_rpm"] > 0
         /\ \A f \in Present(HomingLimited) : p[f] =< MaxValue
    /\ c \in CurveCommands =>
         /\ \A f \in Profile : p[f] > 0
         /\ p["natural_period_ms"] \in MinPeriod..MaxValue

-----------------------------------------------------------------------------
(* Point tables.                                                           *)

\* _sanitize_point_table_cycle_count: a count, or the older loop mode.
CycleCountValid(p) ==
    IF Has(p, "cycle_count") THEN IntIn(p["cycle_count"], 1, MaxValue)
    ELSE Get(p, "loop_mode", "single") \in {"single", "cycle"}

CycleCount(p) ==
    CASE Has(p, "cycle_count")                     -> p["cycle_count"]
      [] Get(p, "loop_mode", "single") = "cycle"   -> MaxValue
      [] OTHER                                     -> 1

RowValid(r) ==
    /\ {"row", "pos", "speed_rpm", "acceleration_rpm_s"} \subseteq DOMAIN r
    /\ IntIn(r["row"], 1, MaxRow)
    /\ Int32(r["pos"])
    /\ IntIn(r["speed_rpm"], 1, MaxValue)
    /\ IntIn(r["acceleration_rpm_s"], 0, MaxValue)
    /\ IntIn(Get(r, "dwell_ms", 0), 0, MaxValue)
    /\ Has(r, "move_ms") => IntIn(r["move_ms"], 1, MaxValue)
    /\ Bounds \cap DOMAIN r # {} =>
         /\ Bounds \subseteq DOMAIN r
         /\ \A f \in Bounds : Int32(r[f])
         /\ r["min_pos"] =< r["max_pos"]

\* _sanitize_point_table_rows; the code sorts the rows by number.
RowsValid(rows) ==
    /\ rows # <<>> /\ Len(rows) =< MaxValue
    /\ \A i \in DOMAIN rows : RowValid(rows[i])
    /\ \A i, j \in DOMAIN rows : i # j => rows[i]["row"] # rows[j]["row"]

FirstRow(rows) ==
    CHOOSE n \in {rows[i]["row"] : i \in DOMAIN rows} :
        \A i \in DOMAIN rows : n =< rows[i]["row"]

\* _sanitize_point_table_payload.
TableValid(c, p) ==
    CASE c = "point_table_write" ->
           /\ Has(p, "rows") /\ RowsValid(p["rows"])
           /\ LET start == Get(p, "start", FirstRow(p["rows"]))
                  step  == Get(p, "step", Len(p["rows"])) IN
              /\ IntIn(start, 1, MaxRow)
              /\ IntIn(step, 1, MaxValue)
              /\ step =< MaxRow - start + 1
           /\ CycleCountValid(p)
      [] c = "point_table_run" ->
           {"cycle_count", "loop_mode"} \cap DOMAIN p # {} => CycleCountValid(p)
      [] OTHER -> TRUE

-----------------------------------------------------------------------------
(* Anti-sway preparation (feature_anti_sway_position.py).                  *)

Encoder(name) == IF name = "afm60" THEN "aux_encoder" ELSE name

DeviceCapability(d) ==
    CASE d = "fv3"         -> {"axis.device.fv3.access"}
      [] d = "aux_encoder" -> {"axis.device.aux_encoder.access"}
      [] OTHER             -> {}

\* The sensor is another device, and one that is assembled.
SensorValid(p, device, caps) ==
    LET sensor == Encoder(Get(p, "sensor_axis", "aux_encoder")) IN
    /\ sensor \in {"mctivity", "fv3", "aux_encoder"} \ {device}
    /\ DeviceCapability(sensor) \subseteq caps

\* _sanitize_anti_sway_input_payload: the pendulum is clamped, not refused.
SwayValid(p, device, caps) ==
    /\ SensorValid(p, device, caps)
    /\ Int32(Get(p, "target_counts", 0))
    /\ \A f \in Profile : IntIn(Get(p, f, 0), 0, MaxValue)
    /\ p["cmd"] = "anti_sway_run" =>
         Int32(Get(p, "current_counts", Get(p, "target_counts", 0)))

DryRun(p) == Get(p, "dry_run", TRUE)

\* execution_is_allowed.  Faulty: it knows only one of the curves.
NeedsExecution_X(p) ==
    \/ p["cmd"] = "anti_sway_curve_abs"
    \/ p["cmd"] = "anti_sway_run" /\ ~DryRun(p)
NeedsExecution(p) ==
    \/ p["cmd"] \in CurveCommands
    \/ p["cmd"] = "anti_sway_run" /\ ~DryRun(p)

Terminal(p) == Get(p, "algorithm", "ZVD") = "terminal"

\* Python's round of a quarter: halves go to the even neighbour.
RoundQuarter(q) ==
    LET f == q \div 4
        r == q % 4 IN
    IF r = 3 \/ (r = 2 /\ f % 2 = 1) THEN f + 1 ELSE f

\* The impulses of _zvd_plan, each with the quarters of the way covered after
\* it; the terminal curve has none.
Covered(terminal) == IF terminal THEN <<>> ELSE <<1, 3, 4>>

\* _execution_segments: the ends of the segments.  Faulty: each segment adds
\* its own rounded share to the end of the one before.
SegmentTargets_X(from, to, terminal) ==
    IF terminal THEN <<to>>
    ELSE LET a == from + RoundQuarter(to - from)
             b == a + RoundQuarter(2 * (to - from)) IN
         <<a, b, b + RoundQuarter(to - from)>>
SegmentTargets(from, to, terminal) ==
    LET quarters == Covered(terminal)
        last == Len(quarters) IN
    IF quarters = <<>> THEN <<to>>
    ELSE [i \in 1..last |-> IF i = last THEN to
                            ELSE RoundQuarter(4 * from + (to - from) * quarters[i])]

\* _normalized_request, with the default of the sanitized current position.
SwayRequest(p) ==
    [from |-> Get(p, "current_counts", Get(p, "target_counts", 0)),
     to |-> Get(p, "target_counts", 0), terminal |-> Terminal(p)]

\* _continuous_curve_command.
Curve(q) == [cmd |-> IF q.terminal THEN "terminal_anti_sway_curve_abs"
                                   ELSE "anti_sway_curve_abs",
             target |-> q.to]

\* What anti_sway_run answers.
PreparedRun(p) ==
    LET q == SwayRequest(p) IN
    [status   |-> IF DryRun(p) THEN "prepared" ELSE "armed",
     segments |-> SegmentTargets(q.from, q.to, q.terminal),
     curve    |-> Curve(q)]

-----------------------------------------------------------------------------
(* Admission.                                                              *)

ModeCapability(m) ==
    CASE m = "anti_sway_position" -> "axis.mode.anti_sway_position.input"
      [] m = "position"    -> "axis.mode.position.execute"
      [] m = "incremental" -> "axis.mode.incremental.execute"
      [] m = "jog"         -> "axis.mode.jog.execute"
      [] m = "point"       -> "axis.mode.point.execute"
      [] m = "multi_point" -> "axis.mode.multi_point.execute"
      [] m = "homing"      -> "axis.mode.homing.execute"
      [] m = "velocity"    -> "axis.mode.velocity.execute"
      [] m = "torque"      -> "axis.mode.torque.execute"
      [] m = "gear_cam"    -> "axis.mode.gear_cam.execute"
ValidModes == {"position", "anti_sway_position", "incremental", "jog", "point",
               "multi_point", "homing", "velocity", "torque", "gear_cam"}

\* _command_required_capability; the daemon's status needs none.
RequiredCapability(p) ==
    LET c == p["cmd"] IN
    CASE c = "status"                        -> {}
      [] c = "set_mode"                      -> {ModeCapability(p["mode"])}
      [] c \in {"enable", "disable"}         -> {"axis.control.enable"}
      [] c = "stop"                          -> {"axis.control.stop"}
      [] c \in ResetCommands                 -> {"axis.control.fault.reset"}
      [] c \in ZeroCommands                  -> {"axis.control.zero"}
      [] c \in HomingCommands                -> {ModeCapability("homing")}
      [] c \in Moves                         -> {ModeCapability("position")}
      [] c \in SwayCommands \cup CurveCommands ->
           {ModeCapability("anti_sway_position")}
      [] c = "move_curve_rel"                -> {ModeCapability("incremental")}
      [] c \in TableCommands                 -> {ModeCapability("multi_point")}
      [] c = "jog_velocity"                  -> {ModeCapability("velocity")}
      [] c = "torque_cmd"                    -> {ModeCapability("torque")}
      [] c \in GearSetup \cup {"gear_stop"}  -> {ModeCapability("gear_cam")}

\* _normalize_device: a device the assembly gives access to, or "none".
NormalDevice(name, caps) ==
    LET d == Encoder(name) IN
    IF d \in {"mctivity", "fv3", "aux_encoder"} /\ DeviceCapability(d) \subseteq caps
      THEN d ELSE "none"

MasterNames == {"mctivity", "fv3", "aux_encoder", "virtual", "afm60"}

\* The fields _sanitize_command_payload keeps; what it fills in or replaces by
\* a synonym is read with a default where it is used.
Clean(p) ==
    [f \in {"cmd"} \cup (FieldOrder(p["cmd"]) \cap DOMAIN p) |-> p[f]]

\* _sanitize_command_payload gives a payload (and not None).
Sanitary(p, device, caps) ==
    LET c == p["cmd"] IN
    IF c \in TableCommands THEN TableValid(c, p)
    ELSE IF c \in SwayCommands THEN SwayValid(p, device, caps)
    ELSE /\ c = "move_curve_rel" =>
              Get(p, "blend", "smooth") \in {"linear", "smooth", "aggressive"}
         /\ c \in GearSetup =>
              \A f \in {"master", "master_axis"} :
                  Has(p, f) => p[f] \in MasterNames
         /\ NumbersValid(c, Clean(p))

\* The first of an order of checks that hits.
First(order, hits) ==
    LET at == {i \in DOMAIN order : order[i] \in hits} IN
    IF at = {} THEN "none" ELSE order[CHOOSE i \in at : \A j \in at : i =< j]

\* Faulty: it does not look at the acceleration.
Ranged_X == <<"speed_rpm", "move_ms">>
Ranged == <<"speed_rpm", "acceleration_rpm_s", "move_ms">>

\* _sanitize_rejection_detail: what the answer to a refused move_abs blames.
Blame(p) ==
    LET malformed == First(
            <<"pos", "move_ms", "speed_rpm", "acceleration_rpm_s", "min_pos",
              "max_pos">>,
            {f \in {"pos"} \cup DOMAIN p : ~Int32(Get(p, f, NotInt))})
        outside == First(Ranged,
            {f \in (Profile \cup {"move_ms"}) \cap DOMAIN p : p[f] \notin 1..MaxValue})
        bounded == Bounds \subseteq DOMAIN p IN
    IF malformed # "none" THEN malformed
    ELSE IF bounded /\ p["min_pos"] > p["max_pos"] THEN "motion_bounds"
    ELSE IF bounded /\ p["pos"] \notin p["min_pos"]..p["max_pos"] THEN "pos"
    ELSE outside

\* What Sanitary refuses a move_abs for.
AtFault(p) ==
    LET given == {f \in {"pos", "move_ms"} \cup Profile \cup Bounds : Has(p, f)} IN
    ({"pos"} \ given)
      \cup {f \in given : ~Int32(p[f])}
      \cup {f \in given \cap (Profile \cup {"move_ms"}) :
              Int32(p[f]) /\ p[f] \notin 0..MaxValue}
      \cup (IF /\ Bounds \subseteq given
               /\ \A f \in Bounds : Int32(p[f])
               /\ p["min_pos"] > p["max_pos"] THEN {"motion_bounds"} ELSE {})

\* What Sanitary lets pass and Blame does not: a zero, which stands for "not
\* given", and a target outside its bounds, which the daemon clamps.
Suspected(p) ==
    {f \in (Profile \cup {"move_ms"}) \cap DOMAIN p : p[f] = 0}
      \cup (IF /\ Bounds \subseteq DOMAIN p
               /\ \A f \in Bounds \cup {"pos"} : Int32(Get(p, f, NotInt))
               /\ p["pos"] \notin p["min_pos"]..p["max_pos"] THEN {"pos"} ELSE {})

-----------------------------------------------------------------------------
(* Features: who owns a command, and what is done before the daemon is told*)

\* FEATURE_HANDLERS.
Handled == {"position", "anti_sway_position", "incremental", "multi_point",
            "homing", "velocity", "torque", "gear_cam"}

\* feature_key_from_payload: the first feature of the registry that owns the
\* mode or the command.
FeatureKey(registry, p) ==
    LET Owns(e) == IF p["cmd"] = "set_mode" THEN p["mode"] \in e.modes
                                            ELSE p["cmd"] \in e.commands
        owners == SelectSeq(registry, Owns) IN
    IF owners = <<>> THEN "default" ELSE Head(owners).key

\* The commands whose handler waits until the servo is ready.
WaitsForReady(key, c) ==
    \/ key \in {"position", "incremental"} /\ c \in Moves \cup {"move_curve_rel"}
    \/ key = "gear_cam" /\ c = "gear_start"
    \/ key = "velocity" /\ c = "jog_velocity"
    \/ key = "homing" /\ c = "homing_start_torque"

PP  == 1    \* profile position
CSP == 8    \* cyclic synchronous position

\* _fv3_mode_code_from_name.
ModeCode(m) ==
    CASE m \in {"position", "incremental", "jog", "point", "multi_point"} -> PP
      [] m = "velocity" -> 9
      [] m = "torque"   -> 10
      [] OTHER          -> CSP

\* The modes for which the handler of a feature writes the drive's mode.
OwnModes(key) ==
    CASE key \in {"position", "incremental"} ->
           {"position", "incremental", "jog", "point", "multi_point"}
      [] key \in {"multi_point", "homing", "velocity", "torque", "gear_cam"} ->
           {key}
      [] OTHER -> {}

\* The mode of operation a handler writes to the drive of FV3 first, if any.
\* Faulty: the gear relies on the mode selected before.
DriveMode_X(key, c, m) ==
    IF c = "set_mode" /\ m \in OwnModes(key) THEN {ModeCode(m)}
    ELSE IF key = "homing" /\ c = "homing_start_torque" THEN {CSP} ELSE {}
DriveMode(key, c, m) ==
    IF c = "set_mode" /\ m \in OwnModes(key) THEN {ModeCode(m)}
    ELSE IF \/ key \in {"position", "incremental"} /\ c = "move_curve_rel"
            \/ key = "gear_cam" /\ c \in GearSetup
            \/ key = "homing" /\ c = "homing_start_torque"
           THEN {CSP} ELSE {}

\* The commands that write their speed and acceleration to the drive of FV3.
WritesProfile(key, c) == key \in {"position", "incremental"} /\ c \in Moves

\* fv3_command refuses a mode it does not know without telling the daemon.
Fv3Modes == ValidModes \ {"anti_sway_position"}

-----------------------------------------------------------------------------
(* What the daemon makes of the fields (handle_command of                  *)
(* mctivity_motiond.c).  The limits it has fixed are those the server has  *)
(* unless its environment says otherwise.                                  *)

\* The fields it looks for.  Of synonyms it takes the first it finds, and it
\* uses a bound only with the other one.
DaemonReads(c) ==
    IF c \in SwayCommands THEN {}
    ELSE (RequiredInts(c) \cup OptionalInts(c))
           \ (IF c = "homing_start_torque" THEN {"acceleration_rpm_s"} ELSE {})

\* Those for which a negative value is as good as none: the ones read by
\* find_u32, and max_distance.
Unsigned(c) ==
    CASE c = "stop"                -> Decels \cup {"acceleration_rpm_s"}
      [] c = "homing_stop"         -> Decels
      [] c = "homing_start_torque" ->
           {"speed_rpm", "deceleration_rpm_s", "timeout_ms", "torque_hold_ms",
            "max_distance"}
      [] c \in Moves               -> Profile \cup {"move_ms"}
      [] c \in CurveCommands       -> Profile \cup {"natural_period_ms"}
      [] c = "move_curve_rel"      -> CurveRates \cup {"dwell_ms"}
      [] c \in GearSetup           -> Ratios
      [] OTHER                     -> {}
Finds(c, p, f) == Has(p, f) /\ Int32(p[f]) /\ (f \in Unsigned(c) => p[f] >= 0)

\* Without these there is an error; every other field has a default.
Demanded(c) == RequiredInts(c) \ {"velocity", "torque", "max_distance"}

\* A value that is found and refused.
OutOfRange(c, f, v) ==
    \/ /\ c = "homing_start_torque"
       /\ \/ f = "direction" /\ v \notin {-1, 1}
          \/ f = "speed_rpm" /\ v = 0
          \/ f \in {"torque_threshold", "timeout_ms"} /\ v \notin 1..MaxValue
          \/ f \in {"backoff_distance", "torque_hold_ms"} /\ v \notin 0..MaxValue
          \/ f = "max_distance" /\ v > MaxValue
    \/ c \in CurveCommands /\ f \in Profile /\ v = 0
    \/ c \in CurveCommands /\ f = "natural_period_ms" /\ v \notin MinPeriod..MaxValue
    \/ c = "move_curve_rel" /\ f \in CurveRates /\ v = 0

\* The fields for which the daemon answers with an error.
DaemonRefuses(c, p) ==
    {f \in DaemonReads(c) : IF Finds(c, p, f) THEN OutOfRange(c, f, p[f])
                                              ELSE f \in Demanded(c)}

\* Where a zero is replaced: a deceleration, and what is 0 until it is given.
ZeroIsDefault(c) ==
    CASE c = "stop"                -> Decels \cup {"acceleration_rpm_s"}
      [] c = "homing_stop"         -> Decels
      [] c = "homing_start_torque" ->
           {"deceleration_rpm_s", "torque_hold_ms", "max_distance"}
      [] c \in Moves               -> Profile \cup {"move_ms"}
      [] c \in GearSetup           -> Ratios
      [] OTHER                     -> {}

\* The fields for which the daemon takes a value of its own: it was given
\* none, or one it cannot find or replaces.
DaemonSupplies(c, p) ==
    {f \in DaemonReads(c) :
       \/ f \in RequiredInts(c) /\ ~Has(p, f)
       \/ Has(p, f) /\ ~Finds(c, p, f)
       \/ Finds(c, p, f) /\ p[f] = 0 /\ f \in ZeroIsDefault(c)}

=============================================================================
