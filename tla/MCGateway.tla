----------------------------- MODULE MCGateway ------------------------------
(***************************************************************************)
(* Gateway with the manifests and profiles of modules/ and profiles/, the  *)
(* registry of feature_registry.json, and every command with each of its   *)
(* fields in turn absent, not an integer, negative, zero, at and over its  *)
(* limit.                                                                  *)
(***************************************************************************)
EXTENDS Gateway, TLC

CONSTANT NotAnInt, NoProfile

Fixed == {"axis-control-panel", "axis-feedback-panel", "ui-state-persist"}
Logic(m) ==
    CASE m = "position" -> "feature-logic-single-point"
      [] m = "jog" -> "feature-logic-jog"
      [] m = "point" -> "feature-logic-point"
      [] m = "incremental" -> "feature-logic-incremental"
      [] m = "multi_point" -> "feature-logic-multi-point"
      [] m = "homing" -> "feature-logic-homing"
      [] m = "velocity" -> "feature-logic-velocity"
      [] m = "torque" -> "feature-logic-torque"
      [] m = "gear_cam" -> "feature-logic-electronic-gear"
      [] m = "anti_sway_position" -> "feature-logic-anti-sway-position"

Panel == "axis-control-panel"
Entry(q, p) == [requires |-> q, conflicts |-> {}, provides |-> p]
ModeEntry(m) ==
    Entry(CASE m = "gear_cam" -> {Panel, Logic("position")}
            [] m = "incremental" -> {Panel, "ui-state-persist"}
            [] m = "anti_sway_position" ->
                 Fixed \cup {"feature-logic-dual-axis-fv3", Logic("position")}
            [] OTHER -> {Panel},
          {ModeCapability(m)} \cup
            (IF m = "anti_sway_position" THEN {ModeCapability("position")} ELSE {}))

MCManifest ==
    Panel :> Entry({}, {"axis.control.mode.select", "axis.control.enable",
        "axis.control.stop", "axis.control.fault.reset", "axis.control.zero"})
    @@ "axis-feedback-panel" :> Entry({}, {"axis.feedback.view"})
    @@ "ui-state-persist" :> Entry({}, {"axis.state.persist"})
    @@ "feature-logic-dual-axis-fv3" :> Entry({Panel}, DeviceCapability("fv3"))
    @@ "feature-logic-aux-encoder" :>
         Entry({"axis-feedback-panel"}, DeviceCapability("aux_encoder"))
    @@ "feature-hmi-single-point" :> Entry({Logic("position")}, {})
    @@ "feature-hmi-anti-sway-position" :>
         Entry({Logic("anti_sway_position"), "feature-hmi-single-point"}, {})
    @@ [n \in {Logic(m) : m \in ValidModes} |->
          ModeEntry(CHOOSE m \in ValidModes : Logic(m) = n)]

Feature(k, l, c, m) == [key |-> k, logic |-> l, commands |-> c, modes |-> m]
Plain(k, c) == Feature(k, {Logic(k)}, c, {k})
MCRegistry == <<
    Feature("position", {Logic("position"), Logic("jog"), Logic("point")},
            Moves, {"position", "jog", "point"}),
    Plain("anti_sway_position", SwayCommands \cup CurveCommands),
    Plain("homing", HomingCommands),
    Plain("incremental", {"move_curve_rel"}),
    Plain("multi_point", TableCommands),
    Plain("velocity", {"jog_velocity"}),
    Plain("torque", {"torque_cmd"}),
    Plain("gear_cam", GearSetup \cup {"gear_stop"})>>

Minimal == Fixed \cup {Logic("position"), "feature-hmi-single-point"}
Standard == Minimal \cup {Logic(m) : m \in
    {"incremental", "jog", "point", "multi_point", "homing", "velocity"}}
Packaged(p) == [profile |-> p, missing |-> {}, aux |-> TRUE, registry |-> MCRegistry,
                execute |-> FALSE, token |-> FALSE, loopback |-> TRUE]
Full == Packaged(DOMAIN MCManifest)
MCPackaged == {Full}
MCAssemblies == {
    Full, Packaged(Standard), Packaged(Minimal), Packaged(NoProfile),
    [Full EXCEPT !.execute = TRUE, !.token = TRUE, !.loopback = FALSE],
    [Full EXCEPT !.aux = FALSE, !.registry = <<>>],
    [Full EXCEPT !.missing = {Panel}],
    [Full EXCEPT !.missing = {Logic("position")}, !.execute = TRUE],
    [Full EXCEPT !.missing = {"ui-state-persist"}, !.registry =
        <<NoProfile, MCRegistry[1], Feature("gear_cam", {}, Moves, {})>>],
    [Full EXCEPT !.profile = @ \ {"feature-logic-dual-axis-fv3"}],
    [Full EXCEPT !.loopback = FALSE]}

-----------------------------------------------------------------------------
\* A payload that is taken.
Good(c) ==
    ("cmd" :> c) @@ ("device" :> "fv3")
    @@ [f \in RequiredInts(c) |-> IF f = "natural_period_ms" THEN MinPeriod ELSE 1]
    @@ (IF c = "set_mode" THEN "mode" :> "position"
        ELSE IF c = "point_table_write" THEN "rows" :> << [f \in
            {"row", "pos", "speed_rpm", "acceleration_rpm_s"} |-> 1] >>
        ELSE <<>>)

Numbers == {NotAnInt, -1, 0, 1, MaxValue, MaxValue + 1}
Payloads ==
    UNION {{[Good(c) EXCEPT !["device"] = d] : d \in {"fv3", "afm60"}}
         \cup {(f :> v) @@ Good(c) : f \in Numeric(c) \cup {"cycle_count"}, v \in Numbers}
         \cup {[g \in DOMAIN Good(c) \ {f} |-> Good(c)[g]] : f \in RequiredInts(c)}
         : c \in ValidCommands}
    \cup {[Good(c) EXCEPT !["device"] = "mctivity"] : c \in {"move_abs", "stop"}}
    \cup {[Good("set_mode") EXCEPT !["mode"] = m] : m \in ValidModes \cup {"other"}}
    \cup {("min_pos" :> lo) @@ ("max_pos" :> hi) @@ Good(c) :
            c \in {"move_abs", "move_curve_rel"}, lo \in 0..1, hi \in 0..1}
    \cup {("dry_run" :> b) @@ ("algorithm" :> "terminal") @@ ("sensor_axis" :> s)
            @@ Good("anti_sway_run") : b \in BOOLEAN, s \in {"fv3", "afm60"}}
    \cup {("current_counts" :> from) @@ ("target_counts" :> to)
            @@ Good("anti_sway_run") : from \in -3..6, to \in -3..6}
    \cup {("master" :> m) @@ Good("gear_start") : m \in {"afm60", "other"}}
    \cup {("speed_rpm" :> 1) @@ ("acceleration_rpm_s" :> 1) @@ Good("move_abs"),
          ("speed_rpm" :> 0) @@ ("move_ms" :> MaxValue + 1) @@ Good("move_abs")}
    \cup {("blend" :> "other") @@ Good("move_curve_rel"), [cmd |-> "other"]}

MCRequests ==
    {[p |-> p, faults |-> {}, local |-> TRUE, token |-> TRUE] : p \in Payloads}
    \cup {[p |-> Good("enable"), faults |-> f, local |-> l, token |-> k] :
            f \in SUBSET {"host", "body"}, l \in BOOLEAN, k \in BOOLEAN}

\* What SendsPrepared asks of the registries.
ASSUME RegistriesFit
=============================================================================
