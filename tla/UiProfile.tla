----------------------------- MODULE UiProfile -----------------------------
(***************************************************************************)
(* What a saved profile goes through: the browser normalises a profile     *)
(* before it posts it (normalize...State, normalizedTransmission), the     *)
(* server keeps what it recognises (_normalize_ui_device_state), and the   *)
(* browser normalises again what it reads back.  The two are written in    *)
(* two languages and have to agree field by field.                         *)
(*                                                                         *)
(* A section of a profile is a function from the keys it has to values.    *)
(* Bad stands for a value of the wrong kind, of either language: not a     *)
(* finite number, not text, not a list.  Numbers are in the smallest step  *)
(* of their field (0.001 for lengths and speeds, 0.1 for an angle); "none" *)
(* is the empty signature.  The server's cuts of a text at 64 and 512      *)
(* characters are beyond what the page writes.                             *)
(***************************************************************************)
EXTENDS Integers, Sequences, FiniteSets, FiniteSetsExt

CONSTANTS Bad,
    Huge,                         \* 100000000: the page's cap of a magnitude
    MaxRow, PageRows, PageCycles, \* 255, 64 and 1000, written in the page
    ServerRows, ServerCycles,     \* MAX_POINT_TABLE_ROWS, MAX_POINT_TABLE_CYCLES
    Sensors,                      \* axes that may serve as the sway sensor, best first
    Given                         \* of every section, what a page may be given

Clip(lo, hi, v) == IF v < lo THEN lo ELSE IF v > hi THEN hi ELSE v
AtLeast(lo, v) == IF v < lo THEN lo ELSE v
Empty == [k \in {} |-> 0]
Get(s, k, absent) == IF k \in DOMAIN s THEN s[k] ELSE absent

----------------------------------------------------------------------------
\* The server.

Numbers == [
    fields |-> {"absPos", "absSpeedRpm", "absAccel", "relDelta", "moveMs", "velCps",
        "torqueCmd", "gearMasterRatio", "gearSlaveRatio", "softZeroRaw"},
    antiSway |-> {"allowedAngle", "rodLength", "measuredPeriodS", "speedRpm", "accelRpmS"},
    points |-> {"1", "2", "3"},
    transmission |-> {"revs", "amount", "period", "forwardLimit", "reverseLimit"},
    incrementalCurve |-> {"targetPosition", "targetSpeed", "accel", "decel", "dwell"},
    homing |-> {"setPosition", "backoffDistance", "speed", "torqueThreshold", "maxDistance"}]
Texts == [
    fields |-> {"mode", "gearMaster"},
    antiSway |-> {"sensorAxis", "algorithm"},
    points |-> {},
    transmission |-> {"type", "unit", "travelMode", "direction"},
    incrementalCurve |-> {"mode", "blend"},
    homing |-> {"method", "direction", "transmissionSignature"}]

\* Of the keys, those with a value of the right kind, and those that are there:
\* of these the server keeps whether they are true.
Usable(s, keys) == {k \in DOMAIN s \cap keys : s[k] # Bad}
Flagged(s, keys) == DOMAIN s \cap keys

Kept(s, keys) == [k \in Usable(s, keys) |-> s[k]]

StoredAntiSway(s) ==
    LET sensor == Get(s, "sensorAxis", Get(s, "sensor_axis", Bad))
    IN  [k \in Usable(s, Numbers.antiSway \cup {"algorithm"})
                 \cup (IF sensor = Bad THEN {} ELSE {"sensorAxis"}) |->
            IF k = "sensorAxis" THEN sensor ELSE s[k]]

StoredHoming_X(s) ==
    [k \in Usable(s, Numbers.homing \cup Texts.homing) |->
        CASE k = "method" /\ s[k] # "torque_end" -> "set_current"
          [] k = "direction" /\ s[k] # "forward" -> "reverse"
          [] OTHER -> s[k]]

StoredHoming(s) ==
    [k \in Usable(s, Numbers.homing \cup Texts.homing)
             \cup Flagged(s, {"transmissionInvalidated"}) |->
        CASE k = "transmissionInvalidated" -> s[k] # FALSE
          [] k = "method" /\ s[k] # "torque_end" -> "set_current"
          [] k = "direction" /\ s[k] # "forward" -> "reverse"
          [] OTHER -> s[k]]

StoredRow(r) ==
    [k \in Usable(r, {"row", "position", "speed", "acceleration", "dwell"})
             \cup Flagged(r, {"enabled"}) |->
        IF k = "enabled" THEN r[k] # FALSE ELSE r[k]]

\* Items that are no rows, and rows without a usable cell, are left out.
Nth(S, n) == CHOOSE i \in S : Cardinality({j \in S : j =< i}) = n
StoredRows(rows) ==
    LET taken == {i \in DOMAIN rows :
                    i =< ServerRows /\ rows[i] # Bad /\ StoredRow(rows[i]) # Empty}
    IN  [n \in 1..Cardinality(taken) |-> StoredRow(rows[Nth(taken, n)])]

StoredTable(s) ==
    LET count  == Get(s, "cycleCount", Bad)
        loop   == Get(s, "loopMode", Bad)
        cycles == IF count # Bad THEN Clip(1, ServerCycles, count)
                  ELSE IF loop = "cycle" THEN ServerCycles
                  ELSE IF loop = "single" THEN 1 ELSE Bad
        rows   == Get(s, "rows", Bad)
        kept   == IF rows = Bad THEN <<>> ELSE StoredRows(rows)
    IN  [k \in Usable(s, {"start", "step"}) \cup Flagged(s, {"editing"})
                 \cup (IF cycles = Bad THEN {} ELSE {"cycleCount"})
                 \cup (IF kept = <<>> THEN {} ELSE {"rows"}) |->
            CASE k = "cycleCount" -> cycles
              [] k = "editing" -> s[k] # FALSE
              [] k = "rows" -> kept
              [] OTHER -> s[k]]

StoredSection(name, s) ==
    CASE name = "antiSway" -> StoredAntiSway(s)
      [] name = "homing" -> StoredHoming(s)
      [] name = "multiPoint" -> StoredTable(s)
      [] OTHER -> Kept(s, Numbers[name] \cup Texts[name])

\* _normalize_ui_device_state: a section with nothing usable is left out.
Stored(raw) ==
    LET read == {n \in DOMAIN raw : raw[n] # Bad}
        all  == [n \in read |-> StoredSection(n, raw[n])]
    IN  [n \in {m \in read : m = "fields" \/ all[m] # Empty} |-> all[n]]

----------------------------------------------------------------------------
\* The page.  Number(v) || d falls back on 0 as well, Number.isFinite does not.
\* (A start, step, row number or dwell of the wrong kind would make NaN: neither
\* the page's controls nor the server produce one.)

OrElse(v, d) == IF v \in {Bad, 0} THEN d ELSE v
Finite(v, d) == IF v = Bad THEN d ELSE v

PageHoming(s) == [
    method |-> IF Get(s, "method", Bad) = "torque_end" THEN "torque_end" ELSE "set_current",
    setPosition |-> Finite(Get(s, "setPosition", 0), 0),
    backoffDistance |-> Clip(0, Huge, OrElse(Get(s, "backoffDistance", 0), 0)),
    direction |-> IF Get(s, "direction", Bad) = "forward" THEN "forward" ELSE "reverse",
    speed |-> Clip(1, Huge, OrElse(Get(s, "speed", 5000), 5000)),
    torqueThreshold |-> Clip(1, 100, OrElse(Get(s, "torqueThreshold", 20), 20)),
    maxDistance |-> Clip(1, Huge, OrElse(Get(s, "maxDistance", 10000), 10000)),
    transmissionSignature |-> Finite(Get(s, "transmissionSignature", "none"), "none"),
    transmissionInvalidated |-> Get(s, "transmissionInvalidated", FALSE) # FALSE]

PageAntiSway(s) ==
    LET sensor == Get(s, "sensorAxis", Get(s, "sensor_axis", Bad))
    IN  [allowedAngle |-> Clip(1, 450, OrElse(Get(s, "allowedAngle", 30), 30)),
         rodLength |-> Clip(1, 100000, OrElse(Get(s, "rodLength", 520), 520)),
         measuredPeriodS |-> Clip(0, 10000, Finite(Get(s, "measuredPeriodS", 0), 0)),
         algorithm |-> IF Get(s, "algorithm", Bad) = "zvd_terminal"
                       THEN "zvd_terminal" ELSE "zvd_continuous",
         speedRpm |-> Clip(1, 6000, OrElse(Get(s, "speedRpm", 120), 120)),
         accelRpmS |-> Clip(1, 12000, OrElse(Get(s, "accelRpmS", 300), 300)),
         sensorAxis |-> IF \E i \in DOMAIN Sensors : Sensors[i] = sensor
                        THEN sensor ELSE Head(Sensors)]

PageCurve(s) ==
    LET magnitude(k) == AtLeast(0, OrElse(Get(s, k, 0), 0))
        blend == Get(s, "blend", Bad)
    IN  [mode |-> IF Get(s, "mode", Bad) = "manual" THEN "manual" ELSE "position",
         targetPosition |-> OrElse(Get(s, "targetPosition", 0), 0),
         targetSpeed |-> magnitude("targetSpeed"),
         accel |-> magnitude("accel"), decel |-> magnitude("decel"),
         dwell |-> magnitude("dwell"),
         blend |-> IF blend \in {"linear", "aggressive"} THEN blend ELSE "smooth"]

Units == [rotary |-> <<"deg", "rad">>, linear |-> <<"mm", "cm", "m">>]
PageTransmission(s) ==
    LET type == IF Get(s, "type", Bad) = "linear" THEN "linear" ELSE "rotary"
        unit == Get(s, "unit", Bad)
        back == Get(s, "travelMode", Bad) = "reciprocating"
        amount == AtLeast(1, OrElse(Get(s, "amount", 360000),
                                    IF type = "linear" THEN 1000 ELSE 360000))
    IN  [type |-> type,
         revs |-> AtLeast(1, OrElse(Get(s, "revs", 1000), 1000)),
         amount |-> amount,
         direction |-> IF Get(s, "direction", Bad) = "reverse" THEN "reverse" ELSE "forward",
         travelMode |-> IF type = "linear" \/ back THEN "reciprocating" ELSE "periodic",
         period |-> AtLeast(1, OrElse(Get(s, "period", Bad), amount)),
         forwardLimit |-> Finite(Get(s, "forwardLimit", Bad), amount),
         reverseLimit |-> Finite(Get(s, "reverseLimit", Bad), -amount),
         unit |-> IF \E i \in DOMAIN Units[type] : Units[type][i] = unit
                  THEN unit ELSE Units[type][1]]

PageRow(r, n) == [
    row |-> Clip(1, MaxRow, OrElse(Get(r, "row", n), n)),
    position |-> Finite(Get(r, "position", 0), 0),
    speed |-> Clip(1, Huge, Finite(Get(r, "speed", 120000), 120000)),
    acceleration |-> Clip(0, Huge, Finite(Get(r, "acceleration", 300000), 300000)),
    dwell |-> Clip(0, 60000, OrElse(Get(r, "dwell", 0), 0)),
    enabled |-> Get(r, "enabled", TRUE) # FALSE]

\* The rows start .. start+step-1; of two rows with one number the later counts.
PageTable(s) ==
    LET start == Clip(1, MaxRow, OrElse(Get(s, "start", 1), 1))
        most  == Clip(1, PageRows, MaxRow - start + 1)
        step  == Clip(1, most, OrElse(Get(s, "step", 3), 3))
        loop  == Get(s, "loopMode", Bad)
        given == Finite(Get(s, "rows", Bad), [i \in 1..3 |-> [row |-> i]])
        rows  == [i \in DOMAIN given |->
                    PageRow(Finite(given[i], Empty), start + i - 1)]
        Numbered(n) == {i \in DOMAIN rows : rows[i].row = n}
    IN  [start |-> start, step |-> step,
         cycleCount |-> Clip(1, PageCycles, Finite(Get(s, "cycleCount", 1),
                                 IF loop = "cycle" THEN PageCycles ELSE 1)),
         editing |-> Get(s, "editing", FALSE) # FALSE,
         rows |-> [k \in 1..step |->
                     LET n == start + k - 1
                     IN  IF Numbered(n) = {} THEN PageRow(Empty, n)
                         ELSE rows[Max(Numbered(n))]]]

PageSection(name, s) ==
    CASE name = "homing" -> PageHoming(s)
      [] name = "antiSway" -> PageAntiSway(s)
      [] name = "incrementalCurve" -> PageCurve(s)
      [] name = "transmission" -> PageTransmission(s)
      [] name = "multiPoint" -> PageTable(s)

----------------------------------------------------------------------------
(* What is given to the page.                                              *)

Pageable == {"homing", "antiSway", "incrementalCurve", "transmission", "multiPoint"}

\* Numbers are numbers, or of the wrong kind.
Number(s, keys) == \A k \in DOMAIN s \cap keys : s[k] \in Int \cup {Bad}
RowNumbers == {"row", "position", "speed", "acceleration", "dwell"}
RowTyped(r) ==
    /\ Number(r, RowNumbers)
    /\ \A k \in DOMAIN r \cap {"row", "dwell"} : r[k] \in Int
TableTyped(s) ==
    LET rows == Get(s, "rows", Bad) IN
    /\ \A k \in DOMAIN s \cap {"start", "step"} : s[k] \in Int
    /\ Number(s, {"cycleCount"})
    /\ rows # Bad =>
         /\ Len(rows) \in Nat /\ DOMAIN rows = 1..Len(rows)
         /\ \A i \in DOMAIN rows : rows[i] # Bad => RowTyped(rows[i])
Typed(name, s) ==
    IF name = "multiPoint" THEN TableTyped(s) ELSE Number(s, Numbers[name])

Rows == [row : Int, position : Int, speed : Int, acceleration : Int, dwell : Int,
         enabled : BOOLEAN]

\* The words the page writes.
Words == {"torque_end", "set_current", "forward", "reverse", "none", "zvd_terminal",
    "zvd_continuous", "manual", "position", "linear", "aggressive", "smooth",
    "rotary", "reciprocating", "periodic", "deg", "rad", "mm", "cm", "m"}

\* What is of the wrong kind is no value of the right one.
ASSUME KindAssumption ==
    /\ Bad \notin Int /\ Bad \notin Words /\ Bad \notin BOOLEAN
    /\ \A i \in DOMAIN Sensors : Sensors[i] # Bad
    /\ Bad \notin Rows /\ Bad \notin Seq(Rows)
    /\ \A n \in Pageable : \A s \in Given[n] : PageSection(n, s) # Bad

ASSUME GivenAssumption == \A n \in Pageable : \A s \in Given[n] : Typed(n, s)

ASSUME LimitAssumption ==
    /\ {Huge, MaxRow, PageRows, PageCycles, ServerRows, ServerCycles} \subseteq Nat \ {0}
    /\ Sensors \in Seq(STRING) /\ Sensors # <<>>

\* The server's table limits are not set below the page's.
LimitsFit == PageRows =< ServerRows /\ PageCycles =< ServerCycles

----------------------------------------------------------------------------
(* What the page shows of a section after a reload is what it saved: the   *)
(* server neither drops nor changes a field the page has normalised, and   *)
(* the page adds nothing when it reads it back.  (With the server's table  *)
(* limits set below the page's, this does not hold of a longer table.)     *)
ReadsBack(name, s) ==
    LET shown == PageSection(name, s)
        saved == Stored([n \in {name} |-> shown])
    IN  PageSection(name, Get(saved, name, Empty)) = shown

ReadBack == \A n \in Pageable : \A s \in Given[n] : ReadsBack(n, s)
=============================================================================
