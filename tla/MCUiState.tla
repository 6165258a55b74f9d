----------------------------- MODULE MCUiState ------------------------------
(***************************************************************************)
(* UiState with two axes that both have an entry, and UiProfile with       *)
(* samples of every field: absent, of the wrong kind, zero, at and beyond  *)
(* its limits.                                                             *)
(***************************************************************************)
EXTENDS UiState

MCInitial == [d \in Devices |->
    LET n == IF d = First THEN 91 ELSE 92
    IN  [target |-> n, table |-> n, homing |-> n, kept |-> n + 10,
         anti |-> [k \in {"settings", "period"} |-> n]]]

\* The target the first axis has, and the first that is entered, are beyond the travel
\* of the other axis; the one the other has is beyond a travel given to it first.
MCMisfits == {<<102, 91>>, <<102, 1>>, <<1, 92>>}
MCSensors == <<"aux_encoder", "fv3">>
Symmetry == Permutations(Slots) \cup Permutations(Pages)

NumberSamples == {Bad, -1, 0, 1, 100, 1000, 70000}
TextSamples == {Bad, "torque_end", "forward", "reverse", "linear", "rotary", "mm", "rad",
    "reciprocating", "manual", "aggressive", "fv3", "aux_encoder", "zvd_terminal"}

\* Every section with one of its fields set, and with none.
Sample(name) ==
    {Empty}
      \cup {k :> v : k \in Numbers[name], v \in NumberSamples}
      \cup {k :> v : k \in Texts[name], v \in TextSamples}
Extra == [n \in DOMAIN Texts |->
    CASE n = "transmission" ->
           {"type" :> "linear" @@ "unit" :> u @@ "amount" :> a @@ "reverseLimit" :> 5 :
              u \in {"mm", "rad"}, a \in {0, 7}}
      [] n = "homing" -> {"transmissionInvalidated" :> b : b \in BOOLEAN}
      [] n = "antiSway" -> {"sensor_axis" :> x : x \in TextSamples}
      [] OTHER -> {}]

SomeRows == {[k \in {"row", "speed", "dwell"} |-> IF k = "row" THEN n ELSE v] :
            n \in 1..MaxRow, v \in {0, 5}} \cup {"enabled" :> FALSE, Bad}
Tables ==
    {"start" :> s @@ "step" :> n @@ "cycleCount" :> c @@ "editing" :> (s = 1)
        @@ "rows" :> r :
        s \in 0..MaxRow + 1, n \in 0..PageRows + 1, c \in {Bad, 0, 1, PageCycles + 1},
        r \in {<<>>} \cup SomeRows \X SomeRows}
      \cup {"loopMode" :> l @@ "cycleCount" :> Bad : l \in {"cycle", "single"}}

MCGiven == [n \in Pageable |->
    IF n = "multiPoint" THEN Tables ELSE Sample(n) \cup Extra[n]]

\* What SettingsAreReadBack asks of the server's limits.
ASSUME LimitsFit
=============================================================================
