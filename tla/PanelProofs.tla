---------------------------- MODULE PanelProofs -----------------------------
(***************************************************************************)
(* The page, for every number of axes, flows and presses.                  *)
(***************************************************************************)
EXTENDS Panel, FiniteSetTheorems, TLAPS

MotionType == [seq : Nat, stop : BOOLEAN, latch : BOOLEAN]
TableType == [issued : Nat, applied : Nat, barrier : Nat, pending : Int]

TypeOK ==
    /\ active \in Devices /\ rev \in Nat
    /\ mode \in [Devices -> Modes]
    /\ motion \in [Devices -> MotionType]
    /\ mp \in [Devices -> TableType]
    /\ shown \in [Devices -> Nat] /\ runner \in [Devices -> Nat]
    /\ flow \in [Flows -> FlowType \cup {None}]
    /\ confirm \in Flows \cup {None}
    /\ cancelled \subseteq Flows

\* Where a flow may be, and what it has sent.
Shape(fl) ==
    /\ fl.kind = "mode" => fl.prev \in Modes
    /\ fl.kind = "table" => fl.seq > 0
    /\ fl.stage = "sense" => fl.kind \in Sway /\ fl.at = 0 /\ fl.seq = 0
    /\ fl.stage = "confirm" => /\ fl.seq = 0
                               /\ \/ fl.kind = "position" /\ fl.at = 0
                                  \/ fl.kind \in Sway /\ fl.at = 2
    /\ fl.stage = "wait" => fl.kind \in Sway /\ fl.at \in 2..(Len(Script[fl.kind]) - 1)
    /\ fl.stage = "sent" =>
          /\ fl.req # None /\ fl.at \in DOMAIN Script[fl.kind]
          /\ fl.req.cmd = Script[fl.kind][fl.at]
          /\ fl.kind \in Sway /\ fl.at =< 2 => fl.seq = 0

\* A flow holds a number its axis has given out; one that was cancelled holds one
\* that is no longer the last, or a selection that is not.
Held(fl) == fl.seq =< motion[fl.own].seq /\ fl.sel =< rev
Stale(fl) ==
    /\ fl.seq > 0
    /\ fl.seq < motion[fl.own].seq \/ (fl.kind = "table" /\ fl.sel < rev)

FlowInv ==
    /\ \A f \in Flows : flow[f] # None => Shape(flow[f]) /\ Held(flow[f])
    /\ \A f \in cancelled : flow[f] # None /\ Stale(flow[f])
    /\ confirm # None => flow[confirm] # None /\ flow[confirm].stage = "confirm"

\* The requests of the point table on their way, and the commands among them.
InFlight(fl) == fl # None /\ fl.stage = "sent" /\ fl.req.cmd \in TableCommands
CommandsOf(F, d) == {f \in Flows : /\ InFlight(F[f]) /\ F[f].req.dev = d
                                   /\ F[f].req.cmd # "point_table_status"}

\* F, M, S and R stand for flow, mp, shown and runner.  An answer that would still be
\* taken is not older than what is shown; a poll that would be taken has no command
\* beside it, and so its answer is the last.
Served(r) == r.reply \in {"ok", "no"}
InTurn(r, F, M, S, R) ==
    LET m == M[r.dev]
    IN  /\ r.seq =< m.issued
        /\ Served(r) => r.seen =< R[r.dev]
        /\ Served(r) /\ r.seq >= m.barrier /\ r.seq > m.applied => S[r.dev] =< r.seen
        /\ r.cmd # "point_table_status" => r.seq =< m.barrier
        /\ r.cmd = "point_table_status" /\ r.seq >= m.barrier =>
              /\ CommandsOf(F, r.dev) = {}
              /\ Served(r) => r.seen = R[r.dev]
Numbered(F, M, S, R) ==
    /\ \A d \in Devices : /\ S[d] =< R[d] /\ M[d].barrier =< M[d].issued
                          /\ M[d].pending = Cardinality(CommandsOf(F, d))
    /\ \A f \in Flows : InFlight(F[f]) => InTurn(F[f].req, F, M, S, R)

PanelInv == TypeOK /\ FlowInv /\ Numbered(flow, mp, shown, runner)

-----------------------------------------------------------------------------
(* The scripts.                                                            *)

\* What the proofs need to know of them.
Plain(s) == /\ Len(s) \in Nat \ {0} /\ DOMAIN s = 1..Len(s)
            /\ \A i \in DOMAIN s : s[i] # "point_table_status"

\* A script without a poll is plain: one request,
LEMMA PlainOne == ASSUME NEW a, a # "point_table_status" PROVE Plain(<<a>>)
  BY DEF Plain
\* two,
LEMMA PlainTwo ==
  ASSUME NEW a, NEW b, "point_table_status" \notin {a, b} PROVE Plain(<<a, b>>)
  BY DEF Plain
\* three,
LEMMA PlainThree ==
  ASSUME NEW a, NEW b, NEW c, "point_table_status" \notin {a, b, c} PROVE Plain(<<a, b, c>>)
  BY DEF Plain
\* four.
LEMMA PlainFour ==
  ASSUME NEW a, NEW b, NEW c, NEW d, "point_table_status" \notin {a, b, c, d}
  PROVE  Plain(<<a, b, c, d>>)
  BY DEF Plain

\* The scripts of the page: none is empty, those of anti-sway start with reads.
LEMMA Scripts ==
  /\ \A k \in DOMAIN Script : Len(Script[k]) \in Nat \ {0} /\ DOMAIN Script[k] = 1..Len(Script[k])
  /\ \A k \in Sway : /\ k \in DOMAIN Script /\ Len(Script[k]) >= 3
                     /\ Script[k][1] \notin TableCommands /\ Script[k][2] \notin TableCommands
  /\ \A k \in DOMAIN Script \ {"poll"} : Plain(Script[k])
  /\ "table" \in DOMAIN Script /\ Len(Script["table"]) = 3
<1>1. DOMAIN Script = {"table", "position", "gear_cam", "incremental", "homing", "set_current",
        "curve", "segments", "stop", "table_stop", "write", "poll", "mode"}
  BY DEF Script
<1>2. Plain(Script["table"]) /\ Len(Script["table"]) = 3
  <2>1. Script["table"] = <<"set_mode", "point_table_write", "point_table_run">>
    BY DEF Script
  <2> QED BY <2>1, PlainThree
<1>3. Plain(Script["position"]) /\ Plain(Script["incremental"])
  <2>1. /\ Script["position"] = <<"set_mode", "move_abs">>
        /\ Script["incremental"] = <<"set_mode", "move_curve_rel">>
    BY DEF Script
  <2> QED BY <2>1, PlainTwo
<1>4. Plain(Script["gear_cam"])
  <2>1. Script["gear_cam"] = <<"set_mode", "gear_config", "gear_start">>
    BY DEF Script
  <2> QED BY <2>1, PlainThree
<1>5. Plain(Script["homing"]) /\ Plain(Script["set_current"]) /\ Plain(Script["mode"])
  <2>1. /\ Script["homing"] = <<"homing_start_torque">>
        /\ Script["set_current"] = <<"homing_set_current">>
        /\ Script["mode"] = <<"set_mode">>
    BY DEF Script
  <2> QED BY <2>1, PlainOne
<1>6. Plain(Script["stop"]) /\ Plain(Script["table_stop"]) /\ Plain(Script["write"])
  <2>1. /\ Script["stop"] = <<"stop">>
        /\ Script["table_stop"] = <<"point_table_stop">>
        /\ Script["write"] = <<"point_table_write">>
    BY DEF Script
  <2> QED BY <2>1, PlainOne
<1>7. /\ Plain(Script["curve"]) /\ Len(Script["curve"]) = 3
      /\ Script["curve"][1] = "set_mode" /\ Script["curve"][2] = "anti_sway_run"
  <2>1. Script["curve"] = <<"set_mode", "anti_sway_run", "anti_sway_curve_abs">>
    BY DEF Script
  <2> QED BY <2>1, PlainThree
<1>8. /\ Plain(Script["segments"]) /\ Len(Script["segments"]) = 4
      /\ Script["segments"][1] = "set_mode" /\ Script["segments"][2] = "anti_sway_run"
  <2>1. Script["segments"] = <<"set_mode", "anti_sway_run", "move_abs", "move_abs">>
    BY DEF Script
  <2> QED BY <2>1, PlainFour
<1>9. Len(Script["poll"]) = 1 /\ DOMAIN Script["poll"] = 1..1
  BY DEF Script
<1>10. \A k \in DOMAIN Script \ {"poll"} : Plain(Script[k])
  BY <1>1, <1>2, <1>3, <1>4, <1>5, <1>6, <1>7, <1>8
<1>11. \A k \in DOMAIN Script : Len(Script[k]) \in Nat \ {0} /\ DOMAIN Script[k] = 1..Len(Script[k])
  <2>1. ASSUME NEW k \in DOMAIN Script, k # "poll"
        PROVE  Len(Script[k]) \in Nat \ {0} /\ DOMAIN Script[k] = 1..Len(Script[k])
    BY <1>10, <2>1 DEF Plain
  <2>2. Len(Script["poll"]) \in Nat \ {0} /\ DOMAIN Script["poll"] = 1..Len(Script["poll"])
    BY <1>9
  <2> QED BY <2>1, <2>2
<1>12. \A k \in Sway : /\ k \in DOMAIN Script /\ Len(Script[k]) >= 3
                       /\ Script[k][1] \notin TableCommands /\ Script[k][2] \notin TableCommands
  <2>1. "set_mode" \notin TableCommands /\ "anti_sway_run" \notin TableCommands
    BY DEF TableCommands
  <2>2. Sway = {"curve", "segments"} /\ Sway \subseteq DOMAIN Script
    BY <1>1 DEF Sway
  <2>3. Len(Script["curve"]) >= 3 /\ Len(Script["segments"]) >= 3
    BY <1>7, <1>8
  <2> QED BY <1>7, <1>8, <2>1, <2>2, <2>3
<1> QED BY <1>1, <1>2, <1>10, <1>11, <1>12

-----------------------------------------------------------------------------
(* Flows.                                                                  *)

\* What a flow begins with.
LEMMA NewFlows ==
  ASSUME TypeOK, NEW kind \in DOMAIN Script, NEW d \in Devices, NEW n \in Nat
  PROVE  LET new == NewFlow(kind, d, n)
         IN  /\ new \in FlowType /\ new.kind = kind /\ new.at = 0 /\ new.own = d /\ new.seq = n
             /\ new.sel =< rev /\ new.stage = "sense" /\ new.req = None
             /\ kind = "mode" => new.prev \in Modes
             /\ kind = "table" => new.sel = rev
<1>1. mode[d] \in Modes /\ rev \in Nat
  BY DEF TypeOK
<1>2. (IF kind = "table" THEN rev ELSE 0) \in Nat /\ (IF kind = "table" THEN rev ELSE 0) =< rev
  BY <1>1
<1>3. (IF kind = "mode" THEN mode[d] ELSE None) \in Modes \cup {None}
  BY <1>1
<1>4. NewFlow(kind, d, n) \in FlowType
  BY <1>2, <1>3 DEF NewFlow, FlowType
<1> QED BY <1>1, <1>2, <1>4 DEF NewFlow

\* A numbered command leaves the table records well typed.
LEMMA IssuedType ==
  ASSUME NEW before \in [Devices -> TableType], NEW d \in Devices, NEW cmd
  PROVE  Issued(before, d, cmd) \in [Devices -> TableType]
<1> DEFINE n == before[d].issued + 1
<1>1. n \in Nat /\ before[d] \in TableType
  BY DEF TableType
<1>2. [before[d] EXCEPT !.issued = n] \in TableType
  BY <1>1 DEF TableType
<1>3. [before[d] EXCEPT !.issued = n, !.barrier = n, !.pending = @ + 1] \in TableType
  <2> DEFINE p == before[d].pending + 1
  <2>1. n \in Int /\ p \in Int
    BY <1>1 DEF TableType
  <2> HIDE DEF n, p
  <2>2. [before[d] EXCEPT !.issued = n, !.barrier = n, !.pending = p] \in TableType
    BY <1>1, <2>1 DEF TableType
  <2> QED BY <2>2 DEF p
<1>4. Issued(before, d, cmd) \in {before, [before EXCEPT ![d] = [before[d] EXCEPT !.issued = n]],
        [before EXCEPT ![d] = [before[d] EXCEPT !.issued = n, !.barrier = n, !.pending = @ + 1]]}
  BY DEF Issued
<1> HIDE DEF n
<1> QED BY <1>2, <1>3, <1>4

\* A flow that sends its next command is a flow again.
LEMMA SendsEffect ==
  ASSUME TypeOK, NEW f \in Flows, NEW fl \in FlowType, NEW d \in Devices,
         NEW before \in [Devices -> TableType], fl.at + 1 \in DOMAIN Script[fl.kind],
         Sends(f, fl, d, before)
  PROVE  LET new == flow'[f]
             cmd == Script[fl.kind][fl.at + 1]
         IN  /\ flow' = [flow EXCEPT ![f] = new]
             /\ flow' \in [Flows -> FlowType \cup {None}]
             /\ \A g \in Flows \ {f} : flow'[g] = flow[g]
             /\ mp' = Issued(before, d, cmd) /\ mp' \in [Devices -> TableType]
             /\ new \in FlowType /\ new # None /\ new.kind = fl.kind /\ new.at = fl.at + 1
             /\ new.own = fl.own /\ new.seq = fl.seq /\ new.sel = fl.sel
             /\ new.prev = fl.prev /\ new.watch = fl.watch /\ new.stage = "sent"
             /\ new.req # None /\ new.req.dev = d /\ new.req.cmd = cmd /\ new.req.reply = None
             /\ cmd \in TableCommands => new.req.seq = before[d].issued + 1
<1> DEFINE cmd == Script[fl.kind][fl.at + 1]
           seq == IF cmd \in TableCommands THEN before[d].issued + 1 ELSE 0
           req == [dev |-> d, cmd |-> cmd, reply |-> None, seen |-> 0, seq |-> seq]
           new == [fl EXCEPT !.at = @ + 1, !.stage = "sent", !.req = req]
<1>1. fl.kind \in DOMAIN Script /\ fl.at \in Nat
  BY DEF FlowType
<1>2. cmd \in Commands
  BY <1>1 DEF Commands
<1>3. seq \in Nat
  BY DEF TableType
<1>4. flow' = [flow EXCEPT ![f] = new] /\ mp' = Issued(before, d, cmd)
  BY DEF Sends
<1> HIDE DEF cmd, seq
<1>5. req \in Requests /\ req.dev = d /\ req.cmd = cmd /\ req.reply = None /\ req.seq = seq
  BY <1>2, <1>3 DEF Requests
<1> HIDE DEF req
<1>6. req # None
  BY <1>5, PanelAssumption
<1>7. new \in FlowType
  <2> DEFINE next == fl.at + 1
  <2>1. next \in Nat
    BY <1>1
  <2> HIDE DEF next
  <2>2. [fl EXCEPT !.at = next, !.stage = "sent", !.req = req] \in FlowType
    BY <1>5, <2>1 DEF FlowType
  <2> QED BY <2>2 DEF next
<1>8. /\ new.kind = fl.kind /\ new.at = fl.at + 1 /\ new.own = fl.own /\ new.seq = fl.seq
      /\ new.sel = fl.sel /\ new.prev = fl.prev /\ new.watch = fl.watch
      /\ new.stage = "sent" /\ new.req = req
  BY <1>1 DEF FlowType
<1> HIDE DEF new
<1>9. new # None
  BY <1>7, PanelAssumption
<1>10. flow'[f] = new /\ \A g \in Flows \ {f} : flow'[g] = flow[g]
  BY <1>4 DEF TypeOK
<1>11. mp' \in [Devices -> TableType]
  BY <1>4, IssuedType
<1>12. flow' \in [Flows -> FlowType \cup {None}]
  BY <1>4, <1>7 DEF TypeOK
<1>13. cmd \in TableCommands => seq = before[d].issued + 1
  BY DEF seq
<1> QED BY <1>4, <1>5, <1>6, <1>7, <1>8, <1>9, <1>10, <1>11, <1>12, <1>13 DEF cmd

\* What one flow does leaves FlowInv when that flow is sound, and the flows it cancels
\* hold a number that is no longer the last.
LEMMA FlowStep ==
  ASSUME TypeOK, FlowInv, TypeOK', NEW f \in Flows,
         \A g \in Flows \ {f} : flow'[g] = flow[g],
         \A d \in Devices : motion[d].seq =< motion'[d].seq, rev =< rev',
         flow'[f] # None => (Shape(flow[f]) /\ Held(flow[f]))',
         f \in cancelled' => flow'[f] # None /\ Stale(flow[f])',
         \A g \in cancelled' \ {f} : \/ g \in cancelled
                                     \/ /\ flow[g] # None /\ flow[g].seq > 0
                                        /\ flow[g].seq < motion'[flow[g].own].seq,
         confirm' # None => flow'[confirm'] # None /\ flow'[confirm'].stage = "confirm"
  PROVE  FlowInv'
<1>1. ASSUME NEW g \in Flows \ {f}, flow[g] # None
      PROVE  flow[g].own \in Devices /\ flow[g].seq \in Nat /\ flow[g].sel \in Nat
  BY <1>1 DEF TypeOK, FlowType
<1>2. rev \in Nat /\ rev' \in Nat
      /\ \A d \in Devices : motion[d].seq \in Nat /\ motion'[d].seq \in Nat
  BY DEF TypeOK, MotionType
<1>3. ASSUME NEW g \in Flows, flow'[g] # None PROVE (Shape(flow[g]) /\ Held(flow[g]))'
  <2>1. CASE g = f
    BY <1>3, <2>1
  <2>2. CASE g # f
    <3>1. flow'[g] = flow[g] /\ flow[g] # None /\ Shape(flow[g]) /\ Held(flow[g])
      BY <1>3, <2>2 DEF FlowInv
    <3>2. Shape(flow[g])'
      BY <3>1 DEF Shape
    <3>3. Held(flow[g])'
      BY <1>1, <1>2, <2>2, <3>1 DEF Held
    <3> QED BY <3>2, <3>3
  <2> QED BY <2>1, <2>2
<1>4. ASSUME NEW g \in cancelled' PROVE flow'[g] # None /\ Stale(flow[g])'
  <2>1. g \in Flows
    BY <1>4 DEF TypeOK
  <2>2. CASE g # f /\ g \in cancelled
    BY <1>1, <1>2, <2>1, <2>2 DEF FlowInv, Stale
  <2>3. CASE g # f /\ g \notin cancelled
    BY <1>1, <1>2, <1>4, <2>1, <2>3 DEF Stale
  <2> QED BY <1>4, <2>2, <2>3
<1> QED BY <1>3, <1>4 DEF FlowInv

\* Numbers only grow, and the flows a step cancels hold a number that has gone by.
Later ==
    /\ motion' \in [Devices -> MotionType]
    /\ \A c \in Devices : motion[c].seq =< motion'[c].seq
    /\ cancelled' \subseteq Flows
    /\ \A g \in cancelled' : \/ g \in cancelled
                             \/ /\ flow[g] # None /\ flow[g].seq > 0
                                /\ flow[g].seq < motion'[flow[g].own].seq

\* Nothing is outdated by a step that counts no motion request.
LEMMA LaterSame ==
  ASSUME TypeOK, motion' \in [Devices -> MotionType], cancelled' \subseteq cancelled,
         \A c \in Devices : motion'[c].seq = motion[c].seq
  PROVE  Later
<1>1. \A c \in Devices : motion[c].seq \in Nat
  BY DEF TypeOK, MotionType
<1> QED BY <1>1 DEF TypeOK, Later

\* A step that leaves the flows alone and only counts up keeps their invariant.
LEMMA FlowsStay ==
  ASSUME TypeOK, FlowInv, TypeOK', UNCHANGED <<flow, confirm>>,
         \A d \in Devices : motion[d].seq =< motion'[d].seq, rev =< rev',
         \A g \in cancelled' : \/ g \in cancelled
                               \/ flow[g] # None /\ Stale(flow[g])'
  PROVE  FlowInv'
<1>1. ASSUME NEW g \in Flows, flow[g] # None
      PROVE  flow[g].own \in Devices /\ flow[g].seq \in Nat /\ flow[g].sel \in Nat
  BY <1>1 DEF TypeOK, FlowType
<1>2. rev \in Nat /\ rev' \in Nat
      /\ \A d \in Devices : motion[d].seq \in Nat /\ motion'[d].seq \in Nat
  BY DEF TypeOK, MotionType
<1>3. ASSUME NEW g \in Flows, flow'[g] # None PROVE (Shape(flow[g]) /\ Held(flow[g]))'
  <2>1. flow'[g] = flow[g] /\ flow[g] # None /\ Shape(flow[g]) /\ Held(flow[g])
    BY <1>3 DEF FlowInv
  <2>2. Shape(flow[g])'
    BY <2>1 DEF Shape
  <2>3. Held(flow[g])'
    BY <1>1, <1>2, <2>1 DEF Held
  <2> QED BY <2>2, <2>3
<1>4. ASSUME NEW g \in cancelled' PROVE flow'[g] # None /\ Stale(flow[g])'
  <2>1. g \in Flows
    BY <1>4 DEF TypeOK
  <2>2. CASE g \in cancelled
    BY <1>1, <1>2, <2>1, <2>2 DEF FlowInv, Stale
  <2> QED BY <1>4, <2>1, <2>2
<1> QED BY <1>3, <1>4 DEF FlowInv

\* An axis is taken: the flows that went ahead on it hold an old number.
LEMMA Takes ==
  ASSUME TypeOK, FlowInv, NEW d \in Devices, NEW m \in MotionType, m.seq = motion[d].seq + 1,
         motion' = [motion EXCEPT ![d] = m], cancelled' \subseteq cancelled \cup Ahead(d)
  PROVE  Later /\ motion'[d] = m
<1>1. motion[d].seq \in Nat /\ \A c \in Devices : motion[c].seq \in Nat
  BY DEF TypeOK, MotionType
<1>2. motion' \in [Devices -> MotionType] /\ motion'[d] = m
      /\ \A c \in Devices \ {d} : motion'[c] = motion[c]
  BY DEF TypeOK
<1>3. ASSUME NEW g \in Ahead(d)
      PROVE  /\ g \in Flows /\ flow[g] # None /\ flow[g].seq > 0 /\ flow[g].own = d
             /\ flow[g].seq =< motion[d].seq /\ flow[g].seq \in Nat
  <2>1. g \in Flows /\ flow[g] # None /\ flow[g].seq > 0 /\ flow[g].own = d
    BY <1>3 DEF Ahead
  <2> QED BY <2>1 DEF FlowInv, Held, TypeOK, FlowType
<1>4. cancelled' \subseteq Flows
  BY <1>3 DEF TypeOK
<1>5. ASSUME NEW g \in cancelled', g \notin cancelled
      PROVE  /\ flow[g] # None /\ flow[g].seq > 0
             /\ flow[g].seq < motion'[flow[g].own].seq
  <2>1. g \in Ahead(d)
    BY <1>5
  <2> QED BY <1>1, <1>2, <1>3, <2>1
<1>6. \A c \in Devices : motion[c].seq =< motion'[c].seq
  BY <1>1, <1>2
<1> QED BY <1>2, <1>4, <1>5, <1>6 DEF Later

\* A flow that ends.
LEMMA EndKeeps ==
  ASSUME TypeOK, FlowInv, TypeOK', NEW f \in Flows, Ends(f), UNCHANGED confirm, confirm # f,
         \A d \in Devices : motion[d].seq =< motion'[d].seq, rev =< rev'
  PROVE  FlowInv'
<1>1. flow'[f] = None /\ \A g \in Flows \ {f} : flow'[g] = flow[g]
  BY DEF Ends, TypeOK
<1>2. f \notin cancelled' /\ cancelled' \subseteq cancelled
  BY DEF Ends
<1>3. confirm # None => confirm \in Flows \ {f}
  BY DEF TypeOK
<1>4. confirm' # None => flow'[confirm'] # None /\ flow'[confirm'].stage = "confirm"
  BY <1>1, <1>3 DEF FlowInv
<1> QED BY <1>1, <1>2, <1>4, FlowStep

\* A flow that may send its next command, and sends it.
MaySend(fl) ==
    /\ fl \in FlowType
    /\ fl.at + 1 \in DOMAIN Script[fl.kind]
    /\ fl.kind = "mode" => fl.prev \in Modes
    /\ fl.kind = "table" => fl.seq > 0
    /\ fl.kind \in Sway /\ fl.at + 1 =< 2 => fl.seq = 0
    /\ fl.sel =< rev

\* A flow that sends its next request, whatever else the button changes.
LEMMA SendStep ==
  ASSUME TypeOK, FlowInv, NEW f \in Flows, NEW fl, MaySend(fl), NEW d \in Devices,
         NEW before \in [Devices -> TableType], Sends(f, fl, d, before), Later,
         mode' \in [Devices -> Modes], UNCHANGED <<active, rev, runner>>,
         shown' \in [Devices -> Nat], confirm' \in {confirm, None}, confirm' # f,
         fl.seq =< motion'[fl.own].seq,
         f \in cancelled' => /\ fl.seq > 0
                             /\ \/ fl.seq < motion'[fl.own].seq
                                \/ fl.kind = "table" /\ fl.sel < rev
  PROVE  TypeOK' /\ FlowInv'
<1> DEFINE new == flow'[f]
           cmd == Script[fl.kind][fl.at + 1]
<1>1. /\ flow' \in [Flows -> FlowType \cup {None}]
      /\ \A g \in Flows \ {f} : flow'[g] = flow[g]
      /\ mp' \in [Devices -> TableType]
      /\ new # None /\ new.kind = fl.kind /\ new.at = fl.at + 1
      /\ new.own = fl.own /\ new.seq = fl.seq /\ new.sel = fl.sel
      /\ new.prev = fl.prev /\ new.stage = "sent"
      /\ new.req # None /\ new.req.cmd = cmd
  BY SendsEffect DEF MaySend
<1>2. TypeOK'
  BY <1>1 DEF TypeOK, Later
<1> HIDE DEF cmd
<1>3. Shape(flow[f])'
  <2> HIDE DEF new
  <2>1. Shape(new)
    BY <1>1 DEF Shape, MaySend, cmd
  <2> QED BY <2>1 DEF new, Shape
<1>4. Held(flow[f])'
  BY <1>1 DEF Held, MaySend
<1>5. f \in cancelled' => flow'[f] # None /\ Stale(flow[f])'
  BY <1>1 DEF Stale
<1>6. confirm' # None => flow'[confirm'] # None /\ flow'[confirm'].stage = "confirm"
  BY <1>1 DEF FlowInv, TypeOK
<1>7. rev =< rev'
  BY DEF TypeOK
<1>8. flow'[f] # None => (Shape(flow[f]) /\ Held(flow[f]))'
  BY <1>3, <1>4
<1> HIDE DEF new
<1> QED BY <1>1, <1>2, <1>5, <1>6, <1>7, <1>8, FlowStep DEF Later

\* A flow that begins with a command.
LEMMA FreshSends ==
  ASSUME TypeOK, FlowInv, NEW f \in Flows, flow[f] = None, NEW kind \in DOMAIN Script \ Sway,
         NEW d \in Devices, NEW n \in Nat, kind = "table" => n > 0,
         Sends(f, NewFlow(kind, d, n), d, mp), Later, n =< motion'[d].seq, f \notin cancelled',
         mode' \in [Devices -> Modes], UNCHANGED <<active, rev, runner, shown, confirm>>
  PROVE  TypeOK' /\ FlowInv'
<1> DEFINE fl == NewFlow(kind, d, n)
<1>1. /\ fl \in FlowType /\ fl.kind = kind /\ fl.at = 0 /\ fl.own = d /\ fl.seq = n
      /\ fl.sel =< rev
      /\ fl.kind = "mode" => fl.prev \in Modes
  BY NewFlows
<1>2. Sends(f, fl, d, mp)
  OBVIOUS
<1> HIDE DEF fl
<1>3. fl.at + 1 \in DOMAIN Script[fl.kind]
  BY <1>1, Scripts
<1>4. MaySend(fl)
  BY <1>1, <1>3 DEF MaySend
<1>5. fl.seq =< motion'[fl.own].seq
  BY <1>1
<1>6. confirm' = confirm /\ confirm # f
  BY PanelAssumption DEF FlowInv
<1>7. mp \in [Devices -> TableType] /\ shown' \in [Devices -> Nat]
  BY DEF TypeOK
<1> QED BY <1>2, <1>4, <1>5, <1>6, <1>7, SendStep

\* The buttons of every mode start flows that have a script.
LEMMA KindsKnown == \A m \in Modes : KindsOf(m) \subseteq DOMAIN Script \ {"poll"}
<1>1. DOMAIN Script = {"table", "position", "gear_cam", "incremental", "homing", "set_current",
        "curve", "segments", "stop", "table_stop", "write", "poll", "mode"}
  BY DEF Script
<1> QED BY <1>1 DEF KindsOf, Modes, Sway

\* The buttons.
LEMMA StartKeeps ==
  ASSUME TypeOK, FlowInv, NEW f \in Flows, Start(f)
  PROVE  TypeOK' /\ FlowInv'
<1> DEFINE d == active
<1>1. d \in Devices /\ mode[d] \in Modes /\ motion[d] \in MotionType /\ motion[d].seq \in Nat
  BY DEF TypeOK, MotionType
<1>2. PICK kind \in KindsOf(mode[d]) :
        /\ flow[f] = None /\ User
        /\ kind \in Sway =>
                  /\ flow' = [flow EXCEPT ![f] = NewFlow(kind, d, 0)]
                  /\ UNCHANGED <<motion, mp, confirm, cancelled>>
        /\ kind \notin Sway /\ kind = "position" =>
                  /\ flow' = [flow EXCEPT ![f] = [NewFlow(kind, d, 0) EXCEPT !.stage = "confirm"]]
                  /\ confirm' = f
                  /\ UNCHANGED <<motion, mp, cancelled>>
        /\ kind \notin Sway /\ kind # "position" =>
                  \/ Refused(d)
                  \/ /\ GoesAhead(f, d)
                     /\ Sends(f, NewFlow(kind, d, motion[d].seq + 1), d, mp)
                     /\ UNCHANGED confirm
  BY DEF Start, Free, Sway
<1>3. UNCHANGED <<active, rev, mode, shown, runner>> /\ confirm = None
  BY DEF Start, User
<1>4. kind \in DOMAIN Script
  BY <1>1, <1>2, KindsKnown
<1>5. f \notin cancelled /\ f # None
  BY <1>2, PanelAssumption DEF FlowInv
<1>6. rev \in Nat /\ \A c \in Devices : motion[c].seq \in Nat
  BY DEF TypeOK, MotionType
<1> HIDE DEF d
<1>7. CASE kind \in Sway
  <2> DEFINE new == NewFlow(kind, d, 0)
  <2>1. new \in FlowType /\ new.at = 0 /\ new.kind = kind /\ new.own = d /\ new.seq = 0
        /\ new.sel =< rev /\ new.stage = "sense"
    BY <1>1, <1>4, NewFlows
  <2> HIDE DEF new
  <2>2. /\ flow' = [flow EXCEPT ![f] = new] /\ UNCHANGED <<motion, mp, confirm, cancelled>>
    BY <1>2, <1>7 DEF new
  <2>3. flow'[f] = new /\ \A g \in Flows \ {f} : flow'[g] = flow[g]
    BY <2>2 DEF TypeOK
  <2>4. TypeOK'
    BY <1>3, <2>1, <2>2 DEF TypeOK
  <2>5. Shape(new) /\ Held(new)
    BY <1>1, <1>7, <2>1 DEF Shape, Held, Sway
  <2>6. (Shape(flow[f]) /\ Held(flow[f]))'
    BY <1>3, <2>2, <2>3, <2>5 DEF Shape, Held
  <2> QED BY <1>3, <1>5, <1>6, <2>2, <2>3, <2>4, <2>6, FlowStep
<1>8. CASE kind \notin Sway /\ kind = "position"
  <2> DEFINE flow0 == NewFlow(kind, d, 0)
             new == [flow0 EXCEPT !.stage = "confirm"]
  <2>1. flow0 \in FlowType /\ flow0.at = 0 /\ flow0.kind = kind /\ flow0.own = d /\ flow0.seq = 0
        /\ flow0.sel =< rev
    BY <1>1, <1>4, NewFlows
  <2> HIDE DEF flow0
  <2>2. new \in FlowType /\ new.at = 0 /\ new.kind = kind /\ new.own = d /\ new.seq = 0
        /\ new.sel =< rev /\ new.stage = "confirm"
    BY <2>1 DEF FlowType
  <2> HIDE DEF new
  <2>3. /\ flow' = [flow EXCEPT ![f] = new] /\ confirm' = f /\ UNCHANGED <<motion, mp, cancelled>>
    BY <1>2, <1>8 DEF new, flow0
  <2>4. flow'[f] = new /\ new # None /\ \A g \in Flows \ {f} : flow'[g] = flow[g]
    BY <2>2, <2>3, PanelAssumption DEF TypeOK
  <2>5. TypeOK'
    BY <1>3, <2>2, <2>3 DEF TypeOK
  <2>6. Shape(new) /\ Held(new)
    BY <1>1, <1>8, <2>2 DEF Shape, Held
  <2>7. (Shape(flow[f]) /\ Held(flow[f]))'
    BY <1>3, <2>3, <2>4, <2>6 DEF Shape, Held
  <2>8. confirm' # None => flow'[confirm'] # None /\ flow'[confirm'].stage = "confirm"
    BY <2>2, <2>3, <2>4
  <2> QED BY <1>3, <1>5, <1>6, <2>3, <2>4, <2>5, <2>7, <2>8, FlowStep
<1>9. CASE Refused(d)
  <2> DEFINE n == motion[d].seq + 1
             m == [motion[d] EXCEPT !.seq = n, !.latch = FALSE]
  <2>1. n \in Nat
    BY <1>1
  <2>2. m \in MotionType /\ m.seq = n
    <3> HIDE DEF n
    <3> QED BY <1>1, <2>1 DEF MotionType
  <2>3. /\ motion' = [motion EXCEPT ![d] = m] /\ cancelled' = cancelled \cup Ahead(d)
        /\ UNCHANGED <<flow, mp, confirm>>
    BY <1>9 DEF Refused
  <2> HIDE DEF m
  <2>4. Later
    BY <1>1, <2>2, <2>3, Takes
  <2>5. TypeOK'
    BY <1>3, <2>3, <2>4 DEF TypeOK, Later
  <2>6. \A g \in cancelled' : g \in cancelled \/ (flow[g] # None /\ Stale(flow[g])')
    BY <2>3, <2>4 DEF Stale, Later
  <2> QED BY <1>3, <1>6, <2>3, <2>4, <2>5, <2>6, FlowsStay DEF Later
<1>10. CASE kind \notin Sway /\ GoesAhead(f, d)
            /\ Sends(f, NewFlow(kind, d, motion[d].seq + 1), d, mp) /\ UNCHANGED confirm
  <2> DEFINE n == motion[d].seq + 1
             m == [seq |-> n, stop |-> FALSE, latch |-> TRUE]
  <2>1. n \in Nat /\ n > 0 /\ m \in MotionType /\ m.seq = n
    BY <1>1 DEF MotionType
  <2>2. motion' = [motion EXCEPT ![d] = m] /\ cancelled' = (cancelled \cup Ahead(d)) \ {f}
    BY <1>10 DEF GoesAhead
  <2>3. Sends(f, NewFlow(kind, d, n), d, mp) /\ UNCHANGED confirm
    BY <1>10
  <2>4. Later /\ motion'[d] = m
    <3> HIDE DEF m
    <3> QED BY <1>1, <2>1, <2>2, Takes
  <2>5. mode' \in [Devices -> Modes]
    BY <1>3 DEF TypeOK
  <2>6. n =< motion'[d].seq /\ f \notin cancelled' /\ kind \in DOMAIN Script \ Sway
    BY <1>4, <1>10, <2>1, <2>2, <2>4
  <2> HIDE DEF n, m
  <2> QED BY <1>1, <1>2, <1>3, <2>1, <2>3, <2>4, <2>5, <2>6, FreshSends
<1> QED BY <1>2, <1>7, <1>8, <1>9, <1>10

\* The stop button keeps the invariant.
LEMMA StopKeeps ==
  ASSUME TypeOK, FlowInv, NEW f \in Flows, Stop(f)
  PROVE  TypeOK' /\ FlowInv'
<1> DEFINE d == active
           n == motion[d].seq + 1
<1>1. d \in Devices /\ motion[d] \in MotionType /\ n \in Nat /\ n > 0
  BY DEF TypeOK, MotionType
<1>2. flow[f] = None /\ UNCHANGED <<active, rev, mode, shown, runner, confirm>>
      /\ cancelled' = cancelled \cup Ahead(d)
  BY DEF Stop, Free
<1>3. f \notin cancelled'
  BY <1>2 DEF FlowInv, Ahead
<1>4. PICK kind \in {"stop", "table_stop"} :
        \/ motion' = [motion EXCEPT ![d].seq = n] /\ UNCHANGED <<flow, mp>>
        \/ /\ motion' = [motion EXCEPT ![d] = [seq |-> n, stop |-> TRUE, latch |-> FALSE]]
           /\ Sends(f, NewFlow(kind, d, n), d, mp)
  BY DEF Stop
<1>5. rev \in Nat
  BY DEF TypeOK
<1>6. mode' \in [Devices -> Modes]
  BY <1>2 DEF TypeOK
<1>7. n = motion[d].seq + 1
  OBVIOUS
<1> HIDE DEF d, n
<1>8. CASE motion' = [motion EXCEPT ![d].seq = n] /\ UNCHANGED <<flow, mp>>
  <2> DEFINE m == [motion[d] EXCEPT !.seq = n]
  <2>1. m \in MotionType /\ m.seq = n
    BY <1>1 DEF MotionType
  <2>2. motion' = [motion EXCEPT ![d] = m]
    BY <1>8
  <2> HIDE DEF m
  <2>3. Later
    BY <1>1, <1>2, <1>7, <2>1, <2>2, Takes
  <2>4. TypeOK'
    BY <1>2, <1>8, <2>3 DEF TypeOK, Later
  <2>5. \A g \in cancelled' : g \in cancelled \/ (flow[g] # None /\ Stale(flow[g])')
    BY <1>8, <2>3 DEF Stale, Later
  <2> QED BY <1>2, <1>5, <1>8, <2>3, <2>4, <2>5, FlowsStay DEF Later
<1>9. CASE /\ motion' = [motion EXCEPT ![d] = [seq |-> n, stop |-> TRUE, latch |-> FALSE]]
           /\ Sends(f, NewFlow(kind, d, n), d, mp)
  <2> DEFINE m == [seq |-> n, stop |-> TRUE, latch |-> FALSE]
  <2>1. m \in MotionType /\ m.seq = n
    BY <1>1 DEF MotionType
  <2>2. motion' = [motion EXCEPT ![d] = m]
    BY <1>9
  <2> HIDE DEF m
  <2>3. Later /\ motion'[d] = m
    BY <1>1, <1>2, <1>7, <2>1, <2>2, Takes
  <2>4. kind \in DOMAIN Script \ Sway
    BY DEF Script, Sway
  <2>5. n =< motion'[d].seq
    BY <1>1, <2>1, <2>3
  <2> QED BY <1>1, <1>2, <1>3, <1>6, <1>9, <2>3, <2>4, <2>5, FreshSends
<1> QED BY <1>4, <1>8, <1>9

\* A button that sends one request and counts nothing keeps it.
LEMMA QuietSends ==
  ASSUME TypeOK, FlowInv, NEW f \in Flows, flow[f] = None,
         NEW kind \in DOMAIN Script \ Sway, kind # "table", NEW d \in Devices,
         Sends(f, NewFlow(kind, d, 0), d, mp), mode' \in [Devices -> Modes],
         UNCHANGED <<active, rev, motion, runner, shown, confirm, cancelled>>
  PROVE  TypeOK' /\ FlowInv'
<1>1. motion' \in [Devices -> MotionType] /\ \A c \in Devices : motion'[c].seq = motion[c].seq
  BY DEF TypeOK
<1>2. Later
  BY <1>1, LaterSame
<1>3. 0 =< motion'[d].seq /\ f \notin cancelled'
  BY DEF TypeOK, MotionType, FlowInv
<1> QED BY <1>2, <1>3, FreshSends

\* The buttons of the homing and table forms are such buttons.
LEMMA DirectKeeps ==
  ASSUME TypeOK, FlowInv, NEW f \in Flows, NEW kind \in {"set_current", "write"}, Direct(f, kind)
  PROVE  TypeOK' /\ FlowInv'
<1>1. kind \in DOMAIN Script \ Sway /\ kind # "table"
  BY DEF Script, Sway
<1>2. active \in Devices /\ flow[f] = None /\ mode' \in [Devices -> Modes]
  BY DEF TypeOK, Direct, Free
<1>3. /\ Sends(f, NewFlow(kind, active, 0), active, mp)
      /\ UNCHANGED <<active, rev, motion, runner, shown, confirm, cancelled>>
  BY DEF Direct
<1> QED BY <1>1, <1>2, <1>3, QuietSends

\* The poll of a table keeps it.
LEMMA PollKeeps ==
  ASSUME TypeOK, FlowInv, NEW f \in Flows, Poll(f)
  PROVE  TypeOK' /\ FlowInv'
<1>1. "poll" \in DOMAIN Script \ Sway
  BY DEF Script, Sway
<1>2. active \in Devices /\ flow[f] = None /\ mode' \in [Devices -> Modes]
  BY DEF TypeOK, Poll, Free
<1>3. /\ Sends(f, NewFlow("poll", active, 0), active, mp)
      /\ UNCHANGED <<active, rev, motion, runner, shown, confirm, cancelled>>
  BY DEF Poll
<1> QED BY <1>1, <1>2, <1>3, QuietSends

\* A change of mode keeps it.
LEMMA ModeKeeps ==
  ASSUME TypeOK, FlowInv, NEW f \in Flows, NEW m \in Modes, setMode(f, m)
  PROVE  TypeOK' /\ FlowInv'
<1>1. "mode" \in DOMAIN Script \ Sway
  BY DEF Script, Sway
<1>2. active \in Devices /\ flow[f] = None /\ mode' \in [Devices -> Modes]
  BY DEF TypeOK, setMode, Free
<1>3. /\ Sends(f, NewFlow("mode", active, 0), active, mp)
      /\ UNCHANGED <<active, rev, motion, runner, shown, confirm, cancelled>>
  BY DEF setMode
<1> QED BY <1>1, <1>2, <1>3, QuietSends

\* The fault reset keeps it.
LEMMA ResetKeeps ==
  ASSUME TypeOK, FlowInv, resetFault
  PROVE  TypeOK' /\ FlowInv'
<1> DEFINE d == active
           n == motion[d].seq + 1
           m == [seq |-> n, stop |-> FALSE, latch |-> FALSE]
<1>1. d \in Devices /\ rev \in Nat /\ n \in Nat /\ n = motion[d].seq + 1
  BY DEF TypeOK, MotionType
<1>2. m \in MotionType /\ m.seq = n
  BY <1>1 DEF MotionType
<1>3. /\ motion' = [motion EXCEPT ![d] = m] /\ cancelled' = cancelled \cup Ahead(d)
      /\ UNCHANGED <<active, rev, mode, mp, flow, shown, runner, confirm>>
  BY DEF resetFault
<1> HIDE DEF d, n, m
<1>4. Later
  BY <1>1, <1>2, <1>3, Takes
<1>5. TypeOK'
  BY <1>3, <1>4 DEF TypeOK, Later
<1>6. \A g \in cancelled' : g \in cancelled \/ (flow[g] # None /\ Stale(flow[g])')
  BY <1>3, <1>4 DEF Stale, Later
<1> QED BY <1>1, <1>3, <1>4, <1>5, <1>6, FlowsStay DEF Later

\* A change of axis keeps it.
LEMMA SwitchKeeps ==
  ASSUME TypeOK, FlowInv, NEW d \in Devices, switchAxis(d)
  PROVE  TypeOK' /\ FlowInv'
<1>1. /\ rev' = rev + 1 /\ active' = d
      /\ cancelled' = cancelled \cup {f \in Flows : flow[f] # None /\ flow[f].kind = "table"}
      /\ UNCHANGED <<mode, motion, mp, shown, runner, flow, confirm>>
  BY DEF switchAxis
<1>2. rev \in Nat /\ \A c \in Devices : motion[c].seq \in Nat
  BY DEF TypeOK, MotionType
<1>3. TypeOK'
  BY <1>1, <1>2 DEF TypeOK
<1>4. ASSUME NEW g \in cancelled', g \notin cancelled
      PROVE  flow[g] # None /\ Stale(flow[g])'
  <2>1. g \in Flows /\ flow[g] # None /\ flow[g].kind = "table"
    BY <1>1, <1>4
  <2>2. flow[g].sel =< rev /\ flow[g].seq > 0 /\ flow[g].sel \in Nat
    BY <2>1 DEF FlowInv, Shape, Held, TypeOK, FlowType
  <2> QED BY <1>1, <1>2, <2>1, <2>2 DEF Stale
<1> QED BY <1>1, <1>2, <1>3, <1>4, FlowsStay

-----------------------------------------------------------------------------
(* Flows that go on.                                                       *)

\* Taking a latch back changes no number.
LEMMA UnlatchedType ==
  ASSUME TypeOK, NEW fl \in FlowType
  PROVE  /\ Unlatched(fl) \in [Devices -> MotionType]
         /\ \A c \in Devices : Unlatched(fl)[c].seq = motion[c].seq
<1>1. fl.own \in Devices /\ motion[fl.own] \in MotionType
  BY DEF TypeOK, FlowType
<1> DEFINE m == [motion[fl.own] EXCEPT !.latch = FALSE]
<1>2. m \in MotionType /\ m.seq = motion[fl.own].seq
  BY <1>1 DEF MotionType
<1>3. Unlatched(fl) \in {motion, [motion EXCEPT ![fl.own] = m]}
  BY DEF Unlatched
<1> HIDE DEF m
<1> QED BY <1>1, <1>2, <1>3 DEF TypeOK

\* What is known of a flow whose request is on its way.
LEMMA RequestType ==
  ASSUME TypeOK, FlowInv, NEW f \in Flows, flow[f] # None, flow[f].stage = "sent"
  PROVE  /\ flow[f] \in FlowType /\ flow[f].req \in Requests
         /\ flow[f].req.dev \in Devices /\ flow[f].req.seq \in Nat /\ flow[f].req.seen \in Nat
         /\ Shape(flow[f]) /\ Held(flow[f])
<1>1. flow[f] \in FlowType
  BY DEF TypeOK
<1>2. flow[f].req # None
  BY DEF FlowInv, Shape
<1>3. flow[f].req \in Requests
  BY <1>1, <1>2 DEF FlowType
<1> QED BY <1>1, <1>3 DEF Requests, FlowInv

\* An answer leaves the table records well typed.
LEMMA AnswerTypes ==
  ASSUME TypeOK, NEW r \in Requests
  PROVE  Closed(r) \in [Devices -> TableType] /\ Shows(r) \in [Devices -> Nat]
<1>1. r.dev \in Devices /\ r.seq \in Nat /\ r.seen \in Nat
  BY DEF Requests
<1> DEFINE back == IF r.cmd = "point_table_status" THEN 0 ELSE 1
           p == mp[r.dev].pending - back
           a == IF Taken(r) THEN r.seq ELSE mp[r.dev].applied
           m == [mp[r.dev] EXCEPT !.pending = p, !.applied = a]
<1>2. mp[r.dev] \in TableType
  BY <1>1 DEF TypeOK
<1>3. p \in Int /\ a \in Nat
  BY <1>1, <1>2 DEF TableType
<1>4. Closed(r) \in {mp, [mp EXCEPT ![r.dev] = m]}
  BY DEF Closed
<1> HIDE DEF p, a
<1>5. m \in TableType
  BY <1>2, <1>3 DEF TableType
<1> HIDE DEF m
<1>6. Closed(r) \in [Devices -> TableType]
  BY <1>4, <1>5 DEF TypeOK
<1>7. Shows(r) \in {shown, [shown EXCEPT ![r.dev] = r.seen]}
  BY DEF Shows
<1> QED BY <1>1, <1>6, <1>7 DEF TypeOK

\* A flow that sends again holds what it held.
LEMMA GoesOnKeeps ==
  ASSUME TypeOK, FlowInv, NEW f \in Flows, flow[f] # None, flow[f].stage # "confirm",
         MaySend(flow[f]), NEW d \in Devices, NEW before \in [Devices -> TableType],
         Sends(f, flow[f], d, before), shown' \in [Devices -> Nat],
         UNCHANGED <<active, rev, mode, motion, runner, confirm, cancelled>>
  PROVE  TypeOK' /\ FlowInv'
<1>1. motion' \in [Devices -> MotionType] /\ \A c \in Devices : motion'[c].seq = motion[c].seq
  BY DEF TypeOK
<1>2. Later
  BY <1>1, LaterSame
<1>3. confirm' # f /\ confirm' = confirm
  BY PanelAssumption DEF FlowInv
<1>4. flow[f].seq =< motion'[flow[f].own].seq
  BY DEF FlowInv, Held
<1>5. f \in cancelled' => /\ flow[f].seq > 0
                          /\ \/ flow[f].seq < motion'[flow[f].own].seq
                             \/ flow[f].kind = "table" /\ flow[f].sel < rev
  BY DEF FlowInv, Stale
<1>6. mode' \in [Devices -> Modes]
  BY DEF TypeOK
<1> QED BY <1>2, <1>3, <1>4, <1>5, <1>6, SendStep

\* A flow that ends may touch the flags of its axis, the mode and what is shown.
LEMMA EndsKeep ==
  ASSUME TypeOK, FlowInv, NEW f \in Flows, flow[f] # None, flow[f].stage # "confirm", Ends(f),
         motion' \in [Devices -> MotionType],
         \A c \in Devices : motion'[c].seq = motion[c].seq,
         mode' \in [Devices -> Modes], mp' \in [Devices -> TableType],
         shown' \in [Devices -> Nat], UNCHANGED <<active, rev, runner, confirm>>
  PROVE  TypeOK' /\ FlowInv'
<1>1. flow' \in [Flows -> FlowType \cup {None}] /\ cancelled' \subseteq Flows
  BY DEF Ends, TypeOK
<1>2. TypeOK'
  BY <1>1 DEF TypeOK
<1>3. confirm # f
  BY PanelAssumption DEF FlowInv
<1>4. rev =< rev' /\ \A c \in Devices : motion[c].seq =< motion'[c].seq
  BY DEF TypeOK, MotionType
<1> QED BY <1>2, <1>3, <1>4, EndKeeps

\* A flow that only waits for something else.
LEMMA TurnsKeep ==
  ASSUME TypeOK, FlowInv, NEW f \in Flows, flow[f] # None, NEW new \in FlowType, Shape(new),
         new.kind = flow[f].kind, new.own = flow[f].own, new.seq = flow[f].seq,
         new.sel = flow[f].sel, flow[f].stage # "confirm",
         flow' = [flow EXCEPT ![f] = new], runner' \in [Devices -> Nat],
         UNCHANGED <<active, rev, mode, motion, mp, shown, confirm, cancelled>>
  PROVE  TypeOK' /\ FlowInv'
<1>1. flow'[f] = new /\ \A g \in Flows \ {f} : flow'[g] = flow[g]
  BY DEF TypeOK
<1>2. TypeOK'
  BY DEF TypeOK
<1>3. rev =< rev' /\ \A c \in Devices : motion[c].seq =< motion'[c].seq
  BY DEF TypeOK, MotionType
<1>4. (Shape(flow[f]) /\ Held(flow[f]))'
  BY <1>1 DEF Shape, FlowInv, Held
<1>5. f \in cancelled' => flow'[f] # None /\ Stale(flow[f])'
  BY <1>1, PanelAssumption DEF FlowInv, Stale
<1>6. confirm' # None => flow'[confirm'] # None /\ flow'[confirm'].stage = "confirm"
  BY <1>1 DEF FlowInv, TypeOK
<1> QED BY <1>1, <1>2, <1>3, <1>4, <1>5, <1>6, FlowStep

\* A table flow that goes on keeps the invariant.
LEMMA TableKeeps ==
  ASSUME TypeOK, FlowInv, NEW f \in Flows, NEW ok \in BOOLEAN, TableGoesOn(f, ok)
  PROVE  TypeOK' /\ FlowInv'
<1> DEFINE fl == flow[f]
<1>1. fl # None /\ fl.stage = "sent" /\ fl.kind = "table" /\ shown' = Shows(fl.req)
      /\ UNCHANGED <<active, rev, mode, runner, confirm, presses>>
  BY DEF TableGoesOn, Answered
<1>2. fl \in FlowType /\ fl.req \in Requests /\ Shape(fl) /\ Held(fl)
  BY <1>1, RequestType
<1>3. Closed(fl.req) \in [Devices -> TableType] /\ shown' \in [Devices -> Nat]
  BY <1>1, <1>2, AnswerTypes
<1>4. CASE fl.at < 3 /\ Sends(f, fl, fl.own, Closed(fl.req)) /\ UNCHANGED <<motion, cancelled>>
  <2>1. fl.own \in Devices /\ fl.at \in Nat /\ fl.sel =< rev
    BY <1>2 DEF FlowType, Held
  <2>2. fl.at + 1 \in DOMAIN Script[fl.kind]
    BY <1>1, <1>4, <2>1, Scripts
  <2>3. MaySend(fl)
    BY <1>1, <1>2, <2>1, <2>2 DEF MaySend, Shape, Sway
  <2> QED BY <1>1, <1>3, <1>4, <2>1, <2>3, GoesOnKeeps
<1>5. CASE /\ Ends(f) /\ mp' = Closed(fl.req)
           /\ motion' \in {motion, Unlatched(fl)}
  <2>1. motion' \in [Devices -> MotionType] /\ \A c \in Devices : motion'[c].seq = motion[c].seq
    BY <1>2, <1>5, UnlatchedType DEF TypeOK
  <2>2. mode' \in [Devices -> Modes]
    BY <1>1 DEF TypeOK
  <2> QED BY <1>1, <1>3, <1>5, <2>1, <2>2, EndsKeep
<1> QED BY <1>4, <1>5 DEF TableGoesOn

\* A flow of one motion that goes on keeps it.
LEMMA SingleKeeps ==
  ASSUME TypeOK, FlowInv, NEW f \in Flows, NEW ok \in BOOLEAN, SingleGoesOn(f, ok)
  PROVE  TypeOK' /\ FlowInv'
<1> DEFINE fl == flow[f]
<1>1. fl # None /\ fl.stage = "sent" /\ fl.kind \in Singles
      /\ UNCHANGED <<active, rev, mode, shown, runner, confirm, presses>>
  BY DEF SingleGoesOn, Answered
<1>2. fl \in FlowType /\ Shape(fl) /\ Held(fl)
  BY <1>1, RequestType
<1>3. active \in Devices /\ mp \in [Devices -> TableType] /\ shown' \in [Devices -> Nat]
      /\ mode' \in [Devices -> Modes]
  BY <1>1 DEF TypeOK
<1>4. CASE /\ fl.at < Len(Script[fl.kind]) /\ Sends(f, fl, active, mp)
           /\ UNCHANGED <<motion, cancelled>>
  <2>1. fl.kind \in DOMAIN Script /\ fl.at \in Nat /\ fl.sel =< rev
    BY <1>2 DEF FlowType, Held
  <2>2. fl.at + 1 \in DOMAIN Script[fl.kind]
    BY <1>4, <2>1, Scripts
  <2>3. fl.kind \notin Sway /\ fl.kind # "mode" /\ fl.kind # "table"
    BY <1>1 DEF Singles, Sway
  <2>4. MaySend(fl)
    BY <1>2, <2>1, <2>2, <2>3 DEF MaySend
  <2> QED BY <1>1, <1>3, <1>4, <2>4, GoesOnKeeps
<1>5. CASE Ends(f) /\ UNCHANGED mp /\ motion' \in {motion, Unlatched(fl)}
  <2>1. motion' \in [Devices -> MotionType] /\ \A c \in Devices : motion'[c].seq = motion[c].seq
    BY <1>2, <1>5, UnlatchedType DEF TypeOK
  <2> QED BY <1>1, <1>3, <1>5, <2>1, EndsKeep
<1> QED BY <1>4, <1>5 DEF SingleGoesOn

\* An answer keeps it.
LEMMA AnswerKeeps ==
  ASSUME TypeOK, FlowInv, NEW f \in Flows, NEW ok \in BOOLEAN, Answer(f, ok)
  PROVE  TypeOK' /\ FlowInv'
<1> DEFINE fl == flow[f]
           was == motion[fl.own]
<1>1. fl # None /\ fl.stage = "sent"
  BY DEF Answer, Answered
<1>2. fl \in FlowType /\ fl.req \in Requests /\ Shape(fl) /\ Held(fl)
  BY <1>1, RequestType
<1>3. Closed(fl.req) \in [Devices -> TableType] /\ Shows(fl.req) \in [Devices -> Nat]
  BY <1>2, AnswerTypes
<1>4. ASSUME NEW m \in [Devices -> MotionType], \A c \in Devices : m[c].seq = motion[c].seq,
             NEW newMode \in [Devices -> Modes], Over(f, m, newMode)
      PROVE  TypeOK' /\ FlowInv'
  <2>1. /\ Ends(f) /\ motion' = m /\ mode' = newMode
        /\ shown' = Shows(fl.req) /\ mp' = Closed(fl.req)
        /\ UNCHANGED <<active, rev, runner, confirm>>
    BY <1>4 DEF Over
  <2> QED BY <1>1, <1>3, <1>4, <2>1, EndsKeep
<1>5. fl.own \in Devices /\ active \in Devices /\ was \in MotionType
  BY <1>2 DEF TypeOK, FlowType
<1>6. motion \in [Devices -> MotionType] /\ mode \in [Devices -> Modes]
  BY DEF TypeOK
<1>7. CASE fl.kind = "stop"
  <2>1. PICK stop \in BOOLEAN, latch \in BOOLEAN :
          Over(f, [motion EXCEPT ![fl.own].stop = stop, ![fl.own].latch = latch], mode)
    BY <1>5, <1>7 DEF Answer, MotionType
  <2> DEFINE m == [was EXCEPT !.stop = stop, !.latch = latch]
             mm == [motion EXCEPT ![fl.own] = m]
  <2>2. m \in MotionType /\ m.seq = was.seq
    BY <1>5 DEF MotionType
  <2>3. Over(f, mm, mode)
    BY <1>5, <1>6, <2>1
  <2> HIDE DEF m
  <2>4. mm \in [Devices -> MotionType] /\ \A c \in Devices : mm[c].seq = motion[c].seq
    BY <1>5, <1>6, <2>2
  <2> HIDE DEF mm
  <2> QED BY <1>4, <1>6, <2>3, <2>4
<1>8. CASE fl.kind = "table_stop"
  <2> DEFINE m == [was EXCEPT !.stop = FALSE]
             mm == IF fl.seq = was.seq THEN [motion EXCEPT ![fl.own] = m] ELSE motion
  <2>1. m \in MotionType /\ m.seq = was.seq
    BY <1>5 DEF MotionType
  <2>2. Over(f, mm, mode)
    BY <1>5, <1>6, <1>8 DEF Answer
  <2> HIDE DEF m
  <2>3. mm \in [Devices -> MotionType] /\ \A c \in Devices : mm[c].seq = motion[c].seq
    BY <1>5, <1>6, <2>1
  <2> HIDE DEF mm
  <2> QED BY <1>4, <1>6, <2>2, <2>3
<1>9. CASE fl.kind = "set_current"
  <2> DEFINE m == [motion[active] EXCEPT !.latch = FALSE]
             mm == [motion EXCEPT ![active] = m]
  <2>1. m \in MotionType /\ m.seq = motion[active].seq
    BY <1>5, <1>6 DEF MotionType
  <2>2. \/ Over(f, Unlatched(fl), mode)
        \/ Over(f, motion, mode)
        \/ Over(f, mm, mode)
    BY <1>5, <1>6, <1>9 DEF Answer
  <2> HIDE DEF m
  <2>3. mm \in [Devices -> MotionType] /\ \A c \in Devices : mm[c].seq = motion[c].seq
    BY <1>5, <1>6, <2>1
  <2> HIDE DEF mm
  <2>4. CASE Over(f, mm, mode)
    BY <1>4, <1>6, <2>3, <2>4
  <2>5. CASE Over(f, motion, mode)
    BY <1>4, <1>6, <2>5
  <2>6. CASE Over(f, Unlatched(fl), mode)
    BY <1>2, <1>4, <1>6, <2>6, UnlatchedType
  <2> QED BY <2>2, <2>4, <2>5, <2>6
<1>10. CASE fl.kind = "mode"
  <2> DEFINE nm == IF ok THEN mode ELSE [mode EXCEPT ![active] = fl.prev]
  <2>1. nm \in [Devices -> Modes]
    BY <1>2, <1>5, <1>6, <1>10 DEF Shape
  <2>2. Over(f, motion, nm)
    BY <1>10 DEF Answer
  <2> HIDE DEF nm
  <2> QED BY <1>4, <1>6, <2>1, <2>2
<1>11. CASE fl.kind \in {"write", "poll"}
  <2>1. Over(f, motion, mode)
    BY <1>11 DEF Answer
  <2> QED BY <1>4, <1>6, <2>1
<1> QED BY <1>7, <1>8, <1>9, <1>10, <1>11 DEF Answer

\* A request that is served keeps it.
LEMMA ServesKeeps ==
  ASSUME TypeOK, FlowInv, NEW f \in Flows, Serves(f)
  PROVE  TypeOK' /\ FlowInv'
<1> DEFINE fl == flow[f]
           r == fl.req
<1>1. fl # None /\ fl.stage = "sent"
      /\ UNCHANGED <<active, rev, mode, motion, mp, shown, confirm, presses, cancelled>>
  BY DEF Serves
<1>2. fl \in FlowType /\ r \in Requests /\ r.dev \in Devices /\ Shape(fl)
  BY <1>1, RequestType
<1>3. PICK reply \in Replies, done \in BOOLEAN :
        LET changes == r.cmd # "point_table_status" /\ done
        IN  /\ runner' = IF changes THEN [runner EXCEPT ![r.dev] = @ + 1] ELSE runner
            /\ flow' = [flow EXCEPT ![f].req.reply = reply,
                                    ![f].req.seen = IF reply = "error" THEN 0 ELSE runner'[r.dev]]
  BY DEF Serves, Replies
<1>4. runner' \in [Devices -> Nat]
  BY <1>2, <1>3 DEF TypeOK
<1> DEFINE seen == IF reply = "error" THEN 0 ELSE runner'[r.dev]
           answered == [r EXCEPT !.reply = reply, !.seen = seen]
           new == [fl EXCEPT !.req = answered]
<1>5. seen \in Nat
  BY <1>2, <1>4
<1>6. flow' = [flow EXCEPT ![f] = new]
  <2> HIDE DEF seen
  <2>1. flow' = [flow EXCEPT ![f].req.reply = reply, ![f].req.seen = seen]
    BY <1>3 DEF seen
  <2>2. flow[f] \in FlowType /\ flow[f].req \in Requests
    BY <1>2
  <2> QED BY <2>1, <2>2 DEF TypeOK, FlowType, Requests
<1> HIDE DEF seen
<1>7. answered \in Requests /\ answered.cmd = r.cmd
  BY <1>2, <1>5 DEF Requests
<1> HIDE DEF answered
<1>8. /\ new \in FlowType /\ new.kind = fl.kind /\ new.own = fl.own /\ new.seq = fl.seq
      /\ new.sel = fl.sel /\ new.at = fl.at /\ new.stage = fl.stage /\ new.prev = fl.prev
      /\ new.req = answered
  BY <1>2, <1>7 DEF FlowType
<1> HIDE DEF new
<1>9. Shape(new)
  BY <1>1, <1>2, <1>7, <1>8, PanelAssumption DEF Shape
<1> QED BY <1>1, <1>4, <1>6, <1>8, <1>9, TurnsKeep

-----------------------------------------------------------------------------
(* The anti-sway run, and the dialog.                                      *)

\* An anti-sway flow that has read its sensor keeps it,
LEMMA SensedKeeps ==
  ASSUME TypeOK, FlowInv, NEW f \in Flows, Sensed(f)
  PROVE  TypeOK' /\ FlowInv'
<1> DEFINE fl == flow[f]
<1>1. fl # None /\ fl.stage = "sense"
      /\ UNCHANGED <<active, rev, mode, motion, shown, runner, confirm, presses>>
  BY DEF Sensed
<1>2. fl \in FlowType /\ Shape(fl) /\ Held(fl)
  BY <1>1 DEF TypeOK, FlowInv
<1>3. fl.kind \in Sway /\ fl.at = 0 /\ fl.seq = 0 /\ fl.sel =< rev
  BY <1>1, <1>2 DEF Shape, Held
<1>4. active \in Devices /\ mp \in [Devices -> TableType] /\ shown' \in [Devices -> Nat]
      /\ mode' \in [Devices -> Modes]
      /\ motion' \in [Devices -> MotionType] /\ \A c \in Devices : motion'[c].seq = motion[c].seq
  BY <1>1 DEF TypeOK
<1>5. CASE Ends(f) /\ UNCHANGED mp
  BY <1>1, <1>4, <1>5, EndsKeep
<1>6. CASE Sends(f, fl, active, mp) /\ UNCHANGED cancelled
  <2>1. fl.at + 1 \in DOMAIN Script[fl.kind]
    BY <1>3, Scripts
  <2>2. MaySend(fl)
    BY <1>2, <1>3, <2>1 DEF MaySend, Sway
  <2> QED BY <1>1, <1>4, <1>6, <2>2, GoesOnKeeps
<1> QED BY <1>5, <1>6 DEF Sensed

\* and one that waited for the axis,
LEMMA WaitedKeeps ==
  ASSUME TypeOK, FlowInv, NEW f \in Flows, Waited(f)
  PROVE  TypeOK' /\ FlowInv'
<1> DEFINE fl == flow[f]
<1>1. fl # None /\ fl.stage = "wait"
      /\ UNCHANGED <<active, rev, mode, motion, shown, runner, confirm, presses>>
  BY DEF Waited
<1>2. fl \in FlowType /\ Shape(fl) /\ Held(fl)
  BY <1>1 DEF TypeOK, FlowInv
<1>3. fl.kind \in Sway /\ fl.at \in 2..(Len(Script[fl.kind]) - 1) /\ fl.sel =< rev
  BY <1>1, <1>2 DEF Shape, Held
<1>4. active \in Devices /\ mp \in [Devices -> TableType] /\ shown' \in [Devices -> Nat]
      /\ mode' \in [Devices -> Modes]
      /\ motion' \in [Devices -> MotionType] /\ \A c \in Devices : motion'[c].seq = motion[c].seq
  BY <1>1 DEF TypeOK
<1>5. CASE Ends(f) /\ UNCHANGED mp
  BY <1>1, <1>4, <1>5, EndsKeep
<1>6. CASE Sends(f, fl, active, mp) /\ UNCHANGED cancelled
  <2>1. fl.at + 1 \in DOMAIN Script[fl.kind] /\ fl.at + 1 > 2
    BY <1>3, Scripts
  <2>2. MaySend(fl)
    BY <1>2, <1>3, <2>1 DEF MaySend, Sway
  <2> QED BY <1>1, <1>4, <1>6, <2>2, GoesOnKeeps
<1> QED BY <1>5, <1>6 DEF Waited

\* and one whose axis has settled,
LEMMA SettledKeeps ==
  ASSUME TypeOK, FlowInv, NEW f \in Flows, Settled(f)
  PROVE  TypeOK' /\ FlowInv'
<1>1. flow[f] # None /\ flow[f].stage = "settle" /\ Ends(f)
      /\ motion' \in {motion, Unlatched(flow[f])}
      /\ UNCHANGED <<active, rev, mode, mp, shown, runner, confirm, presses>>
  BY DEF Settled
<1>2. flow[f] \in FlowType
  BY <1>1 DEF TypeOK
<1>3. motion' \in [Devices -> MotionType] /\ \A c \in Devices : motion'[c].seq = motion[c].seq
  BY <1>1, <1>2, UnlatchedType DEF TypeOK
<1>4. mp' \in [Devices -> TableType] /\ shown' \in [Devices -> Nat] /\ mode' \in [Devices -> Modes]
  BY <1>1 DEF TypeOK
<1> QED BY <1>1, <1>3, <1>4, EndsKeep

\* and one whose axis was moved,
LEMMA MovedKeeps ==
  ASSUME TypeOK, FlowInv, NEW f \in Flows, NEW ok \in BOOLEAN, Moved(f, ok)
  PROVE  TypeOK' /\ FlowInv'
<1> DEFINE fl == flow[f]
           next == IF fl.at < Len(Script[fl.kind]) THEN "wait" ELSE "settle"
<1>1. fl # None /\ fl.stage = "sent" /\ fl.kind \in Sway /\ fl.at > 2
      /\ UNCHANGED <<active, rev, mode, mp, shown, runner, confirm, presses>>
  BY DEF Moved, Answered
<1>2. fl \in FlowType /\ Shape(fl) /\ Held(fl) /\ fl.at \in Nat
  BY <1>1, RequestType DEF FlowType
<1>3. active \in Devices /\ mp' \in [Devices -> TableType] /\ shown' \in [Devices -> Nat]
      /\ mode' \in [Devices -> Modes] /\ runner' \in [Devices -> Nat]
  BY <1>1 DEF TypeOK
<1>4. CASE /\ flow' = [flow EXCEPT ![f] = [fl EXCEPT !.stage = next, !.watch = active,
                                                    !.req = None]]
           /\ UNCHANGED <<motion, cancelled>>
  <2> DEFINE new == [fl EXCEPT !.stage = next, !.watch = active, !.req = None]
  <2>1. next \in {"wait", "settle"}
    OBVIOUS
  <2>2. next = "wait" => fl.at \in 2..(Len(Script[fl.kind]) - 1)
    BY <1>1, <1>2, Scripts
  <2>3. flow' = [flow EXCEPT ![f] = new]
    BY <1>4
  <2> HIDE DEF next
  <2>4. /\ new \in FlowType /\ new.kind = fl.kind /\ new.own = fl.own /\ new.seq = fl.seq
        /\ new.sel = fl.sel /\ new.at = fl.at /\ new.stage = next
    BY <1>2, <1>3, <2>1 DEF FlowType
  <2> HIDE DEF new
  <2>5. Shape(new)
    BY <1>1, <2>1, <2>2, <2>4 DEF Shape, Sway
  <2> QED BY <1>1, <1>3, <1>4, <2>3, <2>4, <2>5, TurnsKeep
<1>5. CASE Ends(f) /\ motion' \in {motion, Unlatched(fl)}
  <2>1. motion' \in [Devices -> MotionType] /\ \A c \in Devices : motion'[c].seq = motion[c].seq
    BY <1>2, <1>5, UnlatchedType DEF TypeOK
  <2> QED BY <1>1, <1>3, <1>5, <2>1, EndsKeep
<1> QED BY <1>4, <1>5 DEF Moved

\* and one that has its plan.
LEMMA PlannedKeeps ==
  ASSUME TypeOK, FlowInv, NEW f \in Flows, NEW ok \in BOOLEAN, Planned(f, ok)
  PROVE  TypeOK' /\ FlowInv'
<1> DEFINE fl == flow[f]
<1>1. fl # None /\ fl.stage = "sent" /\ fl.kind \in Sway /\ fl.at \in {1, 2}
      /\ UNCHANGED <<active, rev, mode, motion, shown, runner, presses>>
  BY DEF Planned, Answered
<1>2. fl \in FlowType /\ Shape(fl) /\ Held(fl) /\ fl.seq = 0
  BY <1>1, RequestType DEF Shape
<1>3. active \in Devices /\ mp \in [Devices -> TableType] /\ shown' \in [Devices -> Nat]
      /\ mode' \in [Devices -> Modes]
      /\ motion' \in [Devices -> MotionType] /\ \A c \in Devices : motion'[c].seq = motion[c].seq
  BY <1>1 DEF TypeOK
<1>4. CASE fl.at = 1 /\ Sends(f, fl, active, mp) /\ UNCHANGED <<confirm, cancelled>>
  <2>1. fl.at + 1 \in DOMAIN Script[fl.kind] /\ fl.sel =< rev
    BY <1>1, <1>2, <1>4, Scripts DEF Held
  <2>2. MaySend(fl)
    BY <1>1, <1>2, <2>1 DEF MaySend, Sway
  <2> QED BY <1>1, <1>3, <1>4, <2>2, GoesOnKeeps
<1>5. CASE Ends(f) /\ UNCHANGED <<mp, confirm>>
  BY <1>1, <1>3, <1>5, EndsKeep
<1>6. CASE /\ fl.at = 2 /\ confirm' = f /\ cancelled' = cancelled \ {confirm} /\ UNCHANGED mp
           /\ LET goesOn == [flow EXCEPT ![f].stage = "confirm"]
              IN  flow' = IF confirm = None THEN goesOn ELSE [goesOn EXCEPT ![confirm] = None]
  <2> DEFINE new == [fl EXCEPT !.stage = "confirm"]
  <2>1. /\ new \in FlowType /\ new.kind = fl.kind /\ new.own = fl.own /\ new.seq = fl.seq
        /\ new.sel = fl.sel /\ new.at = fl.at /\ new.stage = "confirm"
    BY <1>2 DEF FlowType
  <2>2. confirm # f /\ confirm \in Flows \cup {None}
    BY <1>1, PanelAssumption DEF FlowInv, TypeOK
  <2>3. /\ flow' \in [Flows -> FlowType \cup {None}] /\ flow'[f] = new
        /\ \A g \in Flows \ {f} : flow'[g] = IF g = confirm THEN None ELSE flow[g]
    BY <1>6, <2>1, <2>2, PanelAssumption DEF TypeOK
  <2> HIDE DEF new
  <2>4. TypeOK'
    BY <1>1, <1>3, <1>6, <2>3 DEF TypeOK
  <2>5. Shape(new) /\ Held(new)
    BY <1>1, <1>2, <1>6, <2>1 DEF Shape, Held, Sway
  <2>6. ASSUME NEW g \in Flows, flow'[g] # None PROVE (Shape(flow[g]) /\ Held(flow[g]))'
    <3>1. flow'[g] = new \/ (flow'[g] = flow[g] /\ Shape(flow[g]) /\ Held(flow[g]))
      BY <2>3, <2>6 DEF FlowInv
    <3>2. Shape(flow[g])'
      BY <2>5, <3>1 DEF Shape
    <3>3. Held(flow[g])'
      BY <1>1, <2>5, <3>1 DEF Held
    <3> QED BY <3>2, <3>3
  <2>7. ASSUME NEW g \in cancelled' PROVE flow'[g] # None /\ Stale(flow[g])'
    <3>1. g \in cancelled /\ g # confirm /\ g \in Flows /\ flow[g] # None /\ Stale(flow[g])
      BY <1>6, <2>7 DEF FlowInv, TypeOK
    <3>2. g # f
      BY <1>2, <3>1 DEF Stale
    <3>3. flow'[g] = flow[g]
      BY <2>3, <3>1, <3>2
    <3> QED BY <1>1, <3>1, <3>3 DEF Stale
  <2>8. flow'[confirm'] # None /\ flow'[confirm'].stage = "confirm"
    BY <1>6, <2>1, <2>3, PanelAssumption
  <2> QED BY <2>4, <2>6, <2>7, <2>8 DEF FlowInv
<1> QED BY <1>4, <1>5, <1>6 DEF Planned

\* An answer to the confirmation keeps it.
LEMMA ConfirmedKeeps ==
  ASSUME TypeOK, FlowInv, NEW ok \in BOOLEAN, Confirmed(ok)
  PROVE  TypeOK' /\ FlowInv'
<1>0. PICK f \in Flows : f = confirm
  BY DEF Confirmed, TypeOK
<1> DEFINE fl == flow[f]
           n == motion[active].seq + 1
           taken == [fl EXCEPT !.own = active, !.watch = active, !.seq = n, !.stage = "wait"]
<1>1. f \in Flows /\ fl # None /\ fl.stage = "confirm" /\ confirm' = None
      /\ UNCHANGED <<active, rev, mode, shown, runner, presses>>
  BY <1>0 DEF Confirmed, FlowInv, TypeOK
<1>2. fl \in FlowType /\ Shape(fl) /\ Held(fl)
  BY <1>1 DEF TypeOK, FlowInv
<1>3. active \in Devices /\ mp \in [Devices -> TableType] /\ shown' \in [Devices -> Nat]
      /\ mode' \in [Devices -> Modes] /\ n \in Nat /\ n > 0 /\ rev \in Nat
      /\ \A c \in Devices : motion[c].seq \in Nat
  BY <1>1 DEF TypeOK, MotionType
<1>4. CASE Ends(f) /\ UNCHANGED <<motion, mp>>
  <2>1. flow'[f] = None /\ \A g \in Flows \ {f} : flow'[g] = flow[g]
    BY <1>1, <1>4 DEF Ends, TypeOK
  <2>2. TypeOK'
    BY <1>1, <1>3, <1>4, <2>1 DEF TypeOK, Ends
  <2>3. f \notin cancelled' /\ cancelled' \subseteq cancelled
    BY <1>4 DEF Ends
  <2>4. rev =< rev' /\ \A c \in Devices : motion[c].seq =< motion'[c].seq
    BY <1>1, <1>3, <1>4
  <2> HIDE DEF fl, n, taken
  <2> QED BY <1>1, <2>1, <2>2, <2>3, <2>4, FlowStep
<1>5. CASE /\ GoesAhead(f, active)
           /\ IF fl.kind \in Sway THEN flow' = [flow EXCEPT ![f] = taken] /\ UNCHANGED mp
              ELSE Sends(f, taken, active, mp)
  <2> DEFINE m == [seq |-> n, stop |-> FALSE, latch |-> TRUE]
  <2>1. m \in MotionType /\ m.seq = n /\ n = motion[active].seq + 1
    BY <1>3 DEF MotionType
  <2>2. motion' = [motion EXCEPT ![active] = m] /\ cancelled' = (cancelled \cup Ahead(active)) \ {f}
    BY <1>5 DEF GoesAhead
  <2> HIDE DEF m, n
  <2>3. Later /\ motion'[active].seq = n
    BY <1>3, <2>1, <2>2, Takes
  <2>4. /\ taken \in FlowType /\ taken.own = active /\ taken.seq = n /\ taken.stage = "wait"
        /\ taken.kind = fl.kind /\ taken.at = fl.at /\ taken.sel = fl.sel /\ taken.prev = fl.prev
    BY <1>2, <1>3 DEF FlowType
  <2>5. fl.sel =< rev /\ fl.at \in Nat
    BY <1>2 DEF Held, FlowType
  <2>6. f \notin cancelled'
    BY <2>2
  <2> HIDE DEF taken
  <2>7. CASE fl.kind \in Sway /\ flow' = [flow EXCEPT ![f] = taken] /\ UNCHANGED mp
    <3>1. flow'[f] = taken /\ \A g \in Flows \ {f} : flow'[g] = flow[g]
      BY <1>1, <2>7 DEF TypeOK
    <3>2. TypeOK'
      BY <1>1, <1>3, <2>3, <2>4, <2>7 DEF TypeOK, Later
    <3>3. fl.at = 2 /\ Len(Script[fl.kind]) >= 3 /\ Len(Script[fl.kind]) \in Nat
      BY <1>1, <1>2, <2>7, Scripts DEF Shape, Sway
    <3>4. Shape(taken)
      BY <2>4, <2>7, <3>3 DEF Shape, Sway
    <3>5. taken.seq =< motion'[taken.own].seq /\ taken.sel =< rev'
      BY <1>1, <1>3, <2>3, <2>4, <2>5
    <3>6. (Shape(flow[f]) /\ Held(flow[f]))'
      BY <1>1, <3>1, <3>4, <3>5 DEF Shape, Held
    <3>7. rev =< rev'
      BY <1>1, <1>3
    <3> HIDE DEF fl
    <3> QED BY <1>1, <2>3, <2>6, <3>1, <3>2, <3>6, <3>7, FlowStep DEF Later
  <2>8. CASE fl.kind \notin Sway /\ Sends(f, taken, active, mp)
    <3>1. fl.kind = "position" /\ fl.at = 0
      BY <1>1, <1>2, <2>8 DEF Shape
    <3>2. taken.at + 1 \in DOMAIN Script[taken.kind]
      BY <1>2, <2>4, <3>1, Scripts DEF FlowType
    <3>3. MaySend(taken)
      BY <2>4, <2>5, <2>8, <3>1, <3>2 DEF MaySend
    <3>4. taken.seq =< motion'[taken.own].seq
      BY <1>3, <2>3, <2>4
    <3>5. confirm' \in {confirm, None} /\ confirm' # f
      BY <1>0, <1>1, PanelAssumption
    <3> HIDE DEF fl
    <3> QED BY <1>1, <1>3, <2>3, <2>6, <2>8, <3>3, <3>4, <3>5, SendStep
  <2> QED BY <1>5, <2>7, <2>8
<1> QED BY <1>0, <1>4, <1>5 DEF Confirmed

\* A redraw keeps it.
LEMMA RedrawKeeps ==
  ASSUME TypeOK, FlowInv, Redraw
  PROVE  TypeOK' /\ FlowInv'
<1>1. PICK latch \in {FALSE, motion[active].latch} :
        motion' = [motion EXCEPT ![active].stop = FALSE, ![active].latch = latch]
  BY DEF Redraw
<1>2. UNCHANGED <<active, rev, mode, mp, shown, runner, flow, confirm, presses, cancelled>>
  BY DEF Redraw
<1> DEFINE m == [motion[active] EXCEPT !.stop = FALSE, !.latch = latch]
<1>3. active \in Devices /\ motion[active] \in MotionType /\ latch \in BOOLEAN
  BY DEF TypeOK, MotionType
<1>4. m \in MotionType /\ m.seq = motion[active].seq
  BY <1>3 DEF MotionType
<1>5. motion' = [motion EXCEPT ![active] = m]
  BY <1>1, <1>3 DEF TypeOK
<1> HIDE DEF m
<1>6. motion' \in [Devices -> MotionType] /\ \A c \in Devices : motion'[c].seq = motion[c].seq
  BY <1>3, <1>4, <1>5 DEF TypeOK
<1>7. Later
  BY <1>2, <1>6, LaterSame
<1>8. TypeOK'
  BY <1>2, <1>6 DEF TypeOK
<1>9. rev =< rev'
  BY <1>2 DEF TypeOK
<1> QED BY <1>2, <1>7, <1>8, <1>9, FlowsStay DEF Later

-----------------------------------------------------------------------------
(* The theorems.                                                           *)

\* Every step keeps it.
LEMMA FlowsKeep ==
  ASSUME TypeOK, FlowInv, [Next]_vars
  PROVE  TypeOK' /\ FlowInv'
<1>1. CASE UNCHANGED vars
  BY <1>1 DEF vars, TypeOK, FlowInv, Shape, Held, Stale
<1>2. ASSUME NEW f \in Flows, PhaseGate(f) \/ Due(f) PROVE Waited(f)
  BY <1>2 DEF PhaseGate, Due
<1>3. CASE Next
  BY <1>2, <1>3, StartKeeps, StopKeeps, DirectKeeps, PollKeeps, ModeKeeps, ResetKeeps,
     SwitchKeeps, TableKeeps, SingleKeeps, AnswerKeeps, ServesKeeps, SensedKeeps,
     WaitedKeeps, SettledKeeps, MovedKeeps, PlannedKeeps, ConfirmedKeeps, RedrawKeeps
  DEF Next
<1> QED BY <1>1, <1>3

\* There is no flow to begin with.
LEMMA FlowsBegin == Init => TypeOK /\ FlowInv
<1> SUFFICES ASSUME Init PROVE TypeOK /\ FlowInv
  OBVIOUS
<1>1. TypeOK
  <2>1. \A d \in Devices : motion[d] \in MotionType /\ mp[d] \in TableType
    BY DEF Init, MotionType, TableType
  <2>2. /\ motion \in [Devices -> MotionType] /\ mp \in [Devices -> TableType]
        /\ flow \in [Flows -> FlowType \cup {None}]
    BY <2>1 DEF Init
  <2>3. /\ active \in Devices /\ rev \in Nat /\ mode \in [Devices -> Modes]
        /\ shown \in [Devices -> Nat] /\ runner \in [Devices -> Nat]
        /\ confirm \in Flows \cup {None} /\ cancelled \subseteq Flows
    BY PanelAssumption DEF Init
  <2> QED BY <2>2, <2>3 DEF TypeOK
<1>2. FlowInv
  BY DEF Init, FlowInv
<1> QED BY <1>1, <1>2

\* Every flow is where its script lets it be, holds numbers that have been given out,
\* and a cancelled one an old number.
THEOREM FlowsInvariant == Spec => [](TypeOK /\ FlowInv)
<1>1. Init => TypeOK /\ FlowInv
  BY FlowsBegin
<1>2. TypeOK /\ FlowInv /\ [Next]_vars => (TypeOK /\ FlowInv)'
  BY FlowsKeep
<1> QED BY <1>1, <1>2, PTL DEF Spec

\* Which flows a step can let send again: those that have just found that they are
\* not superseded, and those that do not hold a number yet.
LEMMA SendersAreCurrent ==
  ASSUME TypeOK, FlowInv, Next, NEW f \in Flows,
         flow[f] # None, flow'[f] # None, flow'[f].at # flow[f].at,
         flow[f].watch = flow[f].own
  PROVE  ~Stale(flow[f])
<1>1. flow[f] \in FlowType /\ Shape(flow[f]) /\ motion[flow[f].own] \in MotionType
  BY DEF TypeOK, FlowInv, FlowType
<1>2. ASSUME NEW g \in Flows, NEW fl, NEW d, NEW before, Sends(g, fl, d, before), f # g
      PROVE  FALSE
  BY <1>2 DEF Sends, TypeOK
<1>3. ASSUME NEW g \in Flows, Ends(g) PROVE FALSE
  BY <1>3 DEF Ends, TypeOK
<1>4. ASSUME NEW g \in Flows, Start(g) PROVE FALSE
  BY <1>2, <1>4 DEF Start, Refused, Free, TypeOK
<1>5. ASSUME NEW g \in Flows, Stop(g) PROVE FALSE
  BY <1>2, <1>5 DEF Stop, Free
<1>6. ASSUME NEW g \in Flows, NEW kind \in {"set_current", "write"}, Direct(g, kind) PROVE FALSE
  BY <1>2, <1>6 DEF Direct, Free
<1>7. ASSUME NEW g \in Flows, Poll(g) PROVE FALSE
  BY <1>2, <1>7 DEF Poll, Free
<1>8. ASSUME NEW g \in Flows, NEW m \in Modes, setMode(g, m) PROVE FALSE
  BY <1>2, <1>8 DEF setMode, Free
<1>9. ASSUME NEW g \in Flows, Serves(g) PROVE FALSE
  <2>1. \A h \in Flows : flow'[h] = flow[h] \/ (h = g /\ flow'[h].at = flow[h].at)
    BY <1>9 DEF Serves, TypeOK, FlowType
  <2> QED BY <2>1
<1>10. ASSUME NEW g \in Flows, NEW ok \in BOOLEAN, TableGoesOn(g, ok)
       PROVE  ~Stale(flow[f])
  <2>1. f = g /\ Current(flow[f])
    BY <1>2, <1>3, <1>10 DEF TableGoesOn
  <2> QED BY <1>1, <2>1 DEF Current, Superseded, Stale, MotionType, TypeOK
<1>11. ASSUME NEW g \in Flows, NEW ok \in BOOLEAN, SingleGoesOn(g, ok)
       PROVE  ~Stale(flow[f])
  <2>1. f = g /\ ~Superseded(flow[f]) /\ flow[f].kind # "table"
    BY <1>2, <1>3, <1>11 DEF SingleGoesOn, Singles
  <2> QED BY <1>1, <2>1 DEF Superseded, Stale, MotionType
<1>12. ASSUME NEW g \in Flows, NEW ok \in BOOLEAN, Answer(g, ok) PROVE FALSE
  BY <1>3, <1>12 DEF Answer, Over
<1>13. ASSUME NEW g \in Flows, NEW ok \in BOOLEAN, Planned(g, ok) PROVE ~Stale(flow[f])
  <2>1. CASE Ends(g)
    BY <1>3, <2>1
  <2>2. CASE Sends(g, flow[g], active, mp)
    <3>1. f = g
      BY <1>2, <2>2
    <3>2. flow[f].seq = 0
      BY <1>1, <1>13, <3>1 DEF Planned, Answered, Shape
    <3> QED BY <3>2 DEF Stale
  <2>3. ASSUME NEW F, F = [flow EXCEPT ![g].stage = "confirm"], flow[g] # None,
               flow' = IF confirm = None THEN F ELSE [F EXCEPT ![confirm] = None]
        PROVE  FALSE
    <3> DEFINE new == [flow[g] EXCEPT !.stage = "confirm"]
    <3>1. F = [flow EXCEPT ![g] = new] /\ new.at = flow[g].at
      BY <2>3 DEF TypeOK, FlowType
    <3> HIDE DEF new
    <3>2. \A h \in Flows : F[h] = IF h = g THEN new ELSE flow[h]
      BY <3>1 DEF TypeOK
    <3>3. \A h \in Flows : flow'[h] \in {F[h], None}
      BY <2>3, <3>1 DEF TypeOK
    <3> QED BY <3>1, <3>2, <3>3
  <2> QED BY <1>13, <2>1, <2>2, <2>3 DEF Planned, Answered
<1>14. ASSUME NEW g \in Flows, NEW ok \in BOOLEAN, Moved(g, ok) PROVE FALSE
  <2> DEFINE next == IF flow[g].at < Len(Script[flow[g].kind]) THEN "wait" ELSE "settle"
             new == [flow[g] EXCEPT !.stage = next, !.watch = active, !.req = None]
  <2>1. \/ Ends(g)
        \/ flow' = [flow EXCEPT ![g] = new]
    BY <1>14 DEF Moved
  <2> HIDE DEF next
  <2>2. new.at = flow[g].at
    BY <1>14 DEF Moved, Answered, TypeOK, FlowType
  <2> HIDE DEF new
  <2>3. CASE flow' = [flow EXCEPT ![g] = new]
    BY <2>2, <2>3 DEF TypeOK
  <2> QED BY <1>3, <2>1, <2>3
<1>15. ASSUME NEW g \in Flows, Sensed(g) PROVE ~Stale(flow[f])
  <2>1. f = g /\ flow[f].stage = "sense"
    BY <1>2, <1>3, <1>15 DEF Sensed
  <2> QED BY <1>1, <2>1 DEF Shape, Stale
<1>16. ASSUME NEW g \in Flows, Waited(g) PROVE ~Stale(flow[f])
  <2>1. f = g /\ flow[f].stage = "wait" /\ ~Superseded([flow[f] EXCEPT !.own = flow[f].watch])
    BY <1>2, <1>3, <1>16 DEF Waited
  <2>2. ~Superseded(flow[f])
    BY <1>1, <2>1 DEF FlowType, Superseded
  <2>3. flow[f].kind # "table"
    BY <1>1, <2>1 DEF Shape, Sway
  <2> QED BY <1>1, <2>2, <2>3 DEF Superseded, Stale, MotionType
<1>17. ASSUME NEW g \in Flows, Settled(g) PROVE FALSE
  BY <1>3, <1>17 DEF Settled
<1>18. ASSUME NEW ok \in BOOLEAN, Confirmed(ok) PROVE ~Stale(flow[f])
  <2>1. PICK g \in Flows : g = confirm
    BY <1>18 DEF Confirmed, TypeOK
  <2>2. CASE f = g
    BY <1>1, <2>1, <2>2, PanelAssumption DEF FlowInv, Shape, Stale
  <2>3. CASE f # g
    <3>1. \/ Ends(g)
          \/ \E fl : flow' = [flow EXCEPT ![g] = fl]
          \/ \E fl : Sends(g, fl, active, mp)
      BY <1>18, <2>1 DEF Confirmed
    <3> QED BY <1>2, <1>3, <2>3, <3>1 DEF TypeOK
  <2> QED BY <2>2, <2>3
<1>19. ASSUME UNCHANGED flow PROVE FALSE
  BY <1>19
<1>20. Redraw \/ resetFault \/ (\E d \in Devices : switchAxis(d)) => UNCHANGED flow
  BY DEF Redraw, resetFault, switchAxis
<1>21. ASSUME NEW g \in Flows, PhaseGate(g) \/ Due(g) PROVE Waited(g)
  BY <1>21 DEF PhaseGate, Due
<1> QED BY <1>4, <1>5, <1>6, <1>7, <1>8, <1>9, <1>10, <1>11, <1>12, <1>13, <1>14, <1>15,
        <1>16, <1>17, <1>18, <1>19, <1>20, <1>21 DEF Next

\* A stop is final: what the user has stopped, replaced or walked away from sends
\* nothing more.
THEOREM StopHolds == Spec => StopIsFinal
<1> DEFINE Step == \A f \in Flows :
        (/\ flow[f] # None /\ flow'[f] # None /\ flow'[f].at # flow[f].at
         /\ flow[f].watch = flow[f].own)
            => f \notin cancelled
<1>1. TypeOK /\ FlowInv /\ [Next]_vars => [Step]_vars
  <2> SUFFICES ASSUME TypeOK, FlowInv, Next PROVE Step
    OBVIOUS
  <2> SUFFICES ASSUME NEW f \in Flows, flow[f] # None, flow'[f] # None,
                      flow'[f].at # flow[f].at, flow[f].watch = flow[f].own
               PROVE  f \notin cancelled
    OBVIOUS
  <2>1. ~Stale(flow[f])
    BY SendersAreCurrent
  <2> QED BY <2>1 DEF FlowInv
<1> QED BY <1>1, FlowsInvariant, PTL DEF Spec, StopIsFinal

\* What the page shows of an axis' runner comes from an answer about that axis.
THEOREM ShownIsOwn == Spec => RunnerShownIsItsOwn
<1> DEFINE Step == \A d \in Devices : shown'[d] # shown[d] =>
        \E f \in Flows : flow[f] # None /\ flow[f].req # None
            /\ flow[f].req.dev = d /\ flow[f].req.reply # None
<1>1. TypeOK /\ FlowInv /\ [Next]_vars => [Step]_vars
  <2> SUFFICES ASSUME TypeOK, FlowInv, Next,
                      NEW d \in Devices, shown'[d] # shown[d]
               PROVE  \E f \in Flows : flow[f] # None /\ flow[f].req # None
                          /\ flow[f].req.dev = d /\ flow[f].req.reply # None
    OBVIOUS
  <2>1. PICK f \in Flows, ok \in BOOLEAN : Answered(f, ok) /\ shown' = Shows(flow[f].req)
    <3>1. shown' # shown
      OBVIOUS
    <3>2. ASSUME NEW f \in Flows, Start(f) \/ Stop(f) \/ Poll(f) \/ Serves(f) \/ Sensed(f)
                                  \/ Waited(f) \/ Settled(f)
          PROVE  shown' = shown
      BY <3>2 DEF Start, Stop, Poll, Serves, Sensed, Waited, Settled
    <3>3. ASSUME NEW f \in Flows, NEW kind, NEW m, NEW ok,
                 \/ Direct(f, kind) \/ setMode(f, m) \/ SingleGoesOn(f, ok)
                 \/ Planned(f, ok) \/ Moved(f, ok)
          PROVE  shown' = shown
      BY <3>3 DEF Direct, setMode, SingleGoesOn, Planned, Moved
    <3>4. ASSUME NEW c, NEW ok, switchAxis(c) \/ Confirmed(ok) \/ Redraw \/ resetFault
          PROVE  shown' = shown
      BY <3>4 DEF switchAxis, Confirmed, Redraw, resetFault
    <3>5. PICK f \in Flows, ok \in BOOLEAN : TableGoesOn(f, ok) \/ Answer(f, ok)
      BY <3>1, <3>2, <3>3, <3>4 DEF Next, PhaseGate, Due
    <3> QED BY <3>5 DEF TableGoesOn, Answer, Over
  <2>2. flow[f] # None /\ flow[f].stage = "sent"
    BY <2>1 DEF Answered
  <2>3. flow[f].req \in Requests
    BY <2>2, RequestType
  <2>4. flow[f].req.cmd \in TableCommands /\ flow[f].req.dev = d
    BY <2>1 DEF Shows, TypeOK
  <2>5. flow[f].req.reply # None
    BY <2>1, <2>4 DEF Answered
  <2> QED BY <2>2, <2>3, <2>4, <2>5, PanelAssumption
<1> QED BY <1>1, FlowsInvariant, PTL DEF Spec, RunnerShownIsItsOwn

-----------------------------------------------------------------------------
(* The numbers of the point table's requests.                              *)

\* A change of the flows that neither sends nor takes an answer keeps the numbers.
LEMMA QuietNumbers ==
  ASSUME NEW F, NEW G, NEW M, NEW S, NEW R, Numbered(F, M, S, R),
         \A f \in Flows : /\ InFlight(G[f]) <=> InFlight(F[f])
                          /\ InFlight(F[f]) => G[f].req = F[f].req
  PROVE  Numbered(G, M, S, R)
<1>1. \A d : CommandsOf(G, d) = CommandsOf(F, d)
  BY DEF CommandsOf
<1>2. ASSUME NEW f \in Flows, InFlight(G[f]) PROVE InTurn(G[f].req, G, M, S, R)
  <2>1. G[f].req = F[f].req /\ InTurn(F[f].req, F, M, S, R)
    BY <1>2 DEF Numbered
  <2> QED BY <1>1, <2>1 DEF InTurn
<1> QED BY <1>1, <1>2 DEF Numbered

\* The table requests of a flow function are requests.
Wired(F) == \A f \in Flows : InFlight(F[f]) =>
    /\ F[f].req.dev \in Devices /\ F[f].req.seq \in Nat /\ F[f].req.seen \in Nat

\* The commands on their way are finitely many.
LEMMA Finite ==
  ASSUME NEW F, NEW d
  PROVE  IsFiniteSet(CommandsOf(F, d)) /\ Cardinality(CommandsOf(F, d)) \in Nat
<1>1. CommandsOf(F, d) \subseteq Flows /\ IsFiniteSet(Flows)
  BY PanelAssumption DEF CommandsOf
<1> QED BY <1>1, FS_Subset, FS_CardinalityType

\* A command that is sent gets the next number of its axis.
LEMMA IssueNumbers ==
  ASSUME NEW F, NEW G, NEW M \in [Devices -> TableType], NEW S \in [Devices -> Nat],
         NEW R \in [Devices -> Nat], Numbered(F, M, S, R), Wired(F),
         NEW f \in Flows, ~InFlight(F[f]), InFlight(G[f]),
         \A g \in Flows \ {f} : G[g] = F[g],
         NEW d \in Devices, G[f].req.dev = d, G[f].req.reply = None,
         G[f].req.seq = M[d].issued + 1,
         G[f].req.cmd = "point_table_status" => M[d].pending = 0
  PROVE  Numbered(G, Issued(M, d, G[f].req.cmd), S, R)
<1> DEFINE r == G[f].req
           n == M[d].issued + 1
           N == Issued(M, d, r.cmd)
           poll == r.cmd = "point_table_status"
           m == IF poll THEN [M[d] EXCEPT !.issued = n]
                ELSE [M[d] EXCEPT !.issued = n, !.barrier = n, !.pending = @ + 1]
<1>1. r.cmd \in TableCommands /\ M[d] \in TableType
  BY DEF InFlight
<1>2. N = [M EXCEPT ![d] = m]
  BY <1>1 DEF Issued
<1>3. /\ M[d].issued \in Nat /\ M[d].barrier \in Nat /\ M[d].pending \in Int
      /\ M[d].barrier =< M[d].issued /\ n = M[d].issued + 1
  BY <1>1 DEF TableType, Numbered
<1>4. /\ m.issued = n /\ m.applied = M[d].applied
      /\ m.barrier = (IF poll THEN M[d].barrier ELSE n)
      /\ m.pending = (IF poll THEN M[d].pending ELSE M[d].pending + 1)
  BY <1>1 DEF TableType
<1> HIDE DEF m, n
<1>5. N[d] = m /\ \A c \in Devices \ {d} : N[c] = M[c]
  BY <1>2
<1> HIDE DEF N
<1>6. \A c \in Devices \ {d} : CommandsOf(G, c) = CommandsOf(F, c)
  BY DEF CommandsOf
<1>7. CommandsOf(G, d) = IF poll THEN CommandsOf(F, d) ELSE CommandsOf(F, d) \cup {f}
  BY DEF CommandsOf
<1>8. Cardinality(CommandsOf(G, d)) = m.pending
  <2>1. f \notin CommandsOf(F, d) /\ Cardinality(CommandsOf(F, d)) = M[d].pending
    BY DEF CommandsOf, Numbered
  <2>2. Cardinality(CommandsOf(F, d) \cup {f}) = M[d].pending + 1
    <3> DEFINE C == CommandsOf(F, d)
    <3>1. IsFiniteSet(C) /\ f \notin C /\ Cardinality(C) = M[d].pending
      BY <2>1, Finite
    <3> HIDE DEF C
    <3>2. Cardinality(C \cup {f}) = Cardinality(C) + 1
      BY <3>1, FS_AddElement
    <3> QED BY <3>1, <3>2 DEF C
  <2> QED BY <1>4, <1>7, <2>1, <2>2
<1>9. ASSUME NEW c \in Devices
      PROVE  S[c] =< R[c] /\ N[c].barrier =< N[c].issued
             /\ N[c].pending = Cardinality(CommandsOf(G, c))
  <2>1. CASE c = d
    BY <1>3, <1>4, <1>5, <1>8, <2>1 DEF Numbered
  <2>2. CASE c # d
    BY <1>5, <1>6, <2>2 DEF Numbered
  <2> QED BY <2>1, <2>2
<1>10. ASSUME NEW g \in Flows, InFlight(G[g]) PROVE InTurn(G[g].req, G, N, S, R)
  <2>1. CASE g = f
    <3>1. ~Served(r)
      BY PanelAssumption DEF Served, Replies
    <3>2. poll => CommandsOf(G, d) = {}
      <4>1. SUFFICES ASSUME poll PROVE CommandsOf(G, d) = {}
        OBVIOUS
      <4>2. Cardinality(CommandsOf(F, d)) = 0
        BY <4>1 DEF Numbered
      <4> QED BY <1>7, <4>1, <4>2, Finite, FS_EmptySet
    <3>3. r.seq = n
      BY DEF n
    <3> HIDE DEF r
    <3>4. InTurn(r, G, N, S, R)
      <4>1. r.dev = d
        BY DEF r
      <4> QED BY <1>3, <1>4, <1>5, <3>1, <3>2, <3>3, <4>1 DEF InTurn
    <3> QED BY <2>1, <3>4 DEF r
  <2>2. CASE g # f
    <3> DEFINE q == F[g].req
    <3>1. G[g].req = q /\ q.dev \in Devices /\ q.seq \in Nat /\ InTurn(q, F, M, S, R)
      BY <1>10, <2>2 DEF Wired, Numbered
    <3> HIDE DEF q, r
    <3>2. CASE q.dev # d
      BY <1>5, <1>6, <3>1, <3>2 DEF InTurn
    <3>3. CASE q.dev = d
      BY <1>3, <1>4, <1>5, <1>7, <3>1, <3>3 DEF InTurn
    <3> QED BY <3>2, <3>3
  <2> QED BY <2>1, <2>2
<1> QED BY <1>9, <1>10 DEF Numbered, N, r

\* An answer is taken or dropped, and its flow no longer has it.
LEMMA CloseNumbers ==
  ASSUME TypeOK, Numbered(flow, mp, shown, runner), Wired(flow),
         NEW f \in Flows, InFlight(flow[f]), flow[f].req.reply \in Replies,
         NEW G, ~InFlight(G[f]), \A g \in Flows \ {f} : G[g] = flow[g]
  PROVE  /\ Numbered(G, Closed(flow[f].req), Shows(flow[f].req), runner)
         /\ \A d \in Devices : shown[d] =< Shows(flow[f].req)[d]
<1> DEFINE r == flow[f].req
           d == r.dev
           T == Shows(r)
           N == Closed(r)
           poll == r.cmd = "point_table_status"
           p == IF poll THEN mp[d].pending ELSE mp[d].pending - 1
           a == IF Taken(r) THEN r.seq ELSE mp[d].applied
           m == [mp[d] EXCEPT !.pending = p, !.applied = a]
<1>1. /\ d \in Devices /\ r.seq \in Nat /\ r.seen \in Nat
      /\ r.cmd \in TableCommands /\ mp[d] \in TableType /\ InTurn(r, flow, mp, shown, runner)
  BY DEF Wired, InFlight, Numbered, TypeOK
<1>2. /\ mp[d].issued \in Nat /\ mp[d].barrier \in Nat /\ mp[d].pending \in Int
      /\ mp[d].applied \in Nat /\ mp[d].barrier =< mp[d].issued
      /\ shown[d] \in Nat /\ runner[d] \in Nat /\ shown[d] =< runner[d]
  BY <1>1 DEF TableType, Numbered, TypeOK
<1>3. N = [mp EXCEPT ![d] = m]
  <2>1. p = mp[d].pending - (IF poll THEN 0 ELSE 1)
    BY <1>2
  <2> QED BY <1>1, <2>1 DEF Closed, TypeOK
<1>4. T = IF Taken(r) THEN [shown EXCEPT ![d] = r.seen] ELSE shown
  BY <1>1 DEF Shows
<1>5. m.issued = mp[d].issued /\ m.barrier = mp[d].barrier /\ m.pending = p /\ m.applied = a
  BY <1>1 DEF TableType
<1>6. Taken(r) => Served(r) /\ r.seq >= mp[d].barrier /\ r.seq > mp[d].applied
  BY <1>1 DEF Taken, InOrder, Served, Replies
<1> HIDE DEF m, a
<1>7. N[d] = m /\ \A c \in Devices \ {d} : N[c] = mp[c]
  BY <1>1, <1>3 DEF TypeOK
<1>8. T[d] = (IF Taken(r) THEN r.seen ELSE shown[d]) /\ \A c \in Devices \ {d} : T[c] = shown[c]
  BY <1>1, <1>4 DEF TypeOK
<1> HIDE DEF N, T
<1>9. \A c \in Devices \ {d} : CommandsOf(G, c) = CommandsOf(flow, c)
  BY DEF CommandsOf
<1>10. CommandsOf(G, d) = IF poll THEN CommandsOf(flow, d) ELSE CommandsOf(flow, d) \ {f}
  BY DEF CommandsOf
<1>11. Cardinality(CommandsOf(G, d)) = p
  <2>1. ~poll => f \in CommandsOf(flow, d)
    BY DEF CommandsOf
  <2>2. Cardinality(CommandsOf(flow, d)) = mp[d].pending
    BY <1>1 DEF Numbered
  <2>3. ~poll => Cardinality(CommandsOf(flow, d) \ {f}) = mp[d].pending - 1
    BY <2>1, <2>2, Finite, FS_RemoveElement
  <2> QED BY <1>10, <2>2, <2>3
<1>12. shown[d] =< T[d] /\ T[d] =< runner[d]
  BY <1>1, <1>2, <1>6, <1>8 DEF InTurn
<1>13. ASSUME NEW c \in Devices
       PROVE  T[c] =< runner[c] /\ N[c].barrier =< N[c].issued
              /\ N[c].pending = Cardinality(CommandsOf(G, c)) /\ shown[c] =< T[c]
  <2>1. CASE c = d
    BY <1>2, <1>5, <1>7, <1>11, <1>12, <2>1
  <2>2. CASE c # d
    BY <1>7, <1>8, <1>9, <2>2 DEF Numbered, TypeOK
  <2> QED BY <2>1, <2>2
<1>14. ASSUME NEW g \in Flows, InFlight(G[g]) PROVE InTurn(G[g].req, G, N, T, runner)
  <2> DEFINE q == flow[g].req
  <2>1. g # f /\ G[g].req = q /\ q.dev \in Devices /\ q.seq \in Nat
        /\ q.seen \in Nat /\ InTurn(q, flow, mp, shown, runner)
    BY <1>14 DEF Wired, Numbered
  <2>2. q.cmd # "point_table_status" => g \in CommandsOf(flow, q.dev)
    BY <1>14, <2>1 DEF CommandsOf
  <2>3. ~poll => f \in CommandsOf(flow, d)
    BY DEF CommandsOf
  <2> HIDE DEF q, r
  <2>4. CASE q.dev # d
    BY <1>7, <1>8, <1>9, <2>1, <2>4 DEF InTurn
  <2>5. CASE q.dev = d
    <3>1. N[d].issued = mp[d].issued /\ N[d].barrier = mp[d].barrier
      BY <1>5, <1>7
    <3>2. CommandsOf(flow, d) = {} => CommandsOf(G, d) = {}
      BY <1>10
    <3>3. CASE ~Taken(r)
      <4>1. N[d].applied = mp[d].applied /\ T[d] = shown[d]
        BY <1>5, <1>7, <1>8, <3>3 DEF a
      <4> QED BY <2>1, <2>5, <3>1, <3>2, <4>1 DEF InTurn
    <3>4. CASE Taken(r)
      <4>1. N[d].applied = r.seq /\ T[d] = r.seen
        BY <1>5, <1>7, <1>8, <3>4 DEF a
      <4>2. Served(q) /\ q.seq >= mp[d].barrier /\ q.seq > r.seq => r.seen =< q.seen
        BY <1>1, <1>2, <1>6, <2>1, <2>2, <2>3, <2>5, <3>4 DEF InTurn
      <4> QED BY <2>1, <2>5, <3>1, <3>2, <4>1, <4>2 DEF InTurn
    <3> QED BY <3>3, <3>4
  <2> QED BY <2>4, <2>5
<1> QED BY <1>13, <1>14 DEF Numbered, N, T

\* The server carries a command out.
LEMMA ServeNumbers ==
  ASSUME TypeOK, Numbered(flow, mp, shown, runner), Wired(flow),
         NEW f \in Flows, InFlight(flow[f]),
         NEW G, InFlight(G[f]), \A g \in Flows \ {f} : G[g] = flow[g],
         G[f].req.dev = flow[f].req.dev, G[f].req.cmd = flow[f].req.cmd,
         G[f].req.seq = flow[f].req.seq,
         NEW R \in [Devices -> Nat], \A c \in Devices \ {flow[f].req.dev} : R[c] = runner[c],
         R[flow[f].req.dev] >= runner[flow[f].req.dev],
         flow[f].req.cmd = "point_table_status" => R = runner,
         Served(G[f].req) => G[f].req.seen = R[flow[f].req.dev]
  PROVE  Numbered(G, mp, shown, R)
<1> DEFINE r == flow[f].req
           d == r.dev
<1>1. d \in Devices /\ InTurn(r, flow, mp, shown, runner)
  BY DEF Wired, Numbered
<1>2. \A c : CommandsOf(G, c) = CommandsOf(flow, c)
  BY DEF CommandsOf
<1>3. r.cmd # "point_table_status" => f \in CommandsOf(flow, d)
  BY DEF CommandsOf
<1>4. \A c \in Devices : /\ runner[c] \in Nat /\ R[c] \in Nat /\ shown[c] \in Nat
                         /\ shown[c] =< runner[c] /\ runner[c] =< R[c]
  <2>1. ASSUME NEW c \in Devices PROVE runner[c] =< R[c]
    BY DEF TypeOK
  <2> QED BY <2>1 DEF TypeOK, Numbered
<1>5. ASSUME NEW g \in Flows, InFlight(G[g]) PROVE InTurn(G[g].req, G, mp, shown, R)
  <2>1. CASE g = f
    <3>1. G[f].req.dev = d /\ G[f].req.cmd = r.cmd /\ G[f].req.seq = r.seq
          /\ (Served(G[f].req) => G[f].req.seen = R[d])
      OBVIOUS
    <3> HIDE DEF r
    <3>2. InTurn(G[f].req, G, mp, shown, R)
      BY <1>1, <1>2, <1>4, <3>1 DEF InTurn
    <3> QED BY <2>1, <3>2
  <2>2. CASE g # f
    <3> DEFINE q == flow[g].req
    <3>1. G[g].req = q /\ q.dev \in Devices /\ q.seen \in Nat /\ InTurn(q, flow, mp, shown, runner)
      BY <1>5, <2>2 DEF Wired, Numbered
    <3>2. CommandsOf(flow, q.dev) = {} => R[q.dev] = runner[q.dev]
      BY <1>3, <3>1
    <3> HIDE DEF q, r
    <3> QED BY <1>2, <1>4, <3>1, <3>2 DEF InTurn
  <2> QED BY <2>1, <2>2
<1> QED BY <1>2, <1>4, <1>5 DEF Numbered

\* No motion of one axis is a command of the table.
LEMMA Motions ==
  \A k \in Singles \cup Sway : \A i \in DOMAIN Script[k] : Script[k][i] \notin TableCommands
<1> USE DEF TableCommands
<1>1. \A i \in DOMAIN Script["position"] : Script["position"][i] \notin TableCommands
  <2>1. Script["position"] = <<"set_mode", "move_abs">>
    BY DEF Script
  <2> QED BY <2>1
<1>2. \A i \in DOMAIN Script["incremental"] : Script["incremental"][i] \notin TableCommands
  <2>1. Script["incremental"] = <<"set_mode", "move_curve_rel">>
    BY DEF Script
  <2> QED BY <2>1
<1>3. \A i \in DOMAIN Script["gear_cam"] : Script["gear_cam"][i] \notin TableCommands
  <2>1. Script["gear_cam"] = <<"set_mode", "gear_config", "gear_start">>
    BY DEF Script
  <2> QED BY <2>1
<1>4. \A i \in DOMAIN Script["homing"] : Script["homing"][i] \notin TableCommands
  <2>1. Script["homing"] = <<"homing_start_torque">>
    BY DEF Script
  <2> QED BY <2>1
<1>5. \A i \in DOMAIN Script["curve"] : Script["curve"][i] \notin TableCommands
  <2>1. Script["curve"] = <<"set_mode", "anti_sway_run", "anti_sway_curve_abs">>
    BY DEF Script
  <2> QED BY <2>1
<1>6. \A i \in DOMAIN Script["segments"] : Script["segments"][i] \notin TableCommands
  <2>1. Script["segments"] = <<"set_mode", "anti_sway_run", "move_abs", "move_abs">>
    BY DEF Script
  <2> QED BY <2>1
<1> QED BY <1>1, <1>2, <1>3, <1>4, <1>5, <1>6 DEF Singles, Sway

\* What a step owes: the numbers stay right, and nothing older is shown.
Grows == Numbered(flow', mp', shown', runner') /\ \A d \in Devices : shown[d] =< shown'[d]

\* The invariant of the flows says what a request of theirs looks like.
LEMMA WiredHolds == ASSUME TypeOK, FlowInv PROVE Wired(flow)
  BY RequestType DEF Wired, InFlight

\* A motion is no command of the table.
LEMMA NotInFlight ==
  ASSUME TypeOK, FlowInv, NEW f \in Flows, flow[f] # None, flow[f].kind \in Singles \cup Sway
  PROVE  ~InFlight(flow[f])
  BY Motions DEF FlowInv, Shape, InFlight

\* What is shown does not go back if it does not change.
LEMMA SameShown == ASSUME TypeOK, UNCHANGED shown PROVE \A d \in Devices : shown[d] =< shown'[d]
  BY DEF TypeOK

\* A flow that changes without a table command keeps the order.
LEMMA QuietChange ==
  ASSUME PanelInv, NEW f \in Flows, ~InFlight(flow[f]), ~InFlight(flow'[f]),
         \A g \in Flows \ {f} : flow'[g] = flow[g], UNCHANGED <<mp, shown, runner>>
  PROVE  Grows
<1>1. Numbered(flow', mp, shown, runner)
  BY QuietNumbers DEF PanelInv
<1> QED BY <1>1, SameShown DEF Grows, PanelInv

\* A flow that ends without one keeps it.
LEMMA QuietEnd ==
  ASSUME PanelInv, NEW f \in Flows, ~InFlight(flow[f]), Ends(f), UNCHANGED <<mp, shown, runner>>
  PROVE  Grows
<1>1. flow'[f] = None /\ \A g \in Flows \ {f} : flow'[g] = flow[g]
  BY DEF Ends, PanelInv, TypeOK
<1>2. ~InFlight(flow'[f])
  BY <1>1 DEF InFlight
<1> QED BY <1>1, <1>2, QuietChange

\* F, B and S are what the flow function, the numbers and the page's copy are when the
\* command is sent.
LEMMA SendNumbers ==
  ASSUME TypeOK, NEW F, Wired(F), NEW B \in [Devices -> TableType], NEW S \in [Devices -> Nat],
         Numbered(F, B, S, runner), NEW f \in Flows, ~InFlight(F[f]),
         \A g \in Flows \ {f} : F[g] = flow[g], NEW fl \in FlowType, NEW d \in Devices,
         fl.at + 1 \in DOMAIN Script[fl.kind], Sends(f, fl, d, B),
         fl.kind = "poll" => B[d].pending = 0
  PROVE  Numbered(flow', mp', S, runner)
<1> DEFINE new == flow'[f]
           cmd == Script[fl.kind][fl.at + 1]
<1>1. /\ \A g \in Flows \ {f} : flow'[g] = F[g]
      /\ mp' = Issued(B, d, cmd)
      /\ new # None /\ new.stage = "sent" /\ new.req.dev = d /\ new.req.cmd = cmd
      /\ new.req.reply = None
      /\ cmd \in TableCommands => new.req.seq = B[d].issued + 1
  BY SendsEffect
<1>2. cmd = "point_table_status" => fl.kind = "poll"
  <2>1. fl.kind \in DOMAIN Script
    BY DEF FlowType
  <2> QED BY <2>1, Scripts DEF Plain
<1> HIDE DEF cmd
<1>3. CASE cmd \in TableCommands
  <2>1. InFlight(flow'[f])
    BY <1>1, <1>3 DEF InFlight
  <2>2. runner \in [Devices -> Nat]
    BY DEF TypeOK
  <2> QED BY <1>1, <1>2, <1>3, <2>1, <2>2, IssueNumbers
<1>4. CASE cmd \notin TableCommands
  <2>1. mp' = B
    BY <1>1, <1>4 DEF Issued
  <2>2. ~InFlight(flow'[f])
    BY <1>1, <1>4 DEF InFlight
  <2> QED BY <1>1, <2>1, <2>2, QuietNumbers
<1> QED BY <1>3, <1>4

\* A flow that sends its next request keeps it,
LEMMA PlainSend ==
  ASSUME PanelInv, NEW f \in Flows, ~InFlight(flow[f]), NEW fl \in FlowType, NEW d \in Devices,
         fl.at + 1 \in DOMAIN Script[fl.kind], Sends(f, fl, d, mp),
         fl.kind = "poll" => mp[d].pending = 0, UNCHANGED <<shown, runner>>
  PROVE  Grows
<1>1. mp \in [Devices -> TableType] /\ shown \in [Devices -> Nat]
  BY DEF PanelInv, TypeOK
<1>2. Numbered(flow', mp', shown, runner)
  BY <1>1, WiredHolds, SendNumbers DEF PanelInv
<1> QED BY <1>2, SameShown DEF Grows, PanelInv

\* and a flow that begins with one.
LEMMA FreshSend ==
  ASSUME PanelInv, NEW f \in Flows, flow[f] = None, NEW kind \in DOMAIN Script, NEW n \in Nat,
         Sends(f, NewFlow(kind, active, n), active, mp),
         kind = "poll" => mp[active].pending = 0, UNCHANGED <<shown, runner>>
  PROVE  Grows
<1> DEFINE fl == NewFlow(kind, active, n)
<1>1. active \in Devices
  BY DEF PanelInv, TypeOK
<1>2. fl \in FlowType /\ fl.kind = kind /\ fl.at = 0
  BY <1>1, NewFlows DEF PanelInv
<1> HIDE DEF fl
<1>3. fl.at + 1 \in DOMAIN Script[fl.kind]
  BY <1>2, Scripts
<1>4. ~InFlight(flow[f])
  BY DEF InFlight
<1>5. Sends(f, fl, active, mp)
  BY DEF fl
<1> QED BY <1>1, <1>2, <1>3, <1>4, <1>5, PlainSend

\* A request is answered, whatever it was.
LEMMA AnswerNumbers ==
  ASSUME PanelInv, NEW f \in Flows, NEW ok, Answered(f, ok), NEW G, ~InFlight(G[f]),
         \A g \in Flows \ {f} : G[g] = flow[g]
  PROVE  /\ Numbered(G, Closed(flow[f].req), Shows(flow[f].req), runner)
         /\ \A d \in Devices : shown[d] =< Shows(flow[f].req)[d]
<1>1. CASE InFlight(flow[f])
  <2>1. flow[f].req.reply \in Replies
    <3>1. flow[f].req \in Requests
      BY <1>1, RequestType DEF InFlight, PanelInv
    <3> QED BY <1>1, <3>1 DEF Answered, InFlight, Requests
  <2> QED BY <1>1, <2>1, WiredHolds, CloseNumbers DEF PanelInv
<1>2. CASE ~InFlight(flow[f])
  <2>1. flow[f].req.cmd \notin TableCommands
    BY <1>2 DEF Answered, InFlight
  <2>2. Closed(flow[f].req) = mp /\ Shows(flow[f].req) = shown
    BY <2>1 DEF Closed, Shows
  <2>3. Numbered(G, mp, shown, runner)
    BY <1>2, QuietNumbers DEF PanelInv
  <2> QED BY <2>2, <2>3 DEF PanelInv, TypeOK
<1> QED BY <1>1, <1>2

\* The start button keeps the order.
LEMMA StartGrows == ASSUME PanelInv, NEW f \in Flows, Start(f) PROVE Grows
<1>1. PICK kind \in KindsOf(mode[active]) :
        \/ UNCHANGED flow /\ UNCHANGED mp
        \/ /\ UNCHANGED mp
           /\ flow' = [flow EXCEPT ![f] = NewFlow(kind, active, 0)]
        \/ /\ UNCHANGED mp
           /\ flow' = [flow EXCEPT ![f] = [NewFlow(kind, active, 0) EXCEPT !.stage = "confirm"]]
        \/ Sends(f, NewFlow(kind, active, motion[active].seq + 1), active, mp)
  BY DEF Start, Refused
<1>2. flow[f] = None /\ UNCHANGED <<shown, runner>>
  BY DEF Start, Free
<1>3. kind \in DOMAIN Script \ {"poll"} /\ active \in Devices /\ motion[active].seq + 1 \in Nat
  BY KindsKnown DEF PanelInv, TypeOK, MotionType
<1>4. ~InFlight(flow[f])
  BY <1>2 DEF InFlight
<1>5. CASE UNCHANGED flow /\ UNCHANGED mp
  BY <1>2, <1>4, <1>5, QuietChange
<1>6. ASSUME NEW new, flow' = [flow EXCEPT ![f] = new], new.stage # "sent", UNCHANGED mp
      PROVE  Grows
  <2>1. flow'[f] = new /\ \A g \in Flows \ {f} : flow'[g] = flow[g]
    BY <1>6 DEF PanelInv, TypeOK
  <2>2. ~InFlight(flow'[f])
    BY <1>6, <2>1 DEF InFlight
  <2> QED BY <1>2, <1>4, <1>6, <2>1, <2>2, QuietChange
<1>7. NewFlow(kind, active, 0).stage = "sense"
      /\ [NewFlow(kind, active, 0) EXCEPT !.stage = "confirm"].stage = "confirm"
  BY DEF NewFlow
<1>8. CASE Sends(f, NewFlow(kind, active, motion[active].seq + 1), active, mp)
  BY <1>2, <1>3, <1>8, FreshSend
<1> QED BY <1>1, <1>5, <1>6, <1>7, <1>8

\* The other buttons and the poll keep it.
LEMMA ButtonsGrow ==
  ASSUME PanelInv, NEW f \in Flows,
         \/ Stop(f) \/ Poll(f)
         \/ \E kind \in {"set_current", "write"} : Direct(f, kind)
         \/ \E m \in Modes : setMode(f, m)
  PROVE  Grows
<1>1. motion[active].seq + 1 \in Nat /\ 0 \in Nat
  BY DEF PanelInv, TypeOK, MotionType
<1>2. {"stop", "table_stop", "set_current", "write", "mode"} \subseteq DOMAIN Script \ {"poll"}
      /\ "poll" \in DOMAIN Script
  BY DEF Script
<1>3. flow[f] = None /\ UNCHANGED <<shown, runner>>
  BY DEF Stop, Poll, Direct, setMode, Free
<1>4. CASE Stop(f)
  <2>1. CASE UNCHANGED <<flow, mp>>
    <3>1. ~InFlight(flow[f])
      BY <1>3 DEF InFlight
    <3> QED BY <1>3, <2>1, <3>1, QuietChange
  <2>2. ASSUME NEW kind \in {"stop", "table_stop"},
               Sends(f, NewFlow(kind, active, motion[active].seq + 1), active, mp)
        PROVE  Grows
    BY <1>1, <1>2, <1>3, <2>2, FreshSend
  <2> QED BY <1>4, <2>1, <2>2 DEF Stop
<1>5. CASE Poll(f)
  <2>1. mp[active].pending = 0 /\ Sends(f, NewFlow("poll", active, 0), active, mp)
    BY <1>5 DEF Poll, MayPoll
  <2> QED BY <1>1, <1>2, <1>3, <2>1, FreshSend
<1>6. ASSUME NEW kind \in {"set_current", "write"}, Direct(f, kind) PROVE Grows
  <2>1. Sends(f, NewFlow(kind, active, 0), active, mp)
    BY <1>6 DEF Direct
  <2> QED BY <1>1, <1>2, <1>3, <2>1, FreshSend
<1>7. ASSUME NEW m \in Modes, setMode(f, m) PROVE Grows
  <2>1. Sends(f, NewFlow("mode", active, 0), active, mp)
    BY <1>7 DEF setMode
  <2> QED BY <1>1, <1>2, <1>3, <2>1, FreshSend
<1> QED BY <1>4, <1>5, <1>6, <1>7

\* A request that is served keeps it.
LEMMA ServesGrows == ASSUME PanelInv, NEW f \in Flows, Serves(f) PROVE Grows
<1> DEFINE fl == flow[f]
           r == fl.req
<1>1. fl # None /\ fl.stage = "sent" /\ r.cmd \in TableCommands /\ UNCHANGED <<mp, shown>>
  BY DEF Serves
<1>2. fl \in FlowType /\ r \in Requests /\ r.dev \in Devices
  BY <1>1, RequestType DEF PanelInv
<1>3. PICK reply \in Replies, done \in BOOLEAN :
        LET changes == r.cmd # "point_table_status" /\ done
        IN  /\ runner' = IF changes THEN [runner EXCEPT ![r.dev] = @ + 1] ELSE runner
            /\ flow' = [flow EXCEPT ![f].req.reply = reply,
                                    ![f].req.seen = IF reply = "error" THEN 0 ELSE runner'[r.dev]]
  BY DEF Serves, Replies
<1>4. /\ runner' \in [Devices -> Nat] /\ runner'[r.dev] >= runner[r.dev]
      /\ \A c \in Devices \ {r.dev} : runner'[c] = runner[c]
      /\ r.cmd = "point_table_status" => runner' = runner
  BY <1>2, <1>3 DEF PanelInv, TypeOK
<1> DEFINE seen == IF reply = "error" THEN 0 ELSE runner'[r.dev]
           answered == [r EXCEPT !.reply = reply, !.seen = seen]
           new == [fl EXCEPT !.req = answered]
<1>5. flow' = [flow EXCEPT ![f] = new]
  <2> HIDE DEF seen
  <2>1. flow' = [flow EXCEPT ![f].req.reply = reply, ![f].req.seen = seen]
    BY <1>3 DEF seen
  <2>2. flow[f] \in FlowType /\ flow[f].req \in Requests
    BY <1>2
  <2> QED BY <2>1, <2>2 DEF PanelInv, TypeOK, FlowType, Requests
<1>6. reply # "error" => seen = runner'[r.dev]
  OBVIOUS
<1>7. seen \in Nat
  BY <1>2, <1>4
<1> HIDE DEF seen
<1>8. /\ answered \in Requests
      /\ answered.dev = r.dev /\ answered.cmd = r.cmd /\ answered.seq = r.seq
      /\ answered.reply = reply /\ answered.seen = seen
  BY <1>2, <1>7 DEF Requests
<1> HIDE DEF answered
<1>9. new \in FlowType /\ new # None /\ new.stage = "sent" /\ new.req = answered
  <2>1. new \in FlowType /\ new.stage = "sent" /\ new.req = answered
    BY <1>1, <1>2, <1>8 DEF FlowType
  <2> QED BY <2>1, PanelAssumption
<1> HIDE DEF new
<1>10. flow'[f] = new /\ \A g \in Flows \ {f} : flow'[g] = flow[g]
  BY <1>5 DEF PanelInv, TypeOK
<1>11. InFlight(flow[f]) /\ InFlight(flow'[f])
  BY <1>1, <1>8, <1>9, <1>10 DEF InFlight
<1>12. Served(flow'[f].req) => flow'[f].req.seen = runner'[r.dev]
  BY <1>6, <1>8, <1>9, <1>10 DEF Served
<1>13. Numbered(flow', mp, shown, runner')
  BY <1>4, <1>8, <1>9, <1>10, <1>11, <1>12, WiredHolds, ServeNumbers DEF PanelInv
<1> QED BY <1>1, <1>13, SameShown DEF Grows, PanelInv

\* A table flow that goes on keeps it.
LEMMA TableGrows ==
  ASSUME PanelInv, NEW f \in Flows, NEW ok \in BOOLEAN, TableGoesOn(f, ok)
  PROVE  Grows
<1> DEFINE fl == flow[f]
           G == [flow EXCEPT ![f] = None]
           B == Closed(fl.req)
           S == Shows(fl.req)
<1>1. Answered(f, ok) /\ fl # None /\ fl.stage = "sent" /\ fl.kind = "table"
      /\ shown' = S /\ UNCHANGED runner
  BY DEF TableGoesOn, Answered
<1>2. fl \in FlowType /\ fl.req \in Requests /\ Wired(flow)
  BY <1>1, RequestType, WiredHolds DEF PanelInv
<1>3. B \in [Devices -> TableType] /\ S \in [Devices -> Nat]
  BY <1>2, AnswerTypes DEF PanelInv
<1>4. G[f] = None /\ ~InFlight(G[f]) /\ \A g \in Flows \ {f} : G[g] = flow[g]
  BY DEF PanelInv, TypeOK, InFlight
<1> HIDE DEF G
<1>5. Numbered(G, B, S, runner) /\ \A d \in Devices : shown[d] =< S[d]
  BY <1>1, <1>4, AnswerNumbers
<1>6. Wired(G)
  BY <1>2, <1>4 DEF Wired
<1>7. CASE fl.at < 3 /\ Sends(f, fl, fl.own, B)
  <2>1. fl.own \in Devices /\ fl.at \in Nat
    BY <1>2 DEF FlowType
  <2>2. fl.at + 1 \in DOMAIN Script[fl.kind]
    BY <1>1, <1>7, <2>1, Scripts
  <2> HIDE DEF B, S
  <2>3. Numbered(flow', mp', S, runner)
    BY <1>1, <1>2, <1>3, <1>4, <1>5, <1>6, <1>7, <2>1, <2>2, SendNumbers DEF PanelInv
  <2> QED BY <1>1, <1>5, <2>3 DEF Grows
<1>8. CASE Ends(f) /\ mp' = B
  BY <1>1, <1>5, <1>8 DEF Ends, G, Grows
<1> QED BY <1>7, <1>8 DEF TableGoesOn

\* An answer keeps it.
LEMMA AnswerGrows ==
  ASSUME PanelInv, NEW f \in Flows, NEW ok \in BOOLEAN, Answer(f, ok)
  PROVE  Grows
<1>1. Answered(f, ok) /\ Ends(f) /\ UNCHANGED runner
      /\ shown' = Shows(flow[f].req) /\ mp' = Closed(flow[f].req)
  BY DEF Answer, Over
<1>2. flow'[f] = None /\ \A g \in Flows \ {f} : flow'[g] = flow[g]
  BY <1>1 DEF Ends, PanelInv, TypeOK
<1>3. ~InFlight(flow'[f])
  BY <1>2 DEF InFlight
<1> QED BY <1>1, <1>2, <1>3, AnswerNumbers DEF Grows

\* The flows that move an axis keep it.
LEMMA MotionsGrow ==
  ASSUME PanelInv, NEW f \in Flows, NEW ok \in BOOLEAN,
         SingleGoesOn(f, ok) \/ Moved(f, ok) \/ Planned(f, ok) \/ Sensed(f) \/ Waited(f)
  PROVE  Grows
<1> DEFINE fl == flow[f]
<1>1. fl # None /\ UNCHANGED <<shown, runner>>
  BY DEF SingleGoesOn, Moved, Planned, Sensed, Waited, Answered
<1>2. /\ fl \in FlowType /\ Shape(fl) /\ fl.kind \in DOMAIN Script /\ fl.at \in Nat
      /\ active \in Devices
  BY <1>1 DEF PanelInv, TypeOK, FlowInv, FlowType
<1>3. fl.kind \in Singles \cup Sway
  BY <1>1, <1>2 DEF SingleGoesOn, Moved, Planned, Sensed, Waited, Shape
<1>4. ~InFlight(flow[f]) /\ fl.kind # "poll"
  BY <1>1, <1>3, NotInFlight DEF PanelInv, Singles, Sway
<1>5. CASE Ends(f) /\ UNCHANGED mp
  BY <1>1, <1>4, <1>5, QuietEnd
<1>6. ASSUME Sends(f, fl, active, mp), fl.at + 1 \in DOMAIN Script[fl.kind] PROVE Grows
  BY <1>1, <1>2, <1>4, <1>6, PlainSend
<1>7. CASE SingleGoesOn(f, ok)
  <2>1. fl.at < Len(Script[fl.kind]) => fl.at + 1 \in DOMAIN Script[fl.kind]
    BY <1>2, Scripts
  <2> QED BY <1>5, <1>6, <1>7, <2>1 DEF SingleGoesOn
<1>8. CASE Sensed(f)
  <2>1. fl.at + 1 \in DOMAIN Script[fl.kind]
    BY <1>2, <1>8, Scripts DEF Sensed, Shape
  <2> QED BY <1>5, <1>6, <1>8, <2>1 DEF Sensed
<1>9. CASE Waited(f)
  <2>1. fl.at + 1 \in DOMAIN Script[fl.kind]
    BY <1>2, <1>9, Scripts DEF Waited, Shape
  <2> QED BY <1>5, <1>6, <1>9, <2>1 DEF Waited
<1>10. CASE Moved(f, ok)
  <2> DEFINE next == IF fl.at < Len(Script[fl.kind]) THEN "wait" ELSE "settle"
             new == [fl EXCEPT !.stage = next, !.watch = active, !.req = None]
  <2>1. CASE flow' = [flow EXCEPT ![f] = new]
    <3>1. next # "sent"
      OBVIOUS
    <3> HIDE DEF next
    <3>2. new.stage = next
      BY <1>2 DEF FlowType
    <3> HIDE DEF new
    <3>3. flow'[f] = new /\ \A g \in Flows \ {f} : flow'[g] = flow[g]
      BY <2>1 DEF PanelInv, TypeOK
    <3>4. ~InFlight(flow'[f]) /\ UNCHANGED mp
      BY <1>10, <3>1, <3>2, <3>3 DEF InFlight, Moved
    <3> QED BY <1>1, <1>4, <3>3, <3>4, QuietChange
  <2>2. UNCHANGED mp
    BY <1>10 DEF Moved
  <2> QED BY <1>5, <1>10, <2>1, <2>2 DEF Moved
<1>11. CASE Planned(f, ok)
  <2>1. fl.at = 1 => fl.at + 1 \in DOMAIN Script[fl.kind]
    BY <1>2, <1>11, Scripts DEF Planned
  <2>2. ASSUME NEW F, F = [flow EXCEPT ![f].stage = "confirm"], UNCHANGED mp,
               flow' = IF confirm = None THEN F ELSE [F EXCEPT ![confirm] = None]
        PROVE  Grows
    <3> DEFINE new == [fl EXCEPT !.stage = "confirm"]
    <3>1. F = [flow EXCEPT ![f] = new] /\ new.stage = "confirm"
      BY <1>2, <2>2 DEF PanelInv, TypeOK, FlowType
    <3> HIDE DEF new
    <3>2. \A g \in Flows : F[g] = IF g = f THEN new ELSE flow[g]
      BY <3>1 DEF PanelInv, TypeOK
    <3>3. \A g \in Flows : flow'[g] = IF g = confirm THEN None ELSE F[g]
      BY <2>2, <3>1, PanelAssumption DEF PanelInv, TypeOK
    <3>4. confirm # None => ~InFlight(flow[confirm])
      BY DEF PanelInv, FlowInv, InFlight
    <3>5. ASSUME NEW g \in Flows
          PROVE  /\ InFlight(flow'[g]) <=> InFlight(flow[g])
                 /\ InFlight(flow[g]) => flow'[g].req = flow[g].req
      <4>1. CASE g = confirm
        BY <3>3, <3>4, <4>1, PanelAssumption DEF InFlight
      <4>2. CASE g # confirm /\ g = f
        BY <1>4, <3>1, <3>2, <3>3, <4>2 DEF InFlight
      <4>3. CASE g # confirm /\ g # f
        BY <3>2, <3>3, <4>3
      <4> QED BY <4>1, <4>2, <4>3
    <3>6. Numbered(flow', mp, shown, runner)
      BY <3>5, QuietNumbers DEF PanelInv
    <3> QED BY <1>1, <2>2, <3>6, SameShown DEF Grows, PanelInv
  <2> QED BY <1>5, <1>6, <1>11, <2>1, <2>2 DEF Planned
<1> QED BY <1>7, <1>8, <1>9, <1>10, <1>11

\* An answer to the confirmation keeps it.
LEMMA ConfirmedGrows == ASSUME PanelInv, NEW ok \in BOOLEAN, Confirmed(ok) PROVE Grows
<1> DEFINE n == motion[active].seq + 1
<1>1. PICK f \in Flows : f = confirm
  BY DEF Confirmed, PanelInv, TypeOK
<1> DEFINE fl == flow[f]
           taken == [fl EXCEPT !.own = active, !.watch = active, !.seq = n, !.stage = "wait"]
<1>2. /\ fl # None /\ fl.stage = "confirm" /\ fl \in FlowType /\ Shape(fl)
      /\ UNCHANGED <<shown, runner>> /\ active \in Devices /\ n \in Nat
  BY <1>1, PanelAssumption DEF Confirmed, PanelInv, FlowInv, TypeOK, MotionType
<1>3. ~InFlight(flow[f])
  BY <1>2 DEF InFlight
<1> HIDE DEF n
<1>4. taken \in FlowType /\ taken.stage = "wait" /\ taken.kind = fl.kind /\ taken.at = fl.at
  BY <1>2 DEF FlowType
<1>5. CASE Ends(f) /\ UNCHANGED mp
  BY <1>2, <1>3, <1>5, QuietEnd
<1> HIDE DEF taken
<1>6. CASE flow' = [flow EXCEPT ![f] = taken] /\ UNCHANGED mp
  <2>1. flow'[f] = taken /\ \A g \in Flows \ {f} : flow'[g] = flow[g]
    BY <1>6 DEF PanelInv, TypeOK
  <2>2. ~InFlight(flow'[f])
    BY <1>4, <2>1 DEF InFlight
  <2> QED BY <1>2, <1>3, <1>6, <2>1, <2>2, QuietChange
<1>7. CASE fl.kind \notin Sway /\ Sends(f, taken, active, mp)
  <2>1. fl.kind = "position" /\ fl.at = 0
    BY <1>2, <1>7 DEF Shape
  <2>2. taken.at + 1 \in DOMAIN Script[taken.kind]
    BY <1>4, <2>1, Scripts DEF FlowType
  <2> QED BY <1>2, <1>3, <1>4, <1>7, <2>1, <2>2, PlainSend
<1> QED BY <1>1, <1>5, <1>6, <1>7 DEF Confirmed, taken, n

\* Every step keeps it.
LEMMA NumbersKept == ASSUME PanelInv, Next PROVE Grows
<1>1. ASSUME UNCHANGED <<flow, mp, shown, runner>> PROVE Grows
  BY <1>1, SameShown DEF PanelInv, Grows
<1>2. ASSUME Redraw \/ resetFault \/ \E d \in Devices : switchAxis(d) PROVE Grows
  BY <1>1, <1>2 DEF Redraw, resetFault, switchAxis
<1>3. ASSUME NEW f \in Flows, Settled(f) PROVE Grows
  <2>1. ~InFlight(flow[f]) /\ Ends(f) /\ UNCHANGED <<mp, shown, runner>>
    BY <1>3 DEF Settled, InFlight
  <2> QED BY <2>1, QuietEnd
<1>4. ASSUME NEW f \in Flows, PhaseGate(f) \/ Due(f) PROVE Grows
  BY <1>4, MotionsGrow DEF PhaseGate, Due
<1> QED BY <1>2, <1>3, <1>4, StartGrows, ButtonsGrow, ServesGrows, TableGrows, AnswerGrows,
        MotionsGrow, ConfirmedGrows DEF Next

\* Besides, the requests of the point table are in turn: what may still be taken is
\* not older than what is shown.
THEOREM PanelInvariant == Spec => []PanelInv
<1>1. Init => PanelInv
  <2> SUFFICES ASSUME Init PROVE PanelInv
    OBVIOUS
  <2>1. TypeOK /\ FlowInv
    BY FlowsBegin
  <2>2. \A d : CommandsOf(flow, d) = {}
    BY DEF Init, CommandsOf, InFlight
  <2>3. Cardinality({}) = 0
    BY FS_EmptySet
  <2>4. ASSUME NEW d \in Devices
        PROVE  /\ shown[d] = 0 /\ runner[d] = 0 /\ mp[d].barrier = 0 /\ mp[d].issued = 0
               /\ mp[d].pending = 0 /\ Cardinality(CommandsOf(flow, d)) = 0
    BY <2>2, <2>3 DEF Init
  <2>5. \A f \in Flows : ~InFlight(flow[f])
    BY DEF Init, InFlight
  <2>6. Numbered(flow, mp, shown, runner)
    BY <2>4, <2>5 DEF Numbered
  <2> QED BY <2>1, <2>6 DEF PanelInv
<1>2. PanelInv /\ [Next]_vars => PanelInv'
  <2> SUFFICES ASSUME PanelInv, [Next]_vars PROVE PanelInv'
    OBVIOUS
  <2>1. TypeOK' /\ FlowInv'
    BY FlowsKeep DEF PanelInv
  <2>2. CASE UNCHANGED vars
    BY <2>2 DEF vars, PanelInv, TypeOK, FlowInv, Shape, Held, Stale
  <2>3. CASE Next
    BY <2>1, <2>3, NumbersKept DEF Grows, PanelInv
  <2> QED BY <2>2, <2>3
<1> QED BY <1>1, <1>2, PTL DEF Spec

\* What the page shows of a runner never goes back behind what it has shown.
THEOREM ShownOnlyGrows == Spec => RunnerNeverGoesBack
<1>1. PanelInv /\ [Next]_vars => [\A d \in Devices : shown'[d] >= shown[d]]_vars
  <2> SUFFICES ASSUME PanelInv, Next, NEW d \in Devices PROVE shown'[d] >= shown[d]
    OBVIOUS
  <2>1. shown[d] =< shown'[d]
    BY NumbersKept DEF Grows
  <2>2. shown[d] \in Nat /\ shown'[d] \in Nat
    BY FlowsKeep DEF PanelInv, TypeOK
  <2> QED BY <2>1, <2>2
<1> QED BY <1>1, PanelInvariant, PTL DEF Spec, RunnerNeverGoesBack
=============================================================================
