------------------------------ MODULE Gateway -------------------------------
(***************************************************************************)
(* The way of a command through the HMI server (mctivity_hmi.py,           *)
(* feature_dispatch.py, feature_contract.py and the feature_*.py modules): *)
(* a request thread admits it, takes the command lock of its axis, and     *)
(* then makes up to three calls that can each fail: it waits for the servo,*)
(* writes the mode or the profile of the FV3 drive by SDO, and tells the   *)
(* daemon.  The daemon never writes the drive's mode of operation.         *)
(*                                                                         *)
(* The runs of the point table are here only as far as they share the lock,*)
(* the drive and the guard; MultiPoint has the runner itself.  Of the      *)
(* daemon the module keeps whether the gear of FV3 is engaged.             *)
(***************************************************************************)
EXTENDS Assembly

CONSTANTS
    Threads,      \* request threads
    Main,         \* bound: the only thread that gets every kind of request,
    Common,       \*   the others get these commands for FV3
    Requests,     \* the requests that may arrive
    Assemblies,   \* what the server may find when it starts
    None          \* no thread

ASSUME ThreadAssumption == Main \in Threads /\ None \notin Threads

\* What JSON leaves of a number: where the rules look for one, a payload has
\* an integer or what _strict_int raises for.
Numeric(c) == RequiredInts(c) \cup OptionalInts(c) \cup Profile
                \cup {"target_counts", "current_counts"}
ASSUME RequestAssumption ==
    \A r \in Requests : \A f \in Numeric(r.p["cmd"]) \cap DOMAIN r.p :
        r.p[f] \in Int \cup {NotInt}

\* A module without a manifest is missing, and there are finitely many.
ASSUME AssemblyAssumption ==
    /\ IsFiniteSet(DOMAIN Manifest)
    /\ \A a \in Assemblies : Found(a) \subseteq DOMAIN Manifest

Axes == {"mctivity", "fv3"}

VARIABLES
    asm,      \* the assembly of the running server
    thread,   \* the request a thread serves and what it has still to do
    lock,     \* holder of _COMMAND_LOCKS[device], or None
    run,      \* the point-table run of an axis
    drive,    \* mode of operation (0x6060) of the FV3 drive
    rates,    \* for each register of the drive's profile the thread whose
              \*   request has written it, or None if that request is over
    gear,     \* the daemon has the gear of FV3 engaged
    late      \* what the abandoned calls may still do to the gear

fv3  == <<drive, rates, gear, late>>
vars == <<asm, thread, lock, run, fv3>>

\* The segments lead from the current position to the target, never back.
Leads(from, targets, to) ==
    LET way == <<from>> \o targets IN
    /\ way[Len(way)] = to
    /\ \A i \in 2..Len(way) : (way[i] - way[i - 1]) * (to - from) >= 0

\* The daemon takes the command, with the numbers that were sent; a zero may
\* stand for its default, and makes it refuse a homing's timeout.
ZeroIsFree == Decels \cup Profile \cup {"move_ms", "torque_hold_ms"}
Executable(c, p) ==
    /\ \A f \in DaemonRefuses(c, p) : f = "timeout_ms" /\ Get(p, f, 1) = 0
    /\ \A f \in DaemonSupplies(c, p) : f \in ZeroIsFree /\ Get(p, f, 1) = 0

\* What the properties say of an answer, as a set of shortcomings.
Flaws(refusal, p) ==
    {f \in {"unusable", "unexplained", "detour"} :
       CASE f = "unusable"    -> /\ refusal = "none"
                                 /\ ~Executable(p["cmd"], Clean(p))
         [] f = "unexplained" -> /\ refusal = "unsanitary" /\ p["cmd"] = "move_abs"
                                 /\ Blame(p) \notin AtFault(p) \cup Suspected(p)
         [] f = "detour"      ->
              /\ refusal = "none" /\ p["cmd"] = "anti_sway_run"
              /\ ~Leads(SwayRequest(p).from, PreparedRun(p).segments,
                        SwayRequest(p).to)}

\* The profile of the drive: 0x6081, 0x6083 and 0x6084, in the order they are
\* written, and those a payload gives: a zero is not written.
ProfileOrder == <<"velocity", "acceleration", "deceleration">>
Registers    == {"velocity", "acceleration", "deceleration"}
Gives(p) ==
    {g \in Registers :
       IF g = "velocity" THEN Get(p, "speed_rpm", 0) > 0
                         ELSE Get(p, "acceleration_rpm_s", 0) > 0}

NoRequest == [refusal |-> "none", cmd |-> "none", mode |-> "none", dev |-> "none",
              key |-> "none", gives |-> {}, flaws |-> {}]

\* What the server makes of a request.
Outcome(r, s) ==
    LET p  == r.p
        no == Refusal(r, s)
        noted == [NoRequest EXCEPT !.refusal = no, !.flaws = Flaws(no, p)] IN
    IF no # "none" THEN noted
    ELSE [noted EXCEPT !.cmd = p["cmd"], !.mode = Get(p, "mode", "none"),
            !.dev = NormalDevice(Get(p, "device", "mctivity"), s.capabilities),
            !.key = FeatureKey(s.registry, p),
            !.gives = IF p["cmd"] \in Moves THEN Gives(p) ELSE {}]
Servers  == [a \in Assemblies |-> Server(a)]
Outcomes == [a \in Assemblies |-> {Outcome(r, Servers[a]) : r \in Requests}]

\* The features whose handler prepares a command on the drive of FV3.
Preparers(c) ==
    CASE c \in Moves \cup {"move_curve_rel"} -> {"position", "incremental"}
      [] c \in GearSetup                     -> {"gear_cam"}
      [] c = "homing_start_torque"           -> {"homing"}
      [] OTHER                               -> Handled

\* No registry hands a command or a mode to a handler that does not prepare it.
\* The code does not look; feature_registry.json and the built-in one are so.
RegistriesFit ==
    \A a \in Assemblies : \A q \in Outcomes[a] :
        q.key \in Handled =>
          /\ q.key \in Preparers(q.cmd)
          /\ q.cmd = "set_mode" /\ q.key # "anti_sway_position"
               => q.mode \in OwnModes(q.key)

Idle == [todo |-> <<>>, req |-> NoRequest]

If(condition, step) == IF condition THEN <<step>> ELSE <<>>

\* guarded_axis_command and the handlers: the steps of a request.
Steps(q) ==
    CASE q.cmd \in {"none", "status", "point_table_status", "point_table_write"}
                   \cup SwayCommands              -> <<"answer">>
      [] q.cmd = "point_table_run"                ->
           <<"reserve", "ready", "launch">> \o If(q.dev = "fv3", "drive")
             \o <<"send", "start">>
      [] q.cmd = "point_table_clear"              -> <<"clear">>
      [] q.cmd \in {"stop", "point_table_stop"}   -> <<"stop", "send">>
      [] OTHER ->
           <<"guard">>
             \o If(WaitsForReady(q.key, q.cmd), "wait")
             \o If(q.dev = "fv3" /\ WritesProfile(q.key, q.cmd), "profile")
             \o If(q.dev = "fv3" /\ DriveMode(q.key, q.cmd, q.mode) # {}, "drive")
             \o <<"send">>

Init ==
    /\ asm \in {a \in Assemblies : Serves(a)}
    /\ thread = [t \in Threads |-> Idle]
    /\ lock = [d \in Axes |-> None]
    /\ run = [d \in Axes |-> "free"]
    /\ drive \in {PP, CSP}
    /\ rates = [g \in Registers |-> None]
    /\ gear = FALSE
    /\ late = {}

-----------------------------------------------------------------------------
At(t, step) == thread[t].todo # <<>> /\ Head(thread[t].todo) = step
Dev(t)      == thread[t].req.dev
Cmd(t)      == thread[t].req.cmd
Advance(t)  == thread' = [thread EXCEPT ![t].todo = Tail(@)]
Leave(t)    == thread' = [thread EXCEPT ![t] = Idle]
LockFree(d) == lock[d] = None
Lock(t)     == LockFree(Dev(t)) /\ lock' = [lock EXCEPT ![Dev(t)] = t]
Unlock(t)   == lock' = [d \in Axes |-> IF lock[d] = t THEN None ELSE lock[d]]

\* A run keeps its axis until its request thread is through as well.
Preparing(d) ==
    \E t \in Threads : /\ Dev(t) = d /\ Cmd(t) = "point_table_run"
                       /\ thread[t].todo # <<>> /\ ~At(t, "reserve")
Busy(d) == run[d] # "free" \/ Preparing(d)

\* _request_abort.
Aborted(d, retry) ==
    [run EXCEPT ![d] =
       IF @ \in {"preparing", "running"} \/ (retry /\ @ = "unconfirmed")
         THEN "stopping" ELSE @]

\* The request ends with an exception (or an answer that says it failed): the
\* lock is given back and a run that was being launched is cancelled.
Fail(t) ==
    /\ Leave(t) /\ Unlock(t)
    /\ run' = IF Cmd(t) = "point_table_run" THEN Aborted(Dev(t), FALSE) ELSE run

Receive(t) ==
    /\ thread[t] = Idle
    /\ \E q \in Outcomes[asm] :
          /\ t # Main => q.cmd \in Common /\ q.dev = "fv3"
          /\ thread' = [thread EXCEPT ![t] = [todo |-> Steps(q), req |-> q]]
    /\ UNCHANGED <<asm, lock, run, fv3>>

Answer(t) ==
    /\ At(t, "answer") /\ Leave(t)
    /\ UNCHANGED <<asm, lock, run, fv3>>

\* A command that does not belong to a run: refused while the axis is busy,
\* unless it disables the servo.
Guard(t) ==
    /\ At(t, "guard")
    /\ \/ /\ ~Busy(Dev(t)) \/ Cmd(t) = "disable"
          /\ Lock(t) /\ Advance(t)
          /\ run' = Aborted(Dev(t), TRUE)
       \/ /\ Busy(Dev(t)) /\ Cmd(t) # "disable"
          /\ LockFree(Dev(t)) /\ Leave(t) /\ UNCHANGED lock
          /\ run' = IF Cmd(t) \in {"set_mode", "homing_stop", "gear_stop"}
                      THEN Aborted(Dev(t), FALSE) ELSE run
    /\ UNCHANGED <<asm, fv3>>

Stop(t) ==
    /\ At(t, "stop")
    /\ \/ Busy(Dev(t)) /\ LockFree(Dev(t)) /\ Leave(t) /\ UNCHANGED lock
       \/ ~Busy(Dev(t)) /\ Lock(t) /\ Advance(t)
    /\ run' = Aborted(Dev(t), TRUE)
    /\ UNCHANGED <<asm, fv3>>

Clear(t) ==
    /\ At(t, "clear") /\ LockFree(Dev(t)) /\ Leave(t)
    /\ run' = Aborted(Dev(t), FALSE)
    /\ UNCHANGED <<asm, lock, fv3>>

\* wait_motion_ready: ready, not ready in time, or a status call raises.
Wait(t) ==
    /\ At(t, "wait")
    /\ \/ Advance(t) /\ UNCHANGED <<lock, run>>
       \/ Fail(t)
    /\ UNCHANGED <<asm, fv3>>

Written(S, by) == [g \in Registers |-> IF g \in S THEN by ELSE rates[g]]

\* _apply_fv3_profile_from_payload: up to three writes, only of what is given;
\* one may raise, and may have been done all the same.
WriteProfile(t) ==
    LET gives == thread[t].req.gives IN
    /\ At(t, "profile")
    /\ \/ Advance(t) /\ rates' = Written(gives, t) /\ UNCHANGED <<lock, run>>
       \/ /\ Fail(t)
          /\ \E n \in 0..3 :
               rates' = Written(gives \cap {ProfileOrder[i] : i \in 1..n}, None)
    /\ UNCHANGED <<asm, drive, gear, late>>

\* fv3_set_mode, fv3_force_csp: written; or it raises, written or not.
\* Faulty: the table runs in the mode selected before.
CodeFor_X(q) ==
    IF q.cmd = "point_table_run" THEN drive
    ELSE CHOOSE code \in DriveMode(q.key, q.cmd, q.mode) : TRUE
CodeFor(q) ==
    IF q.cmd = "point_table_run" THEN ModeCode("multi_point")
    ELSE CHOOSE code \in DriveMode(q.key, q.cmd, q.mode) : TRUE

WriteDrive(t) ==
    /\ At(t, "drive")
    /\ \/ Advance(t) /\ drive' = CodeFor(thread[t].req) /\ UNCHANGED <<lock, run>>
       \/ Fail(t) /\ drive' \in {drive, CodeFor(thread[t].req)}
    /\ UNCHANGED <<asm, rates, gear, late>>

\* The commands that leave the gear of FV3 alone; all others disengage it.
\* fv3_command keeps a mode it does not know from the daemon.
SparesGear(q) ==
    \/ q.dev # "fv3"
    \/ q.cmd \in {"gear_config", "homing_stop"}
    \/ q.cmd = "set_mode" /\ q.mode \notin Fv3Modes
Geared(q) == IF SparesGear(q) THEN gear ELSE q.cmd = "gear_start"

\* The last step of a request, but for the start of a run.
Told(t) ==
    /\ UNCHANGED run
    /\ IF Cmd(t) = "point_table_run" THEN Advance(t) /\ UNCHANGED lock
                                     ELSE Leave(t) /\ Unlock(t)

\* _transport_command, motiond_command: executed and answered; refused; or it
\* raises, after which it was executed, was lost, or is executed later.
Send(t) ==
    LET q == thread[t].req IN
    /\ At(t, "send")
    /\ \/ Told(t) /\ gear' = Geared(q) /\ UNCHANGED late
       \/ Fail(t) /\ gear' \in {gear, Geared(q)} /\ UNCHANGED late
       \/ /\ Fail(t) /\ ~SparesGear(q) /\ UNCHANGED gear
          /\ late' = late \cup {IF q.cmd = "gear_start" THEN "engage" ELSE "clear"}
    /\ rates' = IF q.dev = "fv3" /\ q.cmd \in Moves
                  THEN Written({g \in Registers : rates[g] = t}, None) ELSE rates
    /\ UNCHANGED <<asm, drive>>

\* Calls on different connections are served in any order.
DeliverLate ==
    /\ \E k \in late : gear' \in {gear, k = "engage"} /\ late' = late \ {k}
    /\ UNCHANGED <<asm, thread, lock, run, drive, rates>>

-----------------------------------------------------------------------------
(* The run of a point table.                                               *)

Reserve(t) ==
    /\ At(t, "reserve") /\ LockFree(Dev(t))
    /\ \/ Leave(t) /\ UNCHANGED run           \* busy, or the table is empty
       \/ /\ ~Busy(Dev(t)) /\ Advance(t)
          /\ run' = [run EXCEPT ![Dev(t)] = "preparing"]
    /\ UNCHANGED <<asm, lock, fv3>>

Ready(t) ==
    /\ At(t, "ready")
    /\ \/ Advance(t) /\ UNCHANGED <<lock, run>>
       \/ thread' = [thread EXCEPT ![t].todo = <<"release">>] /\ UNCHANGED <<lock, run>>
       \/ Fail(t)
    /\ UNCHANGED <<asm, fv3>>

\* The servo was not ready: the reservation is released if it still holds.
Release(t) ==
    /\ At(t, "release") /\ LockFree(Dev(t)) /\ Leave(t)
    /\ run' = [run EXCEPT ![Dev(t)] = IF @ = "preparing" THEN "free" ELSE @]
    /\ UNCHANGED <<asm, lock, fv3>>

\* The run may have been cancelled while no lock was held.
Launch(t) ==
    /\ At(t, "launch")
    /\ \/ run[Dev(t)] = "preparing" /\ Lock(t) /\ Advance(t)
       \/ run[Dev(t)] # "preparing" /\ LockFree(Dev(t)) /\ Leave(t) /\ UNCHANGED lock
    /\ UNCHANGED <<asm, run, fv3>>

Start(t) ==
    /\ At(t, "start") /\ Leave(t) /\ Unlock(t)
    /\ run' = [run EXCEPT ![Dev(t)] = "running"]
    /\ UNCHANGED <<asm, fv3>>

\* A row is a move under the command lock; it fails, or the run goes on or ends.
Row(d) ==
    /\ run[d] = "running" /\ LockFree(d)
    /\ run' \in {run, [run EXCEPT ![d] = "free"], [run EXCEPT ![d] = "stopping"]}
    /\ gear' \in {gear, IF d = "fv3" THEN FALSE ELSE gear}
    /\ UNCHANGED <<asm, thread, lock, drive, rates, late>>

\* The stop thread confirms standstill, or gives up.
StopThread(d) ==
    /\ run[d] = "stopping" /\ LockFree(d)
    /\ \E end \in {"free", "unconfirmed"} : run' = [run EXCEPT ![d] = end]
    /\ gear' \in {gear, IF d = "fv3" THEN FALSE ELSE gear}
    /\ UNCHANGED <<asm, thread, lock, drive, rates, late>>

-----------------------------------------------------------------------------
\* The server restarts; the daemon and the drive go on.
Restart ==
    /\ asm' \in {a \in Assemblies : Serves(a)}
    /\ thread' = [t \in Threads |-> Idle]
    /\ lock' = [d \in Axes |-> None]
    /\ run' = [d \in Axes |-> "free"]
    /\ rates' = [g \in Registers |-> None]
    /\ UNCHANGED <<drive, gear, late>>

DaemonRestart ==
    /\ gear' = FALSE /\ late' = {}
    /\ UNCHANGED <<asm, thread, lock, run, drive, rates>>

Next ==
    \/ \E t \in Threads :
          \/ Receive(t) \/ Answer(t) \/ Guard(t) \/ Stop(t) \/ Clear(t)
          \/ Wait(t) \/ WriteProfile(t) \/ WriteDrive(t) \/ Send(t)
          \/ Reserve(t) \/ Ready(t) \/ Release(t) \/ Launch(t) \/ Start(t)
    \/ \E d \in Axes : Row(d) \/ StopThread(d)
    \/ DeliverLate \/ Restart \/ DaemonRestart

Spec == Init /\ [][Next]_vars

-----------------------------------------------------------------------------
(* Properties.                                                             *)

\* What a module needs: directly or through at most n others, or at all.
WithRequired(S) == S \cup UNION {Manifest[k].requires : k \in S}
Within(m) ==
    LET within[n \in Nat] ==
          IF n = 0 THEN {m}
          ELSE LET nearer == within[n - 1] IN WithRequired(nearer)
    IN  within
Needs(m) == Within(m)[Cardinality(DOMAIN Manifest)]

\* The modules that have all they need, directly or not: what an assembly
\* ought to load, and (a constant of each assembly) whether it does.
Available == [a \in Assemblies |-> {m \in Found(a) : Needs(m) \subseteq Found(a)}]
Sound ==
    [a \in Assemblies |->
       /\ Loaded(a) = Available[a]
       /\ \A m \in Requested(a) \ Loaded(a) :
             \E w \in Warnings(a) : Len(w) > 1 /\ w[2] = m
       /\ Healthy(a) => a.profile # Unreadable /\ Loaded(a) = Requested(a)]

\* A module is loaded exactly if everything it needs was found, however many
\* modules lie between; whatever was asked for and left out is reported, so
\* that a server that calls itself healthy has all of its profile
\* (_build_module_runtime, /api/health/modular).
AssemblyIsSound == Sound[asm]

\* A command that gets past the admission belongs to a feature one of whose
\* logic modules is loaded with all it needs, for a device that is assembled;
\* and no anti-sway curve is sent unless execution was enabled.
AdmittedIsAssembled ==
    \A t \in Threads :
        LET q == thread[t].req
            registry == Servers[asm].registry IN
        q.cmd \notin {"none", "status"} =>
          /\ q.dev \in Axes
          /\ DeviceCapability(q.dev) \subseteq Servers[asm].capabilities
          /\ q.key \in Handled =>
               \E i \in DOMAIN registry :
                  registry[i].key = q.key /\ registry[i].logic \cap Available[asm] # {}
          /\ q.cmd \in CurveCommands => asm.execute

\* The daemon refuses no admitted command for its numbers and executes it with
\* the ones that were sent, but for a zero: it stands for the daemon's default
\* where it is a speed, an acceleration, a deceleration, a duration of a move
\* or a hold time, and a homing whose timeout_ms is 0 is admitted and refused.
\* A bound without the other and the second of two synonyms are passed over
\* (_validate_command_numbers against find_u32, find_i32 and their users).
AdmittedIsUsable == \A t \in Threads : "unusable" \notin thread[t].req.flaws

\* The answer to a refused move_abs names a field that it was refused for, or
\* one that the answer judges more strictly than the check: a zero, or a target
\* outside its bounds, which may be named before the real fault
\* (_sanitize_rejection_detail against _validate_command_numbers).
RefusalIsExplained == \A t \in Threads : "unexplained" \notin thread[t].req.flaws

\* The segments an anti-sway run is prepared with lead from the current
\* position to the target without turning back, whatever the rounding of the
\* quarters (_execution_segments).
SegmentsLeadOn == \A t \in Threads : "detour" \notin thread[t].req.flaws

\* When the daemon is told, the drive is still as the same request has left
\* it, whatever other requests and runs do: a command for the controlled
\* position loop finds CSP, a selected mode its own mode, a move what it has
\* given of its profile.  (What it has not given, or as 0, the drive still has
\* from some request before.  A command that no entry of a custom registry owns
\* has no handler.)
SendsAsPrepared ==
    \A t \in Threads :
        (At(t, "send") /\ Dev(t) = "fv3" /\ thread[t].req.key \in Handled) =>
          /\ Cmd(t) \in {"move_curve_rel", "homing_start_torque"} \cup GearSetup
               => drive = CSP
          /\ Cmd(t) = "set_mode" /\ thread[t].req.key # "anti_sway_position"
               => drive = ModeCode(thread[t].req.mode)
          /\ Cmd(t) \in Moves =>
               \A g \in Registers : g \in thread[t].req.gives => rates[g] = t

\* The rows of a table on FV3 are profile positions: as long as a run goes on
\* nothing takes the drive out of that mode.
TableRunsInPp == run["fv3"] = "running" => drive = PP

\* "Electronic gearing stays in CSP" (_fv3_mode_code_from_name): once every
\* request is answered, an engaged gear finds its drive in CSP.
GearingStaysInCsp ==
    (gear /\ late = {} /\ \A t \in Threads : thread[t] = Idle) => drive = CSP

=============================================================================
