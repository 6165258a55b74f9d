----------------------------- MODULE MultiPoint -----------------------------
(***************************************************************************)
(* The multi-point runner of one axis (mctivity_hmi/feature_multi_point.py)*)
(*                                                                         *)
(* Every HTTP request runs in a thread of its own (Clients); a run of the  *)
(* point table has a worker thread, and every stop attempt a stop thread.  *)
(* The code synchronises them with two locks.  Each block under the        *)
(* process-wide _LOCK is short and makes no call that can block: it is one *)
(* action here.  The per-axis command lock is held across calls to the     *)
(* motion daemon, so it is a variable (cmdLock) and the steps made under it*)
(* are separate actions.                                                   *)
(*                                                                         *)
(* The daemon and the drive are the environment.  A command of the runner  *)
(* is answered, refused, or raises (socket timeout, connection reset); a   *)
(* command that raised may have been executed, may have been lost, or may  *)
(* be executed later by a daemon that was not scheduled in time (late).    *)
(* The daemon serves its sockets by slot, not in the order of arrival: what*)
(* waits there when another command is answered is executed before or after*)
(* that one, but before its next cycle (due).                              *)
(*                                                                         *)
(* A definition whose name ends in _X is a faulty variant of the one after *)
(* it: no specification uses it; it shows which mistake a property finds.  *)
(***************************************************************************)
EXTENDS Naturals, FiniteSets

CONSTANTS
    Clients,    \* request threads of the HTTP server
    Workers,    \* identities of worker threads (a dead one is reused)
    Stoppers,   \* identities of stop threads (a dead one is reused)
    None,       \* "no thread"
    Commands,   \* the commands the requests carry
    MaxRuns,    \* bound: number of accepted starts
    MaxRows,    \* bound: enabled rows of a table
    MaxCycles,  \* bound: cycle_count of a run
    MaxLate     \* bound: abandoned commands on their way

ASSUME ThreadAssumption ==
    /\ None \notin Clients \cup Workers \cup Stoppers
    /\ Clients \cap Workers = {}
    /\ Clients \cap Stoppers = {}
    /\ Workers \cap Stoppers = {}

AllCommands == {"run", "stop", "write", "clear", "move", "cancel", "disable"}

ASSUME CommandAssumption == Commands \subseteq AllCommands

ASSUME BoundAssumption ==
    /\ MaxRuns \in Nat
    /\ MaxRows \in Nat
    /\ MaxCycles \in Nat \ {0}
    /\ MaxLate \in Nat

VARIABLES
    runner,     \* _RUNNERS[device]
    table,      \* number of enabled rows of _TABLES[device]
    seq,        \* _RUN_SEQUENCES[device]
    event,      \* the threading.Event of every run
    eventReg,   \* the run whose event is _STOP_EVENTS[device], or 0
    cmdLock,    \* holder of _COMMAND_LOCKS[device], or None
    client,     \* request threads
    worker,     \* worker threads
    workerReg,  \* _THREADS[device], or None
    stopper,    \* stop threads
    stopReg,    \* _STOP_THREADS[device], or None
    axis,       \* the daemon's motion state of this axis
    late,       \* kinds of the abandoned commands not yet executed
    due,        \* those the daemon executes before its next cycle
    advanced    \* watchers for whom the cycle counter advanced

runVars    == <<runner, table, seq>>
eventVars  == <<event, eventReg>>
threadVars == <<worker, workerReg, stopper, stopReg>>
axisVars   == <<axis, late, due>>
\* Frames of the steps of a worker, a stop thread and a request.
workerRest  == <<table, seq, eventVars, workerReg, stopper, stopReg, cmdLock,
                 client, axisVars, advanced>>
stopperRest == <<table, seq, eventVars, worker, workerReg, stopReg, client>>
requestRest == <<eventVars, threadVars, cmdLock, axisVars, advanced>>
vars == <<runVars, eventVars, threadVars, cmdLock, client, axisVars, advanced>>

Runs    == 1..MaxRuns
RunIds  == 0..MaxRuns                      \* 0 stands for run_id None
Threads == Clients \cup Workers \cup Stoppers

RunnerStates ==
    {"idle", "starting", "running", "stopping", "stopped", "error", "complete"}

DefaultRunner ==
    [id |-> 0, state |-> "idle", running |-> FALSE, preparing |-> FALSE,
     stopRequested |-> FALSE, stopConfirmed |-> FALSE,
     executionError |-> FALSE, stopError |-> FALSE,
     completedRows |-> 0, cycleCount |-> 0]

IdleClient  == [pc |-> "idle", cmd |-> "none", run |-> 0, rows |-> 0,
                cycles |-> 0, ready |-> FALSE]
IdleWorker  == [pc |-> "idle", run |-> 0, rows |-> 0, cycles |-> 0,
                row |-> 0, cycle |-> 0, based |-> FALSE]
IdleStopper == [pc |-> "idle", run |-> 0, based |-> FALSE, still |-> FALSE,
                confirmed |-> FALSE]

-----------------------------------------------------------------------------
(* What the guards of the code read.                                       *)

WorkerAlive  == workerReg # None /\ worker[workerReg].pc # "idle"
StopperAlive == stopReg # None /\ stopper[stopReg].pc # "idle"

\* Faulty: an unconfirmed stop does not count, or every cancelled run does.
RunnerBusy_Unconfirmed_X ==
    runner.running \/ runner.preparing \/ runner.state = "stopping"
RunnerBusy_Confirmed_X ==
    runner.running \/ runner.preparing \/ runner.stopRequested

RunnerBusy ==
    \/ runner.running
    \/ runner.preparing
    \/ runner.stopRequested /\ ~runner.stopConfirmed
    \/ runner.state \in {"starting", "running", "stopping"}

\* _runner_active_locked; faulty: a thread does not outlive what it reported.
RunnerActive_X == RunnerBusy
RunnerActive   == RunnerBusy \/ WorkerAlive \/ StopperAlive

\* _next_run_id_locked, and a faulty variant that counts twice.
NextRunId_X == seq + 2
NextRunId == seq + 1

IsCurrent(r) == runner.id = r

\* the condition of _update_current_runner
MayUpdate(r) == IsCurrent(r) /\ ~runner.stopRequested

Lock(t)     == cmdLock = None /\ cmdLock' = t
LockFree_X  == UNCHANGED cmdLock                    \* faulty: does not wait
LockFree    == cmdLock = None /\ UNCHANGED cmdLock  \* taken and given back
Unlock_X(t) == cmdLock = t /\ UNCHANGED cmdLock     \* faulty: keeps the lock
Unlock(t)   == cmdLock = t /\ cmdLock' = None

-----------------------------------------------------------------------------
(* Commands of the daemon.  "clear" is set_mode or disable, "cancel" any   *)
(* other command that may end a motion, "other" a motion that is not a row.*)

AtRest(a) == [a EXCEPT !.motion = "none", !.decel = FALSE]

Executed(kind) ==
    CASE kind = "row" -> {[axis EXCEPT !.motion = "row", !.decel = FALSE,
                                       !.near = n] : n \in BOOLEAN}
      [] kind = "other" -> {axis, [axis EXCEPT !.motion = "other",
                                               !.decel = FALSE, !.near = FALSE]}
      [] kind = "stop" -> {[axis EXCEPT !.decel = (axis.motion # "none")]}
      [] kind = "clear" -> {AtRest(axis)}
      [] kind = "cancel" -> {axis, AtRest(axis)}

\* poll_server: a call was served, and every other socket is before the cycle.
Served == due' = due \cup late /\ late' = {}

RpcOk(kind) == axis' \in Executed(kind) /\ Served

\* Refused, or raised: not executed, executed without an answer, or abandoned.
RpcFails(kind) ==
    \/ UNCHANGED axisVars
    \/ RpcOk(kind)
    \/ /\ Cardinality(late) + Cardinality(due) < MaxLate
       /\ late' = late \cup {kind} /\ UNCHANGED <<axis, due>>

\* The daemon gets to a command whose sender gave up, or never does; there may
\* be another of its kind.
DeliverLate ==
    /\ \E kind \in late \cup due :
          /\ axis' \in Executed(kind) \cup {axis}
          /\ \/ kind \in late /\ late' \in {late, late \ {kind}} /\ UNCHANGED due
             \/ kind \in due /\ due' \in {due, due \ {kind}} /\ UNCHANGED late
    /\ UNCHANGED <<runVars, eventVars, threadVars, cmdLock, client, advanced>>

\* One 1 ms cycle: a motion goes on or ends, then the moving flag of the
\* status is recomputed and the cycle counter advances.
AxisCycle ==
    /\ due = {}
    /\ \E ends \in (IF axis.motion = "none" THEN {FALSE} ELSE BOOLEAN) :
          axis' = [motion   |-> IF ends THEN "none" ELSE axis.motion,
                   decel    |-> axis.decel /\ ~ends,
                   near     |-> axis.near \/ (ends /\ axis.motion = "row"
                                                   /\ ~axis.decel),
                   reported |-> axis.motion # "none" /\ ~ends]
    /\ advanced' = {w \in Workers : worker[w].pc = "wait" /\ worker[w].based}
                   \cup {s \in Stoppers : stopper[s].pc = "watch"
                                          /\ stopper[s].based}
    /\ UNCHANGED <<runVars, eventVars, threadVars, cmdLock, client, late, due>>

-----------------------------------------------------------------------------
(* _request_abort: the one place where a run is cancelled.                 *)

Faulted(err) ==
    IF err /\ ~runner.executionError
      THEN [runner EXCEPT !.executionError = TRUE,
                          !.state = IF runner.stopConfirmed THEN "error" ELSE @]
      ELSE runner

NewAttempt(retry) ==
    ~StopperAlive /\ (runner.stopRequested => retry /\ ~runner.stopConfirmed)

\* Faulty: a new attempt forgets the error of the run.
Stopping_X(err) ==
    [runner EXCEPT !.running = TRUE, !.state = "stopping",
        !.stopRequested = TRUE, !.stopConfirmed = FALSE, !.stopError = FALSE,
        !.executionError = err]

Stopping(err) ==
    [Faulted(err) EXCEPT !.running = TRUE, !.state = "stopping",
        !.stopRequested = TRUE, !.stopConfirmed = FALSE, !.stopError = FALSE]

StartStopper(err) ==
    /\ runner' = Stopping(err)
    /\ \E s \in Stoppers :
          /\ stopper[s].pc = "idle"
          /\ stopper' = [stopper EXCEPT ![s] = [IdleStopper EXCEPT
                             !.pc = "lock", !.run = runner.id]]
          /\ stopReg' = s

SetEvent ==
    event' = [r \in Runs |-> event[r] \/ r = eventReg]

RequestAbort(r, err, retry) ==
    \/ /\ ~IsCurrent(r)
       /\ UNCHANGED <<runner, event, stopper, stopReg>>
    \/ /\ IsCurrent(r)
       /\ SetEvent
       /\ \/ NewAttempt(retry) /\ StartStopper(err)
          \/ /\ ~NewAttempt(retry)
             /\ runner' = Faulted(err)
             /\ UNCHANGED <<stopper, stopReg>>

-----------------------------------------------------------------------------
(* Request threads.                                                        *)

Answer(c) == client' = [client EXCEPT ![c] = IdleClient]
Goto(c, pc) == client' = [client EXCEPT ![c].pc = pc]

\* A request passed the HTTP checks and was routed to the runner.
Request(c, cmd) ==
    /\ client[c].pc = "idle"
    /\ client' = [client EXCEPT ![c] = [IdleClient EXCEPT !.pc = "wait",
                                                          !.cmd = cmd]]
    /\ UNCHANGED <<runVars, requestRest>>

\* _write_table: no command lock.
WriteTable(c) ==
    /\ client[c].pc = "wait" /\ client[c].cmd = "write"
    /\ IF RunnerActive THEN UNCHANGED table ELSE table' \in 0..MaxRows
    /\ Answer(c)
    /\ UNCHANGED <<runner, seq, requestRest>>

\* _clear_table
ClearTable(c) ==
    /\ client[c].pc = "wait" /\ client[c].cmd = "clear"
    /\ LockFree
    /\ \/ /\ RunnerActive
          /\ IF runner.stopRequested
               THEN UNCHANGED <<runner, event, stopper, stopReg>>
               ELSE RequestAbort(runner.id, FALSE, FALSE)
          /\ UNCHANGED <<table, eventReg, workerReg>>
       \/ /\ ~RunnerActive
          /\ table' = 0
          /\ runner' = DefaultRunner
          /\ eventReg' = 0
          /\ workerReg' = None
          /\ stopReg' = None
          /\ UNCHANGED <<event, stopper>>
    /\ Answer(c)
    /\ UNCHANGED <<seq, worker, axisVars, advanced>>

\* _start_table, reservation; at the bound a start is refused.
StartReserve(c) ==
    /\ client[c].pc = "wait" /\ client[c].cmd = "run"
    /\ LockFree
    /\ \/ /\ RunnerActive \/ table = 0 \/ seq = MaxRuns
          /\ Answer(c)
          /\ UNCHANGED <<runner, seq, eventVars>>
       \/ /\ ~RunnerActive /\ table > 0 /\ seq < MaxRuns
          /\ seq' = NextRunId
          /\ runner' = [DefaultRunner EXCEPT !.id = NextRunId,
                           !.state = "starting", !.running = TRUE,
                           !.preparing = TRUE]
          /\ event' = [event EXCEPT ![NextRunId] = FALSE]
          /\ eventReg' = NextRunId
          /\ \E n \in 1..MaxCycles :
                client' = [client EXCEPT ![c].pc = "prepare",
                              ![c].run = NextRunId, ![c].rows = table,
                              ![c].cycles = n]
    /\ UNCHANGED <<table, threadVars, axisVars, advanced>>

\* _start_table, adapter.wait_motion_ready without a lock: ready, not ready
\* within three seconds, or an exception.
StartPrepare(c) ==
    /\ client[c].pc = "prepare"
    /\ \/ \E ready \in BOOLEAN :
             client' = [client EXCEPT ![c].pc = "launch", ![c].ready = ready]
       \/ Goto(c, "abort")
    /\ UNCHANGED <<runVars, requestRest>>

\* _release_start_reservation
ReleaseReservation(r) ==
    IF IsCurrent(r) /\ ~event[r]
      THEN /\ runner' = [runner EXCEPT !.running = FALSE, !.state = "idle"]
           /\ eventReg' = IF eventReg = r THEN 0 ELSE eventReg
      ELSE UNCHANGED <<runner, eventReg>>

\* _start_table, back under the command lock.
StartLaunch(c) ==
    /\ client[c].pc = "launch"
    /\ \/ /\ LockFree
          /\ event[client[c].run]
          /\ Goto(c, "finish")
          /\ UNCHANGED <<runner, eventReg>>
       \/ /\ LockFree
          /\ ~event[client[c].run] /\ ~client[c].ready
          /\ ReleaseReservation(client[c].run)
          /\ Goto(c, "finish")
       \/ /\ Lock(c)
          /\ ~event[client[c].run] /\ client[c].ready
          /\ Goto(c, "setmode")
          /\ UNCHANGED <<runner, eventReg>>
    /\ UNCHANGED <<table, seq, event, threadVars, axisVars, advanced>>

\* _start_table, set_mode accepted: the worker is registered and started.
StartWorker(c) ==
    /\ client[c].pc = "setmode"
    /\ RpcOk("clear")
    /\ \E w \in Workers :
          /\ worker[w].pc = "idle"
          /\ worker' = [worker EXCEPT ![w] = [IdleWorker EXCEPT !.pc = "begin",
                           !.run = client[c].run, !.rows = client[c].rows,
                           !.cycles = client[c].cycles]]
          /\ workerReg' = w
    /\ Unlock(c)
    /\ Goto(c, "finish")
    /\ UNCHANGED <<runVars, eventVars, stopper, stopReg, advanced>>

StartSetModeFails(c) ==
    /\ client[c].pc = "setmode"
    /\ RpcFails("clear")
    /\ Unlock(c)
    /\ Goto(c, "abort")
    /\ UNCHANGED <<runVars, eventVars, threadVars, advanced>>

\* _start_table, the except clause.
StartFails(c) ==
    /\ client[c].pc = "abort" /\ client[c].cmd = "run"
    /\ RequestAbort(client[c].run, TRUE, FALSE)
    /\ Goto(c, "finish")
    /\ UNCHANGED <<table, seq, eventReg, worker, workerReg, cmdLock, axisVars,
                   advanced>>

\* Faulty: no finally clause.
StartFinish_X(c) ==
    /\ client[c].pc = "finish"
    /\ Answer(c)
    /\ UNCHANGED <<runVars, requestRest>>

\* _start_table, the finally clause.
StartFinish(c) ==
    /\ client[c].pc = "finish"
    /\ runner' = [runner EXCEPT !.preparing =
                     IF IsCurrent(client[c].run) THEN FALSE ELSE @]
    /\ Answer(c)
    /\ UNCHANGED <<table, seq, requestRest>>

GuardedCommands == {"stop", "move", "cancel", "disable"}

\* guarded_axis_command and _stop_table: the lock is taken and the runner's
\* activity read; what follows uses the value read here.
GuardEntry(c) ==
    /\ client[c].pc = "wait" /\ client[c].cmd \in GuardedCommands
    /\ \/ /\ RunnerActive /\ client[c].cmd = "move"
          /\ LockFree
          /\ Answer(c)
       \/ /\ RunnerActive /\ client[c].cmd # "move"
          /\ Lock(c)
          /\ client' = [client EXCEPT ![c].pc = "abort", ![c].run = runner.id]
       \/ /\ ~RunnerActive
          /\ Lock(c)
          /\ Goto(c, "exec")
    /\ UNCHANGED <<runVars, eventVars, threadVars, axisVars, advanced>>

\* The run is cancelled; a disable is still sent, every other command is
\* answered "busy" (or, for a stop, with the state of the cancellation).
GuardAbort(c) ==
    /\ client[c].pc = "abort" /\ client[c].cmd \in {"stop", "cancel", "disable"}
    /\ RequestAbort(client[c].run, FALSE, client[c].cmd # "cancel")
    /\ IF client[c].cmd = "disable"
         THEN Goto(c, "exec") /\ UNCHANGED cmdLock
         ELSE Answer(c) /\ Unlock(c)
    /\ UNCHANGED <<table, seq, eventReg, worker, workerReg, axisVars, advanced>>

RpcKind(cmd) == CASE cmd = "stop"    -> "stop"
                  [] cmd = "move"    -> "other"
                  [] cmd = "cancel"  -> "cancel"
                  [] cmd = "disable" -> "clear"

\* The command itself, sent with the lock held; a move waits up to three
\* seconds for the drive first and may not be sent at all.
GuardExecute(c) ==
    /\ client[c].pc = "exec" /\ client[c].cmd \in GuardedCommands
    /\ LET kind == RpcKind(client[c].cmd) IN RpcOk(kind) \/ RpcFails(kind)
    /\ Answer(c)
    /\ Unlock(c)
    /\ UNCHANGED <<runVars, eventVars, threadVars, advanced>>

ClientStep(c) ==
    \/ WriteTable(c) \/ ClearTable(c)
    \/ StartReserve(c) \/ StartPrepare(c) \/ StartLaunch(c) \/ StartWorker(c)
    \/ StartSetModeFails(c) \/ StartFails(c) \/ StartFinish(c)
    \/ GuardEntry(c) \/ GuardAbort(c) \/ GuardExecute(c)

-----------------------------------------------------------------------------
(* The worker thread (_run_worker).  pc "exit" is a thread that has made   *)
(* its last update and has not terminated: it still counts as alive.       *)

WGoto(w, pc) == worker' = [worker EXCEPT ![w].pc = pc]
Cancelled(w) == event[worker[w].run]

WorkerBegin(w) ==
    /\ worker[w].pc = "begin"
    /\ \/ /\ IsCurrent(worker[w].run) /\ ~Cancelled(w)
          /\ runner' = [runner EXCEPT !.running = TRUE, !.state = "running",
                           !.completedRows = 0, !.cycleCount = 0]
          /\ WGoto(w, "cycle")
       \/ /\ ~IsCurrent(worker[w].run) \/ Cancelled(w)
          /\ WGoto(w, "exit")
          /\ UNCHANGED runner
    /\ UNCHANGED workerRest

\* The heads of the two for loops: a set event breaks out, a runner that may
\* not be updated ends the thread.
WorkerCycle(w) ==
    /\ worker[w].pc = "cycle"
    /\ LET self == worker[w] IN
       \/ /\ self.cycle = self.cycles \/ Cancelled(w)
          /\ WGoto(w, "final")
       \/ /\ self.cycle < self.cycles /\ ~Cancelled(w)
          /\ worker' = [worker EXCEPT
                ![w].pc = IF MayUpdate(self.run) THEN "row" ELSE "exit",
                ![w].row = 0]
    /\ UNCHANGED <<runner, workerRest>>

WorkerRow(w) ==
    /\ worker[w].pc = "row"
    /\ LET self == worker[w] IN
       \/ /\ self.row = self.rows \/ Cancelled(w)
          /\ WGoto(w, "cycleEnd")
       \/ /\ self.row < self.rows /\ ~Cancelled(w)
          /\ WGoto(w, IF MayUpdate(self.run) THEN "dispatch" ELSE "exit")
    /\ UNCHANGED <<runner, workerRest>>

\* Faulty: the event is not read again.
WorkerDispatch_X(w) ==
    /\ worker[w].pc = "dispatch"
    /\ Lock(w) /\ WGoto(w, "move")
    /\ UNCHANGED <<runVars, eventVars, workerReg, stopper, stopReg, client,
                   axisVars, advanced>>

\* The event is read again once the command lock is held.
WorkerDispatch(w) ==
    /\ worker[w].pc = "dispatch"
    /\ \/ Lock(w) /\ ~Cancelled(w) /\ WGoto(w, "move")
       \/ LockFree /\ Cancelled(w) /\ WGoto(w, "cycleEnd")
    /\ UNCHANGED <<runVars, eventVars, workerReg, stopper, stopReg, client,
                   axisVars, advanced>>

WorkerMove(w) ==
    /\ worker[w].pc = "move"
    /\ \/ RpcOk("row") /\ WGoto(w, "wait")
       \/ RpcFails("row") /\ WGoto(w, "fail")
    /\ Unlock(w)
    /\ UNCHANGED <<runVars, eventVars, workerReg, stopper, stopReg, client,
                   advanced>>

\* _wait_for_row: leave the loop, on the event or on an error, a fault, the
\* timeout or an exception (which an event set meanwhile does not hide).
WorkerWaitEnds(w) ==
    /\ worker[w].pc = "wait"
    /\ \E pc \in {"fail"} \cup (IF Cancelled(w) THEN {"cycleEnd"} ELSE {}) :
          worker' = [worker EXCEPT ![w].pc = pc, ![w].based = FALSE]
    /\ advanced' = advanced \ {w}
    /\ UNCHANGED <<runVars, eventVars, workerReg, stopper, stopReg, cmdLock,
                   client, axisVars>>

\* Faulty: a sample of the cycle that saw the command counts.
RowArrived_X(w) == worker[w].based /\ axis.near /\ ~axis.reported

\* _wait_for_row: one status sample, begun before the event was set perhaps.
RowArrived(w) ==
    worker[w].based /\ w \in advanced /\ axis.near /\ ~axis.reported

WorkerSample(w) ==
    /\ worker[w].pc = "wait"
    /\ Served
    /\ worker' = [worker EXCEPT ![w].pc = IF RowArrived(w) THEN "dwell" ELSE @,
                                ![w].based = ~RowArrived(w)]
    /\ advanced' = advanced \ {w}
    /\ UNCHANGED <<runVars, eventVars, workerReg, stopper, stopReg, cmdLock,
                   client, axis>>

\* _sleep_dwell_ms: over, or interrupted by the event.
WorkerDwell(w) ==
    /\ worker[w].pc = "dwell"
    /\ \/ WGoto(w, "count")
       \/ Cancelled(w) /\ WGoto(w, "cycleEnd")
    /\ UNCHANGED <<runner, workerRest>>

WorkerCount(w) ==
    /\ worker[w].pc = "count"
    /\ \/ /\ IsCurrent(worker[w].run) /\ ~Cancelled(w)
          /\ runner' = [runner EXCEPT !.completedRows = @ + 1]
          /\ worker' = [worker EXCEPT ![w].pc = "row", ![w].row = @ + 1]
       \/ /\ ~IsCurrent(worker[w].run) \/ Cancelled(w)
          /\ WGoto(w, "exit")
          /\ UNCHANGED runner
    /\ UNCHANGED workerRest

WorkerCycleEnd(w) ==
    /\ worker[w].pc = "cycleEnd"
    /\ \/ /\ Cancelled(w)
          /\ WGoto(w, "final")
          /\ UNCHANGED runner
       \/ /\ ~Cancelled(w) /\ MayUpdate(worker[w].run)
          /\ runner' = [runner EXCEPT !.cycleCount = worker[w].cycle + 1]
          /\ worker' = [worker EXCEPT ![w].pc = "cycle", ![w].cycle = @ + 1]
       \/ /\ ~Cancelled(w) /\ ~MayUpdate(worker[w].run)
          /\ WGoto(w, "exit")
          /\ UNCHANGED runner
    /\ UNCHANGED workerRest

\* Faulty: a loop left on the event ends like a finished one.
MayComplete_X(w) == IsCurrent(worker[w].run)
MayComplete(w)   == IsCurrent(worker[w].run) /\ ~Cancelled(w)

WorkerFinal(w) ==
    /\ worker[w].pc = "final"
    /\ runner' = IF MayComplete(w)
                   THEN [runner EXCEPT !.running = FALSE, !.state = "complete"]
                   ELSE runner
    /\ WGoto(w, "exit")
    /\ UNCHANGED workerRest

\* The except clause.
WorkerFails(w) ==
    /\ worker[w].pc = "fail"
    /\ RequestAbort(worker[w].run, TRUE, FALSE)
    /\ WGoto(w, "exit")
    /\ UNCHANGED <<table, seq, eventReg, workerReg, cmdLock, client, axisVars,
                   advanced>>

WorkerExit(w) ==
    /\ worker[w].pc = "exit"
    /\ worker' = [worker EXCEPT ![w] = IdleWorker]
    /\ UNCHANGED <<runner, workerRest>>

WorkerStep(w) ==
    \/ WorkerBegin(w) \/ WorkerCycle(w) \/ WorkerRow(w) \/ WorkerDispatch(w)
    \/ WorkerMove(w) \/ WorkerWaitEnds(w) \/ WorkerSample(w) \/ WorkerDwell(w)
    \/ WorkerCount(w)
    \/ WorkerCycleEnd(w) \/ WorkerFinal(w) \/ WorkerFails(w) \/ WorkerExit(w)

-----------------------------------------------------------------------------
(* The stop thread (_abort_worker).                                        *)

SGoto(s, pc) == stopper' = [stopper EXCEPT ![s].pc = pc]

StopLock(s) ==
    /\ stopper[s].pc = "lock"
    /\ \/ Lock(s) /\ IsCurrent(stopper[s].run) /\ SGoto(s, "send")
       \/ LockFree /\ ~IsCurrent(stopper[s].run) /\ SGoto(s, "exit")
    /\ UNCHANGED <<runner, stopperRest, axisVars, advanced>>

StopSend(s) ==
    /\ stopper[s].pc = "send"
    /\ \/ RpcOk("stop") /\ SGoto(s, "watch")
       \/ RpcFails("stop") /\ SGoto(s, "report")
    /\ Unlock(s)
    /\ UNCHANGED <<runner, stopperRest, advanced>>

\* Faulty: two still samples of one daemon cycle count.
StillConfirmed_X(s) ==
    stopper[s].based /\ stopper[s].still /\ ~axis.reported

\* _wait_for_axis_stopped: one status sample.
StillConfirmed(s) ==
    stopper[s].based /\ s \in advanced /\ stopper[s].still /\ ~axis.reported

StopSample(s) ==
    /\ stopper[s].pc = "watch"
    /\ Served
    /\ stopper' = [stopper EXCEPT
          ![s].pc = IF StillConfirmed(s) THEN "report" ELSE @,
          ![s].confirmed = StillConfirmed(s),
          ![s].based = TRUE,
          ![s].still = ~axis.reported]
    /\ advanced' = advanced \ {s}
    /\ UNCHANGED <<runner, stopperRest, cmdLock, axis>>

\* Faulty: the thread ends without a report.
StopGiveUp_X(s) ==
    /\ stopper[s].pc = "watch"
    /\ SGoto(s, "exit")
    /\ advanced' = advanced \ {s}
    /\ UNCHANGED <<runner, stopperRest, cmdLock, axisVars>>

\* Invalid or stale feedback, an exception, or 120 seconds without standstill.
StopGiveUp(s) ==
    /\ stopper[s].pc = "watch"
    /\ SGoto(s, "report")
    /\ advanced' = advanced \ {s}
    /\ UNCHANGED <<runner, stopperRest, cmdLock, axisVars>>

\* Faulty: a confirmed stop hides the execution error.
StateAfterStop_X(ok) == IF ok THEN "stopped" ELSE "error"
StateAfterStop(ok) ==
    IF runner.executionError \/ ~ok THEN "error" ELSE "stopped"

StopReport(s) ==
    /\ stopper[s].pc = "report"
    /\ LET ok == stopper[s].confirmed IN
       runner' = IF ~IsCurrent(stopper[s].run) THEN runner
                 ELSE [runner EXCEPT !.running = FALSE,
                          !.state = StateAfterStop(ok),
                          !.stopConfirmed = ok, !.stopError = ~ok]
    /\ SGoto(s, "exit")
    /\ UNCHANGED <<stopperRest, cmdLock, axisVars, advanced>>

StopExit(s) ==
    /\ stopper[s].pc = "exit"
    /\ stopper' = [stopper EXCEPT ![s] = IdleStopper]
    /\ UNCHANGED <<runner, stopperRest, cmdLock, axisVars, advanced>>

StopperStep(s) ==
    \/ StopLock(s) \/ StopSend(s) \/ StopSample(s) \/ StopGiveUp(s)
    \/ StopReport(s) \/ StopExit(s)

-----------------------------------------------------------------------------
InitWith(rows) ==
    /\ runner = DefaultRunner
    /\ table = rows
    /\ seq = 0
    /\ event = [r \in Runs |-> FALSE]
    /\ eventReg = 0
    /\ cmdLock = None
    /\ client = [c \in Clients |-> IdleClient]
    /\ worker = [w \in Workers |-> IdleWorker]
    /\ workerReg = None
    /\ stopper = [s \in Stoppers |-> IdleStopper]
    /\ stopReg = None
    /\ axis = [motion |-> "none", decel |-> FALSE, near |-> FALSE,
               reported |-> FALSE]
    /\ late = {} /\ due = {}
    /\ advanced = {}

Init == InitWith(0)

Next ==
    \/ \E c \in Clients : \E cmd \in Commands : Request(c, cmd)
    \/ \E c \in Clients : ClientStep(c)
    \/ \E w \in Workers : WorkerStep(w)
    \/ \E s \in Stoppers : StopperStep(s)
    \/ AxisCycle
    \/ DeliverLate

Spec == Init /\ [][Next]_vars

\* Every thread is scheduled, every call to the daemon returns (one second of
\* socket timeout), and the polling loops end (120 seconds): a loop does not
\* sample for ever.  No lock is assumed to be fair.
Fairness ==
    /\ \A c \in Clients : WF_vars(ClientStep(c))
    /\ \A w \in Workers : WF_vars(WorkerStep(w)) /\ WF_vars(WorkerWaitEnds(w))
    /\ \A s \in Stoppers : WF_vars(StopperStep(s)) /\ WF_vars(StopGiveUp(s))

-----------------------------------------------------------------------------
(* Properties.                                                             *)

ClientPcs  == {"idle", "wait", "prepare", "launch", "setmode", "abort",
               "finish", "exec"}
WorkerPcs  == {"idle", "begin", "cycle", "row", "dispatch", "move", "wait",
               "dwell", "count", "cycleEnd", "final", "fail", "exit"}
StopperPcs == {"idle", "lock", "send", "watch", "report", "exit"}
Kinds      == {"row", "other", "stop", "clear", "cancel"}

RunnerType ==
    [id : RunIds, state : RunnerStates, running : BOOLEAN, preparing : BOOLEAN,
     stopRequested : BOOLEAN, stopConfirmed : BOOLEAN,
     executionError : BOOLEAN, stopError : BOOLEAN,
     completedRows : Nat, cycleCount : Nat]
ClientType ==
    [pc : ClientPcs, cmd : AllCommands \cup {"none"}, run : RunIds, rows : Nat,
     cycles : Nat, ready : BOOLEAN]
WorkerType ==
    [pc : WorkerPcs, run : RunIds, rows : Nat, cycles : Nat, row : Nat,
     cycle : Nat, based : BOOLEAN]
StopperType ==
    [pc : StopperPcs, run : RunIds, based : BOOLEAN, still : BOOLEAN,
     confirmed : BOOLEAN]
AxisType ==
    [motion : {"none", "row", "other"}, decel : BOOLEAN, near : BOOLEAN,
     reported : BOOLEAN]

\* The state of feature_multi_point.py has the shape the code gives it.
TypeOK ==
    /\ runner \in RunnerType
    /\ table \in 0..MaxRows
    /\ seq \in RunIds
    /\ event \in [Runs -> BOOLEAN]
    /\ eventReg \in RunIds
    /\ cmdLock \in Threads \cup {None}
    /\ client \in [Clients -> ClientType]
    /\ worker \in [Workers -> WorkerType]
    /\ workerReg \in Workers \cup {None}
    /\ stopper \in [Stoppers -> StopperType]
    /\ stopReg \in Stoppers \cup {None}
    /\ axis \in AxisType
    /\ late \subseteq Kinds /\ due \subseteq Kinds
    /\ advanced \subseteq Workers \cup Stoppers

\* A run is never left behind: every live thread of a run (its worker, its
\* stop thread, the request that starts it) is the registered one and belongs
\* to the run the runner describes, so no two runs of an axis overlap and the
\* "is it still my run" tests never see a foreign run.
LiveThreadsAreCurrent ==
    /\ \A w \in Workers : worker[w].pc # "idle" =>
          w = workerReg /\ worker[w].run = runner.id
    /\ \A s \in Stoppers : stopper[s].pc # "idle" =>
          s = stopReg /\ stopper[s].run = runner.id
    /\ \A c \in Clients :
          client[c].pc \in {"prepare", "launch", "setmode"} =>
             client[c].run = runner.id /\ runner.preparing

\* A command that was let through because no run was active is still alone
\* when it reaches the daemon: what guarded_axis_command read under _LOCK does
\* not go stale before the command is sent, possibly three seconds later.
ForeignCommandsRunAlone ==
    \A c \in Clients :
        client[c].pc = "exec" /\ client[c].cmd # "disable" => ~RunnerActive

\* A worker about to send a row move holds the command lock, and its run has
\* not been cancelled: a stop and a row move of one run are never reordered.
NoRowOnceCancelled ==
    \A w \in Workers : worker[w].pc = "move" =>
        /\ cmdLock = w
        /\ runner.id = worker[w].run
        /\ ~runner.stopRequested
        /\ ~event[worker[w].run]

\* A confirmed stop means standstill: once stop_confirmed is set no row motion
\* of the run goes on and none is still waiting in the daemon's socket.
ConfirmedStopIsStandstill ==
    runner.stopConfirmed => axis.motion # "row" /\ "row" \notin late \cup due

\* A row is counted only when the axis has come to rest, and nothing that
\* could move it again is on its way.
CompletedRowIsAtRest ==
    \A w \in Workers : worker[w].pc \in {"dwell", "count"} =>
        axis.motion = "none" /\ {"row", "other"} \cap (late \cup due) = {}

\* The final state tells the truth: "stopped" is a confirmed stop without an
\* error, "complete" was never cancelled and did not fail, and a cancelled run
\* that is neither confirmed nor still being stopped says why.
OutcomeIsHonest ==
    /\ runner.state = "stopped" =>
          runner.stopConfirmed /\ ~runner.executionError
    /\ runner.state = "complete" =>
          ~runner.stopRequested /\ ~runner.executionError
    /\ runner.stopRequested /\ ~runner.stopConfirmed
          /\ (StopperAlive => stopper[stopReg].pc = "exit") =>
          runner.stopError /\ runner.state = "error"
    /\ runner.executionError /\ runner.stopConfirmed => runner.state = "error"

KeepUnconfirmed ==
    runner.stopRequested /\ ~runner.stopConfirmed =>
        /\ table' = table
        /\ runner'.id = runner.id
        /\ runner'.stopRequested
        /\ runner'.stopConfirmed => \E s \in Stoppers : StopReport(s)

\* An unconfirmed stop keeps the table and the runner: neither a write, a
\* clear nor a restart gets past it.  Nothing but a report of a stop thread
\* confirms it.
UnconfirmedBlocks == [][KeepUnconfirmed]_vars

KeepError ==
    runner.executionError /\ runner.id # 0 /\ runner'.id = runner.id
        => runner'.executionError

\* The first execution error of a run is kept until another run replaces it,
\* whatever stops, retries and reports come after it.
ExecutionErrorRetained == [][KeepError]_vars

\* A run is declared complete only when every row of every cycle was counted.
CompleteMeansWhole ==
    [][runner.state # "complete" /\ runner'.state = "complete" =>
          \E w \in Workers :
              /\ worker[w].pc = "final"
              /\ runner.cycleCount = worker[w].cycles
              /\ runner.completedRows = worker[w].cycles * worker[w].rows]_vars

\* A cancellation is never left open: it is confirmed, or the runner says why
\* it is not (and a retry, which reopens it, is resolved again).
CancellationResolves ==
    runner.stopRequested ~> runner.stopConfirmed \/ runner.stopError

\* A cancelled run lets go of the axis: its worker ends and its start request
\* returns, whatever they were waiting for when the event was set.
CancelledRunEnds ==
    \A r \in Runs :
        event[r] ~> runner.id # r \/ (~WorkerAlive /\ ~runner.preparing)

\* A confirmed stop reopens the axis for other commands.
ConfirmedStopReopens == runner.stopConfirmed ~> ~RunnerActive

\* Every request is answered, whoever holds the command lock meanwhile.
RequestsAnswered ==
    \A c \in Clients : client[c].pc # "idle" ~> client[c].pc = "idle"

\* A run ends by itself or is cancelled: it does not run for ever.
RunsEnd == runner.running ~> ~runner.running

-----------------------------------------------------------------------------
(* The runner implements the ownership protocol of AxisGate.               *)

StopPending == StopperAlive /\ stopper[stopReg].pc # "exit"

GateState ==
    CASE ~RunnerActive                           -> "free"
      [] RunnerActive /\ ~runner.stopRequested   -> "held"
      [] RunnerActive /\ runner.stopRequested /\ runner.stopConfirmed
                                                 -> "confirmed"
      [] RunnerActive /\ runner.stopRequested /\ ~runner.stopConfirmed
            /\ StopPending                       -> "cancelling"
      [] RunnerActive /\ runner.stopRequested /\ ~runner.stopConfirmed
            /\ ~StopPending                      -> "unconfirmed"

Gate == INSTANCE AxisGate WITH gate <- GateState, run <- runner.id, last <- seq

\* Every history of the runner, with its races between requests, worker and
\* stop threads, is one of AxisGate.
ImplementsGate == Gate!Spec
=============================================================================
