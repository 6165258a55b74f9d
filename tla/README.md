# Verification of the mctivity motion daemon and its operator interface

This directory holds TLA+ models of the parts of the system that decide when an
axis moves and what is remembered about it: the motion daemon's axis control and
homing, the HMI server from its assembly to the calls it makes, its point-table
runner and its settings file, and the page in the browser. TLC checks them on
small instances, TLAPS proves all safety properties for every value of the
constants.

```
tlc -workers 2 -config MCMultiPoint.cfg MCMultiPoint.tla     a run (the table below)
tlapm MultiPointSafety.tla                                   a proof
```

## 1. The system

Three kinds of processes. The **daemon** (`mctivity_motiond.c`) is one thread
with a 1 ms cycle: receive the EtherCAT frame, move the target of each of two
axes, write the outputs, and then serve whatever commands have arrived on its
Unix socket, one line each. The **HMI server** (`mctivity_hmi.py` and its
`feature_*.py` modules) is a threading HTTP server: every request is a thread,
and the point table starts threads of its own. Every call from the server to the
daemon is a new connection with a timeout of one second. The **page** (the
JavaScript in `mctivity_hmi.py`) runs in any number of browsers: single-threaded,
but each of its flows is suspended at every `await` while others go on. Daemon,
server and pages restart independently of each other.

| Component | State | Operations | Talks to | What is hard | What makes it correct |
|---|---|---|---|---|---|
| Multi-point runner (`feature_multi_point.py`) | runner record, table, run sequence, event, worker and stop thread of each axis; two kinds of locks | write, clear, run, stop (with retry), guard of every other command; worker, stop thread | daemon calls, status watch, dispatch | checks under one lock, commands under another; stop races row, error races stop, retry races report; threads outlive the state they reported | one run at a time; nothing foreign in a run; no row after a stop; a confirmed stop is a standstill; an unconfirmed one keeps the axis; outcome tells the truth; everything ends |
| Axis control (`handle_command`, `axis_cycle_logic`) | about 90 fields per axis: request, settle counter, mode, five generators, glitch counters, controlword | 15 commands, one cycle with eight branches | drive feedback in, target and controlword out | each command resets its own list of fields; feedback comes and goes; flags are computed in one cycle and read later | one generator; nothing moves while settling or after a fault, nothing but a held gear is left after a lost enable; reported standstill lasts, but for a trigger that was pending at the loss |
| Homing (`update_homing`) | search, backoff, abort with velocities, remainders, counters | start, stop, clear; one step per cycle | torque and readiness in | integer remainders, no timeout of a backoff, hold in the middle | ends, hits the backoff target, decelerates, needs sustained torque |
| Profile, curve, anti-sway generators | trajectory of a move | start, step | axis control | floating point | reach the target in the planned time |
| Electronic gear | master position, ratio, remainder | engage, step | the other axis | stale master position, mutual gearing, another master for a running gear | a step is the master's step of one cycle, but for the first one after a change of master |
| Command server (`poll_server`) | client slots with line buffers | accept, read, execute, answer, drop | axis control | order of slots, abandoned connections | every complete line executed at most once, and before the next cycle |
| EtherCAT bus and drives | external | feedback | axis control | arbitrary feedback | external |
| Status and feedback watch | last cycle counter | classify a sample | runner, daemon status | uint32 wrap, daemon restart | progress is never reported for a stale cycle |
| Module registry and assembly | capabilities, registry, enabled features | dependency fixpoint, registry, warnings | HTTP server | missing parts, a module whose requirement is dropped in a later round | a module is loaded iff all it needs is; what is left out is reported |
| HTTP server | request threads | check host, origin, token, body, device, fields, capability | dispatch | the order of the checks, two of which look at the same field | what is admitted is assembled and usable by the daemon |
| Dispatch and mode features | none of their own | which calls a command makes | runner guard, drive, daemon | several calls, one of which fails | every motion goes through the guard, with the drive in its mode |
| FV3 SDO adapter | drive mode outside the daemon | SDO writes through a tool | drive, daemon | failure between two writes | drive and daemon agree on the mode |
| UI state persistence | one JSON file | normalise, merge, replace | pages | temporary name shared by all requests; two languages normalise the same fields; a lock, a crash | the file is whole; a save changes what it is for; nothing changes by being stored |
| Page: motions | sequence numbers, stop flag and latch per axis, flows | 13 flows, dialogs, polls, change of the axis | HTTP server | everything between two `await`s; answers out of order | what was stopped sends nothing more; old answers change nothing |
| Page: settings | a profile per axis, the controls all axes share, one timer | edit, save after 180 ms, load | HTTP server | edits of an axis that is no longer shown, a slider that still has the limits of the axis shown before | what is stored of an axis was entered for it, or is the end of a travel |
| CLI, bench programs, profiles, scripts | none or one drive | one shot | daemon, drive | nothing concurrent | - |

`PROJECT.json` has the same list with sources and status, and under `hazards`
the places where the code can go wrong in a way a unit test hardly reaches, each
with the properties that would show it or the reason why none does.

## 2. The plan

Done:

1. **Runner.** `MultiPoint`, its abstract specification `AxisGate`, its
   invariant `MultiPointInv` and the proofs.
2. **Axis control.** `AxisDaemon`, `AxisProofs`.
3. **Homing in numbers.** `Homing`.
4. **HMI server.** `CommandRules` and `Assembly` (functions), `Gateway` (the
   request threads that use them).
5. **Settings.** `UiProfile` (what happens to a profile in two languages),
   `UiState` (file, requests and pages), `UiStateProofs`.
6. **Page.** `Panel`, `PanelProofs`.

Left:

7. **Watch and gear arithmetic.** The uint32 difference against an unbounded
   counter, with wrap and daemon restart. Two axes in one cycle with ratio
   remainders, and how large the one step after a change of master is.
8. **Command server.** `poll_server` with its slots, partial lines and dropped
   connections; it is to justify `late` and `due` of `MultiPoint` and `late` of
   `Gateway`, by a refinement of an abstract at-most-once mailbox.
9. **Composition.** Runner and daemon together, server restart during a row and
   daemon restart during a run: what is left moving, and who knows.

Theorems worth proving next: the invariants of the modules of steps 7 to 9 when
they are there.

## 3. Modules

| Module | Contents |
|---|---|
| `MultiPoint` | the runner of one axis with its threads and locks |
| `AxisGate` | abstract: who owns an axis |
| `MultiPointInv` | inductive invariant of the runner; run numbers; counters |
| `MultiPointProofs` | type correctness of the runner |
| `MultiPointSafety` | the invariant is inductive; the safety theorems; the runner implements `AxisGate` |
| `MCMultiPoint`, `MCMultiPointLive` | symmetry; bounded requests for liveness |
| `AxisDaemon` | commands and cycle of one axis, without distances |
| `AxisProofs` | inductive invariant and theorems of an axis |
| `Homing`, `MCHoming` | the homing with its integer arithmetic |
| `HomingProofs` | inductive invariant of a homing and its theorems |
| `CommandRules` | fields, limits, capabilities and calls of every command |
| `Assembly` | what a server is assembled from; the order in which it refuses |
| `Gateway`, `MCGateway` | request threads, drive and daemon; the packaged modules, sample payloads |
| `GatewayProofs` | threads, locks and drive: invariant and theorems of `Gateway` |
| `AdmissionProofs` | what is admitted, refused and assembled: theorems about `CommandRules` and `Assembly` |
| `UiProfile` | the two normalisations of a saved profile |
| `UiState`, `MCUiState` | settings file, save requests, pages; samples of what a page is given |
| `UiStateProofs` | invariants and theorems of `UiState` and `UiProfile` |
| `Panel`, `MCPanel` | the flows of a page; symmetry |
| `PanelProofs` | invariant and theorems of `Panel` |

A definition whose name ends in `_X` is a faulty variant of the one after it:
no specification uses it. `PROJECT.json` pairs each with the property that finds
the mistake when it takes the place of the original.

`Gateway` EXTENDS `Assembly`, which EXTENDS `CommandRules`: the functions get a
state. `MultiPoint` and `Gateway` meet in the command lock and the guard:
`MultiPoint` has the runner in full and one kind of foreign command, `Gateway`
all commands in full and of a run only what they see of it. `MultiPoint` and
`AxisDaemon` meet in what the runner sees of an axis (kind of motion, moving
flag of the last cycle). `UiState` EXTENDS `UiProfile`: a save of the one moves
the sections of the other. `Panel` and `UiState` share the page's change of the
axis and nothing else: no setting decides whether a command is sent.

### MultiPoint

The axis is one device; the code keeps every variable per device and the devices
share nothing but the global lock, which is never held across a blocking call.

| Model | Code |
|---|---|
| `runner`, `table`, `seq`, `event`/`eventReg`, `workerReg`, `stopReg` | `_RUNNERS`, `_TABLES`, `_RUN_SEQUENCES`, `_STOP_EVENTS`, `_THREADS`, `_STOP_THREADS` |
| `cmdLock` | `_COMMAND_LOCKS[device]`, a variable because it is held across daemon calls |
| one action per block under `_LOCK` | `_LOCK` is released within the block |
| `client[c].pc`, `worker[w].pc`, `stopper[s].pc` | where a request, `_run_worker` or `_abort_worker` is between two such blocks |
| `StartReserve` ... `StartFinish` | `_start_table`: reservation, `wait_motion_ready` without a lock, launch under the command lock, `except`, `finally` |
| `GuardEntry`, `GuardAbort`, `GuardExecute` | `guarded_axis_command` and `_stop_table` |
| `RequestAbort` | `_request_abort` |
| `WorkerX`, `StopX` | the loops and branches of `_run_worker`, `_wait_for_row`, `_abort_worker`, `_wait_for_stop` |
| `axis`, `AxisCycle`, `Executed` | what the runner can see of the daemon: kind of motion, the moving flag of the last cycle, "near the target" |
| `RpcOk`, `RpcFails`, `late`, `DeliverLate` | `call_daemon`: answered, refused, or raised, and then executed, lost, or executed later |
| `Served`, `due` | `poll_server`: the sockets are served by slot, so an abandoned command may be executed before or after the one that is answered, whichever was sent first; but all that wait are executed before the next cycle |
| `advanced` | watchers whose second sample has a larger cycle counter |

A terminated thread's identity is used again; `pc = "exit"` is a thread that has
made its last update and still counts as alive for `is_alive()`. Row contents,
dwell times, messages, and the time limits of the loops (which become a choice
to fail at any sample) are abstracted.

`AxisGate` says what the whole is for: a run acquires a free axis, a cancelled
run gives it back after a confirmed stop only, an unconfirmed one holds it until
a retry. `ImplementsGate` maps the runner to it.

### AxisDaemon

One action per command and one for the cycle. `ax` has the fields of
`axis_runtime_t` that decide whether something moves; the numbers are left out.
A speed is the number of deceleration steps it takes, the end of a profile is a
choice, and `target` records what became of the target in the last cycle:
`held`, `stepped`, or set to the `pos`ition. `base` is the last position of a
gear's master: none, the configured master's (`own`), or, after a `gear_config`
that names another master for a running gear, that of the one before (`other`). The branches of `axis_cycle_logic`
are operators that give the set of states they may leave the axis in, tried in
the order of the code (`Branches`). `pp` selects the drive: CSP follows the
target, PP (fv3) is triggered by a pulse of the controlword. Feedback (enabled,
fault, working counter, a gap to the target, a fast movement, the master of a
gear) is arbitrary in every cycle. `seen` is history only: it holds what the
properties need of the past and nothing reads it.

Left out: `fv3_halt_cycles` is never set; the `DECEL` state of a homing begins
and ends within a cycle; the staged torque and the coordinate zero do not
decide whether the axis moves.

### Homing

`update_homing`, `abort_homing`, `clear_homing`, `velocity_step_counts` and
`decelerate_velocity` in integers, with C's rounding towards zero and the
remainder that `velocity_step_counts` carries over. The axis is a line with an
obstruction at `Wall`; in each cycle the drive stays or follows the target as
far as the wall allows, the torque is high or not, and the servo is ready or
not. The int32 clamps are out of reach of the bounds.

### CommandRules and Assembly

Functions of a request and of what the server finds when it starts, with the
tables of the code: fields kept, required, optional and bounded
(`RequiredInts`, `Sanitary` for `_validate_command_numbers`), capabilities
(`RequiredCapability`), owner (`FeatureKey`), the calls of each feature
(`WaitsForReady`, `WritesProfile`, `DriveMode`), the plan of an anti-sway run.
A payload is a function on the fields it has; a number is small, with one
constant for all upper limits, and `NotInt` stands for everything `_strict_int`
raises for. From the daemon's parser: the fields it looks for (`DaemonReads`,
`Demanded`), whether it finds a number there (`Finds`), which values it answers
with an error (`OutOfRange`, `DaemonRefuses`) and for which it takes a value of
its own (`ZeroIsDefault`, `DaemonSupplies`). `Blame` is the field the server names
in an answer, `AtFault` those a `move_abs` is refused for. The daemon's fixed
limits are taken to be the server's, which they are unless its environment says
otherwise.

`Assembly` has the fixpoint of `_build_module_runtime` as the sequence of its
rounds, the registry with its fallback, the warnings, and `Refusal`: the checks
of `do_POST` in their order.

### Gateway

A request is a thread with the list of steps it has still to do (`Steps`, from
`guarded_axis_command` and the handlers): guard, wait for the servo, write the
profile, write the drive's mode, send. Each can fail, and a failed write or call
may have taken effect, or take effect later (`late`: a set, for calls on
different connections have no order). `lock` is the command lock, `run` the point
table's run as far as a command meets it, `drive` and `rates` what was written to
FV3 by SDO (`rates` by whose request each of the three registers of the profile
was last written: a request writes only what it gives, and a write that raises
may have been done), `gear` whether the daemon gears FV3. The server and the
daemon restart at any step. Details that show in the model: rows on FV3 do not
write the profile themselves; a `move_abs` over the API does not select PP; an
entry of a custom registry without a known owner gets the default transport.

### UiProfile and UiState

`UiProfile` has, for each section of a profile, what the page makes of it before
it posts it, what `_normalize_ui_device_state` keeps of that, and what the page
makes of it when it reads it back. Numbers are in the smallest step of their
field, `Bad` is any value of the wrong kind; `Given` is what the page may be
given of each section (all of it in the proofs, samples in the run).

| `UiState` | Code |
|---|---|
| `file`, `tmp`, `lock` | `UI_STATE_PATH`, the same with `.tmp`, `_ui_state_lock` |
| `slot`: `SaveReads`, `SaveWrites`, `SaveReplaces` | `save_ui_state`: read and merge under the lock and truncate the temporary file; write it; `os.replace` |
| `Merged`, `Protected` | only a request that asks for it changes the anti-sway settings and the measured period |
| `page[p]` | `deviceProfiles`, `lastUiStateSnapshot`, the input elements all axes share (`ctl`), `min` and `max` of the position slider (`range`), `modeSelect`, `activeDevice`, the one timer, the token, the GET on its way |
| `Saved` with `Reads`, `Loaded`, `Sliders`, `Posts` | `saveUiState` and which inputs it reads, `loadUiState`, `updateSliders`, `persistUiState` |
| `Fitted`, `Misfits` | what a range input makes of a value outside its limits or between its steps |
| `EditControl`, `EditSheet`, `EditKept`, `EditAntiSway`, `setMode`, `Redraw`, `TimerFires`, `switchAxis`, `Open`, `Hydrate` | the handlers of the same or a similar name |
| `Crash` | the server stops: requests and answers on their way are lost |

A profile is cut down to six numbers that are saved in six different ways: the
target, read from the slider, whose limits follow the axis that is shown; the
point table, read from its cells but not for the encoder; the homing, read from
its panel while that is shown; what is kept in the profile only, the transmission
with the travel among it; protected settings; protected measurement. The slider
takes an end of its travel instead of a number it cannot show: `loadUiState` sets
it while it still has the limits of the axis shown before, `updateSliders` saves
what it shows and gives it its own limits after that. An edit gives a new number, so that the history variable `entered`
can say for which axis it was made. Requests are served in any order: two POSTs
of one page may be reordered. `synced` (history) is set back when a page saves
that could not read the file at first.

### Panel

| Model | Code |
|---|---|
| `motion[d]` | `commandSeq`, `stopRequested`, `latch` of `motionStateByDevice` |
| `mp[d]`: issued, applied, barrier, pending | `multiPointRequestsByDevice` |
| `rev` | `multiPointSelectionRevision` |
| `shown`, `runner` | the runner status the page shows; how often the server's runner has changed |
| `flow[f]` | a suspended async function: which one (`kind`), how many commands it has sent (`at`), the axis and sequence number it holds (`own`, `seq`), its request |
| `Script` | the commands of each flow in their order |
| `Start`, `Stop`, `Direct`, `resetFault`, `setMode`, `switchAxis`, `Confirmed` | the buttons and the dialog |
| `Serves`, then `TableGoesOn`, `SingleGoesOn`, `Answer`, `Planned`, `Moved` | the server carries a command out; its answer arrives and the flow goes on |
| `Sensed`, `PhaseGate`, `Due`, `Settled` | the waits of an anti-sway run |
| `Poll`, `Redraw` | the 700 ms poll of the runner; `render` with a status of any age |

`api` sends to the axis that is selected when it is called, `apiForDevice` to the
one it is given; the model keeps the difference in every flow. `cancelled` is
history: flows the user has stopped, replaced or, for a table, walked away from.

## 4. Runs

| Run | Bounds | Distinct states | What it shows |
|---|---|---|---|
| `multi_point` | 2 requests, 1 worker and 2 stop threads, all commands, 1 run, 1 row | 1 150 000 | `ForeignCommandsRunAlone`, `NoRowOnceCancelled`, `ConfirmedStopIsStandstill`, `OutcomeIsHonest`, `UnconfirmedBlocks`, `ExecutionErrorRetained` |
| `multi_point_table` | 1 request, 2 worker identities, 2 runs, up to 2 rows and 2 cycles | 646 000 | `LiveThreadsAreCurrent` (nothing of the first run is alive in the second), `CompletedRowIsAtRest`, `CompleteMeansWhole`, `ImplementsGate` |
| `multi_point_live` | 2 requests at a time, 3 in all, no abandoned call | 53 000 | `CancellationResolves`, `CancelledRunEnds`, `ConfirmedStopReopens`, `RequestsAnswered`, `RunsEnd` |
| `axis` | settle 2, glitch 2, pulse 3, hold 2, reset 2 cycles, 3 deceleration steps | 40 000 | the seven properties of an axis |
| `homing` | 2 cycles per second, speeds 1 and 3, wall at 2, backoff -3, 0 or 2, 2 commands, 2 cycles not ready | 214 000 | `BackoffApproaches`, `HomingEnds` |
| `gateway` | 2 threads: one gets every request, the other `gear_start`, `point_table_run` or `disable` for FV3; 11 assemblies; numbers up to 3 | 282 000 | `AssemblyIsSound`, `AdmittedIsAssembled`, `AdmittedIsUsable`, `RefusalIsExplained`, `SegmentsLeadOn`, `SendsAsPrepared`, `TableRunsInPp` |
| `panel` | 2 axes, 2 flows at a time, 3 presses, 2 requests of the runner each, 4 stored modes | 1 422 000 | `StopIsFinal`, `RunnerShownIsItsOwn`, `RunnerNeverGoesBack` |
| `ui_state` | 2 pages, 2 axes, 2 save requests at a time, 2 events (edits, changes, tokens entered late, crashes), 2 saves | 451 000 | `FileIsWhole`, `StoredWasEntered`, `SettingsReadBack`, `SaveIsConfined` |
| `axis_settle`, `homing_stop`, `homing_torque`, `gateway_gear` | as above or smaller | - | disagreements with the documentation, section 7 |

Why these bounds are enough to be interesting.

- *Runner:* two requests are what a race needs (start against stop, guard
  against start, retry against report); the third party is always a thread of
  the run. Row and cycle loops are about counting, so they run with one request.
  Where there may be a second thread of a kind (a retry of a stop; the worker of
  a second run) there is an identity for it, so that a leftover thread would be
  seen beside its successor.
- *Axis:* every counter has at least the values "just set", "running" and "at
  its limit"; the pulse is longer than the hold so that it can outlast it.
- *Homing:* 2 cycles per second with speeds 1 and 3 give a velocity below a
  count per cycle and one with a remainder; a backoff of -3 is more than one step
  long, one of +2 leads through the obstruction and never arrives in the measured
  position. Two commands are a start and a stop at any moment after it, or a
  second start in the middle of the first.
- *Gateway:* a field is missing, of a wrong kind, below, at or above its limit;
  the second thread's three commands are those that take FV3 away from the first
  (gearing, a run, a disable). The assemblies are the packaged modules under each
  profile, with a token, without the encoder, without a registry or with a broken
  one, and with a part missing that others need, so that these are dropped in
  later rounds of the fixpoint.
- *Panel:* a start, a stop and another start, or a start, a change of the axis
  and back, with the polls in between; a third flow would need a fourth press.
- *Settings:* two pages that edit and save at the same time with the server
  stopping in between. Three `Misfits` are enough for each way a target can miss
  a travel: the stored one of the first axis and the first one entered are beyond
  the travel of the other axis, and that of the other beyond a travel that is
  edited. `SettingsReadBack` is a statement about functions, tried on samples of
  every section.

Bounds that exist only for TLC: `MaxRuns`, `MaxRows`, `MaxCycles` and `MaxLate`
in `MultiPoint`, `MaxRequests` in the liveness run, `MaxSpeed` in `AxisDaemon`,
`MaxCommands` and `MaxUnready` in `Homing`, `MaxValue`, `Main` and `Common` in
`Gateway`, `MaxPresses` and `MaxRequests` in `Panel`, `MaxEvents`, `MaxSaves`
and `Misfits` in `UiState`. The other constants are parameters of the
code and smaller here. The proofs hold for all of them.

`MaxLate` is the number of kinds of abandoned calls the daemon may still execute
(several of one kind are one that is executed several times): one in the safety runs of the runner, any number in the proofs.
Nothing in the model waits until there are none, and nothing is assumed about
their order: an abandoned row may be executed after a stop that was answered, if
it has a later slot. That it has been executed two samples later, before the moving
flag that is then read, is what `AxisInv` says. The liveness run has no abandoned
calls: with one its graph does not fit the time of a run, and no step of a thread
depends on one.

Deadlock is checked in every run except `panel` and `ui_state`, where presses
and edits are bounded and a user may stop using the page. (In `gateway` it shows
little: a process can always be restarted.)

### Fairness

*Runner* (`Fairness`, used by `multi_point_live` only). Every thread is
scheduled by the operating system: weak fairness of each thread's step. The
polling loops end, because the code bounds each by a deadline. A daemon call
returns, by its timeout of one second. A Python lock makes no promise of turns:
a client that sends commands without end may keep the stop thread waiting for
ever, so the liveness run has finitely many requests. *Homing* (`FairSpec`): the
1 ms cycle goes on (weak fairness on the parity of the cycle counter, which every
cycle and nothing else changes); a drive that loses its enable again and again
or an operator who restarts the homing can keep it from ending, hence the two
bounds. No fairness is assumed for the drive: the axis may stay where it is.

### The properties

Runner, safety: at most one live run, and its threads are the registered ones;
a foreign command found the axis free and is still alone when it is sent up to
three seconds later; a row is not sent after its run was cancelled; after a
confirmed stop no row goes on and none waits in the daemon's socket; a row is
counted at rest; the final state tells what happened; nothing but the report of
a stop thread confirms a stop; the first execution error stays. Runner,
liveness: cancellations are resolved, cancelled runs end, a confirmed stop
reopens the axis, requests are answered, runs end.

Axis: at most one generator, under its mode; nothing to move while settling;
after twice the glitch time without the enable nothing is left but a gear, which
the daemon holds without any limit, its target at the measured position and
without a base, and which goes on when the enable returns; a fault keeps the
drive off until the next enable; a gear step uses a position one cycle old, and
that of the configured master but for the one step after a `gear_config` that
names another; a reported standstill lasts until the next command, but for a PP
trigger that was pending when the enable feedback was lost and is sent on for as
long as a motion is held. *Twice* the
glitch time, because `gear_config` and `gear_stop` turn the end of a homing into
a plain stop, which is then held for a glitch time of its own; with one glitch
time the property is false.

Homing: a backoff goes to its target only, never past it, and ends exactly
there; every homing ends, the backoff too, although it has no timeout.

Server: a module is loaded only with everything it needs, whatever is missing
and in whatever round that shows; what is admitted belongs to a module that is
there, and the daemon does not refuse it for its numbers and executes it with
those that were sent, where a zero may stand for a default (and as `timeout_ms` of
a homing is refused after all); the answer to a refused `move_abs` names a field
it was refused for, or one the answer judges more strictly than the check does;
the segments of an anti-sway plan lead to its end; a motion is sent to FV3 with
the mode and those parts of the profile it was prepared with, although another
command may come between preparation and motion; a table row reaches FV3 in PP.

Page: what was stopped, replaced or, for a table, walked away from sends nothing
more; a status of a runner is shown for the axis it was asked for, and never
after a newer one.

Settings: the file is a whole one at every moment; what is stored for an axis
was entered for it, or is for a target an end of its own travel or of the travel of
the axis shown before; what has been stored is what the page reads back; a save
changes one axis, and of protected settings only what it is for.

## 5. Proofs

All proofs are for every value of the constants, under the named assumptions of
the modules, which TLC evaluates in the runs:

| Assumption | Says |
|---|---|
| `ThreadAssumption`, `CommandAssumption` | the four kinds of thread identities are distinct; the commands are known |
| `BoundAssumption`, `CycleAssumption` | bounds and cycle counts are natural numbers, positive where the code has a positive constant |
| `HomingAssumption` | rate and speeds are positive, limits are natural numbers; the obstruction is not behind the start |
| `LimitAssumption`, `ManifestAssumption` | limits are positive, the least period is not above them; what a manifest requires has a manifest |
| `RequestAssumption` | where the rules look for a number, a payload has an integer or something `_strict_int` raises for: JSON has nothing else |
| `AssemblyAssumption` | there are finitely many manifests, and a module without one is not found |
| `SettingsAssumption` | "nothing", "torn", "sent" and "refused" differ from each other and from the data |
| `KindAssumption` | `Bad` is no number, text, flag, row or section |
| `GivenAssumption` | where a number is expected a page is given a number or `Bad`; a list of rows is a sequence |
| `PanelAssumption` | a page has finitely many flows, and "none" is neither a flow nor a request |

Two theorems have a hypothesis of their own. `SendsPrepared` holds if no registry
gives a command to a handler that does not prepare it (`RegistriesFit`). The code
does not look at that: a custom registry which gives `move_rel` to the gear
module would make it false. feature_registry.json and the built-in registry are
right, and `MCGateway` ASSUMEs `RegistriesFit`, so that TLC evaluates it for all
assemblies of the run. `SettingsAreReadBack` holds if the server's limits of a
table are not below those written in the page (`LimitsFit`). They are equal by
default (64 rows, 1000 cycles); a server started with a smaller
`MCTIVITY_MAX_POINT_TABLE_ROWS` or `..._CYCLES` cuts a longer table off when it
saves it. `MCUiState` ASSUMEs `LimitsFit`.

**Runner.** `MultiPointProofs!TypeCorrect`, then `MultiPointSafety!Invariance`:
`RunnerInv` is inductive. The safety properties alone are not: that a row is
not sent after a cancellation needs to know that the event of the current run is
set together with `stop_requested` (`CancelInv`), which needs that the worker's
run is the current one (`ThreadInv`), which needs that no second start gets past
the reservation (`StartInv`), and all of it that who is at a step under the
command lock holds it (`LockInv`). `AxisInv` carries what a watcher has learned:
once the cycle counter has advanced past its first sample, the moving flag it
reads was computed after its command, and no motion that was abandoned before it
is still to be executed: when its own command is answered all others that wait
are served before the next cycle (`late` is empty, they are `due`), and a cycle
finds `due` empty. From `RunnerInv` follow
`NoLateRow`, `RunsDoNotOverlap`, `GuardHolds`, `ConfirmedIsStill`,
`RowsEndAtRest`, `OutcomeIsTrue`, and for steps `UnconfirmedStopHolds` and
`ErrorsAreKept`. Each proof has a lemma per kind of thread and under it a step
per action; actions that only move a program counter share one lemma
(`WorkerQuietInv`, `StopperQuietInv`, `RequestQuietInv`).

*The runner implements `AxisGate`* (`RunnerImplementsGate`). What the gate sees
is the number of the run and its cancellation, and whether any thread of it is
still there. Most steps leave that alone (`SameGate`, and `OwnedGate` for the
progress of a run that some thread owns); those that do not are the reservation
of a start, the abort of a request (`AbortGate`) and what worker and stop thread
do last (`WorkerGate`, `StopperGate`). That the abort is a
cancellation of the gate and not a change of a free axis needs one fact more than
`RunnerInv`: a run number is never 0, and a request that aborts has found a run
(`NumberInv`).

*A complete run is whole* (`CompletionIsWhole`). `CountInv` is the loop invariant
of `_run_worker`: as long as its run is not cancelled, the counters of the runner
are those of the loops, `completedRows = cycle * rows + row`. A cancelled run
drops out of it, because its runner may be reset and started anew under the old
thread; that is why the worker looks at its run number before it reports.

**Axis.** `AxisProofs!AxisInvariant`: `AxisInv` is inductive. It adds to the six
invariants how long each generator has been held when the enable is lost
(`Grace`: a homing for at most its own counter, a motion for its own counter and
that of the homing before it), that `down` counts only while the enable is lost,
that a lost enable leaves the target at the measured position, and what a false `moving` flag means at the end of a cycle
(`Still`). The lemmas
first say field by field what a helper does to any axis (`StoppedEffect`,
`AtPosEffect`, `SettledEffect`, ...), then what a command (`CommandKeeps`,
`QuietCommand`, `StartCommand`) and a branch (`Branched`) must give; the cycle
composes reading, the fault check, the branch and the output (`CycleKeeps`).
Theorems: `TypeCorrect`, `GeneratorsExclude`, `SettlingHasNoMotion`,
`LostEnableEnds`, `FaultsLatch`, `GearBaseIsFresh`, and the action property
`StandstillLasts`.

**Settings.** `UiStateProofs!Invariance`: `UiInv` is inductive. `LockInv` says
that only the holder of the lock is between reading and replacing, and that the
temporary file is what its holder merged once it is written; from it
`FileStaysWhole` and `SavesAreConfined`. `EnteredInv` follows a number from the
keyboard: profiles, controls, timers and requests of a page that has read the
file hold for an axis only what was entered for it (`Shown`, or for a target an
end of a travel), whatever axis the shared controls showed before. Any other
page, and any page and file once one has saved without reading, holds
that or a default (`Holds` is stated twice, for `entered` and for `entered` with
the defaults). An action of a page `Turns` it into one that `Brings` nothing but
what it held or was just given. From it `StoredComesFromEntry`.

`SettingsAreReadBack` is a statement about two sets of functions, and the proof
goes through one form per section (`HomingForm`, `SwayForm`, `CurveForm`,
`TransmissionForm`, `TableForm` with `RowForm`): whatever it is given, the page
makes a section of that form (`...Shown`), the server stores such a section as it
is (`...Stored`), and the page makes the same of it again (`...Reshown`). The table
is the hard one. That the page's rows are numbered from its start, whatever
numbers the given rows had, makes them come back at their own places
(`RowsListed`, with `LastPlace`: of two rows with one number there is a later
one), and that none of them is dropped makes the server's compaction the identity
(`RowsStored`, with `Counted`).

**Page.** `PanelProofs!PanelInvariant`: `PanelInv` is inductive. `FlowInv` has,
for each flow, where its script lets it be (`Shape`) and that it holds numbers
which have been given out (`Held`); a cancelled flow holds one that has gone by
or a selection that has (`Stale`), which is just what the code asks before it
sends. Hence `StopHolds`: only a flow that is not stale sends
(`SendersAreCurrent`). `Numbered` is about the requests of the runner: an answer
that would still be taken is not older than what is shown, because a command
that is taken is the last one given out, and a poll that is taken has no command
beside it (so it saw the last state). That a poll waits for `pending = 0` enters
through the cardinality of the commands on their way. The lemmas treat the four
things that happen to a request (`IssueNumbers`, `ServeNumbers`, `CloseNumbers`,
`QuietNumbers`) for any flow function, so that a flow which takes an answer and
sends the next command in one step is two of them. Theorems: `StopHolds`,
`ShownIsOwn`, `ShownOnlyGrows`.

**Homing.** `HomingProofs!HomingInvHolds`: `HomingInv` is inductive. What makes
`BackoffApproaches` hard is the remainder that `velocity_step_counts` carries
from one phase to the next, and a hold, which moves the target back to where the
drive is: either could make the next step go the wrong way. `Ahead` says why not:
in a backoff the target, the drive and the remainder are all on one side of where
the backoff goes. It begins with a cleared remainder, at the obstruction, and
lasts because of what C's division does to either sign (`Rounded`,
`VelocityStep`). Theorems: `HomingTypes`, `BackoffsApproach`.

**Gateway.** `GatewayProofs!GatewayInvHolds`: `GatewayInv` is inductive. What a
thread has still to do is the end of the list of its request (`Follows`), and the
steps that are done have left something behind (`Kept`): the one that takes the
lock, the lock; the one that writes the drive, its mode; the one that writes the
profile, its rates. Lemmas about sequences say what a list of any request can
look like (`WellPlanned`: steps under the lock come after the one that takes it,
only FV3 is written to, and before the daemon is told). A step then either is the
holder's own, or has no lock and cannot touch the drive (`OneServes`). A run of a
table on FV3 goes on only while nobody has the lock, between two rows
(`RunApart`). Theorems:
`LocksHold` (the lock is exclusive, and a held one has a holder that is at a
guarded step, so it will be given back), `TableRuns`, `SendsPrepared`.

**Admission and assembly.** `AdmissionProofs` adds to the invariant that a thread
serves a request the server has taken (`Served`), so that the rest is about
functions. `Usable`: of each command, every field the daemon reads is one the
server checks (`Fields`, `Unread`), and the ranges of the two differ by a zero
only. `Explained`: an order of checks in which one hits has a first that hits
(`NatMin`), and each check that hits is one the payload was refused for or one of
the two the answer makes more strictly (`Suspected`). `LeadOn`: rounding the quarters to even
keeps their order (`QuartersRounded`). `AssembliesSound` is about a fixpoint, for
any manifests: the rounds shrink, a chain of subsets of a finite set that repeats
itself when it stops growing has stopped after as many steps as the set has
members (`Chain`), so that the last round supports all it keeps
(`LoadedSupported`), and "needs, directly or not" is closed (`NeedsClosed`).
From it, `Assembled`.

The library's induction rules take an operator, which the provers cannot
instantiate. Here induction is over a *set* of natural numbers instead
(`SetInduction`, `Recursion`, from the well-foundedness of `<`): the numbers at
which a statement holds contain 0 and are closed under successor. That is enough
for the recursive functions of this project; `RECURSIVE` operators there are
none.

**Model-checked only.**

- Liveness (`CancellationResolves`, `CancelledRunEnds`, `ConfirmedStopReopens`,
  `RequestsAnswered`, `RunsEnd`, `HomingEnds`): temporal reasoning under fairness
  and ENABLED are out of the prover's reach.
- The properties of the violation runs, which are false.

## 6. What is not modelled

Trajectories and their floating point arithmetic; the EtherCAT master and the
drives (external, arbitrary feedback); the int32 and uint32 limits; the parsing
of JSON and HTTP headers, static pages, the enrichment of a status; drawing,
forms, unit conversion and the curve editor; the mock mode and the preview; the
parts that section 2 lists under 7 to 9. The bench programs and the command line
client do one thing after the other and keep nothing.

A consequence to keep in mind: `ConfirmedStopIsStandstill` and the guard hold
within one life of the HMI process. After its restart the runner is idle while
the daemon may still execute the last row; that is the subject of step 9.

Details noticed on the way that no property is about, or that a property leaves
out:

- *Daemon.* `fv3_halt_cycles` is read but never set. A motion command is accepted
  after a disable as long as the drive still reports enabled (its target runs
  with the output off). A gear is held without any limit while the enable is lost
  and goes on when it returns; a change of its master makes one step of the
  difference of two axes; a PP trigger that is pending when the enable feedback is
  lost is sent on while the status says "not moving".
- *Server and daemon.* A homing with `timeout_ms` 0 is admitted by the server and
  refused by the daemon. A zero as speed, acceleration, deceleration, duration
  of a move or hold time means the daemon's default. A bound without the other is passed over. The
  answer to a refused `move_abs` may name a zero, or a target outside its bounds,
  although the check accepts both and something else was wrong. What a request
  for FV3 does not give of the profile, the drive still has from an earlier one.
- *Commands of different connections.* A stop that is answered by `poll_server`
  before it gets to an abandoned row in a later slot does not stop that row. The
  stop thread sees it moving, and confirms the stop only when it is over.
- *Server.* A row of a table on FV3 does not write the profile itself. A
  `move_abs` over the API does not select PP. An entry of a custom registry
  without a known owner gets the default transport.
- *Settings.* A page that cannot read the file when it opens keeps its defaults
  and stores them over the settings with its next save
  (docs/version-record-v1.4.0-preview.3.md:33 says otherwise); `synced` takes
  this case out of `StoredWasEntered`. All axes share one 180 ms timer: a save
  of another axis cancels the one that waits, although the snapshot it is
  compared with has changed already. A file that cannot be read counts as no
  settings, and the next save makes that permanent. `loadUiState` gives the
  position slider its target before `updateSliders` gives it the travel of the
  axis, and saves in between: a target outside the travel of the axis shown
  before is stored as an end of that travel. The homing panel is filled when it
  appears, except for an input that has the focus. Limits in the environment
  below 64 rows or 1000 cycles cut stored tables.
- *Page.* Only the start of a table keeps its axis (RELEASE_NOTES.md:101-103 and
  SECURITY.md:29 promise it for tables only): any other flow sends to the axis
  that is selected, so that a change of the axis while `set_mode` is on its way
  sends the confirmed motion to the other axis. The waits of an anti-sway run
  look at the axis that was selected when they began (mctivity_hmi.py:4946);
  without that exception `StopIsFinal` is violated with five presses. An old status that
  says "not moving" clears `stopRequested`; `commandSeq` still protects. A
  `set_mode` that fails restores the mode of whatever axis is selected by then.
  Buttons that send one command and change nothing on the page (jog, relative
  move, stored point, torque) are left out, as are statuses that change the mode
  that is selected.

## 7. Where the code and its documentation disagree

- `axis_settle`: "enable and wait for settle first" - `stop`, `set_zero`, `home`
  and `homing_set_current` set the settle counter of an enable to 0, and the
  next motion is accepted as soon as the drive reports enabled.
- `homing_stop`: "controlled deceleration" - `abort_homing` starts from the
  velocity of the search whatever the homing is doing. A `homing_stop` in the
  backoff turns the axis round, towards the obstruction; a second one during the
  deceleration starts again from full speed.
- `homing_torque`: "detect a sustained torque threshold" - the count of cycles
  above the threshold survives cycles in which the servo is not ready and the
  target is put back, so that samples far apart make one contact.
- `gateway_gear`: "Electronic gearing stays in CSP" - `set_mode` on FV3 writes
  the mode to the drive first and tells the daemon second, and nothing undoes the
  first when it is late or the second fails. The request is answered with an
  error while the daemon goes on gearing and the drive is in profile position.
