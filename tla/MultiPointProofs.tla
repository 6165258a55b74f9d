-------------------------- MODULE MultiPointProofs --------------------------
(***************************************************************************)
(* Proofs about MultiPoint for every set of threads and every bound.       *)
(***************************************************************************)
EXTENDS MultiPoint, TLAPS

USE DEF Runs, RunIds, Threads

-----------------------------------------------------------------------------
(* Type correctness.                                                       *)

\* The initial state has the shape the code gives it.
LEMMA InitType == Init => TypeOK
  BY ThreadAssumption, BoundAssumption
  DEF Init, InitWith, TypeOK, DefaultRunner, IdleClient, IdleWorker,
      IdleStopper, RunnerType, ClientType, WorkerType, StopperType, AxisType,
      RunnerStates, ClientPcs, WorkerPcs, StopperPcs, Kinds, AllCommands

\* A cancellation leaves the four variables it writes well typed.
LEMMA AbortType ==
  ASSUME TypeOK, NEW r \in RunIds, NEW err \in BOOLEAN, NEW retry \in BOOLEAN,
         RequestAbort(r, err, retry)
  PROVE  /\ runner' \in RunnerType
         /\ event' \in [Runs -> BOOLEAN]
         /\ stopper' \in [Stoppers -> StopperType]
         /\ stopReg' \in Stoppers \cup {None}
<1>1. Faulted(err) \in RunnerType
  BY DEF TypeOK, Faulted, RunnerType, RunnerStates
<1>2. Stopping(err) \in RunnerType
  BY <1>1 DEF Stopping, RunnerType, RunnerStates
<1>3. event' \in [Runs -> BOOLEAN]
  BY DEF RequestAbort, SetEvent, TypeOK
<1>4. runner' \in RunnerType
  BY <1>1, <1>2 DEF RequestAbort, StartStopper, TypeOK
<1>5. [IdleStopper EXCEPT !.pc = "lock", !.run = runner.id] \in StopperType
  BY DEF TypeOK, RunnerType, IdleStopper, StopperType, StopperPcs
<1>6. /\ stopper' \in [Stoppers -> StopperType]
      /\ stopReg' \in Stoppers \cup {None}
  <2>1. CASE UNCHANGED <<stopper, stopReg>>
    BY <2>1 DEF TypeOK
  <2>2. CASE StartStopper(err)
    BY <2>2, <1>5 DEF StartStopper, TypeOK
  <2> QED BY <2>1, <2>2 DEF RequestAbort
<1> QED BY <1>3, <1>4, <1>6

\* The daemon's motion state stays well typed under every command.
LEMMA ExecutedType ==
  ASSUME TypeOK, NEW kind \in Kinds PROVE Executed(kind) \subseteq AxisType
<1>1. axis \in AxisType /\ AtRest(axis) \in AxisType
  BY DEF TypeOK, AtRest, AxisType
<1>2. CASE kind = "row"
  BY ZenonT(60), <1>1, <1>2 DEF Executed, AxisType
<1>3. CASE kind = "other"
  BY <1>1, <1>3 DEF Executed, AxisType
<1>4. CASE kind = "stop"
  BY <1>1, <1>4 DEF Executed, AxisType
<1>5. CASE kind \in {"clear", "cancel"}
  BY <1>1, <1>5 DEF Executed
<1> QED BY <1>2, <1>3, <1>4, <1>5 DEF Kinds

\* The state of a call to the daemon keeps its shape.
LEMMA RpcType ==
  ASSUME TypeOK, NEW kind \in Kinds, RpcOk(kind) \/ RpcFails(kind)
  PROVE  axis' \in AxisType /\ late' \subseteq Kinds /\ due' \subseteq Kinds
  BY ExecutedType DEF RpcOk, RpcFails, Served, axisVars, TypeOK

\* The elements of the thread tables, and the two ways a step writes one.
LEMMA ClientTable ==
  ASSUME TypeOK, NEW c \in Clients
  PROVE  /\ client[c] \in ClientType
         /\ IdleClient \in ClientType
         /\ Answer(c) => client' \in [Clients -> ClientType]
         /\ \A pc \in ClientPcs : Goto(c, pc) => client' \in [Clients -> ClientType]
<1>1. client \in [Clients -> ClientType]
  BY DEF TypeOK
<1>2. IdleClient \in ClientType
  BY BoundAssumption DEF IdleClient, ClientType, ClientPcs
<1>3. Answer(c) => client' \in [Clients -> ClientType]
  BY <1>1, <1>2 DEF Answer
<1>4. ASSUME NEW pc \in ClientPcs, Goto(c, pc)
      PROVE  client' \in [Clients -> ClientType]
  BY <1>1, <1>4 DEF Goto, ClientType
<1> QED BY <1>1, <1>2, <1>3, <1>4

\* The table of workers keeps its shape when one entry changes.
LEMMA WorkerTable ==
  ASSUME TypeOK, NEW w \in Workers
  PROVE  /\ worker[w] \in WorkerType
         /\ IdleWorker \in WorkerType
         /\ \A pc \in WorkerPcs : WGoto(w, pc) => worker' \in [Workers -> WorkerType]
<1>1. worker \in [Workers -> WorkerType]
  BY DEF TypeOK
<1>2. IdleWorker \in WorkerType
  BY BoundAssumption DEF IdleWorker, WorkerType, WorkerPcs
<1>3. ASSUME NEW pc \in WorkerPcs, WGoto(w, pc)
      PROVE  worker' \in [Workers -> WorkerType]
  BY <1>1, <1>3 DEF WGoto, WorkerType
<1> QED BY <1>1, <1>2, <1>3

\* The table of stop threads keeps its shape when one entry changes.
LEMMA StopperTable ==
  ASSUME TypeOK, NEW s \in Stoppers
  PROVE  /\ stopper[s] \in StopperType
         /\ IdleStopper \in StopperType
         /\ \A pc \in StopperPcs : SGoto(s, pc) => stopper' \in [Stoppers -> StopperType]
<1>1. stopper \in [Stoppers -> StopperType]
  BY DEF TypeOK
<1>2. IdleStopper \in StopperType
  BY BoundAssumption DEF IdleStopper, StopperType, StopperPcs
<1>3. ASSUME NEW pc \in StopperPcs, SGoto(s, pc)
      PROVE  stopper' \in [Stoppers -> StopperType]
  BY <1>1, <1>3 DEF SGoto, StopperType
<1> QED BY <1>1, <1>2, <1>3

\* A step of a request keeps the types.
LEMMA RequestStepType ==
  ASSUME TypeOK, NEW c \in Clients
  PROVE  /\ \A cmd \in AllCommands : Request(c, cmd) => TypeOK'
         /\ ClientStep(c) => TypeOK'
<1> USE ClientTable DEF threadVars, axisVars, eventVars, runVars, requestRest
<1>1. ASSUME NEW cmd \in AllCommands, Request(c, cmd) PROVE TypeOK'
  BY <1>1 DEF Request, TypeOK, ClientType, IdleClient, ClientPcs
<1>2. ASSUME WriteTable(c) PROVE TypeOK'
  BY <1>2 DEF WriteTable, TypeOK
<1>3. ASSUME ClearTable(c) PROVE TypeOK'
  <2>1. DefaultRunner \in RunnerType
    BY BoundAssumption DEF DefaultRunner, RunnerType, RunnerStates
  <2>2. CASE RunnerActive
    BY <1>3, <2>2, AbortType DEF ClearTable, TypeOK, LockFree, RunnerType
  <2>3. CASE ~RunnerActive
    <3>1. /\ runner' = DefaultRunner /\ table' = 0 /\ eventReg' = 0
          /\ workerReg' = None /\ stopReg' = None
          /\ UNCHANGED <<event, stopper, seq, worker, axis, late, due, advanced, cmdLock>>
      BY <1>3, <2>3 DEF ClearTable, LockFree
    <3>2. client' \in [Clients -> ClientType]
      BY <1>3 DEF ClearTable
    <3> QED BY <3>1, <3>2, <2>1, BoundAssumption DEF TypeOK
  <2> QED BY <2>2, <2>3
<1>4. ASSUME StartReserve(c) PROVE TypeOK'
  <2>1. CASE Answer(c) /\ UNCHANGED <<runner, seq, eventVars>>
    BY <1>4, <2>1 DEF StartReserve, TypeOK, LockFree
  <2>2. CASE ~(Answer(c) /\ UNCHANGED <<runner, seq, eventVars>>)
    <3>1. PICK n \in 1..MaxCycles :
            client' = [client EXCEPT ![c].pc = "prepare",
                          ![c].run = NextRunId, ![c].rows = table,
                          ![c].cycles = n]
      BY <1>4, <2>2 DEF StartReserve
    <3>2. /\ seq < MaxRuns
          /\ seq' = seq + 1 /\ eventReg' = seq + 1
          /\ event' = [event EXCEPT ![seq + 1] = FALSE]
          /\ runner' = [DefaultRunner EXCEPT !.id = seq + 1,
                           !.state = "starting", !.running = TRUE,
                           !.preparing = TRUE]
          /\ UNCHANGED <<table, worker, workerReg, stopper, stopReg, axis, late, due,
                         advanced, cmdLock>>
      BY <1>4, <2>2 DEF StartReserve, LockFree, NextRunId
    <3>3. NextRunId \in RunIds /\ seq + 1 \in Runs
      BY <3>2, BoundAssumption DEF NextRunId, TypeOK
    <3>4. runner' \in RunnerType
      BY <3>2, <3>3 DEF DefaultRunner, RunnerType, RunnerStates, NextRunId
    <3>5. [client[c] EXCEPT !.pc = "prepare", !.run = NextRunId,
              !.rows = table, !.cycles = n] \in ClientType
      <4>1. table \in Nat /\ n \in Nat
        BY BoundAssumption DEF TypeOK
      <4> QED BY <4>1, <3>3 DEF ClientType, ClientPcs
    <3>6. client' \in [Clients -> ClientType]
      BY <3>1, <3>5 DEF TypeOK
    <3> QED BY <3>2, <3>3, <3>4, <3>6 DEF TypeOK
  <2> QED BY <2>1, <2>2
<1>5. ASSUME StartPrepare(c) PROVE TypeOK'
  <2>1. \A ready \in BOOLEAN :
          [client[c] EXCEPT !.pc = "launch", !.ready = ready] \in ClientType
    BY DEF ClientType, ClientPcs
  <2>2. client' \in [Clients -> ClientType]
    BY <1>5, <2>1 DEF StartPrepare, TypeOK, ClientPcs
  <2> QED BY <1>5, <2>2 DEF StartPrepare, TypeOK
<1>6. ASSUME StartLaunch(c) PROVE TypeOK'
  <2>1. client' \in [Clients -> ClientType]
    BY <1>6 DEF StartLaunch, ClientPcs
  <2>2. runner' \in RunnerType /\ eventReg' \in RunIds
    <3>1. [runner EXCEPT !.running = FALSE, !.state = "idle"] \in RunnerType
      BY DEF TypeOK, RunnerType, RunnerStates
    <3>2. 0 \in RunIds
      BY BoundAssumption
    <3> QED BY <1>6, <3>1, <3>2 DEF StartLaunch, ReleaseReservation, TypeOK
  <2> QED BY <1>6, <2>1, <2>2 DEF StartLaunch, TypeOK, LockFree, Lock
<1>7. ASSUME StartWorker(c) PROVE TypeOK'
  <2>1. axis' \in AxisType /\ late' \subseteq Kinds /\ due' \subseteq Kinds
    BY <1>7, RpcType DEF StartWorker, Kinds
  <2>2. PICK w \in Workers :
          /\ worker' = [worker EXCEPT ![w] = [IdleWorker EXCEPT !.pc = "begin",
                           !.run = client[c].run, !.rows = client[c].rows,
                           !.cycles = client[c].cycles]]
          /\ workerReg' = w
    BY <1>7 DEF StartWorker
  <2>3. [IdleWorker EXCEPT !.pc = "begin", !.run = client[c].run,
            !.rows = client[c].rows, !.cycles = client[c].cycles] \in WorkerType
    BY DEF IdleWorker, WorkerType, WorkerPcs, ClientType
  <2> QED BY <1>7, <2>1, <2>2, <2>3 DEF StartWorker, TypeOK, ClientPcs, Unlock
<1>8. ASSUME StartSetModeFails(c) PROVE TypeOK'
  <2>1. axis' \in AxisType /\ late' \subseteq Kinds /\ due' \subseteq Kinds
    BY <1>8, RpcType DEF StartSetModeFails, Kinds
  <2> QED BY <1>8, <2>1 DEF StartSetModeFails, TypeOK, ClientPcs, Unlock
<1>9. ASSUME StartFails(c) PROVE TypeOK'
  BY <1>9, AbortType DEF StartFails, TypeOK, ClientPcs, ClientType
<1>10. ASSUME StartFinish(c) PROVE TypeOK'
  BY <1>10 DEF StartFinish, TypeOK, RunnerType
<1>11. ASSUME GuardEntry(c) PROVE TypeOK'
  <2>1. [client[c] EXCEPT !.pc = "abort", !.run = runner.id] \in ClientType
    BY ZenonT(60) DEF ClientType, ClientPcs, TypeOK, RunnerType
  <2>2. client' \in [Clients -> ClientType]
    BY <1>11, <2>1 DEF GuardEntry, TypeOK, ClientPcs
  <2> QED BY <1>11, <2>2 DEF GuardEntry, TypeOK, Lock, LockFree
<1>12. ASSUME GuardAbort(c) PROVE TypeOK'
  BY <1>12, AbortType DEF GuardAbort, TypeOK, ClientPcs, ClientType, Unlock
<1>13. ASSUME GuardExecute(c) PROVE TypeOK'
  <2>1. RpcKind(client[c].cmd) \in Kinds
    BY <1>13 DEF GuardExecute, GuardedCommands, RpcKind, Kinds
  <2>2. axis' \in AxisType /\ late' \subseteq Kinds /\ due' \subseteq Kinds
    BY <1>13, <2>1, RpcType DEF GuardExecute
  <2> QED BY <1>13, <2>2 DEF GuardExecute, TypeOK, Unlock
<1> QED
  BY <1>1, <1>2, <1>3, <1>4, <1>5, <1>6, <1>7, <1>8, <1>9, <1>10, <1>11,
     <1>12, <1>13 DEF ClientStep

\* A step of a worker keeps the types.
LEMMA WorkerStepType ==
  ASSUME TypeOK, NEW w \in Workers, WorkerStep(w) PROVE TypeOK'
<1> USE DEF threadVars, axisVars, eventVars, runVars, workerRest
<1>0. worker[w] \in WorkerType /\ IdleWorker \in WorkerType
  BY WorkerTable
<1>a. ASSUME NEW pc \in WorkerPcs, WGoto(w, pc)
      PROVE  worker' \in [Workers -> WorkerType]
  BY <1>a, WorkerTable
<1>1. ASSUME WorkerBegin(w) PROVE TypeOK'
  <2>1. [runner EXCEPT !.running = TRUE, !.state = "running",
            !.completedRows = 0, !.cycleCount = 0] \in RunnerType
    BY DEF TypeOK, RunnerType, RunnerStates
  <2>2. worker' \in [Workers -> WorkerType]
    BY <1>1, <1>a DEF WorkerBegin, WorkerPcs
  <2> QED BY <1>1, <2>1, <2>2 DEF WorkerBegin, TypeOK
<1>2. ASSUME WorkerCycle(w) PROVE TypeOK'
  <2>1. \A pc \in {"row", "exit"} :
          [worker[w] EXCEPT !.pc = pc, !.row = 0] \in WorkerType
    BY <1>0 DEF WorkerType, WorkerPcs
  <2>2. worker' \in [Workers -> WorkerType]
    BY <1>2, <2>1, <1>a DEF WorkerCycle, WorkerPcs, TypeOK
  <2> QED BY <1>2, <2>2 DEF WorkerCycle, TypeOK
<1>3. ASSUME WorkerRow(w) PROVE TypeOK'
  <2>1. worker' \in [Workers -> WorkerType]
    BY <1>3, <1>a DEF WorkerRow, WorkerPcs
  <2> QED BY <1>3, <2>1 DEF WorkerRow, TypeOK
<1>4. ASSUME WorkerDispatch(w) PROVE TypeOK'
  <2>1. worker' \in [Workers -> WorkerType]
    BY <1>4, <1>a DEF WorkerDispatch, WorkerPcs
  <2> QED BY <1>4, <2>1 DEF WorkerDispatch, TypeOK, Lock, LockFree
<1>5. ASSUME WorkerMove(w) PROVE TypeOK'
  <2>1. worker' \in [Workers -> WorkerType]
    BY <1>5, <1>a DEF WorkerMove, WorkerPcs
  <2>2. axis' \in AxisType /\ late' \subseteq Kinds /\ due' \subseteq Kinds
    BY <1>5, RpcType DEF WorkerMove, Kinds
  <2> QED BY <1>5, <2>1, <2>2 DEF WorkerMove, TypeOK, Unlock
<1>6. ASSUME WorkerWaitEnds(w) PROVE TypeOK'
  <2>1. \A pc \in WorkerPcs :
          [worker[w] EXCEPT !.pc = pc, !.based = FALSE] \in WorkerType
    BY <1>0 DEF WorkerType, WorkerPcs
  <2>2. worker' \in [Workers -> WorkerType]
    BY ZenonT(60), <1>6, <2>1 DEF WorkerWaitEnds, WorkerPcs, TypeOK
  <2> QED BY <1>6, <2>2 DEF WorkerWaitEnds, TypeOK
<1>7. ASSUME WorkerSample(w) PROVE TypeOK'
  <2>1. [worker[w] EXCEPT !.pc = IF RowArrived(w) THEN "dwell" ELSE @,
                          !.based = ~RowArrived(w)] \in WorkerType
    BY <1>0 DEF WorkerType, WorkerPcs
  <2>2. worker' \in [Workers -> WorkerType]
    BY <1>7, <2>1 DEF WorkerSample, TypeOK
  <2> QED BY <1>7, <2>2 DEF WorkerSample, Served, TypeOK
<1>8. ASSUME WorkerDwell(w) PROVE TypeOK'
  <2>1. worker' \in [Workers -> WorkerType]
    BY <1>8, <1>a DEF WorkerDwell, WorkerPcs
  <2> QED BY <1>8, <2>1 DEF WorkerDwell, TypeOK
<1>9. ASSUME WorkerCount(w) PROVE TypeOK'
  <2>1. [worker[w] EXCEPT !.pc = "row", !.row = @ + 1] \in WorkerType
    <3>1. worker[w].row + 1 \in Nat
      BY <1>0 DEF WorkerType
    <3> QED BY <3>1, <1>0 DEF WorkerType, WorkerPcs
  <2>2. [runner EXCEPT !.completedRows = @ + 1] \in RunnerType
    BY DEF TypeOK, RunnerType
  <2>3. worker' \in [Workers -> WorkerType]
    BY <1>9, <2>1, <1>a DEF WorkerCount, WorkerPcs, TypeOK
  <2> QED BY <1>9, <2>2, <2>3 DEF WorkerCount, TypeOK
<1>10. ASSUME WorkerCycleEnd(w) PROVE TypeOK'
  <2>0. worker[w].cycle + 1 \in Nat
    BY <1>0 DEF WorkerType
  <2>1. [worker[w] EXCEPT !.pc = "cycle", !.cycle = @ + 1] \in WorkerType
    BY <2>0, <1>0 DEF WorkerType, WorkerPcs
  <2>2. [runner EXCEPT !.cycleCount = worker[w].cycle + 1] \in RunnerType
    BY <2>0 DEF TypeOK, RunnerType
  <2>3. worker' \in [Workers -> WorkerType]
    BY <1>10, <2>1, <1>a DEF WorkerCycleEnd, WorkerPcs, TypeOK
  <2> QED BY <1>10, <2>2, <2>3 DEF WorkerCycleEnd, TypeOK
<1>11. ASSUME WorkerFinal(w) PROVE TypeOK'
  <2>1. [runner EXCEPT !.running = FALSE, !.state = "complete"] \in RunnerType
    BY DEF TypeOK, RunnerType, RunnerStates
  <2>2. worker' \in [Workers -> WorkerType]
    BY <1>11, <1>a DEF WorkerFinal, WorkerPcs
  <2> QED BY <1>11, <2>1, <2>2 DEF WorkerFinal, TypeOK
<1>12. ASSUME WorkerFails(w) PROVE TypeOK'
  <2>1. worker' \in [Workers -> WorkerType]
    BY <1>12, <1>a DEF WorkerFails, WorkerPcs
  <2>2. worker[w].run \in RunIds
    BY <1>0 DEF WorkerType
  <2> QED BY <1>12, <2>1, <2>2, AbortType DEF WorkerFails, TypeOK
<1>13. ASSUME WorkerExit(w) PROVE TypeOK'
  BY <1>13, <1>0 DEF WorkerExit, TypeOK
<1> QED
  BY <1>1, <1>2, <1>3, <1>4, <1>5, <1>6, <1>7, <1>8, <1>9, <1>10, <1>11,
     <1>12, <1>13 DEF WorkerStep

\* A step of a stop thread keeps the types.
LEMMA StopperStepType ==
  ASSUME TypeOK, NEW s \in Stoppers, StopperStep(s) PROVE TypeOK'
<1> USE DEF threadVars, axisVars, eventVars, runVars, stopperRest
<1>0. stopper[s] \in StopperType /\ IdleStopper \in StopperType
  BY StopperTable
<1>a. ASSUME NEW pc \in StopperPcs, SGoto(s, pc)
      PROVE  stopper' \in [Stoppers -> StopperType]
  BY <1>a, StopperTable
<1>1. ASSUME StopLock(s) PROVE TypeOK'
  <2>1. stopper' \in [Stoppers -> StopperType]
    BY <1>1, <1>a DEF StopLock, StopperPcs
  <2> QED BY <1>1, <2>1 DEF StopLock, TypeOK, Lock, LockFree
<1>2. ASSUME StopSend(s) PROVE TypeOK'
  <2>1. stopper' \in [Stoppers -> StopperType]
    BY <1>2, <1>a DEF StopSend, StopperPcs
  <2>2. axis' \in AxisType /\ late' \subseteq Kinds /\ due' \subseteq Kinds
    BY <1>2, RpcType DEF StopSend, Kinds
  <2> QED BY <1>2, <2>1, <2>2 DEF StopSend, TypeOK, Unlock
<1>3. ASSUME StopSample(s) PROVE TypeOK'
  <2>1. [stopper[s] EXCEPT
            !.pc = IF StillConfirmed(s) THEN "report" ELSE @,
            !.confirmed = StillConfirmed(s), !.based = TRUE,
            !.still = ~axis.reported] \in StopperType
    <3>1. StillConfirmed(s) \in BOOLEAN
      BY <1>0 DEF StillConfirmed, TypeOK, AxisType, StopperType
    <3>2. (~axis.reported) \in BOOLEAN
      OBVIOUS
    <3> QED BY <3>1, <3>2, <1>0 DEF StopperType, StopperPcs
  <2>2. stopper' \in [Stoppers -> StopperType]
    BY <1>3, <2>1 DEF StopSample, TypeOK
  <2> QED BY <1>3, <2>2 DEF StopSample, Served, TypeOK
<1>4. ASSUME StopGiveUp(s) PROVE TypeOK'
  <2>1. stopper' \in [Stoppers -> StopperType]
    BY <1>4, <1>a DEF StopGiveUp, StopperPcs
  <2> QED BY <1>4, <2>1 DEF StopGiveUp, TypeOK
<1>5. ASSUME StopReport(s) PROVE TypeOK'
  <2>1. \A ok \in BOOLEAN :
          [runner EXCEPT !.running = FALSE, !.state = StateAfterStop(ok),
             !.stopConfirmed = ok, !.stopError = ~ok] \in RunnerType
    BY DEF TypeOK, RunnerType, RunnerStates, StateAfterStop
  <2>2. stopper[s].confirmed \in BOOLEAN
    BY <1>0 DEF StopperType
  <2>3. stopper' \in [Stoppers -> StopperType]
    BY <1>5, <1>a DEF StopReport, StopperPcs
  <2> QED BY <1>5, <2>1, <2>2, <2>3 DEF StopReport, TypeOK
<1>6. ASSUME StopExit(s) PROVE TypeOK'
  BY <1>6, <1>0 DEF StopExit, TypeOK
<1> QED BY <1>1, <1>2, <1>3, <1>4, <1>5, <1>6 DEF StopperStep

\* A step of the daemon keeps the types.
LEMMA DaemonStepType ==
  ASSUME TypeOK, AxisCycle \/ DeliverLate PROVE TypeOK'
<1> USE DEF threadVars, axisVars, eventVars, runVars
<1>1. CASE AxisCycle
  <2>1. axis' \in AxisType
    BY <1>1 DEF AxisCycle, AxisType, TypeOK
  <2>2. advanced' \subseteq Workers \cup Stoppers
    BY <1>1 DEF AxisCycle
  <2> QED BY <1>1, <2>1, <2>2 DEF AxisCycle, TypeOK
<1>2. CASE DeliverLate
  <2>1. late \cup due \subseteq Kinds
    BY DEF TypeOK
  <2>2. axis' \in AxisType /\ late' \subseteq Kinds /\ due' \subseteq Kinds
    BY <1>2, <2>1, ExecutedType DEF DeliverLate, TypeOK
  <2> QED BY <1>2, <2>2 DEF DeliverLate, TypeOK
<1> QED BY <1>1, <1>2

\* In every behaviour of the runner its state is well typed.
THEOREM TypeCorrect == Spec => []TypeOK
<1>1. TypeOK /\ [Next]_vars => TypeOK'
  <2> SUFFICES ASSUME TypeOK, [Next]_vars PROVE TypeOK'
    OBVIOUS
  <2>1. CASE UNCHANGED vars
    BY <2>1 DEF vars, runVars, eventVars, threadVars, axisVars, TypeOK
  <2>2. CASE Next
    BY <2>2, RequestStepType, WorkerStepType, StopperStepType, DaemonStepType,
       CommandAssumption DEF Next
  <2> QED BY <2>1, <2>2
<1> QED BY InitType, <1>1, PTL DEF Spec
=============================================================================
