-------------------------- MODULE MultiPointSafety --------------------------
(***************************************************************************)
(* The safety properties of MultiPoint for every set of threads and every  *)
(* bound, from the inductive invariant RunnerInv; that the runner          *)
(* implements AxisGate, step by step, from RunnerInv and NumberInv; that a *)
(* run which completes has counted every row, from RunnerInv and CountInv. *)
(***************************************************************************)
EXTENDS MultiPointInv, MultiPointProofs

USE DEF Runs, RunIds

-----------------------------------------------------------------------------
(* What a step of one thread does to its table of threads.                 *)

\* What WGoto changes of a worker.
LEMMA WGotoEffect ==
  ASSUME TypeOK, NEW w \in Workers, NEW pc, WGoto(w, pc)
  PROVE  /\ worker'[w].pc = pc
         /\ worker'[w].run = worker[w].run
         /\ \A v \in Workers : v # w => worker'[v] = worker[v]
  BY DEF TypeOK, WGoto, WorkerType

\* What the head of the cycle loop changes of a worker that begins a cycle.
LEMMA RestartEffect ==
  ASSUME TypeOK, NEW w \in Workers, NEW pc,
         worker' = [worker EXCEPT ![w].pc = pc, ![w].row = 0]
  PROVE  /\ worker'[w].pc = pc /\ worker'[w].row = 0
         /\ worker'[w].run = worker[w].run
         /\ worker'[w].rows = worker[w].rows
         /\ worker'[w].cycles = worker[w].cycles
         /\ worker'[w].cycle = worker[w].cycle
         /\ \A v \in Workers : v # w => worker'[v] = worker[v]
<1>1. worker \in [Workers -> WorkerType]
  BY DEF TypeOK
<1> QED BY <1>1 DEF WorkerType

\* What SGoto changes of a stop thread.
LEMMA SGotoEffect ==
  ASSUME TypeOK, NEW s \in Stoppers, NEW pc, SGoto(s, pc)
  PROVE  /\ stopper'[s].pc = pc
         /\ stopper'[s].run = stopper[s].run
         /\ stopper'[s].confirmed = stopper[s].confirmed
         /\ \A v \in Stoppers : v # s => stopper'[v] = stopper[v]
  BY DEF TypeOK, SGoto, StopperType

\* What Goto changes of a request.
LEMMA GotoEffect ==
  ASSUME TypeOK, NEW c \in Clients, NEW pc, Goto(c, pc)
  PROVE  /\ client'[c].pc = pc
         /\ client'[c].cmd = client[c].cmd
         /\ client'[c].run = client[c].run
         /\ \A d \in Clients : d # c => client'[d] = client[d]
  BY DEF TypeOK, Goto, ClientType

\* What the end of a request changes.
LEMMA AnswerEffect ==
  ASSUME TypeOK, NEW c \in Clients, Answer(c)
  PROVE  /\ client'[c].pc = "idle"
         /\ \A d \in Clients : d # c => client'[d] = client[d]
  BY DEF TypeOK, Answer, ClientType, IdleClient

-----------------------------------------------------------------------------
(* What keeps a foreign command out.                                       *)

\* A thread that owns the current run is live.
LEMMA OwnedMeansActive ==
  ASSUME RunnerInv,
         \/ \E w \in Workers : LiveWorker(w)
         \/ \E s \in Stoppers : LiveStopper(s)
         \/ \E c \in Clients : Starting(c)
  PROVE  RunnerActive
<1>1. ASSUME NEW w \in Workers, LiveWorker(w) PROVE RunnerActive
  BY <1>1, ThreadAssumption
  DEF RunnerInv, ThreadInv, LiveWorker, RunnerActive, WorkerAlive
<1>2. ASSUME NEW s \in Stoppers, LiveStopper(s) PROVE RunnerActive
  BY <1>2, ThreadAssumption
  DEF RunnerInv, ThreadInv, LiveStopper, RunnerActive, StopperAlive
<1>3. ASSUME NEW c \in Clients, Starting(c) PROVE RunnerActive
  BY <1>3 DEF RunnerInv, StartInv, RunnerActive, RunnerBusy
<1> QED BY <1>1, <1>2, <1>3

\* While a thread of a run is alive no foreign command is about to be sent.
LEMMA OwnedMeansAlone ==
  ASSUME RunnerInv,
         \/ \E w \in Workers : LiveWorker(w)
         \/ \E s \in Stoppers : LiveStopper(s)
         \/ \E c \in Clients : Starting(c),
         NEW c \in Clients, client[c].pc = "exec"
  PROVE  client[c].cmd = "disable"
  BY OwnedMeansActive DEF RunnerInv, ForeignCommandsRunAlone

-----------------------------------------------------------------------------
(* Steps of a worker.                                                      *)

\* Nothing changes in the sockets, or the daemon goes on to serve them.
Sockets == UNCHANGED <<late, due>> \/ Served

\* The steps at which a worker only goes on in its own program and reports
\* progress; they leave the axis and every lock alone.
WorkerQuiet(w) ==
    /\ LiveWorker(w)
    /\ worker'[w].pc # "idle" => worker'[w].run = worker[w].run
    /\ \A v \in Workers : v # w => worker'[v] = worker[v]
    /\ worker'[w].pc # "move"
    /\ worker'[w].pc = "wait" => worker[w].pc = "wait"
    /\ worker'[w].pc \in {"dwell", "count"} =>
          axis.motion = "none" /\ {"row", "other"} \cap (late \cup due) = {}
    /\ w \notin advanced'
    /\ advanced' \subseteq advanced
    /\ runner'.id = runner.id
    /\ runner'.preparing = runner.preparing
    /\ runner'.stopRequested = runner.stopRequested
    /\ runner'.stopConfirmed = runner.stopConfirmed
    /\ runner'.executionError = runner.executionError
    /\ runner'.stopError = runner.stopError
    /\ \/ runner'.state = runner.state
       \/ ~runner.stopRequested /\ runner'.state \in {"running", "complete"}
    /\ Sockets
    /\ UNCHANGED <<seq, event, eventReg, workerReg, stopper, stopReg, cmdLock,
                   client, axis>>

\* What is in the sockets stays there; what is not yet served gets less.
LEMMA SocketsEffect ==
  ASSUME Sockets
  PROVE  /\ late' \cup due' = late \cup due
         /\ late' \subseteq late /\ due' \subseteq late \cup due
  BY DEF Sockets, Served

\* A worker step that changes only the worker keeps the invariant.
LEMMA WorkerQuietInv ==
  ASSUME RunnerInv, TypeOK', NEW w \in Workers, WorkerQuiet(w)
  PROVE  RunnerInv'
<1> USE DEF RunnerInv, WorkerQuiet
<1>1. /\ late' \cup due' = late \cup due
      /\ late' \subseteq late /\ due' \subseteq late \cup due
  BY SocketsEffect
<1>2. LockInv'
  BY DEF LockInv, UnderLock
<1>3. StartInv'
  BY DEF StartInv, Starting, LiveWorker
<1>4. ThreadInv'
  BY DEF ThreadInv, LiveWorker, LiveStopper
<1>5. CancelInv'
  BY DEF CancelInv, LiveStopper
<1>6. AxisInv'
  BY <1>1 DEF AxisInv
<1>7. ForeignCommandsRunAlone'
  BY OwnedMeansAlone DEF ForeignCommandsRunAlone
<1>8. OutcomeIsHonest'
  BY DEF OutcomeIsHonest, StopperAlive, CancelInv
<1>9. ConfirmedStopIsStandstill'
  BY <1>1 DEF ConfirmedStopIsStandstill
<1>10. CompletedRowIsAtRest'
  BY <1>1 DEF CompletedRowIsAtRest
<1> QED BY <1>2, <1>3, <1>4, <1>5, <1>6, <1>7, <1>8, <1>9, <1>10

\* A worker whose event is not set has a run that was not cancelled.
LEMMA NotCancelled ==
  ASSUME RunnerInv, NEW w \in Workers, LiveWorker(w), ~Cancelled(w)
  PROVE  ~runner.stopRequested
<1>1. worker[w].run = runner.id /\ runner.id # 0 /\ eventReg = runner.id
  BY DEF RunnerInv, ThreadInv
<1>2. runner.id \in RunIds
  BY DEF RunnerInv, TypeOK, RunnerType
<1>3. runner.id \in Runs
  BY <1>1, <1>2, BoundAssumption
<1> QED BY <1>1, <1>3 DEF RunnerInv, CancelInv, Cancelled

\* The worker steps of that kind.
LEMMA WorkerQuietSteps ==
  ASSUME RunnerInv, NEW w \in Workers,
         \/ WorkerBegin(w) \/ WorkerCycle(w) \/ WorkerRow(w)
         \/ WorkerWaitEnds(w) \/ WorkerSample(w) \/ WorkerDwell(w)
         \/ WorkerCount(w) \/ WorkerCycleEnd(w) \/ WorkerFinal(w)
         \/ WorkerExit(w)
  PROVE  WorkerQuiet(w)
<1> USE DEF WorkerQuiet, Sockets, LiveWorker, workerRest, runVars, eventVars,
            axisVars
<1>a. TypeOK /\ worker[w] \in WorkerType /\ runner \in RunnerType
  BY WorkerTable DEF RunnerInv, TypeOK
<1>b. w \in advanced => worker[w].pc = "wait"
  BY DEF RunnerInv, AxisInv
<1>c. \A pc : WGoto(w, pc) =>
         /\ worker'[w].pc = pc
         /\ worker'[w].run = worker[w].run
         /\ \A v \in Workers : v # w => worker'[v] = worker[v]
  BY <1>a, WGotoEffect
<1>1. CASE WorkerBegin(w)
  <2>1. /\ worker'[w].pc \in {"cycle", "exit"}
        /\ worker'[w].run = worker[w].run
        /\ \A v \in Workers : v # w => worker'[v] = worker[v]
    BY <1>1, <1>c DEF WorkerBegin
  <2>2. \/ UNCHANGED runner
        \/ /\ ~runner.stopRequested
           /\ runner' = [runner EXCEPT !.running = TRUE, !.state = "running",
                            !.completedRows = 0, !.cycleCount = 0]
    BY <1>1, NotCancelled DEF WorkerBegin
  <2> QED BY <1>1, <2>1, <2>2, <1>a, <1>b DEF WorkerBegin, RunnerType
<1>2. CASE WorkerCycle(w)
  <2>1. /\ worker'[w].pc \in {"final", "row", "exit"}
        /\ worker'[w].run = worker[w].run
        /\ \A v \in Workers : v # w => worker'[v] = worker[v]
    <3>1. \/ WGoto(w, "final")
          \/ \E pc \in {"row", "exit"} :
                worker' = [worker EXCEPT ![w].pc = pc, ![w].row = 0]
      BY <1>2 DEF WorkerCycle
    <3> QED BY <3>1, <1>a, <1>c, RestartEffect
  <2> QED BY <1>2, <2>1, <1>b DEF WorkerCycle
<1>3. CASE WorkerRow(w)
  BY <1>3, <1>b, <1>c DEF WorkerRow
<1>4. CASE WorkerWaitEnds(w)
  <2>1. /\ worker'[w].pc \in {"fail", "cycleEnd"}
        /\ worker'[w].run = worker[w].run
        /\ \A v \in Workers : v # w => worker'[v] = worker[v]
    <3>1. PICK pc \in {"fail", "cycleEnd"} :
            worker' = [worker EXCEPT ![w].pc = pc, ![w].based = FALSE]
      BY <1>4 DEF WorkerWaitEnds
    <3> QED BY <3>1, <1>a DEF TypeOK, WorkerType
  <2> QED BY <1>4, <2>1, <1>a DEF WorkerWaitEnds
<1>5. CASE WorkerSample(w)
  <2>1. /\ worker'[w].pc \in {"dwell", "wait"}
        /\ worker'[w].pc = "dwell" => RowArrived(w)
        /\ worker'[w].run = worker[w].run
        /\ \A v \in Workers : v # w => worker'[v] = worker[v]
    BY <1>5, <1>a DEF WorkerSample, TypeOK, WorkerType
  <2>4. /\ worker[w].pc = "wait" /\ Served
        /\ UNCHANGED <<runner, seq, event, eventReg, workerReg, stopper, stopReg,
                       cmdLock, client, axis>>
    BY <1>5 DEF WorkerSample
  <2>2. RowArrived(w) => /\ axis.motion = "none"
                         /\ {"row", "other"} \cap (late \cup due) = {}
    BY <2>4 DEF RowArrived, RunnerInv, AxisInv
  <2>3. w \notin advanced' /\ advanced' \subseteq advanced
    BY <1>5 DEF WorkerSample
  <2> QED BY <2>1, <2>2, <2>3, <2>4
<1>6. CASE WorkerDwell(w)
  <2>1. axis.motion = "none" /\ {"row", "other"} \cap (late \cup due) = {}
    BY <1>6 DEF WorkerDwell, RunnerInv, CompletedRowIsAtRest
  <2> QED BY <1>6, <2>1, <1>b, <1>c DEF WorkerDwell
<1>7. CASE WorkerCount(w)
  <2>1. /\ worker'[w].pc \in {"row", "exit"}
        /\ worker'[w].run = worker[w].run
        /\ \A v \in Workers : v # w => worker'[v] = worker[v]
    <3>1. CASE WGoto(w, "exit")
      BY <3>1, <1>c
    <3>2. CASE worker' = [worker EXCEPT ![w].pc = "row", ![w].row = @ + 1]
      BY <3>2, <1>a DEF TypeOK, WorkerType
    <3> QED BY <1>7, <3>1, <3>2 DEF WorkerCount
  <2> QED BY <1>7, <2>1, <1>a, <1>b DEF WorkerCount, RunnerType
<1>8. CASE WorkerCycleEnd(w)
  <2>1. /\ worker'[w].pc \in {"final", "cycle", "exit"}
        /\ worker'[w].run = worker[w].run
        /\ \A v \in Workers : v # w => worker'[v] = worker[v]
    <3>1. CASE WGoto(w, "final") \/ WGoto(w, "exit")
      BY <3>1, <1>c
    <3>2. CASE worker' = [worker EXCEPT ![w].pc = "cycle", ![w].cycle = @ + 1]
      BY <3>2, <1>a DEF TypeOK, WorkerType
    <3> QED BY <1>8, <3>1, <3>2 DEF WorkerCycleEnd
  <2> QED BY <1>8, <2>1, <1>a, <1>b DEF WorkerCycleEnd, RunnerType
<1>9. CASE WorkerFinal(w)
  BY <1>9, <1>a, <1>b, <1>c, NotCancelled DEF WorkerFinal, MayComplete, RunnerType
<1>10. CASE WorkerExit(w)
  <2>1. /\ worker'[w].pc = "idle"
        /\ \A v \in Workers : v # w => worker'[v] = worker[v]
    BY <1>10, <1>a DEF WorkerExit, IdleWorker, TypeOK
  <2> QED BY <1>10, <2>1, <1>b DEF WorkerExit
<1> QED
  BY <1>1, <1>2, <1>3, <1>4, <1>5, <1>6, <1>7, <1>8, <1>9, <1>10

\* Taking the command lock at the row: with the event read under the lock,
\* nobody else can be at a step that needs it.
LEMMA WorkerDispatchInv ==
  ASSUME RunnerInv, TypeOK', NEW w \in Workers, WorkerDispatch(w)
  PROVE  RunnerInv'
<1> USE DEF RunnerInv
<1>0. /\ worker[w].pc = "dispatch" /\ cmdLock = None
      /\ UNCHANGED <<runner, seq, event, eventReg, workerReg, stopper, stopReg,
                     client, axis, late, due, advanced>>
      /\ \/ WGoto(w, "move") /\ cmdLock' = w /\ ~Cancelled(w)
         \/ WGoto(w, "cycleEnd") /\ cmdLock' = None
  BY DEF WorkerDispatch, Lock, LockFree, runVars, eventVars, axisVars
<1>1. CASE WGoto(w, "cycleEnd") /\ cmdLock' = None
  <2>1. WorkerQuiet(w)
    BY <1>0, <1>1, WGotoEffect DEF WorkerQuiet, Sockets, LiveWorker, AxisInv
  <2> QED BY <2>1, WorkerQuietInv
<1>2. CASE WGoto(w, "move") /\ cmdLock' = w /\ ~Cancelled(w)
  <2>1. /\ worker'[w].pc = "move" /\ worker'[w].run = worker[w].run
        /\ \A v \in Workers : v # w => worker'[v] = worker[v]
    BY <1>2, WGotoEffect
  <2>2. ~runner.stopRequested
    BY <1>0, <1>2, NotCancelled DEF LiveWorker
  <2>3. LockInv'
    BY <1>0, <1>2, <2>1, ThreadAssumption DEF LockInv, UnderLock
  <2>4. StartInv'
    BY <1>0, <2>1 DEF StartInv, Starting, LiveWorker
  <2>5. ThreadInv'
    BY <1>0, <2>1 DEF ThreadInv, LiveWorker, LiveStopper
  <2>6. CancelInv'
    BY <1>0, <1>2, <2>1, <2>2 DEF CancelInv, LiveStopper, Cancelled
  <2>7. AxisInv'
    BY <1>0, <2>1 DEF AxisInv
  <2>8. ForeignCommandsRunAlone'
    BY <1>0, OwnedMeansAlone DEF ForeignCommandsRunAlone, LiveWorker
  <2>9. OutcomeIsHonest' /\ ConfirmedStopIsStandstill' /\ CompletedRowIsAtRest'
    BY <1>0, <2>1
    DEF OutcomeIsHonest, StopperAlive, ConfirmedStopIsStandstill, CompletedRowIsAtRest
  <2> QED BY <2>3, <2>4, <2>5, <2>6, <2>7, <2>8, <2>9
<1> QED BY <1>0, <1>1, <1>2

\* The row itself: the only step that starts a row motion.
LEMMA WorkerMoveInv ==
  ASSUME RunnerInv, TypeOK', NEW w \in Workers, WorkerMove(w)
  PROVE  RunnerInv'
<1> USE DEF RunnerInv
<1>0. /\ worker[w].pc = "move" /\ cmdLock = w /\ cmdLock' = None
      /\ UNCHANGED <<runner, seq, event, eventReg, workerReg, stopper, stopReg,
                     client, advanced>>
      /\ \/ WGoto(w, "wait") /\ late' = {}
         \/ WGoto(w, "fail")
  BY DEF WorkerMove, Unlock, RpcOk, Served, runVars, eventVars
<1>1. /\ worker'[w].pc \in {"wait", "fail"} /\ worker'[w].run = worker[w].run
      /\ worker'[w].pc = "wait" => late' = {}
      /\ \A v \in Workers : v # w => worker'[v] = worker[v]
  BY <1>0, WGotoEffect
<1>2. /\ ~runner.stopRequested
      /\ \A v \in Workers : LiveWorker(v) => v = w
      /\ \A s \in Stoppers : ~LiveStopper(s)
  BY <1>0 DEF CancelInv, ThreadInv, LiveWorker
<1>3. LockInv'
  BY <1>0, <1>1, <1>2, ThreadAssumption
  DEF LockInv, UnderLock, LiveWorker, LiveStopper
<1>4. StartInv'
  BY <1>0, <1>1 DEF StartInv, Starting, LiveWorker
<1>5. ThreadInv'
  BY <1>0, <1>1 DEF ThreadInv, LiveWorker, LiveStopper
<1>6. CancelInv'
  BY <1>0, <1>1, <1>2 DEF CancelInv, LiveStopper, LiveWorker
<1>7. AxisInv'
  BY <1>0, <1>1, <1>2 DEF AxisInv, LiveStopper, LiveWorker
<1>8. ForeignCommandsRunAlone'
  BY <1>0, OwnedMeansAlone DEF ForeignCommandsRunAlone, LiveWorker
<1>9. OutcomeIsHonest'
  BY <1>0 DEF OutcomeIsHonest, StopperAlive
<1>10. ConfirmedStopIsStandstill' /\ CompletedRowIsAtRest'
  BY <1>0, <1>1, <1>2
  DEF ConfirmedStopIsStandstill, CompletedRowIsAtRest, CancelInv, LiveWorker
<1> QED BY <1>3, <1>4, <1>5, <1>6, <1>7, <1>8, <1>9, <1>10

-----------------------------------------------------------------------------
(* A cancellation, wherever it comes from.                                 *)

\* A new stop thread works for a run whose stop is requested, not confirmed.
NewStopper(s) ==
    /\ \A v \in Stoppers : ~LiveStopper(v)
    /\ stopReg' = s
    /\ stopper'[s].pc = "lock" /\ stopper'[s].run = runner.id
    /\ ~stopper'[s].confirmed
    /\ \A v \in Stoppers : v # s => stopper'[v] = stopper[v]
    /\ runner'.stopRequested /\ ~runner'.stopConfirmed
    /\ runner'.state = "stopping"

\* What a cancellation does to a runner that keeps its stop threads.
SameStop ==
    /\ UNCHANGED <<stopper, stopReg>>
    /\ runner'.stopRequested = runner.stopRequested
    /\ runner'.stopConfirmed = runner.stopConfirmed
    /\ runner'.stopError = runner.stopError
    /\ \/ /\ runner'.state = runner.state
          /\ runner'.executionError = runner.executionError
       \/ /\ runner'.executionError
          /\ runner.stopRequested
          /\ runner'.state = IF runner.stopConfirmed THEN "error"
                             ELSE runner.state

\* What the abort of a run changes.
LEMMA AbortEffect ==
  ASSUME RunnerInv, NEW r, NEW err \in BOOLEAN, NEW retry \in BOOLEAN,
         RequestAbort(r, err, retry)
  PROVE  /\ runner'.id = runner.id
         /\ runner'.preparing = runner.preparing
         /\ \A q \in Runs : q = runner.id /\ q = eventReg
                               /\ runner'.stopRequested => event'[q]
         /\ runner.executionError => runner'.executionError
         /\ SameStop \/ \E s \in Stoppers : NewStopper(s)
<1> USE DEF RunnerInv
<1>0. TypeOK /\ runner \in RunnerType
  BY DEF TypeOK
<1>a. /\ Faulted(err).id = runner.id
      /\ Faulted(err).preparing = runner.preparing
      /\ Faulted(err).stopRequested = runner.stopRequested
      /\ Faulted(err).stopConfirmed = runner.stopConfirmed
      /\ Faulted(err).stopError = runner.stopError
      /\ runner.executionError => Faulted(err).executionError
      /\ \/ /\ Faulted(err).state = runner.state
            /\ Faulted(err).executionError = runner.executionError
         \/ /\ Faulted(err).executionError
            /\ Faulted(err).state = IF runner.stopConfirmed THEN "error"
                                    ELSE runner.state
  BY <1>0 DEF Faulted, RunnerType
<1>1. CASE ~IsCurrent(r)
  <2>1. UNCHANGED <<runner, event, stopper, stopReg>>
    BY <1>1 DEF RequestAbort
  <2> QED BY <2>1 DEF SameStop, CancelInv
<1>2. CASE IsCurrent(r) /\ ~NewAttempt(retry)
  <2>1. /\ runner' = Faulted(err)
        /\ SetEvent
        /\ UNCHANGED <<stopper, stopReg>>
    BY <1>2 DEF RequestAbort
  <2>2. runner.stopRequested
    BY <1>0, <1>2 DEF NewAttempt, StopperAlive, CancelInv, LiveStopper, TypeOK
  <2>3. SameStop
    BY <2>1, <2>2, <1>a DEF SameStop
  <2>4. \A q \in Runs : q = eventReg => event'[q]
    BY <2>1 DEF SetEvent
  <2> QED BY <2>1, <2>3, <2>4, <1>a
<1>3. CASE IsCurrent(r) /\ NewAttempt(retry)
  <2>1. SetEvent /\ StartStopper(err)
    BY <1>3 DEF RequestAbort
  <2>2. PICK s \in Stoppers :
          /\ stopper[s].pc = "idle"
          /\ stopper' = [stopper EXCEPT ![s] = [IdleStopper EXCEPT
                             !.pc = "lock", !.run = runner.id]]
          /\ stopReg' = s
    BY <2>1 DEF StartStopper
  <2>3. /\ stopper'[s].pc = "lock" /\ stopper'[s].run = runner.id
        /\ ~stopper'[s].confirmed
        /\ \A v \in Stoppers : v # s => stopper'[v] = stopper[v]
    BY <2>2, <1>0 DEF TypeOK, IdleStopper
  <2>4. /\ runner'.id = runner.id /\ runner'.preparing = runner.preparing
        /\ runner'.stopRequested /\ ~runner'.stopConfirmed
        /\ runner.executionError => runner'.executionError
        /\ runner'.state = "stopping"
    <3>1. runner' = Stopping(err) /\ Faulted(err) \in RunnerType
      BY <2>1, <1>0 DEF StartStopper, Faulted, RunnerType, RunnerStates
    <3> QED BY <3>1, <1>a DEF Stopping, RunnerType
  <2>5. \A v \in Stoppers : ~LiveStopper(v)
    BY <1>3, <1>0, ThreadAssumption
    DEF NewAttempt, StopperAlive, LiveStopper, ThreadInv
  <2>6. \A q \in Runs : q = eventReg => event'[q]
    BY <2>1 DEF SetEvent
  <2>7. NewStopper(s)
    BY <2>2, <2>3, <2>4, <2>5 DEF NewStopper
  <2> QED BY <2>4, <2>6, <2>7
<1> QED BY <1>1, <1>2, <1>3

\* The part of the invariant a cancellation keeps whoever asks for it, as long
\* as no worker is about to send a row.
LEMMA AbortInv ==
  ASSUME RunnerInv, TypeOK',
         NEW r, NEW err \in BOOLEAN, NEW retry \in BOOLEAN,
         RequestAbort(r, err, retry),
         \A w \in Workers :
            /\ worker[w].pc # "move"
            /\ \/ worker'[w] = worker[w]
               \/ /\ worker[w].pc = "fail" /\ worker'[w].pc = "exit"
                  /\ worker'[w].run = worker[w].run,
         UNCHANGED <<eventReg, workerReg, axis, late, due, advanced>>
  PROVE  /\ ThreadInv' /\ CancelInv' /\ AxisInv'
         /\ OutcomeIsHonest' /\ ConfirmedStopIsStandstill'
         /\ CompletedRowIsAtRest'
<1> USE DEF RunnerInv
<1>1. /\ runner'.id = runner.id
      /\ runner'.preparing = runner.preparing
      /\ \A q \in Runs : q = runner.id /\ q = eventReg
                            /\ runner'.stopRequested => event'[q]
      /\ SameStop \/ \E s \in Stoppers : NewStopper(s)
  BY AbortEffect
<1>2. CASE SameStop
  <2>1. ThreadInv'
    BY <1>1, <1>2 DEF SameStop, ThreadInv, LiveWorker, LiveStopper
  <2>2. CancelInv'
    BY <1>1, <1>2 DEF SameStop, CancelInv, LiveStopper
  <2>3. AxisInv'
    BY <1>2 DEF SameStop, AxisInv
  <2>4. OutcomeIsHonest'
    BY <1>2 DEF SameStop, OutcomeIsHonest, CancelInv, StopperAlive
  <2>5. ConfirmedStopIsStandstill' /\ CompletedRowIsAtRest'
    BY <1>2 DEF SameStop, ConfirmedStopIsStandstill, CompletedRowIsAtRest
  <2> QED BY <2>1, <2>2, <2>3, <2>4, <2>5
<1>3. ASSUME NEW s \in Stoppers, NewStopper(s)
      PROVE  /\ ThreadInv' /\ CancelInv' /\ AxisInv'
             /\ OutcomeIsHonest' /\ ConfirmedStopIsStandstill'
             /\ CompletedRowIsAtRest'
  <2>1. ThreadInv'
    BY <1>1, <1>3 DEF NewStopper, ThreadInv, LiveWorker, LiveStopper
  <2>2. CancelInv'
    BY <1>1, <1>3 DEF NewStopper, CancelInv, LiveStopper
  <2>3. AxisInv'
    BY <1>3 DEF NewStopper, AxisInv, LiveStopper
  <2>4. OutcomeIsHonest'
    BY <1>3, ThreadAssumption
    DEF NewStopper, OutcomeIsHonest, CancelInv, StopperAlive
  <2>5. ConfirmedStopIsStandstill' /\ CompletedRowIsAtRest'
    BY <1>3 DEF NewStopper, ConfirmedStopIsStandstill, CompletedRowIsAtRest
  <2> QED BY <2>1, <2>2, <2>3, <2>4, <2>5
<1> QED BY <1>1, <1>2, <1>3

\* An execution error: the worker cancels its own run.
LEMMA WorkerFailsInv ==
  ASSUME RunnerInv, TypeOK', NEW w \in Workers, WorkerFails(w)
  PROVE  RunnerInv'
<1> USE DEF RunnerInv
<1>0. /\ worker[w].pc = "fail" /\ WGoto(w, "exit")
      /\ RequestAbort(worker[w].run, TRUE, FALSE)
      /\ UNCHANGED <<seq, eventReg, workerReg, cmdLock, client, axis, late,
                     due, advanced>>
  BY DEF WorkerFails, axisVars
<1>1. /\ worker'[w].pc = "exit" /\ worker'[w].run = worker[w].run
      /\ \A v \in Workers : v # w => worker'[v] = worker[v]
  BY <1>0, WGotoEffect
<1>2. \A v \in Workers : worker[v].pc # "move"
  BY <1>0 DEF ThreadInv, LiveWorker
<1>3. /\ ThreadInv' /\ CancelInv' /\ AxisInv'
      /\ OutcomeIsHonest' /\ ConfirmedStopIsStandstill'
      /\ CompletedRowIsAtRest'
  BY <1>0, <1>1, <1>2, AbortInv
<1>4. /\ runner'.id = runner.id
      /\ runner'.preparing = runner.preparing
      /\ SameStop \/ \E s \in Stoppers : NewStopper(s)
  BY <1>0, AbortEffect
<1>5. LockInv'
  BY <1>0, <1>1, <1>4 DEF LockInv, UnderLock, SameStop, NewStopper
<1>6. StartInv'
  BY <1>0, <1>1, <1>4 DEF StartInv, Starting, LiveWorker
<1>7. ForeignCommandsRunAlone'
  BY <1>0, OwnedMeansAlone DEF ForeignCommandsRunAlone, LiveWorker
<1> QED BY <1>3, <1>5, <1>6, <1>7

\* Every step of a worker keeps the invariant.
LEMMA WorkerStepInv ==
  ASSUME RunnerInv, TypeOK', NEW w \in Workers, WorkerStep(w)
  PROVE  RunnerInv'
  BY WorkerQuietSteps, WorkerQuietInv, WorkerDispatchInv, WorkerMoveInv,
     WorkerFailsInv DEF WorkerStep

-----------------------------------------------------------------------------
(* Steps of a stop thread.                                                 *)

\* Everything a stop thread leaves alone before it reports.
StopperFrame(s) ==
    /\ LiveStopper(s)
    /\ \A v \in Stoppers : v # s => stopper'[v] = stopper[v]
    /\ stopper'[s].pc # "idle" => stopper'[s].run = stopper[s].run
    /\ UNCHANGED <<runner, seq, event, eventReg, worker, workerReg, stopReg,
                   client>>

\* A step that leaves the axis alone: it takes the lock, samples or ends.
StopperQuiet(s) ==
    /\ StopperFrame(s)
    /\ \/ cmdLock' = cmdLock
       \/ cmdLock = None /\ cmdLock' = s
    /\ stopper'[s].pc = "send" => cmdLock' = s
    /\ stopper'[s].pc = "exit" => stopper[s].pc = "exit"
    /\ stopper'[s].pc = "watch" => stopper[s].pc = "watch"
    /\ stopper[s].pc = "exit" => stopper'[s].pc = "idle"
    /\ stopper'[s].pc = "idle" => stopper[s].pc = "exit"
    /\ stopper'[s].confirmed =>
          /\ stopper'[s].pc = "report" /\ axis.motion # "row"
          /\ "row" \notin late \cup due
    /\ s \notin advanced'
    /\ advanced' \subseteq advanced
    /\ Sockets
    /\ UNCHANGED axis

\* A step that changes only the stop thread keeps the invariant.
LEMMA StopperQuietInv ==
  ASSUME RunnerInv, TypeOK', NEW s \in Stoppers, StopperQuiet(s)
  PROVE  RunnerInv'
<1> USE DEF RunnerInv, StopperQuiet, StopperFrame
<1>0. /\ late' \cup due' = late \cup due
      /\ late' \subseteq late /\ due' \subseteq late \cup due
  BY SocketsEffect
<1>1. LockInv'
  BY ThreadAssumption DEF LockInv, UnderLock
<1>2. StartInv'
  BY DEF StartInv, Starting, LiveWorker
<1>3. ThreadInv'
  BY DEF ThreadInv, LiveWorker, LiveStopper
<1>4. CancelInv'
  BY DEF CancelInv, LiveStopper
<1>5. AxisInv'
  BY <1>0 DEF AxisInv
<1>6. ForeignCommandsRunAlone'
  BY OwnedMeansAlone DEF ForeignCommandsRunAlone
<1>7. OutcomeIsHonest'
  BY ThreadAssumption DEF OutcomeIsHonest, StopperAlive, ThreadInv, LiveStopper
<1>8. ConfirmedStopIsStandstill' /\ CompletedRowIsAtRest'
  BY <1>0 DEF ConfirmedStopIsStandstill, CompletedRowIsAtRest
<1> QED BY <1>1, <1>2, <1>3, <1>4, <1>5, <1>6, <1>7, <1>8

\* The stop thread steps of that kind.
LEMMA StopperQuietSteps ==
  ASSUME RunnerInv, NEW s \in Stoppers,
         StopLock(s) \/ StopSample(s) \/ StopGiveUp(s) \/ StopExit(s)
  PROVE  StopperQuiet(s)
<1> USE DEF StopperQuiet, StopperFrame, Sockets, LiveStopper, stopperRest,
            eventVars, axisVars
<1>a. TypeOK /\ stopper[s] \in StopperType
  BY StopperTable DEF RunnerInv
<1>b. /\ s \in advanced => stopper[s].pc = "watch"
      /\ stopper[s].pc \in {"lock", "send", "watch"} => ~stopper[s].confirmed
      /\ LiveStopper(s) => IsCurrent(stopper[s].run)
  BY DEF RunnerInv, AxisInv, CancelInv, ThreadInv, IsCurrent
<1>c. \A pc : SGoto(s, pc) =>
         /\ stopper'[s].pc = pc
         /\ stopper'[s].run = stopper[s].run
         /\ stopper'[s].confirmed = stopper[s].confirmed
         /\ \A v \in Stoppers : v # s => stopper'[v] = stopper[v]
  BY <1>a, SGotoEffect
<1>1. CASE StopLock(s)
  <2>1. /\ stopper[s].pc = "lock" /\ SGoto(s, "send")
        /\ cmdLock = None /\ cmdLock' = s
    BY <1>1, <1>b DEF StopLock, Lock
  <2> QED BY <1>1, <2>1, <1>b, <1>c DEF StopLock
<1>2. CASE StopSample(s)
  <2>1. /\ stopper'[s].pc \in {"watch", "report"}
        /\ stopper'[s].run = stopper[s].run
        /\ stopper'[s].confirmed = StillConfirmed(s)
        /\ stopper'[s].pc = "watch" => ~StillConfirmed(s)
        /\ \A v \in Stoppers : v # s => stopper'[v] = stopper[v]
    BY <1>2, <1>a DEF StopSample, TypeOK, StopperType
  <2>3. /\ s \notin advanced' /\ advanced' \subseteq advanced
        /\ stopper[s].pc = "watch" /\ Served
        /\ UNCHANGED <<runner, seq, event, eventReg, worker, workerReg,
                       stopReg, client, cmdLock, axis>>
    BY <1>2 DEF StopSample
  <2>2. StillConfirmed(s) => axis.motion # "row" /\ "row" \notin late \cup due
    BY <2>3 DEF StillConfirmed, RunnerInv, AxisInv
  <2> QED BY <2>1, <2>2, <2>3
<1>3. CASE StopGiveUp(s)
  BY <1>3, <1>b, <1>c DEF StopGiveUp
<1>4. CASE StopExit(s)
  <2>1. /\ stopper'[s].pc = "idle" /\ ~stopper'[s].confirmed
        /\ \A v \in Stoppers : v # s => stopper'[v] = stopper[v]
    BY <1>4, <1>a DEF StopExit, IdleStopper, TypeOK
  <2> QED BY <1>4, <2>1, <1>b DEF StopExit
<1> QED BY <1>1, <1>2, <1>3, <1>4

\* The stop command; it never starts a motion.
LEMMA StopSendInv ==
  ASSUME RunnerInv, TypeOK', NEW s \in Stoppers, StopSend(s)
  PROVE  RunnerInv'
<1> USE DEF RunnerInv
<1>0. /\ stopper[s].pc = "send" /\ cmdLock = s /\ cmdLock' = None
      /\ UNCHANGED <<runner, seq, event, eventReg, worker, workerReg, stopReg,
                     client, advanced>>
      /\ \/ SGoto(s, "watch") /\ RpcOk("stop")
         \/ SGoto(s, "report") /\ RpcFails("stop")
  BY DEF StopSend, Unlock, stopperRest, eventVars
<1>1. /\ stopper'[s].pc \in {"watch", "report"}
      /\ stopper'[s].run = stopper[s].run
      /\ stopper'[s].confirmed = stopper[s].confirmed
      /\ \A v \in Stoppers : v # s => stopper'[v] = stopper[v]
  BY <1>0, SGotoEffect
<1>2. /\ axis'.motion = axis.motion
      /\ axis'.reported = axis.reported
      /\ late' \subseteq late \cup {"stop"} /\ due' \subseteq due \cup late
      /\ stopper'[s].pc = "watch" => late' = {}
  <2>1. axis' = axis \/ axis' = [axis EXCEPT !.decel = (axis.motion # "none")]
    BY <1>0 DEF RpcOk, RpcFails, Executed, axisVars
  <2>2. axis'.motion = axis.motion /\ axis'.reported = axis.reported
    BY <2>1 DEF TypeOK, AxisType
  <2>3. /\ late' \subseteq late \cup {"stop"} /\ due' \subseteq due \cup late
        /\ RpcOk("stop") => late' = {}
    BY <1>0 DEF RpcOk, RpcFails, Served, axisVars
  <2>4. SGoto(s, "report") => stopper'[s].pc = "report"
    BY SGotoEffect
  <2> QED BY <1>0, <2>2, <2>3, <2>4
<1>3. ~stopper[s].confirmed
  BY <1>0 DEF CancelInv, LiveStopper
<1>4. LockInv'
  BY <1>0, <1>1, ThreadAssumption DEF LockInv, UnderLock
<1>5. StartInv'
  BY <1>0 DEF StartInv, Starting, LiveWorker
<1>6. ThreadInv'
  BY <1>0, <1>1 DEF ThreadInv, LiveWorker, LiveStopper
<1>7. CancelInv'
  BY <1>0, <1>1, <1>3 DEF CancelInv, LiveStopper
<1>8. AxisInv'
  BY <1>0, <1>1, <1>2, <1>3 DEF AxisInv
<1>9. ForeignCommandsRunAlone'
  BY <1>0, OwnedMeansAlone DEF ForeignCommandsRunAlone, LiveStopper
<1>10. OutcomeIsHonest'
  BY <1>0, <1>1, ThreadAssumption
  DEF OutcomeIsHonest, StopperAlive, ThreadInv, LiveStopper
<1>11. ConfirmedStopIsStandstill' /\ CompletedRowIsAtRest'
  BY <1>0, <1>2 DEF ConfirmedStopIsStandstill, CompletedRowIsAtRest
<1> QED BY <1>4, <1>5, <1>6, <1>7, <1>8, <1>9, <1>10, <1>11

\* The report: the only step that confirms a stop.
LEMMA StopReportInv ==
  ASSUME RunnerInv, TypeOK', NEW s \in Stoppers, StopReport(s)
  PROVE  RunnerInv'
<1> USE DEF RunnerInv
<1>0. /\ stopper[s].pc = "report" /\ SGoto(s, "exit")
      /\ UNCHANGED <<seq, event, eventReg, worker, workerReg, stopReg, client,
                     cmdLock, axis, late, due, advanced>>
  BY DEF StopReport, stopperRest, eventVars, axisVars
<1>1. /\ stopper'[s].pc = "exit"
      /\ stopper'[s].run = stopper[s].run
      /\ \A v \in Stoppers : v # s => stopper'[v] = stopper[v]
  BY <1>0, SGotoEffect
<1>2. /\ runner.stopRequested /\ ~runner.stopConfirmed
      /\ s = stopReg
      /\ \A v \in Stoppers : LiveStopper(v) => v = s
  BY <1>0 DEF CancelInv, ThreadInv, LiveStopper
<1>3. /\ runner'.id = runner.id
      /\ runner'.preparing = runner.preparing
      /\ runner'.stopRequested
      /\ runner'.stopConfirmed = stopper[s].confirmed
      /\ runner'.stopError = ~stopper[s].confirmed
      /\ runner'.executionError = runner.executionError
      /\ runner'.state = IF runner.executionError \/ ~stopper[s].confirmed
                         THEN "error" ELSE "stopped"
  <2>1. runner' = [runner EXCEPT !.running = FALSE,
                      !.state = StateAfterStop(stopper[s].confirmed),
                      !.stopConfirmed = stopper[s].confirmed,
                      !.stopError = ~stopper[s].confirmed]
    BY <1>0 DEF StopReport, ThreadInv, LiveStopper, IsCurrent
  <2> QED BY <2>1, <1>2 DEF StateAfterStop, TypeOK, RunnerType
<1>4. LockInv'
  BY <1>0, <1>1 DEF LockInv, UnderLock
<1>5. StartInv'
  BY <1>0, <1>3 DEF StartInv, Starting, LiveWorker
<1>6. ThreadInv'
  BY <1>0, <1>1, <1>3 DEF ThreadInv, LiveWorker, LiveStopper
<1>7. CancelInv'
  BY <1>0, <1>1, <1>2, <1>3 DEF CancelInv, LiveStopper
<1>8. AxisInv'
  BY <1>0, <1>1 DEF AxisInv
<1>9. ForeignCommandsRunAlone'
  BY <1>0, OwnedMeansAlone DEF ForeignCommandsRunAlone, LiveStopper
<1>10. OutcomeIsHonest'
  BY <1>3 DEF OutcomeIsHonest
<1>11. ConfirmedStopIsStandstill'
  BY <1>0, <1>3 DEF ConfirmedStopIsStandstill, AxisInv
<1>12. CompletedRowIsAtRest'
  BY <1>0 DEF CompletedRowIsAtRest
<1> QED BY <1>4, <1>5, <1>6, <1>7, <1>8, <1>9, <1>10, <1>11, <1>12

\* Every step of a stop thread keeps the invariant.
LEMMA StopperStepInv ==
  ASSUME RunnerInv, TypeOK', NEW s \in Stoppers, StopperStep(s)
  PROVE  RunnerInv'
  BY StopperQuietSteps, StopperQuietInv, StopSendInv, StopReportInv
  DEF StopperStep

-----------------------------------------------------------------------------
(* Steps of the daemon.                                                    *)

\* One cycle recomputes the moving flag from the motion it leaves.
LEMMA AxisCycleInv ==
  ASSUME RunnerInv, TypeOK', AxisCycle PROVE RunnerInv'
<1> USE DEF RunnerInv
<1>0. /\ due = {}
      /\ axis'.motion \in {axis.motion, "none"}
      /\ axis'.reported = (axis'.motion # "none")
      /\ advanced' = {w \in Workers : worker[w].pc = "wait" /\ worker[w].based}
                   \cup {s \in Stoppers : stopper[s].pc = "watch"
                                          /\ stopper[s].based}
      /\ UNCHANGED <<runner, seq, event, eventReg, worker, workerReg, stopper,
                     stopReg, client, cmdLock, late, due>>
  BY DEF AxisCycle, runVars, eventVars, threadVars
<1>1. LockInv'
  BY <1>0 DEF LockInv, UnderLock
<1>2. StartInv' /\ ThreadInv'
  BY <1>0 DEF StartInv, Starting, LiveWorker, ThreadInv, LiveStopper
<1>3. CancelInv'
  BY <1>0 DEF CancelInv, LiveStopper
<1>4. AxisInv'
  BY <1>0, ThreadAssumption DEF AxisInv
<1>5. ForeignCommandsRunAlone'
  BY <1>0
  DEF ForeignCommandsRunAlone, RunnerActive, RunnerBusy, WorkerAlive, StopperAlive
<1>6. OutcomeIsHonest'
  BY <1>0 DEF OutcomeIsHonest, StopperAlive
<1>7. ConfirmedStopIsStandstill' /\ CompletedRowIsAtRest'
  BY <1>0 DEF ConfirmedStopIsStandstill, CompletedRowIsAtRest
<1> QED BY <1>1, <1>2, <1>3, <1>4, <1>5, <1>6, <1>7

\* Which motion a command leaves; no command touches the reported flag.
LEMMA ExecutedMotion ==
  ASSUME TypeOK, NEW kind \in Kinds, NEW a \in Executed(kind)
  PROVE  /\ a.reported = axis.reported
         /\ kind # "row" => a.motion \in {axis.motion, "none", "other"}
         /\ kind \notin {"row", "other"} => a.motion \in {axis.motion, "none"}
<1>0. axis \in AxisType
  BY DEF TypeOK
<1>1. CASE kind = "row"
  <2>1. PICK n \in BOOLEAN :
          a = [axis EXCEPT !.motion = "row", !.decel = FALSE, !.near = n]
    BY <1>1 DEF Executed
  <2> QED BY <1>0, <1>1, <2>1 DEF AxisType
<1>2. CASE kind = "other"
  <2>1. \/ a = axis
        \/ a = [axis EXCEPT !.motion = "other", !.decel = FALSE, !.near = FALSE]
    BY <1>2 DEF Executed
  <2> QED BY <1>0, <1>2, <2>1 DEF AxisType
<1>3. CASE kind = "stop"
  <2>1. a = [axis EXCEPT !.decel = (axis.motion # "none")]
    BY <1>3 DEF Executed
  <2> QED BY <1>0, <1>3, <2>1 DEF AxisType
<1>4. CASE kind \in {"clear", "cancel"}
  <2>1. a = axis \/ a = AtRest(axis)
    BY <1>4 DEF Executed
  <2> QED BY <1>0, <1>4, <2>1 DEF AxisType, AtRest
<1> QED BY <1>1, <1>2, <1>3, <1>4 DEF Kinds

\* An abandoned command is executed late, or dropped.
LEMMA DeliverLateInv ==
  ASSUME RunnerInv, TypeOK', DeliverLate PROVE RunnerInv'
<1> USE DEF RunnerInv
<1>0. /\ late' \subseteq late /\ due' \subseteq due
      /\ UNCHANGED <<runner, seq, event, eventReg, worker, workerReg, stopper,
                     stopReg, client, cmdLock, advanced>>
  BY DEF DeliverLate, runVars, eventVars, threadVars
<1>1. /\ axis'.reported = axis.reported
      /\ "row" \notin late \cup due =>
            axis'.motion \in {axis.motion, "none", "other"}
      /\ {"row", "other"} \cap (late \cup due) = {} =>
            axis'.motion \in {axis.motion, "none"}
  <2>1. PICK kind \in late \cup due : axis' \in Executed(kind) \cup {axis}
    BY DEF DeliverLate
  <2>2. kind \in Kinds
    BY DEF TypeOK
  <2> QED BY <2>1, <2>2, ExecutedMotion
<1>2. LockInv'
  BY <1>0 DEF LockInv, UnderLock
<1>3. StartInv' /\ ThreadInv'
  BY <1>0 DEF StartInv, Starting, LiveWorker, ThreadInv, LiveStopper
<1>4. CancelInv'
  BY <1>0 DEF CancelInv, LiveStopper
<1>5. AxisInv'
  BY <1>0, <1>1, ThreadAssumption DEF AxisInv
<1>6. ForeignCommandsRunAlone'
  BY <1>0
  DEF ForeignCommandsRunAlone, RunnerActive, RunnerBusy, WorkerAlive, StopperAlive
<1>7. OutcomeIsHonest'
  BY <1>0 DEF OutcomeIsHonest, StopperAlive
<1>8. ConfirmedStopIsStandstill' /\ CompletedRowIsAtRest'
  BY <1>0, <1>1 DEF ConfirmedStopIsStandstill, CompletedRowIsAtRest
<1> QED BY <1>2, <1>3, <1>4, <1>5, <1>6, <1>7, <1>8

-----------------------------------------------------------------------------
(* Steps of a request.                                                     *)

\* A step that reads the runner, takes the lock perhaps, and goes on.
RequestQuiet(c) ==
    /\ \A d \in Clients : d # c => client'[d] = client[d]
    /\ ~UnderLock(c)
    /\ \/ cmdLock' = cmdLock
       \/ cmdLock = None /\ cmdLock' = c
    /\ UnderLock(c)' => cmdLock' = c
    /\ Starting(c)' =>
          /\ Starting(c)
          /\ client'[c].cmd = client[c].cmd /\ client'[c].run = client[c].run
          /\ client[c].pc = "finish" => client'[c].pc = "finish"
          /\ client'[c].pc \in {"prepare", "launch", "setmode"} =>
                client[c].pc \in {"prepare", "launch", "setmode"}
    /\ client'[c].pc = "exec" => ~RunnerActive
    /\ UNCHANGED <<runner, seq, event, eventReg, worker, workerReg, stopper,
                   stopReg, axis, late, due, advanced>>

\* A step that changes only a request keeps the invariant.
LEMMA RequestQuietInv ==
  ASSUME RunnerInv, TypeOK', NEW c \in Clients, RequestQuiet(c)
  PROVE  RunnerInv'
<1> USE DEF RunnerInv, RequestQuiet
<1>1. LockInv'
  BY ThreadAssumption DEF LockInv, UnderLock
<1>2. StartInv'
  BY DEF StartInv, Starting, LiveWorker
<1>3. ThreadInv'
  BY DEF ThreadInv, LiveWorker, LiveStopper
<1>4. CancelInv' /\ AxisInv'
  BY DEF CancelInv, LiveStopper, AxisInv
<1>5. ForeignCommandsRunAlone'
  BY DEF ForeignCommandsRunAlone, RunnerActive, RunnerBusy, WorkerAlive,
         StopperAlive
<1>6. /\ OutcomeIsHonest' /\ ConfirmedStopIsStandstill'
      /\ CompletedRowIsAtRest'
  BY DEF OutcomeIsHonest, StopperAlive, ConfirmedStopIsStandstill,
         CompletedRowIsAtRest
<1> QED BY <1>1, <1>2, <1>3, <1>4, <1>5, <1>6

\* The request steps of that kind.
LEMMA RequestQuietSteps ==
  ASSUME RunnerInv, NEW c \in Clients,
         \/ \E cmd \in Commands : Request(c, cmd)
         \/ WriteTable(c) \/ StartPrepare(c) \/ GuardEntry(c)
  PROVE  RequestQuiet(c)
<1> USE DEF RequestQuiet, UnderLock, Starting, requestRest, runVars, eventVars,
            threadVars, axisVars
<1>a. TypeOK /\ client[c] \in ClientType
  BY ClientTable DEF RunnerInv
<1>b. \A pc : Goto(c, pc) =>
         /\ client'[c].pc = pc
         /\ client'[c].cmd = client[c].cmd
         /\ client'[c].run = client[c].run
         /\ \A d \in Clients : d # c => client'[d] = client[d]
  BY <1>a, GotoEffect
<1>c. Answer(c) =>
         /\ client'[c].pc = "idle"
         /\ \A d \in Clients : d # c => client'[d] = client[d]
  BY <1>a, AnswerEffect
<1>1. ASSUME NEW cmd \in Commands, Request(c, cmd) PROVE RequestQuiet(c)
  <2>1. /\ client[c].pc = "idle"
        /\ client'[c].pc = "wait"
        /\ \A d \in Clients : d # c => client'[d] = client[d]
    BY <1>1, <1>a DEF Request, TypeOK, IdleClient
  <2> QED BY <1>1, <2>1 DEF Request
<1>2. CASE WriteTable(c)
  BY <1>2, <1>c DEF WriteTable
<1>3. CASE StartPrepare(c)
  <2>1. /\ client[c].pc = "prepare"
        /\ client'[c].pc \in {"launch", "abort"}
        /\ client'[c].cmd = client[c].cmd
        /\ client'[c].run = client[c].run
        /\ \A d \in Clients : d # c => client'[d] = client[d]
    <3>1. CASE Goto(c, "abort")
      BY <1>3, <3>1, <1>b DEF StartPrepare
    <3>2. CASE \E ready \in BOOLEAN :
                 client' = [client EXCEPT ![c].pc = "launch", ![c].ready = ready]
      <4>1. PICK ready \in BOOLEAN :
              client' = [client EXCEPT ![c].pc = "launch", ![c].ready = ready]
        BY <3>2
      <4> QED BY <1>3, <4>1, <1>a DEF StartPrepare, TypeOK, ClientType
    <3> QED BY <1>3, <3>1, <3>2 DEF StartPrepare
  <2>2. client[c].cmd = "run"
    BY <2>1 DEF RunnerInv, StartInv
  <2> QED BY <1>3, <2>1, <2>2 DEF StartPrepare
<1>4. CASE GuardEntry(c)
  <2>0. client[c].pc = "wait" /\ client[c].cmd # "run"
    BY <1>4 DEF GuardEntry, GuardedCommands
  <2>1. CASE RunnerActive /\ client[c].cmd = "move"
    BY <1>4, <2>0, <2>1, <1>c DEF GuardEntry, LockFree
  <2>2. CASE RunnerActive /\ client[c].cmd # "move"
    <3>1. /\ client'[c].pc = "abort" /\ client'[c].cmd = client[c].cmd
          /\ \A d \in Clients : d # c => client'[d] = client[d]
          /\ cmdLock = None /\ cmdLock' = c
      BY <1>4, <2>2, <1>a DEF GuardEntry, TypeOK, ClientType, Lock
    <3> QED BY <1>4, <2>0, <3>1 DEF GuardEntry
  <2>3. CASE ~RunnerActive
    BY <1>4, <2>0, <2>3, <1>b DEF GuardEntry, Lock
  <2> QED BY <2>1, <2>2, <2>3
<1> QED BY <1>1, <1>2, <1>3, <1>4

\* Reservation: the gate was free, so there is nothing of an older run left.
LEMMA StartReserveInv ==
  ASSUME RunnerInv, TypeOK', NEW c \in Clients, StartReserve(c)
  PROVE  RunnerInv'
<1> USE DEF RunnerInv
<1>0. /\ client[c].pc = "wait" /\ client[c].cmd = "run"
      /\ cmdLock = None /\ cmdLock' = None
      /\ UNCHANGED <<worker, workerReg, stopper, stopReg, axis, late, due, advanced>>
  BY DEF StartReserve, LockFree, threadVars, axisVars
<1>1. CASE Answer(c) /\ UNCHANGED <<runner, seq, eventVars>>
  <2>1. RequestQuiet(c)
    BY <1>0, <1>1, AnswerEffect
    DEF RequestQuiet, UnderLock, Starting, eventVars
  <2> QED BY <2>1, RequestQuietInv
<1>2. CASE ~(Answer(c) /\ UNCHANGED <<runner, seq, eventVars>>)
  <2>1. /\ ~RunnerActive
        /\ seq' = seq + 1 /\ eventReg' = seq + 1 /\ seq < MaxRuns
        /\ runner' = [DefaultRunner EXCEPT !.id = seq + 1,
                         !.state = "starting", !.running = TRUE,
                         !.preparing = TRUE]
    BY <1>2 DEF StartReserve, NextRunId
  <2>2. /\ client'[c].pc = "prepare" /\ client'[c].cmd = "run"
        /\ client'[c].run = seq + 1
        /\ \A d \in Clients : d # c => client'[d] = client[d]
    <3>1. PICK n \in 1..MaxCycles :
            client' = [client EXCEPT ![c].pc = "prepare",
                          ![c].run = NextRunId, ![c].rows = table,
                          ![c].cycles = n]
      BY <1>2 DEF StartReserve
    <3> QED BY <1>0, <3>1 DEF NextRunId, TypeOK, ClientType
  <2>3. /\ runner'.id = seq + 1 /\ runner'.preparing
        /\ ~runner'.stopRequested /\ ~runner'.stopConfirmed
        /\ ~runner'.executionError /\ runner'.state = "starting"
    BY <2>1 DEF DefaultRunner
  <2>4. /\ \A w \in Workers : ~LiveWorker(w)
        /\ \A s \in Stoppers : ~LiveStopper(s)
        /\ \A d \in Clients : ~Starting(d)
    BY <2>1, OwnedMeansActive
  <2>5. seq \in Nat /\ seq + 1 # 0
    BY BoundAssumption DEF TypeOK
  <2>6. LockInv'
    BY <1>0, <2>2, ThreadAssumption DEF LockInv, UnderLock
  <2>7. StartInv'
    BY <1>0, <2>1, <2>2, <2>3, <2>4, <2>5 DEF StartInv, Starting, LiveWorker
  <2>8. ThreadInv'
    BY <1>0, <2>4 DEF ThreadInv, LiveWorker, LiveStopper
  <2>9. CancelInv'
    BY <1>0, <2>3, <2>4 DEF CancelInv, LiveWorker, LiveStopper
  <2>10. AxisInv'
    BY <1>0 DEF AxisInv
  <2>11. ForeignCommandsRunAlone'
    BY <1>0, <2>2, ThreadAssumption
    DEF ForeignCommandsRunAlone, LockInv, UnderLock
  <2>12. OutcomeIsHonest' /\ ConfirmedStopIsStandstill' /\ CompletedRowIsAtRest'
    BY <1>0, <2>3
    DEF OutcomeIsHonest, ConfirmedStopIsStandstill, CompletedRowIsAtRest
  <2> QED BY <2>6, <2>7, <2>8, <2>9, <2>10, <2>11, <2>12
<1> QED BY <1>1, <1>2

\* Back under the lock: cancelled, given up, or on to set_mode.
LEMMA StartLaunchInv ==
  ASSUME RunnerInv, TypeOK', NEW c \in Clients, StartLaunch(c)
  PROVE  RunnerInv'
<1> USE DEF RunnerInv
<1>0. /\ client[c].pc = "launch" /\ Starting(c) /\ client[c].run = runner.id
      /\ runner.id # 0 /\ runner.preparing /\ eventReg = runner.id
      /\ client[c].cmd = "run" /\ cmdLock = None
      /\ UNCHANGED <<seq, event, worker, workerReg, stopper, stopReg, axis,
                     late, due, advanced>>
  BY DEF StartLaunch, StartInv, Starting, Lock, LockFree, threadVars, axisVars
<1>1. CASE UNCHANGED <<runner, eventReg>>
  <2>1. RequestQuiet(c)
    BY <1>0, <1>1, GotoEffect
    DEF StartLaunch, RequestQuiet, UnderLock, Starting, Lock, LockFree
  <2> QED BY <2>1, RequestQuietInv
<1>2. CASE ~(UNCHANGED <<runner, eventReg>>)
  <2>1. /\ ~event[client[c].run] /\ cmdLock' = None
        /\ Goto(c, "finish")
        /\ ReleaseReservation(client[c].run)
    BY <1>2 DEF StartLaunch, LockFree
  <2>2. /\ client'[c].pc = "finish" /\ client'[c].run = runner.id
        /\ client'[c].cmd = "run"
        /\ \A d \in Clients : d # c => client'[d] = client[d]
    BY <1>0, <2>1, GotoEffect
  <2>3. runner' = [runner EXCEPT !.running = FALSE, !.state = "idle"]
    BY <1>2, <2>1 DEF ReleaseReservation
  <2>4. /\ runner'.id = runner.id /\ runner'.preparing = runner.preparing
        /\ runner'.stopRequested = runner.stopRequested
        /\ runner'.stopConfirmed = runner.stopConfirmed
        /\ runner'.executionError = runner.executionError
        /\ runner'.state = "idle"
    BY <2>3 DEF TypeOK, RunnerType
  <2>5. ~runner.stopRequested
    <3>1. runner.id \in RunIds
      BY DEF TypeOK, RunnerType
    <3>2. runner.id \in Runs
      BY <1>0, <3>1, BoundAssumption
    <3> QED BY <1>0, <2>1, <3>2 DEF CancelInv
  <2>6. /\ \A w \in Workers : ~LiveWorker(w)
        /\ \A s \in Stoppers : ~LiveStopper(s)
        /\ \A d \in Clients : d # c => ~Starting(d)
    BY <1>0, <2>5 DEF StartInv, CancelInv
  <2>7. LockInv'
    BY <1>0, <2>1, <2>2, <2>6, ThreadAssumption DEF LockInv, UnderLock
  <2>8. StartInv'
    BY <1>0, <2>2, <2>4, <2>6 DEF StartInv, Starting, LiveWorker
  <2>9. ThreadInv'
    BY <1>0, <2>6 DEF ThreadInv, LiveWorker, LiveStopper
  <2>10. CancelInv'
    BY <1>0, <2>4, <2>5, <2>6 DEF CancelInv, LiveWorker, LiveStopper
  <2>11. AxisInv'
    BY <1>0 DEF AxisInv
  <2>12. ForeignCommandsRunAlone'
    BY <1>0, <2>2, OwnedMeansAlone DEF ForeignCommandsRunAlone
  <2>13. OutcomeIsHonest'
    BY <2>4, <2>5 DEF OutcomeIsHonest, CancelInv
  <2>14. ConfirmedStopIsStandstill' /\ CompletedRowIsAtRest'
    BY <1>0, <2>4 DEF ConfirmedStopIsStandstill, CompletedRowIsAtRest
  <2> QED BY <2>7, <2>8, <2>9, <2>10, <2>11, <2>12, <2>13, <2>14
<1> QED BY <1>1, <1>2

\* set_mode was accepted: the worker is created while the request still holds
\* the lock, and no other worker can be alive.
LEMMA StartWorkerInv ==
  ASSUME RunnerInv, TypeOK', NEW c \in Clients, StartWorker(c)
  PROVE  RunnerInv'
<1> USE DEF RunnerInv
<1>0. /\ client[c].pc = "setmode" /\ Starting(c) /\ client[c].run = runner.id
      /\ runner.id # 0 /\ runner.preparing /\ eventReg = runner.id
      /\ client[c].cmd = "run" /\ cmdLock = c /\ cmdLock' = None
      /\ \A w \in Workers : ~LiveWorker(w)
      /\ late' = {} /\ due' = due \cup late
      /\ UNCHANGED <<runner, seq, event, eventReg, stopper, stopReg, advanced>>
  BY DEF StartWorker, StartInv, Starting, Unlock, RpcOk, Served, runVars,
         eventVars
<1>1. axis'.motion = "none" /\ axis'.reported = axis.reported
  <2>1. axis' = AtRest(axis)
    BY DEF StartWorker, RpcOk, Executed
  <2> QED BY <2>1 DEF AtRest, TypeOK, AxisType
<1>2. /\ client'[c].pc = "finish" /\ client'[c].run = runner.id
      /\ client'[c].cmd = "run"
      /\ \A d \in Clients : d # c => client'[d] = client[d]
  BY <1>0, GotoEffect DEF StartWorker
<1>3. PICK w \in Workers :
        /\ worker' = [worker EXCEPT ![w] = [IdleWorker EXCEPT !.pc = "begin",
                         !.run = client[c].run, !.rows = client[c].rows,
                         !.cycles = client[c].cycles]]
        /\ workerReg' = w
  BY DEF StartWorker
<1>4. /\ worker'[w].pc = "begin" /\ worker'[w].run = runner.id
      /\ \A v \in Workers : v # w => worker'[v] = worker[v]
  BY <1>0, <1>3 DEF IdleWorker, TypeOK
<1>5. LockInv'
  BY <1>0, <1>2, <1>4, ThreadAssumption DEF LockInv, UnderLock
<1>6. StartInv'
  BY <1>0, <1>2 DEF StartInv, Starting
<1>7. ThreadInv'
  BY <1>0, <1>3, <1>4 DEF ThreadInv, LiveWorker, LiveStopper
<1>8. CancelInv'
  BY <1>0, <1>4 DEF CancelInv, LiveWorker, LiveStopper
<1>9. AxisInv'
  BY <1>0, <1>1, <1>4 DEF AxisInv, LiveWorker
<1>10. ForeignCommandsRunAlone'
  BY <1>0, <1>2, OwnedMeansAlone DEF ForeignCommandsRunAlone
<1>11. /\ OutcomeIsHonest' /\ ConfirmedStopIsStandstill'
       /\ CompletedRowIsAtRest'
  BY <1>0, <1>1, <1>4
  DEF OutcomeIsHonest, StopperAlive, ConfirmedStopIsStandstill,
      CompletedRowIsAtRest
<1> QED BY <1>5, <1>6, <1>7, <1>8, <1>9, <1>10, <1>11

\* A start whose set_mode failed keeps the invariant.
LEMMA StartSetModeFailsInv ==
  ASSUME RunnerInv, TypeOK', NEW c \in Clients, StartSetModeFails(c)
  PROVE  RunnerInv'
<1> USE DEF RunnerInv
<1>0. /\ client[c].pc = "setmode" /\ Starting(c) /\ client[c].run = runner.id
      /\ client[c].cmd = "run" /\ cmdLock = c /\ cmdLock' = None
      /\ \A w \in Workers : ~LiveWorker(w)
      /\ UNCHANGED <<runner, seq, event, eventReg, worker, workerReg, stopper,
                     stopReg, advanced>>
  BY DEF StartSetModeFails, StartInv, Starting, Unlock, runVars, eventVars,
         threadVars
<1>1. /\ axis'.motion \in {axis.motion, "none"}
      /\ axis'.reported = axis.reported
      /\ late' \subseteq late \cup {"clear"} /\ due' \subseteq due \cup late
  BY ExecutedMotion
  DEF StartSetModeFails, RpcFails, RpcOk, Served, Kinds, axisVars
<1>2. /\ client'[c].pc = "abort" /\ client'[c].run = client[c].run
      /\ client'[c].cmd = "run"
      /\ \A d \in Clients : d # c => client'[d] = client[d]
  BY <1>0, GotoEffect DEF StartSetModeFails
<1>3. LockInv'
  BY <1>0, <1>2, ThreadAssumption DEF LockInv, UnderLock
<1>4. StartInv'
  BY <1>0, <1>2 DEF StartInv, Starting, LiveWorker
<1>5. ThreadInv' /\ CancelInv'
  BY <1>0 DEF ThreadInv, CancelInv, LiveWorker, LiveStopper
<1>6. AxisInv'
  BY <1>0, <1>1 DEF AxisInv
<1>7. ForeignCommandsRunAlone'
  BY <1>0, <1>2, OwnedMeansAlone DEF ForeignCommandsRunAlone
<1>8. OutcomeIsHonest'
  BY <1>0 DEF OutcomeIsHonest, StopperAlive
<1>9. ConfirmedStopIsStandstill' /\ CompletedRowIsAtRest'
  BY <1>0, <1>1 DEF ConfirmedStopIsStandstill, CompletedRowIsAtRest
<1> QED BY <1>3, <1>4, <1>5, <1>6, <1>7, <1>8, <1>9

\* The except clause of a start, without the command lock.
LEMMA StartFailsInv ==
  ASSUME RunnerInv, TypeOK', NEW c \in Clients, StartFails(c)
  PROVE  RunnerInv'
<1> USE DEF RunnerInv
<1>0. /\ client[c].pc = "abort" /\ client[c].cmd = "run" /\ Starting(c)
      /\ RequestAbort(client[c].run, TRUE, FALSE) /\ Goto(c, "finish")
      /\ \A w \in Workers : ~LiveWorker(w)
      /\ UNCHANGED <<seq, eventReg, worker, workerReg, cmdLock, axis, late,
                     due, advanced>>
  BY DEF StartFails, StartInv, Starting, axisVars
<1>1. /\ client'[c].pc = "finish" /\ client'[c].run = client[c].run
      /\ client'[c].cmd = "run"
      /\ \A d \in Clients : d # c => client'[d] = client[d]
  BY <1>0, GotoEffect
<1>2. /\ ThreadInv' /\ CancelInv' /\ AxisInv'
      /\ OutcomeIsHonest' /\ ConfirmedStopIsStandstill'
      /\ CompletedRowIsAtRest'
  BY <1>0, AbortInv DEF LiveWorker
<1>3. /\ runner'.id = runner.id
      /\ runner'.preparing = runner.preparing
      /\ SameStop \/ \E s \in Stoppers : NewStopper(s)
  BY <1>0, AbortEffect
<1>4. LockInv'
  BY <1>0, <1>1, <1>3 DEF LockInv, UnderLock, SameStop, NewStopper
<1>5. StartInv'
  BY <1>0, <1>1, <1>3 DEF StartInv, Starting, LiveWorker
<1>6. ForeignCommandsRunAlone'
  BY <1>0, <1>1, OwnedMeansAlone DEF ForeignCommandsRunAlone
<1> QED BY <1>2, <1>4, <1>5, <1>6

\* The finally clause: the last step of the only request that starts a run.
LEMMA StartFinishInv ==
  ASSUME RunnerInv, TypeOK', NEW c \in Clients, StartFinish(c)
  PROVE  RunnerInv'
<1> USE DEF RunnerInv
<1>0. /\ client[c].pc = "finish" /\ Starting(c)
      /\ UNCHANGED <<seq, event, eventReg, worker, workerReg, stopper, stopReg,
                     cmdLock, axis, late, due, advanced>>
  BY DEF StartFinish, Starting, requestRest, eventVars, threadVars, axisVars
<1>1. /\ client'[c].pc = "idle"
      /\ \A d \in Clients : d # c => client'[d] = client[d]
  BY AnswerEffect DEF StartFinish
<1>2. /\ runner'.id = runner.id
      /\ runner'.stopRequested = runner.stopRequested
      /\ runner'.stopConfirmed = runner.stopConfirmed
      /\ runner'.stopError = runner.stopError
      /\ runner'.executionError = runner.executionError
      /\ runner'.state = runner.state
  BY DEF StartFinish, TypeOK, RunnerType
<1>3. \A d \in Clients : d # c => ~Starting(d)
  BY <1>0 DEF StartInv
<1>4. LockInv'
  BY <1>0, <1>1 DEF LockInv, UnderLock
<1>5. StartInv'
  BY <1>0, <1>1, <1>2, <1>3 DEF StartInv, Starting
<1>6. ThreadInv' /\ CancelInv'
  BY <1>0, <1>2 DEF ThreadInv, CancelInv, LiveWorker, LiveStopper
<1>7. AxisInv'
  BY <1>0 DEF AxisInv
<1>8. ForeignCommandsRunAlone'
  BY <1>0, <1>1, OwnedMeansAlone DEF ForeignCommandsRunAlone
<1>9. OutcomeIsHonest'
  BY <1>0, <1>2 DEF OutcomeIsHonest, StopperAlive
<1>10. ConfirmedStopIsStandstill' /\ CompletedRowIsAtRest'
  BY <1>0, <1>2 DEF ConfirmedStopIsStandstill, CompletedRowIsAtRest
<1> QED BY <1>4, <1>5, <1>6, <1>7, <1>8, <1>9, <1>10

\* A guarded command that found a run active cancels it, holding the lock.
LEMMA GuardAbortInv ==
  ASSUME RunnerInv, TypeOK', NEW c \in Clients, GuardAbort(c)
  PROVE  RunnerInv'
<1> USE DEF RunnerInv
<1>0. /\ client[c].pc = "abort" /\ client[c].cmd \in {"stop", "cancel", "disable"}
      /\ cmdLock = c
      /\ RequestAbort(client[c].run, FALSE, client[c].cmd # "cancel")
      /\ (client[c].cmd # "cancel") \in BOOLEAN
      /\ UNCHANGED <<seq, eventReg, worker, workerReg, axis, late, due, advanced>>
      /\ \/ client[c].cmd = "disable" /\ Goto(c, "exec") /\ cmdLock' = c
         \/ Answer(c) /\ cmdLock' = None
  BY DEF GuardAbort, LockInv, UnderLock, Unlock, axisVars
<1>1. /\ \/ /\ client'[c].pc = "exec" /\ client'[c].cmd = "disable"
            /\ cmdLock' = c
         \/ client'[c].pc = "idle" /\ cmdLock' = None
      /\ \A d \in Clients : d # c => client'[d] = client[d]
  BY <1>0, GotoEffect, AnswerEffect
<1>2. /\ \A w \in Workers : worker[w].pc # "move"
      /\ \A s \in Stoppers : stopper[s].pc # "send"
      /\ \A d \in Clients : d # c => ~UnderLock(d)
  BY <1>0, ThreadAssumption DEF LockInv
<1>3. /\ ThreadInv' /\ CancelInv' /\ AxisInv'
      /\ OutcomeIsHonest' /\ ConfirmedStopIsStandstill'
      /\ CompletedRowIsAtRest'
  BY <1>0, <1>2, AbortInv
<1>4. /\ runner'.id = runner.id
      /\ runner'.preparing = runner.preparing
      /\ SameStop \/ \E s \in Stoppers : NewStopper(s)
  BY <1>0, AbortEffect
<1>5. LockInv'
  BY <1>0, <1>1, <1>2, <1>4 DEF LockInv, UnderLock, SameStop, NewStopper
<1>6. StartInv'
  BY <1>0, <1>1, <1>4 DEF StartInv, Starting, LiveWorker
<1>7. ForeignCommandsRunAlone'
  BY <1>1, <1>2 DEF ForeignCommandsRunAlone, UnderLock
<1> QED BY <1>3, <1>5, <1>6, <1>7

\* The command itself. A motion is sent only if no run is active; a disable,
\* which is sent anyway, leaves no motion behind.
LEMMA GuardExecuteInv ==
  ASSUME RunnerInv, TypeOK', NEW c \in Clients, GuardExecute(c)
  PROVE  RunnerInv'
<1> USE DEF RunnerInv
<1> DEFINE kind == RpcKind(client[c].cmd)
<1>0. /\ client[c].pc = "exec" /\ client[c].cmd \in GuardedCommands
      /\ cmdLock = c /\ cmdLock' = None
      /\ Answer(c)
      /\ RpcOk(kind) \/ RpcFails(kind)
      /\ UNCHANGED <<runner, seq, event, eventReg, worker, workerReg, stopper,
                     stopReg, advanced>>
  BY DEF GuardExecute, Unlock, runVars, eventVars, threadVars
<1>1. /\ client'[c].pc = "idle"
      /\ \A d \in Clients : d # c => client'[d] = client[d]
  BY <1>0, AnswerEffect
<1>2. kind \in Kinds /\ kind # "row" /\ (kind = "other" => client[c].cmd = "move")
  BY <1>0 DEF GuardedCommands, RpcKind, Kinds
<1>3. /\ axis'.reported = axis.reported
      /\ axis'.motion \in {axis.motion, "none", "other"}
      /\ kind # "other" => axis'.motion \in {axis.motion, "none"}
      /\ late' \subseteq late \cup {kind} /\ due' \subseteq due \cup late
  BY <1>0, <1>2, ExecutedMotion DEF RpcOk, RpcFails, Served, axisVars
<1>4. kind = "other" => /\ \A w \in Workers : ~LiveWorker(w)
                        /\ \A s \in Stoppers : ~LiveStopper(s)
  BY <1>0, <1>2, OwnedMeansAlone
<1>5. LockInv'
  BY <1>0, <1>1, ThreadAssumption DEF LockInv, UnderLock
<1>6. StartInv'
  BY <1>0, <1>1 DEF StartInv, Starting, LiveWorker
<1>7. ThreadInv' /\ CancelInv'
  BY <1>0 DEF ThreadInv, CancelInv, LiveWorker, LiveStopper
<1>8. AxisInv'
  BY <1>0, <1>2, <1>3, <1>4 DEF AxisInv, LiveWorker, LiveStopper
<1>9. ForeignCommandsRunAlone'
  BY <1>0, <1>1
  DEF ForeignCommandsRunAlone, RunnerActive, RunnerBusy, WorkerAlive, StopperAlive
<1>10. OutcomeIsHonest'
  BY <1>0 DEF OutcomeIsHonest, StopperAlive
<1>11. ConfirmedStopIsStandstill' /\ CompletedRowIsAtRest'
  BY <1>0, <1>2, <1>3, <1>4
  DEF ConfirmedStopIsStandstill, CompletedRowIsAtRest, LiveWorker
<1> QED BY <1>5, <1>6, <1>7, <1>8, <1>9, <1>10, <1>11

\* A clear forgets the run only when nothing of it is alive.
LEMMA ClearTableInv ==
  ASSUME RunnerInv, TypeOK', NEW c \in Clients, ClearTable(c)
  PROVE  RunnerInv'
<1> USE DEF RunnerInv
<1>0. /\ client[c].pc = "wait" /\ cmdLock = None /\ cmdLock' = None
      /\ Answer(c)
      /\ UNCHANGED <<seq, worker, axis, late, due, advanced>>
  BY DEF ClearTable, LockFree, axisVars
<1>1. /\ client'[c].pc = "idle"
      /\ \A d \in Clients : d # c => client'[d] = client[d]
  BY <1>0, AnswerEffect
<1>2. /\ \A d \in Clients : ~UnderLock(d)
      /\ \A w \in Workers : worker[w].pc # "move"
      /\ \A s \in Stoppers : stopper[s].pc # "send"
  BY <1>0, ThreadAssumption DEF LockInv
<1>3. ForeignCommandsRunAlone'
  BY <1>1, <1>2 DEF ForeignCommandsRunAlone, UnderLock
<1>4. CASE RunnerActive /\ runner.stopRequested
  <2>1. RequestQuiet(c)
    BY <1>0, <1>1, <1>4
    DEF ClearTable, RequestQuiet, UnderLock, Starting
  <2> QED BY <2>1, RequestQuietInv
<1>5. CASE RunnerActive /\ ~runner.stopRequested
  <2>1. /\ RequestAbort(runner.id, FALSE, FALSE)
        /\ UNCHANGED <<eventReg, workerReg>>
    BY <1>5 DEF ClearTable
  <2>2. /\ ThreadInv' /\ CancelInv' /\ AxisInv'
        /\ OutcomeIsHonest' /\ ConfirmedStopIsStandstill'
        /\ CompletedRowIsAtRest'
    BY <1>0, <1>2, <2>1, AbortInv
  <2>3. /\ runner'.id = runner.id
        /\ runner'.preparing = runner.preparing
        /\ SameStop \/ \E s \in Stoppers : NewStopper(s)
    BY <2>1, AbortEffect
  <2>4. LockInv'
    BY <1>0, <1>1, <1>2, <2>3 DEF LockInv, UnderLock, SameStop, NewStopper
  <2>5. StartInv'
    BY <1>0, <1>1, <2>1, <2>3 DEF StartInv, Starting, LiveWorker
  <2> QED BY <1>3, <2>2, <2>4, <2>5
<1>6. CASE ~RunnerActive
  <2>1. /\ runner' = DefaultRunner /\ eventReg' = 0
        /\ workerReg' = None /\ stopReg' = None
        /\ UNCHANGED <<event, stopper>>
    BY <1>6 DEF ClearTable
  <2>2. /\ \A w \in Workers : ~LiveWorker(w)
        /\ \A s \in Stoppers : ~LiveStopper(s)
        /\ \A d \in Clients : ~Starting(d)
    BY <1>6, OwnedMeansActive
  <2>3. LockInv'
    BY <1>0, <1>1, <1>2, <2>1 DEF LockInv, UnderLock
  <2>4. StartInv'
    BY <1>0, <1>1, <2>1, <2>2, BoundAssumption
    DEF StartInv, Starting, DefaultRunner, TypeOK
  <2>5. ThreadInv'
    BY <1>0, <2>1, <2>2 DEF ThreadInv, LiveWorker, LiveStopper
  <2>6. CancelInv'
    BY <1>0, <2>1, <2>2
    DEF CancelInv, LiveWorker, LiveStopper, DefaultRunner
  <2>7. AxisInv'
    BY <1>0, <2>1 DEF AxisInv
  <2>8. OutcomeIsHonest' /\ ConfirmedStopIsStandstill' /\ CompletedRowIsAtRest'
    BY <1>0, <2>1
    DEF OutcomeIsHonest, ConfirmedStopIsStandstill, CompletedRowIsAtRest,
        DefaultRunner
  <2> QED BY <1>3, <2>3, <2>4, <2>5, <2>6, <2>7, <2>8
<1> QED BY <1>4, <1>5, <1>6

\* Every step of a request keeps the invariant.
LEMMA ClientStepInv ==
  ASSUME RunnerInv, TypeOK', NEW c \in Clients,
         ClientStep(c) \/ \E cmd \in Commands : Request(c, cmd)
  PROVE  RunnerInv'
  BY RequestQuietSteps, RequestQuietInv, ClearTableInv, StartReserveInv,
     StartLaunchInv, StartWorkerInv, StartSetModeFailsInv, StartFailsInv,
     StartFinishInv, GuardAbortInv, GuardExecuteInv
  DEF ClientStep

-----------------------------------------------------------------------------
(* The theorems.                                                           *)

\* The invariant holds initially.
LEMMA InitInv == Init => RunnerInv
<1> SUFFICES ASSUME Init PROVE RunnerInv
  OBVIOUS
<1>1. TypeOK
  BY InitType
<1>2. LockInv
  BY DEF Init, InitWith, LockInv, UnderLock, IdleClient, IdleWorker, IdleStopper
<1>3. StartInv
  BY DEF Init, InitWith, StartInv, Starting, IdleClient, DefaultRunner
<1>4. ThreadInv /\ CancelInv
  BY DEF Init, InitWith, ThreadInv, CancelInv, LiveWorker, LiveStopper,
         IdleWorker, IdleStopper, DefaultRunner
<1>5. AxisInv
  BY DEF Init, InitWith, AxisInv, IdleWorker, IdleStopper
<1>6. ForeignCommandsRunAlone /\ CompletedRowIsAtRest
  BY DEF Init, InitWith, ForeignCommandsRunAlone, CompletedRowIsAtRest,
         IdleClient, IdleWorker
<1>7. OutcomeIsHonest /\ ConfirmedStopIsStandstill
  BY DEF Init, InitWith, OutcomeIsHonest, ConfirmedStopIsStandstill,
         DefaultRunner
<1> QED BY <1>1, <1>2, <1>3, <1>4, <1>5, <1>6, <1>7 DEF RunnerInv

\* A stuttering step keeps the invariant.
LEMMA StutterInv == RunnerInv /\ UNCHANGED vars => RunnerInv'
<1> SUFFICES ASSUME RunnerInv, UNCHANGED vars PROVE RunnerInv'
  OBVIOUS
<1> USE DEF RunnerInv, vars, runVars, eventVars, threadVars, axisVars
<1>1. TypeOK' /\ LockInv' /\ StartInv'
  BY DEF TypeOK, LockInv, UnderLock, StartInv, Starting, LiveWorker
<1>2. ThreadInv' /\ CancelInv' /\ AxisInv'
  BY DEF ThreadInv, CancelInv, AxisInv, LiveWorker, LiveStopper
<1>3. ForeignCommandsRunAlone' /\ OutcomeIsHonest'
  BY DEF ForeignCommandsRunAlone, OutcomeIsHonest, RunnerActive, RunnerBusy,
         WorkerAlive, StopperAlive
<1>4. ConfirmedStopIsStandstill' /\ CompletedRowIsAtRest'
  BY DEF ConfirmedStopIsStandstill, CompletedRowIsAtRest
<1> QED BY <1>1, <1>2, <1>3, <1>4

\* The invariant is inductive.
LEMMA NextInv == RunnerInv /\ [Next]_vars => RunnerInv'
<1> SUFFICES ASSUME RunnerInv, Next PROVE RunnerInv'
  BY StutterInv
<1>1. TypeOK'
  BY RequestStepType, WorkerStepType, StopperStepType, DaemonStepType,
     CommandAssumption DEF Next, RunnerInv
<1>2. ASSUME NEW c \in Clients,
             ClientStep(c) \/ \E cmd \in Commands : Request(c, cmd)
      PROVE  RunnerInv'
  BY <1>1, <1>2, ClientStepInv
<1>3. ASSUME NEW w \in Workers, WorkerStep(w) PROVE RunnerInv'
  BY <1>1, <1>3, WorkerStepInv
<1>4. ASSUME NEW s \in Stoppers, StopperStep(s) PROVE RunnerInv'
  BY <1>1, <1>4, StopperStepInv
<1>5. CASE AxisCycle \/ DeliverLate
  BY <1>1, <1>5, AxisCycleInv, DeliverLateInv
<1> QED BY <1>2, <1>3, <1>4, <1>5 DEF Next

\* RunnerInv is an invariant of the runner.
THEOREM Invariance == Spec => []RunnerInv
  BY InitInv, NextInv, PTL DEF Spec

\* A row is never sent out of turn: the worker holds the command lock, its run
\* is the current one and has not been cancelled (_run_worker).
THEOREM NoLateRow == Spec => []NoRowOnceCancelled
<1>1. RunnerInv => NoRowOnceCancelled
  BY DEF RunnerInv, LockInv, ThreadInv, CancelInv, LiveWorker, NoRowOnceCancelled
<1> QED BY Invariance, <1>1, PTL

\* No thread of an older run is alive (_start_table, _clear_table).
THEOREM RunsDoNotOverlap == Spec => []LiveThreadsAreCurrent
<1>1. RunnerInv => LiveThreadsAreCurrent
  BY DEF RunnerInv, StartInv, ThreadInv, Starting, LiveWorker, LiveStopper,
         LiveThreadsAreCurrent
<1> QED BY Invariance, <1>1, PTL

\* What guarded_axis_command read does not go stale before the command is sent.
THEOREM GuardHolds == Spec => []ForeignCommandsRunAlone
<1>1. RunnerInv => ForeignCommandsRunAlone
  BY DEF RunnerInv
<1> QED BY Invariance, <1>1, PTL

\* A confirmed stop is a standstill (_wait_for_axis_stopped, _abort_worker).
THEOREM ConfirmedIsStill == Spec => []ConfirmedStopIsStandstill
<1>1. RunnerInv => ConfirmedStopIsStandstill
  BY DEF RunnerInv
<1> QED BY Invariance, <1>1, PTL

\* A row is counted at rest (_wait_for_row).
THEOREM RowsEndAtRest == Spec => []CompletedRowIsAtRest
<1>1. RunnerInv => CompletedRowIsAtRest
  BY DEF RunnerInv
<1> QED BY Invariance, <1>1, PTL

\* The reported outcome is the real one (_request_abort, _abort_worker).
THEOREM OutcomeIsTrue == Spec => []OutcomeIsHonest
<1>1. RunnerInv => OutcomeIsHonest
  BY DEF RunnerInv
<1> QED BY Invariance, <1>1, PTL

-----------------------------------------------------------------------------
(* What no step may do.                                                    *)

\* A step that does not touch what the two properties read.
Untouched ==
    /\ table' = table
    /\ runner'.id = runner.id
    /\ runner'.stopRequested = runner.stopRequested
    /\ runner'.stopConfirmed = runner.stopConfirmed
    /\ runner'.executionError = runner.executionError

\* A step that leaves the outcome of the run alone keeps both records of it.
LEMMA UntouchedKeeps ==
  ASSUME Untouched PROVE KeepUnconfirmed /\ KeepError
  BY DEF Untouched, KeepUnconfirmed, KeepError

\* The abort of a run keeps both records.
LEMMA AbortKeeps ==
  ASSUME RunnerInv, NEW r, NEW err \in BOOLEAN, NEW retry \in BOOLEAN,
         RequestAbort(r, err, retry), table' = table
  PROVE  KeepUnconfirmed /\ KeepError
<1>1. /\ runner'.id = runner.id
      /\ runner.executionError => runner'.executionError
      /\ SameStop \/ \E s \in Stoppers : NewStopper(s)
  BY AbortEffect
<1> QED BY <1>1 DEF SameStop, NewStopper, KeepUnconfirmed, KeepError

\* A worker keeps both records.
LEMMA WorkerStepKeeps ==
  ASSUME RunnerInv, NEW w \in Workers, WorkerStep(w)
  PROVE  KeepUnconfirmed /\ KeepError
<1>1. CASE WorkerFails(w)
  BY <1>1, AbortKeeps DEF WorkerFails
<1>2. CASE WorkerDispatch(w) \/ WorkerMove(w)
  BY <1>2, UntouchedKeeps DEF WorkerDispatch, WorkerMove, Untouched, runVars
<1>3. CASE ~(WorkerFails(w) \/ WorkerDispatch(w) \/ WorkerMove(w))
  <2>1. WorkerQuiet(w)
    BY <1>3, WorkerQuietSteps DEF WorkerStep
  <2>2. table' = table
    BY <1>3 DEF WorkerStep, WorkerBegin, WorkerCycle, WorkerRow, WorkerWaitEnds,
       WorkerSample, WorkerDwell, WorkerCount, WorkerCycleEnd, WorkerFinal,
       WorkerExit, workerRest, runVars
  <2> QED BY <2>1, <2>2, UntouchedKeeps DEF WorkerQuiet, Untouched
<1> QED BY <1>1, <1>2, <1>3

\* A stop thread keeps both records.
LEMMA StopperStepKeeps ==
  ASSUME RunnerInv, NEW s \in Stoppers, StopperStep(s)
  PROVE  KeepUnconfirmed /\ KeepError
<1>1. table' = table
  BY DEF StopperStep, StopLock, StopSend, StopSample, StopGiveUp, StopReport,
         StopExit, stopperRest
<1>2. CASE StopReport(s)
  <2>1. /\ runner'.id = runner.id
        /\ runner'.stopRequested = runner.stopRequested
        /\ runner'.executionError = runner.executionError
    <3>1. runner \in RunnerType
      BY DEF RunnerInv, TypeOK
    <3> QED BY <1>2, <3>1 DEF StopReport, RunnerType
  <2> QED BY <1>1, <1>2, <2>1 DEF KeepUnconfirmed, KeepError
<1>3. CASE ~StopReport(s)
  <2>1. runner' = runner
    BY <1>3 DEF StopperStep, StopLock, StopSend, StopSample, StopGiveUp, StopExit
  <2> QED BY <1>1, <2>1, UntouchedKeeps DEF Untouched
<1> QED BY <1>2, <1>3

\* A request keeps both records.
LEMMA ClientStepKeeps ==
  ASSUME RunnerInv, NEW c \in Clients,
         ClientStep(c) \/ \E cmd \in Commands : Request(c, cmd)
  PROVE  KeepUnconfirmed /\ KeepError
<1>0. runner \in RunnerType /\ TypeOK
  BY DEF RunnerInv, TypeOK
<1>1. CASE \E cmd \in Commands : Request(c, cmd)
  BY <1>1, UntouchedKeeps DEF Request, Untouched, runVars
<1>2. CASE WriteTable(c)
  <2>1. RunnerBusy => table' = table
    BY <1>2 DEF WriteTable, RunnerActive
  <2>2. runner' = runner
    BY <1>2 DEF WriteTable
  <2> QED BY <2>1, <2>2 DEF KeepUnconfirmed, KeepError, RunnerBusy
<1>3. CASE ClearTable(c)
  <2>1. CASE ~RunnerActive
    <3>1. ~(runner.stopRequested /\ ~runner.stopConfirmed)
      BY <2>1 DEF RunnerActive, RunnerBusy
    <3>2. runner' = DefaultRunner
      BY <1>3, <2>1 DEF ClearTable
    <3>3. ~(runner.id # 0 /\ runner'.id = runner.id)
      BY <3>2 DEF DefaultRunner
    <3> QED BY <3>1, <3>3 DEF KeepUnconfirmed, KeepError
  <2>2. CASE RunnerActive /\ runner.stopRequested
    BY <1>3, <2>2, UntouchedKeeps DEF ClearTable, Untouched
  <2>3. CASE RunnerActive /\ ~runner.stopRequested
    BY <1>3, <2>3, AbortKeeps DEF ClearTable
  <2> QED BY <2>1, <2>2, <2>3
<1>4. CASE StartReserve(c)
  <2>1. CASE UNCHANGED runner
    BY <1>4, <2>1, UntouchedKeeps DEF StartReserve, Untouched
  <2>2. CASE ~(UNCHANGED runner)
    <3>1. /\ ~RunnerActive /\ runner'.id = seq + 1 /\ table' = table
      BY <1>4, <2>2 DEF StartReserve, NextRunId, DefaultRunner
    <3>2. runner'.id # runner.id
      BY <3>1, <1>0, BoundAssumption DEF RunnerInv, StartInv, TypeOK, RunnerType
    <3> QED BY <3>1, <3>2
            DEF KeepUnconfirmed, KeepError, RunnerActive, RunnerBusy
  <2> QED BY <2>1, <2>2
<1>5. CASE StartLaunch(c)
  <2>1. \/ runner' = runner
        \/ runner' = [runner EXCEPT !.running = FALSE, !.state = "idle"]
    BY <1>5 DEF StartLaunch, ReleaseReservation
  <2> QED BY <1>0, <1>5, <2>1, UntouchedKeeps
          DEF StartLaunch, Untouched, RunnerType
<1>6. CASE StartPrepare(c) \/ StartWorker(c) \/ StartSetModeFails(c)
           \/ GuardEntry(c) \/ GuardExecute(c)
  BY <1>6, UntouchedKeeps
  DEF StartPrepare, StartWorker, StartSetModeFails, GuardEntry, GuardExecute,
      Untouched, runVars
<1>7. CASE StartFails(c)
  BY <1>7, AbortKeeps DEF StartFails
<1>8. CASE StartFinish(c)
  BY <1>0, <1>8, UntouchedKeeps DEF StartFinish, Untouched, RunnerType
<1>9. CASE GuardAbort(c)
  <2>1. (client[c].cmd # "cancel") \in BOOLEAN
    OBVIOUS
  <2> QED BY <1>9, <2>1, AbortKeeps DEF GuardAbort
<1> QED BY <1>1, <1>2, <1>3, <1>4, <1>5, <1>6, <1>7, <1>8, <1>9 DEF ClientStep

\* Every step keeps an unconfirmed stop and an execution error.
LEMMA StepKeeps == RunnerInv /\ [Next]_vars => [KeepUnconfirmed /\ KeepError]_vars
<1>1. ASSUME RunnerInv, Next PROVE KeepUnconfirmed /\ KeepError
  <2>1. CASE AxisCycle \/ DeliverLate
    BY <2>1, UntouchedKeeps DEF AxisCycle, DeliverLate, Untouched, runVars
  <2> QED BY <1>1, <2>1, ClientStepKeeps, WorkerStepKeeps, StopperStepKeeps
          DEF Next
<1> QED BY <1>1

\* Nothing but a confirming report gets past an unconfirmed stop (_write_table,
\* _start_table, _clear_table, _request_abort).
THEOREM UnconfirmedStopHolds == Spec => UnconfirmedBlocks
<1>1. RunnerInv /\ [Next]_vars => [KeepUnconfirmed]_vars
  BY StepKeeps
<1> QED BY Invariance, <1>1, PTL DEF Spec, UnconfirmedBlocks

\* The first execution error survives every stop, retry and report
\* (_request_abort, _abort_worker).
THEOREM ErrorsAreKept == Spec => ExecutionErrorRetained
<1>1. RunnerInv /\ [Next]_vars => [KeepError]_vars
  BY StepKeeps
<1> QED BY Invariance, <1>1, PTL DEF Spec, ExecutionErrorRetained

-----------------------------------------------------------------------------
(* The ownership protocol.                                                 *)

\* No run number is left behind by a clear, and no abort asks for run 0.
LEMMA InitNumber == Init => NumberInv
  BY DEF Init, InitWith, NumberInv, IdleClient

\* Without a run there is nothing that could be active.
LEMMA NoRunIdle ==
  ASSUME RunnerInv, NumberInv, runner.id = 0
  PROVE  /\ ~RunnerActive
         /\ \A w \in Workers : ~LiveWorker(w)
         /\ \A s \in Stoppers : ~LiveStopper(s)
         /\ \A c \in Clients : ~Starting(c)
<1> USE DEF RunnerInv
<1>1. runner = DefaultRunner
  BY DEF NumberInv
<1>2. /\ ~runner.running /\ ~runner.preparing /\ ~runner.stopRequested
      /\ runner.state = "idle"
  BY <1>1 DEF DefaultRunner
<1>3. ~RunnerBusy
  BY <1>2 DEF RunnerBusy
<1>4. /\ \A w \in Workers : ~LiveWorker(w)
      /\ \A s \in Stoppers : ~LiveStopper(s)
      /\ \A c \in Clients : ~Starting(c)
  BY <1>2 DEF ThreadInv, CancelInv, StartInv
<1>5. ~WorkerAlive /\ ~StopperAlive
  BY <1>4 DEF WorkerAlive, StopperAlive, LiveWorker, LiveStopper, TypeOK
<1> QED BY <1>3, <1>4, <1>5 DEF RunnerActive

\* A cancellation of a numbered run keeps the number.
LEMMA AbortNumber ==
  ASSUME RunnerInv, NumberInv, NEW r, NEW err \in BOOLEAN, NEW retry \in BOOLEAN,
         RequestAbort(r, err, retry), r # 0
  PROVE  runner'.id = 0 => runner' = DefaultRunner
<1>1. CASE ~IsCurrent(r)
  BY <1>1 DEF RequestAbort, NumberInv
<1>2. CASE IsCurrent(r)
  <2>1. runner'.id = runner.id
    BY AbortEffect
  <2> QED BY <1>2, <2>1 DEF IsCurrent
<1> QED BY <1>1, <1>2

\* A step of a worker keeps the numbers.
LEMMA WorkerNumber ==
  ASSUME RunnerInv, NumberInv, NEW w \in Workers, WorkerStep(w)
  PROVE  NumberInv'
<1>1. LiveWorker(w)
  BY DEF WorkerStep, WorkerBegin, WorkerCycle, WorkerRow, WorkerDispatch,
         WorkerMove, WorkerWaitEnds, WorkerSample, WorkerDwell, WorkerCount,
         WorkerCycleEnd, WorkerFinal, WorkerFails, WorkerExit, LiveWorker
<1>2. runner.id # 0 /\ worker[w].run # 0
  BY <1>1 DEF RunnerInv, ThreadInv
<1>3. client' = client
  BY DEF WorkerStep, WorkerBegin, WorkerCycle, WorkerRow, WorkerDispatch,
         WorkerMove, WorkerWaitEnds, WorkerSample, WorkerDwell, WorkerCount,
         WorkerCycleEnd, WorkerFinal, WorkerFails, WorkerExit, workerRest
<1>4. runner'.id = runner.id
  <2>1. CASE WorkerFails(w)
    BY <2>1, AbortEffect DEF WorkerFails
  <2>2. CASE WorkerDispatch(w) \/ WorkerMove(w)
    BY <2>2 DEF WorkerDispatch, WorkerMove, runVars
  <2>3. CASE ~(WorkerFails(w) \/ WorkerDispatch(w) \/ WorkerMove(w))
    BY <2>3, WorkerQuietSteps DEF WorkerStep, WorkerQuiet
  <2> QED BY <2>1, <2>2, <2>3
<1> QED BY <1>2, <1>3, <1>4 DEF NumberInv

\* A step of a stop thread keeps the numbers.
LEMMA StopperNumber ==
  ASSUME RunnerInv, NumberInv, NEW s \in Stoppers, StopperStep(s)
  PROVE  NumberInv'
<1>1. LiveStopper(s)
  BY DEF StopperStep, StopLock, StopSend, StopSample, StopGiveUp, StopReport,
         StopExit, LiveStopper
<1>2. runner.id # 0
  BY <1>1, NoRunIdle
<1>3. client' = client
  BY DEF StopperStep, StopLock, StopSend, StopSample, StopGiveUp, StopReport,
         StopExit, stopperRest
<1>4. runner'.id = runner.id
  <2>1. runner \in RunnerType
    BY DEF RunnerInv, TypeOK
  <2> QED BY <2>1 DEF StopperStep, StopLock, StopSend, StopSample, StopGiveUp,
                      StopReport, StopExit, RunnerType
<1> QED BY <1>2, <1>3, <1>4 DEF NumberInv

\* A step of a request keeps the numbers.
LEMMA ClientNumber ==
  ASSUME RunnerInv, NumberInv, NEW c \in Clients,
         ClientStep(c) \/ \E cmd \in Commands : Request(c, cmd)
  PROVE  NumberInv'
<1> USE DEF NumberInv
<1>0. TypeOK /\ runner \in RunnerType /\ client[c] \in ClientType
  BY ClientTable DEF RunnerInv, TypeOK
<1>a. ASSUME runner' = runner,
             \A d \in Clients : d # c => client'[d] = client[d],
             client'[c].pc = "abort" => client'[c].run # 0
      PROVE  NumberInv'
  BY <1>a
<1>b. ASSUME runner'.id = 0 => runner' = DefaultRunner,
             \A d \in Clients : d # c => client'[d] = client[d],
             client'[c].pc # "abort"
      PROVE  NumberInv'
  BY <1>b
<1>c. Starting(c) => client[c].run # 0 /\ runner.id # 0
  BY DEF RunnerInv, StartInv
<1>d. \A pc : Goto(c, pc) =>
         /\ client'[c].pc = pc /\ client'[c].run = client[c].run
         /\ \A d \in Clients : d # c => client'[d] = client[d]
  BY <1>0, GotoEffect
<1>e. Answer(c) => /\ client'[c].pc = "idle"
                   /\ \A d \in Clients : d # c => client'[d] = client[d]
  BY <1>0, AnswerEffect
<1>1. CASE \E cmd \in Commands : Request(c, cmd)
  BY <1>0, <1>1, <1>a DEF Request, TypeOK, IdleClient, runVars
<1>2. CASE WriteTable(c) \/ GuardExecute(c)
  BY <1>2, <1>a, <1>e DEF WriteTable, GuardExecute, runVars
<1>3. CASE ClearTable(c)
  <2>1. /\ client'[c].pc = "idle"
        /\ \A d \in Clients : d # c => client'[d] = client[d]
    BY <1>3, <1>e DEF ClearTable
  <2>2. CASE ~RunnerActive
    BY <1>3, <1>b, <2>1, <2>2 DEF ClearTable
  <2>3. CASE RunnerActive /\ runner.stopRequested
    BY <1>3, <1>a, <2>1, <2>3 DEF ClearTable
  <2>4. CASE RunnerActive /\ ~runner.stopRequested
    <3>1. RequestAbort(runner.id, FALSE, FALSE) /\ runner.id # 0
      BY <1>3, <2>4, NoRunIdle DEF ClearTable
    <3> QED BY <1>b, <2>1, <3>1, AbortNumber
  <2> QED BY <2>2, <2>3, <2>4
<1>4. CASE StartReserve(c)
  <2>1. CASE Answer(c) /\ UNCHANGED runner
    BY <1>a, <1>e, <2>1
  <2>2. CASE ~(Answer(c) /\ UNCHANGED runner)
    <3>1. runner'.id = seq + 1 /\ seq \in Nat
      <4>1. runner' = [DefaultRunner EXCEPT !.id = NextRunId,
                          !.state = "starting", !.running = TRUE,
                          !.preparing = TRUE]
        BY <1>4, <2>2 DEF StartReserve
      <4>2. seq \in Nat
        BY <1>0, BoundAssumption DEF TypeOK
      <4> QED BY <4>1, <4>2 DEF NextRunId, DefaultRunner
    <3>2. /\ client'[c].pc = "prepare"
          /\ \A d \in Clients : d # c => client'[d] = client[d]
      BY <1>0, <1>4, <2>2 DEF StartReserve, TypeOK, ClientType
    <3> QED BY <1>b, <3>1, <3>2
  <2> QED BY <2>1, <2>2
<1>5. CASE StartPrepare(c)
  <2>1. Starting(c)
    BY <1>5 DEF StartPrepare, Starting
  <2>2. /\ client'[c].run = client[c].run
        /\ \A d \in Clients : d # c => client'[d] = client[d]
    BY <1>0, <1>5, <1>d DEF StartPrepare, TypeOK, ClientType
  <2> QED BY <1>5, <1>a, <1>c, <2>1, <2>2 DEF StartPrepare, runVars
<1>6. CASE StartLaunch(c)
  <2>1. Starting(c)
    BY <1>6 DEF StartLaunch, Starting
  <2>2. runner'.id = runner.id
    BY <1>0, <1>6 DEF StartLaunch, ReleaseReservation, RunnerType
  <2>3. Goto(c, "finish") \/ Goto(c, "setmode")
    BY <1>6 DEF StartLaunch
  <2> QED BY <1>b, <1>c, <1>d, <2>1, <2>2, <2>3
<1>7. CASE StartWorker(c)
  BY <1>7, <1>a, <1>d DEF StartWorker, runVars
<1>8. CASE StartSetModeFails(c)
  <2>1. Starting(c)
    BY <1>8 DEF StartSetModeFails, Starting
  <2> QED BY <1>8, <1>a, <1>c, <1>d, <2>1 DEF StartSetModeFails, runVars
<1>9. CASE StartFails(c)
  <2>1. Starting(c)
    BY <1>9 DEF StartFails, Starting
  <2> QED BY <1>9, <1>b, <1>c, <1>d, <2>1, AbortNumber DEF StartFails
<1>10. CASE StartFinish(c)
  <2>1. Starting(c)
    BY <1>10 DEF StartFinish, Starting
  <2>2. runner'.id = runner.id
    BY <1>0, <1>10 DEF StartFinish, RunnerType
  <2> QED BY <1>10, <1>b, <1>c, <1>e, <2>1, <2>2 DEF StartFinish
<1>11. CASE GuardEntry(c)
  <2>1. RunnerActive => runner.id # 0
    BY NoRunIdle
  <2>2. /\ client'[c].pc = "abort" => client'[c].run # 0
        /\ \A d \in Clients : d # c => client'[d] = client[d]
    BY <1>0, <1>11, <1>d, <1>e, <2>1 DEF GuardEntry, TypeOK, ClientType
  <2> QED BY <1>11, <1>a, <2>2 DEF GuardEntry, runVars
<1>12. CASE GuardAbort(c)
  <2>1. (client[c].cmd # "cancel") \in BOOLEAN /\ client[c].run # 0
    BY <1>12 DEF GuardAbort
  <2>2. runner'.id = 0 => runner' = DefaultRunner
    BY <1>12, <2>1, AbortNumber DEF GuardAbort
  <2> QED BY <1>12, <1>b, <1>d, <1>e, <2>2 DEF GuardAbort
<1> QED BY <1>1, <1>2, <1>3, <1>4, <1>5, <1>6, <1>7, <1>8, <1>9, <1>10, <1>11,
           <1>12 DEF ClientStep

\* Every step keeps the numbers.
LEMMA NumberStep == RunnerInv /\ NumberInv /\ [Next]_vars => NumberInv'
<1>1. ASSUME NumberInv, UNCHANGED vars PROVE NumberInv'
  BY <1>1 DEF NumberInv, vars, runVars
<1>2. ASSUME NumberInv, AxisCycle \/ DeliverLate PROVE NumberInv'
  BY <1>2 DEF NumberInv, AxisCycle, DeliverLate, runVars
<1> QED BY <1>1, <1>2, WorkerNumber, StopperNumber, ClientNumber DEF Next

\* One step as the ownership protocol sees it.
GateStep == [Gate!Next]_(Gate!vars)

\* A step that leaves the run and its cancellation alone, and wakes nothing up.
Eases ==
    /\ runner'.id = runner.id /\ seq' = seq
    /\ runner'.stopRequested = runner.stopRequested
    /\ runner'.stopConfirmed = runner.stopConfirmed
    /\ RunnerActive' => RunnerActive
    /\ runner.stopRequested /\ ~runner.stopConfirmed =>
          StopPending' = StopPending

\* Such a step keeps the gate as it is, or releases it.
LEMMA EasesGate == ASSUME Eases PROVE GateStep
<1>1. CASE ~RunnerActive
  <2>1. GateState = "free" /\ GateState' = "free"
    BY <1>1 DEF Eases, GateState
  <2> QED BY <2>1 DEF Eases, GateStep, Gate!vars
<1>2. CASE RunnerActive /\ RunnerActive'
  <2>1. GateState' = GateState
    BY <1>2 DEF Eases, GateState
  <2> QED BY <2>1 DEF Eases, GateStep, Gate!vars
<1>3. CASE RunnerActive /\ ~RunnerActive'
  <2>1. ~(runner.stopRequested /\ ~runner.stopConfirmed)
    BY <1>3 DEF Eases, RunnerActive, RunnerBusy
  <2>2. GateState \in {"held", "confirmed"} /\ GateState' = "free"
    BY <1>3, <2>1 DEF GateState
  <2> QED BY <2>2 DEF Eases, GateStep, Gate!Next, Gate!Release
<1> QED BY <1>1, <1>2, <1>3

\* A step that leaves the runner and its threads alone.
LEMMA SameGate ==
  ASSUME UNCHANGED <<runner, seq, worker, workerReg, stopper, stopReg>>
  PROVE  GateStep
<1>1. Eases
  BY DEF Eases, RunnerActive, RunnerBusy, WorkerAlive, StopperAlive, StopPending
<1> QED BY <1>1, EasesGate

\* A step that changes the progress of a run some thread of which is live.
LEMMA OwnedGate ==
  ASSUME RunnerInv,
         \/ \E w \in Workers : LiveWorker(w)
         \/ \E s \in Stoppers : LiveStopper(s)
         \/ \E c \in Clients : Starting(c),
         runner'.id = runner.id, runner'.stopRequested = runner.stopRequested,
         runner'.stopConfirmed = runner.stopConfirmed,
         UNCHANGED <<seq, stopper, stopReg>>
  PROVE  GateStep
<1>1. Eases
  BY OwnedMeansActive DEF Eases, StopPending, StopperAlive
<1> QED BY <1>1, EasesGate

\* A cancellation starts a stop, once or again, or adds nothing.
LEMMA AbortGate ==
  ASSUME RunnerInv, NumberInv,
         NEW r, NEW err \in BOOLEAN, NEW retry \in BOOLEAN,
         RequestAbort(r, err, retry), r # 0, seq' = seq,
         RunnerActive \/ (~err /\ UNCHANGED <<worker, workerReg>>)
  PROVE  GateStep
<1>0. TypeOK /\ runner \in RunnerType /\ runner'.id = runner.id
  BY AbortEffect DEF RunnerInv, TypeOK
<1>1. CASE IsCurrent(r) /\ NewAttempt(retry)
  <2>1. StartStopper(err) /\ runner.id # 0
    BY <1>1 DEF RequestAbort, IsCurrent
  <2>2. /\ runner'.running /\ runner'.stopRequested /\ ~runner'.stopConfirmed
    <3>1. runner' = Stopping(err) /\ Faulted(err) \in RunnerType
      BY <2>1, <1>0 DEF StartStopper, Faulted, RunnerType, RunnerStates
    <3> QED BY <3>1 DEF Stopping, RunnerType
  <2>3. StopPending'
    <3>1. PICK s \in Stoppers :
            /\ stopper' = [stopper EXCEPT ![s] = [IdleStopper EXCEPT
                               !.pc = "lock", !.run = runner.id]]
            /\ stopReg' = s
      BY <2>1 DEF StartStopper
    <3>2. stopper'[s].pc = "lock" /\ s # None
      BY <3>1, <1>0, ThreadAssumption DEF TypeOK, IdleStopper
    <3> QED BY <3>1, <3>2 DEF StopPending, StopperAlive
  <2>4. GateState' = "cancelling"
    BY <2>2, <2>3 DEF GateState, RunnerActive, RunnerBusy
  <2>5. CASE ~RunnerActive \/ ~runner.stopRequested
    <3>1. GateState \in {"free", "held"}
      BY <2>5 DEF GateState
    <3> QED BY <1>0, <2>1, <2>4, <3>1 DEF GateStep, Gate!Next, Gate!Cancel
  <2>6. CASE RunnerActive /\ runner.stopRequested
    <3>1. ~runner.stopConfirmed /\ ~StopPending
      BY <1>1, <2>6 DEF NewAttempt, StopPending
    <3>2. GateState = "unconfirmed"
      BY <2>6, <3>1 DEF GateState
    <3> QED BY <1>0, <2>4, <3>2 DEF GateStep, Gate!Next, Gate!Retry
  <2> QED BY <2>5, <2>6
<1>2. CASE ~(IsCurrent(r) /\ NewAttempt(retry))
  <2>1. /\ runner' = runner \/ runner' = Faulted(err)
        /\ UNCHANGED <<stopper, stopReg>>
    BY <1>2 DEF RequestAbort
  <2>2. CASE RunnerActive
    <3>1. /\ runner'.stopRequested = runner.stopRequested
          /\ runner'.stopConfirmed = runner.stopConfirmed
      BY <1>0, <2>1 DEF Faulted, RunnerType
    <3>2. Eases
      BY <1>0, <2>1, <2>2, <3>1 DEF Eases, StopPending, StopperAlive
    <3> QED BY <3>2, EasesGate
  <2>3. CASE ~RunnerActive
    <3>1. runner' = runner
      BY <2>1, <2>3 DEF Faulted
    <3> QED BY <2>1, <2>3, <3>1, SameGate
  <2> QED BY <2>2, <2>3
<1> QED BY <1>1, <1>2

\* A worker, as the protocol sees it.
LEMMA WorkerGate ==
  ASSUME RunnerInv, NumberInv, NEW w \in Workers, WorkerStep(w)
  PROVE  GateStep
<1>1. LiveWorker(w)
  BY DEF WorkerStep, WorkerBegin, WorkerCycle, WorkerRow, WorkerDispatch,
         WorkerMove, WorkerWaitEnds, WorkerSample, WorkerDwell, WorkerCount,
         WorkerCycleEnd, WorkerFinal, WorkerFails, WorkerExit, LiveWorker
<1>2. CASE WorkerFails(w)
  <2>1. RunnerActive /\ worker[w].run # 0
    BY <1>1, OwnedMeansActive DEF RunnerInv, ThreadInv
  <2>2. RequestAbort(worker[w].run, TRUE, FALSE) /\ seq' = seq
    BY <1>2 DEF WorkerFails
  <2> QED BY <2>1, <2>2, AbortGate
<1>3. CASE WorkerDispatch(w) \/ WorkerMove(w)
  BY <1>1, <1>3, OwnedGate DEF WorkerDispatch, WorkerMove, runVars
<1>4. CASE ~(WorkerFails(w) \/ WorkerDispatch(w) \/ WorkerMove(w))
  <2>1. WorkerQuiet(w)
    BY <1>4, WorkerQuietSteps DEF WorkerStep
  <2> QED BY <1>1, <2>1, OwnedGate DEF WorkerQuiet
<1> QED BY <1>2, <1>3, <1>4

\* A stop thread, as the protocol sees it: its report resolves the
\* cancellation, its other steps change nothing.
LEMMA StopperGate ==
  ASSUME RunnerInv, NumberInv, NEW s \in Stoppers, StopperStep(s)
  PROVE  GateStep
<1>0. TypeOK /\ runner \in RunnerType /\ stopper[s] \in StopperType
  BY StopperTable DEF RunnerInv, TypeOK
<1>1. LiveStopper(s)
  BY DEF StopperStep, StopLock, StopSend, StopSample, StopGiveUp, StopReport,
         StopExit, LiveStopper
<1>2. /\ s = stopReg /\ s # None /\ RunnerActive /\ runner.stopRequested
      /\ IsCurrent(stopper[s].run)
      /\ stopper[s].pc # "exit" => ~runner.stopConfirmed
  BY <1>1, OwnedMeansActive, ThreadAssumption
  DEF RunnerInv, ThreadInv, CancelInv, IsCurrent
<1>a. \A pc : SGoto(s, pc) => stopper'[s].pc = pc
  BY <1>0, SGotoEffect
<1>3. CASE StopReport(s)
  <2>1. GateState = "cancelling"
    BY <1>2, <1>3 DEF StopReport, GateState, StopPending, StopperAlive
  <2>2. /\ runner'.id = runner.id
        /\ runner'.stopRequested
        /\ stopper'[s].pc = "exit" /\ stopReg' = stopReg /\ seq' = seq
    BY <1>0, <1>2, <1>3, <1>a DEF StopReport, RunnerType, stopperRest
  <2>3. RunnerActive' /\ ~StopPending'
    BY <1>2, <2>2 DEF RunnerActive, StopperAlive, StopPending
  <2>4. GateState' \in {"confirmed", "unconfirmed"}
    BY <2>2, <2>3 DEF GateState
  <2> QED BY <2>1, <2>2, <2>4 DEF GateStep, Gate!Next, Gate!Resolve
<1>4. CASE ~StopReport(s)
  <2>1. UNCHANGED <<runner, seq, stopReg, worker, workerReg>>
    BY <1>4 DEF StopperStep, StopLock, StopSend, StopSample, StopGiveUp,
                StopExit, stopperRest
  <2>2. \/ /\ stopper[s].pc # "exit"
           /\ stopper'[s].pc \notin {"idle", "exit"}
        \/ stopper[s].pc = "exit" /\ stopper'[s].pc = "idle"
    <3>1. CASE StopLock(s) \/ StopSend(s) \/ StopGiveUp(s)
      BY <1>2, <1>a, <3>1 DEF StopLock, StopSend, StopGiveUp
    <3>2. CASE StopSample(s)
      BY <1>0, <3>2 DEF StopSample, TypeOK, StopperType
    <3>3. CASE StopExit(s)
      BY <1>0, <3>3 DEF StopExit, TypeOK, IdleStopper
    <3> QED BY <1>4, <3>1, <3>2, <3>3 DEF StopperStep
  <2>3. StopPending' = StopPending
    BY <1>1, <1>2, <2>1, <2>2 DEF StopPending, StopperAlive, LiveStopper
  <2>4. Eases
    BY <1>2, <2>1, <2>3 DEF Eases
  <2> QED BY <2>4, EasesGate
<1> QED BY <1>3, <1>4

\* A request, as the protocol sees it: it takes the axis, cancels the run on it
\* or forgets it.
LEMMA ClientGate ==
  ASSUME RunnerInv, NumberInv, NEW c \in Clients,
         ClientStep(c) \/ \E cmd \in Commands : Request(c, cmd)
  PROVE  GateStep
<1>0. TypeOK /\ runner \in RunnerType
  BY DEF RunnerInv, TypeOK
<1>a. Starting(c) => RunnerActive /\ client[c].run # 0
  BY OwnedMeansActive DEF RunnerInv, StartInv
<1>1. CASE \E cmd \in Commands : Request(c, cmd)
  BY <1>1, SameGate DEF Request, requestRest, runVars, threadVars
<1>2. CASE WriteTable(c) \/ StartPrepare(c) \/ GuardEntry(c) \/ GuardExecute(c)
           \/ StartSetModeFails(c)
  BY <1>2, SameGate
  DEF WriteTable, StartPrepare, GuardEntry, GuardExecute, StartSetModeFails,
      requestRest, runVars, threadVars
<1>3. CASE ClearTable(c)
  <2>1. UNCHANGED <<seq, worker>>
    BY <1>3 DEF ClearTable
  <2>2. CASE ~RunnerActive
    <3>1. /\ runner' = DefaultRunner /\ workerReg' = None /\ stopReg' = None
      BY <1>3, <2>2 DEF ClearTable
    <3>2. ~RunnerActive' /\ runner'.id = 0
      BY <3>1
      DEF RunnerActive, RunnerBusy, WorkerAlive, StopperAlive, DefaultRunner
    <3>3. GateState = "free" /\ GateState' = "free"
      BY <2>2, <3>2 DEF GateState
    <3> QED BY <2>1, <3>2, <3>3 DEF GateStep, Gate!Next, Gate!Forget
  <2>3. CASE RunnerActive /\ runner.stopRequested
    <3>1. UNCHANGED <<runner, stopper, stopReg, workerReg>>
      BY <1>3, <2>3 DEF ClearTable
    <3> QED BY <2>1, <3>1, SameGate
  <2>4. CASE RunnerActive /\ ~runner.stopRequested
    <3>1. RequestAbort(runner.id, FALSE, FALSE) /\ runner.id # 0
      BY <1>3, <2>4, NoRunIdle DEF ClearTable
    <3> QED BY <2>1, <2>4, <3>1, AbortGate
  <2> QED BY <2>2, <2>3, <2>4
<1>4. CASE StartReserve(c)
  <2>1. UNCHANGED <<worker, workerReg, stopper, stopReg>>
    BY <1>4 DEF StartReserve, threadVars
  <2>2. CASE UNCHANGED <<runner, seq>>
    BY <2>1, <2>2, SameGate
  <2>3. CASE ~(UNCHANGED <<runner, seq>>)
    <3>1. /\ ~RunnerActive /\ seq' = seq + 1
          /\ runner' = [DefaultRunner EXCEPT !.id = NextRunId,
                           !.state = "starting", !.running = TRUE,
                           !.preparing = TRUE]
      BY <1>4, <2>3 DEF StartReserve, NextRunId
    <3>2. runner'.id = seq' /\ runner'.running /\ ~runner'.stopRequested
      BY <3>1 DEF NextRunId, DefaultRunner
    <3>3. GateState = "free" /\ GateState' = "held"
      BY <3>1, <3>2 DEF GateState, RunnerActive, RunnerBusy
    <3> QED BY <3>1, <3>2, <3>3 DEF GateStep, Gate!Next, Gate!Acquire
  <2> QED BY <2>2, <2>3
<1>5. CASE StartLaunch(c)
  <2>1. Starting(c) /\ UNCHANGED <<seq, stopper, stopReg>>
    BY <1>5 DEF StartLaunch, Starting, threadVars
  <2>2. /\ runner'.id = runner.id
        /\ runner'.stopRequested = runner.stopRequested
        /\ runner'.stopConfirmed = runner.stopConfirmed
    BY <1>0, <1>5 DEF StartLaunch, ReleaseReservation, RunnerType
  <2> QED BY <2>1, <2>2, OwnedGate
<1>6. CASE StartWorker(c)
  <2>1. Starting(c) /\ UNCHANGED <<runner, seq, stopper, stopReg>>
    BY <1>6 DEF StartWorker, Starting, runVars
  <2> QED BY <2>1, OwnedGate
<1>7. CASE StartFails(c)
  <2>1. Starting(c) /\ RequestAbort(client[c].run, TRUE, FALSE) /\ seq' = seq
    BY <1>7 DEF StartFails, Starting
  <2> QED BY <1>a, <2>1, AbortGate
<1>8. CASE StartFinish(c)
  <2>1. Starting(c) /\ UNCHANGED <<seq, stopper, stopReg>>
    BY <1>8 DEF StartFinish, Starting, requestRest, threadVars
  <2>2. /\ runner'.id = runner.id
        /\ runner'.stopRequested = runner.stopRequested
        /\ runner'.stopConfirmed = runner.stopConfirmed
    BY <1>0, <1>8 DEF StartFinish, RunnerType
  <2> QED BY <2>1, <2>2, OwnedGate
<1>9. CASE GuardAbort(c)
  <2>1. /\ (client[c].cmd # "cancel") \in BOOLEAN
        /\ RequestAbort(client[c].run, FALSE, client[c].cmd # "cancel")
        /\ client[c].run # 0
        /\ UNCHANGED <<seq, worker, workerReg>>
    BY <1>9 DEF GuardAbort, NumberInv
  <2> QED BY <2>1, AbortGate
<1> QED BY <1>1, <1>2, <1>3, <1>4, <1>5, <1>6, <1>7, <1>8, <1>9 DEF ClientStep

\* The initial state is a free axis.
LEMMA InitGate == Init => Gate!Init
<1> SUFFICES ASSUME Init PROVE Gate!Init
  OBVIOUS
<1>1. runner = DefaultRunner /\ seq = 0 /\ workerReg = None /\ stopReg = None
  BY DEF Init, InitWith
<1>2. ~RunnerActive /\ runner.id = 0
  BY <1>1
  DEF RunnerActive, RunnerBusy, WorkerAlive, StopperAlive, DefaultRunner
<1> QED BY <1>1, <1>2 DEF Gate!Init, GateState

\* Every step of the runner is one of the protocol, or none.
LEMMA NextGate == RunnerInv /\ NumberInv /\ [Next]_vars => GateStep
<1> SUFFICES ASSUME RunnerInv, NumberInv, [Next]_vars PROVE GateStep
  OBVIOUS
<1>1. CASE UNCHANGED vars
  BY <1>1, SameGate DEF vars, runVars, threadVars
<1>2. CASE AxisCycle \/ DeliverLate
  BY <1>2, SameGate DEF AxisCycle, DeliverLate, runVars, threadVars
<1>3. CASE Next /\ ~(AxisCycle \/ DeliverLate)
  BY <1>3, ClientGate, WorkerGate, StopperGate DEF Next
<1> QED BY <1>1, <1>2, <1>3

\* The runner implements the ownership protocol: an axis is taken when it is
\* free, given back only after a confirmed stop or the end of the run, and kept
\* over an unconfirmed stop until a retry (_runner_active_locked,
\* _request_abort, _abort_worker).
THEOREM RunnerImplementsGate == Spec => ImplementsGate
<1>1. Spec => []NumberInv
  BY InitNumber, NumberStep, Invariance, PTL DEF Spec
<1>2. RunnerInv /\ NumberInv /\ [Next]_vars => [Gate!Next]_(Gate!vars)
  BY NextGate DEF GateStep
<1> QED BY InitGate, <1>1, <1>2, Invariance, PTL DEF Spec, ImplementsGate, Gate!Spec

-----------------------------------------------------------------------------
(* The counters of a completed run.                                        *)

\* There is no worker to begin with.
LEMMA InitCount == Init => CountInv
  BY DEF Init, InitWith, CountInv, Counted, IdleWorker, LoopPcs, RowPcs

\* A step that leaves the counters alone and uncancels nothing.
LEMMA CountKept ==
  ASSUME RunnerInv, CountInv,
         runner'.cycleCount = runner.cycleCount,
         runner'.completedRows = runner.completedRows,
         \A r \in Runs : event[r] => event'[r],
         \A w \in Workers :
            \/ worker'[w] = worker[w]
            \/ /\ worker'[w].pc \notin LoopPcs
               /\ worker'[w].pc = "begin" => worker'[w].cycle = 0
  PROVE  CountInv'
<1> SUFFICES ASSUME NEW w \in Workers PROVE Counted(w)'
  BY DEF CountInv
<1>1. CASE worker'[w].pc \notin LoopPcs
  BY <1>1 DEF CountInv, Counted
<1>2. CASE worker'[w].pc \in LoopPcs
  <2>1. worker'[w] = worker[w] /\ worker[w].pc \in LoopPcs
    BY <1>2
  <2>2. LiveWorker(w)
    BY <2>1 DEF LoopPcs, RowPcs, LiveWorker
  <2>3. worker[w].run \in Runs
    BY <2>2, BoundAssumption
    DEF RunnerInv, ThreadInv, TypeOK, RunnerType, Runs, RunIds
  <2>4. Cancelled(w) => Cancelled(w)'
    BY <2>1, <2>3 DEF Cancelled
  <2> QED BY <2>1, <2>4 DEF CountInv, Counted
<1> QED BY <1>1, <1>2

\* A step while no worker is live.
LEMMA CountIdle ==
  ASSUME RunnerInv, \A w \in Workers : ~LiveWorker(w), worker' = worker
  PROVE  CountInv'
  BY DEF CountInv, Counted, LiveWorker, LoopPcs, RowPcs

\* A cancellation leaves the counters alone.
LEMMA AbortCounts ==
  ASSUME RunnerInv, NEW r, NEW err \in BOOLEAN, NEW retry \in BOOLEAN,
         RequestAbort(r, err, retry)
  PROVE  /\ runner'.cycleCount = runner.cycleCount
         /\ runner'.completedRows = runner.completedRows
         /\ \A q \in Runs : event[q] => event'[q]
         /\ runner'.state = "complete" => runner.state = "complete"
<1>0. runner \in RunnerType
  BY DEF RunnerInv, TypeOK
<1>1. /\ Faulted(err) \in RunnerType
      /\ Faulted(err).cycleCount = runner.cycleCount
      /\ Faulted(err).completedRows = runner.completedRows
      /\ Faulted(err).state \in {runner.state, "error"}
  BY <1>0 DEF Faulted, RunnerType, RunnerStates
<1>2. /\ Stopping(err).cycleCount = runner.cycleCount
      /\ Stopping(err).completedRows = runner.completedRows
      /\ Stopping(err).state = "stopping"
  BY <1>1 DEF Stopping, RunnerType
<1>3. \A q \in Runs : event[q] => event'[q]
  BY DEF RequestAbort, SetEvent
<1>4. runner' \in {runner, Faulted(err), Stopping(err)}
  BY DEF RequestAbort, StartStopper
<1> QED BY <1>1, <1>2, <1>3, <1>4

\* The record of a worker that only goes on to another step.
LEMMA WGotoKeeps ==
  ASSUME TypeOK, NEW w \in Workers, NEW pc, WGoto(w, pc)
  PROVE  /\ worker'[w].pc = pc /\ worker'[w].run = worker[w].run
         /\ worker'[w].rows = worker[w].rows
         /\ worker'[w].cycles = worker[w].cycles
         /\ worker'[w].row = worker[w].row
         /\ worker'[w].cycle = worker[w].cycle
  BY DEF TypeOK, WGoto, WorkerType

\* The loops of a worker count what they do.
LEMMA WorkerCounts ==
  ASSUME RunnerInv, CountInv, NEW w \in Workers, WorkerStep(w)
  PROVE  CountInv'
<1>0. /\ TypeOK /\ runner \in RunnerType /\ runner.completedRows \in Nat
      /\ worker[w].rows \in Nat /\ worker[w].cycles \in Nat
      /\ worker[w].row \in Nat /\ worker[w].cycle \in Nat
  BY WorkerTable DEF RunnerInv, TypeOK, RunnerType, WorkerType
<1>1. LiveWorker(w) /\ Counted(w)
  BY DEF WorkerStep, WorkerBegin, WorkerCycle, WorkerRow, WorkerDispatch,
         WorkerMove, WorkerWaitEnds, WorkerSample, WorkerDwell, WorkerCount,
         WorkerCycleEnd, WorkerFinal, WorkerFails, WorkerExit, LiveWorker,
         CountInv
<1>2. \A v \in Workers : v # w => ~LiveWorker(v) /\ worker'[v] = worker[v]
  <2>1. \A v \in Workers : v # w => worker'[v] = worker[v]
    BY <1>0 DEF TypeOK, WorkerStep, WorkerBegin, WorkerCycle, WorkerRow,
       WorkerDispatch, WorkerMove, WorkerWaitEnds, WorkerSample, WorkerDwell,
       WorkerCount, WorkerCycleEnd, WorkerFinal, WorkerFails, WorkerExit, WGoto
  <2> QED BY <1>1, <2>1 DEF RunnerInv, ThreadInv
<1>a. ASSUME Counted(w)' PROVE CountInv'
  <2>1. ASSUME NEW v \in Workers, v # w PROVE Counted(v)'
    BY <1>2, <2>1 DEF Counted, LiveWorker, LoopPcs, RowPcs
  <2> QED BY <1>a, <2>1 DEF CountInv
<1>b. \A pc : WGoto(w, pc) =>
         /\ worker'[w].pc = pc /\ worker'[w].run = worker[w].run
         /\ worker'[w].rows = worker[w].rows
         /\ worker'[w].cycles = worker[w].cycles
         /\ worker'[w].row = worker[w].row
         /\ worker'[w].cycle = worker[w].cycle
  BY <1>0, WGotoKeeps
<1>c. ASSUME worker'[w].pc \notin LoopPcs, worker'[w].pc # "begin"
      PROVE  Counted(w)'
  BY <1>c DEF Counted
<1>d. "exit" \notin LoopPcs /\ "fail" \notin LoopPcs /\ "idle" \notin LoopPcs
  BY DEF LoopPcs, RowPcs
<1> DEFINE made == worker[w].cycle * worker[w].rows
<1>m. made \in Nat
  BY <1>0
<1>3. CASE WorkerBegin(w)
  <2>1. CASE WGoto(w, "exit")
    BY <1>a, <1>b, <1>c, <1>d, <2>1
  <2>2. CASE ~WGoto(w, "exit")
    <3>1. /\ worker[w].pc = "begin" /\ WGoto(w, "cycle")
          /\ runner' = [runner EXCEPT !.running = TRUE, !.state = "running",
                           !.completedRows = 0, !.cycleCount = 0]
      BY <1>3, <2>2 DEF WorkerBegin
    <3>2. runner'.cycleCount = 0 /\ runner'.completedRows = 0
      BY <1>0, <3>1 DEF RunnerType
    <3>3. /\ worker'[w].pc = "cycle" /\ worker'[w].cycle = 0
          /\ worker'[w].cycles \in Nat /\ worker'[w].rows \in Nat
      BY <1>0, <1>1, <1>b, <3>1 DEF Counted
    <3>4. Counted(w)'
      BY <3>2, <3>3 DEF Counted, LoopPcs, RowPcs
    <3> QED BY <1>a, <3>4
  <2> QED BY <2>1, <2>2
<1>4. CASE WorkerCycle(w)
  <2>1. /\ worker[w].pc = "cycle" /\ runner' = runner /\ event' = event
    BY <1>4 DEF WorkerCycle, workerRest, eventVars
  <2>2. CASE WGoto(w, "final")
    <3>1. worker[w].cycle = worker[w].cycles \/ Cancelled(w)
      BY <1>0, <1>4, <2>2, <1>b DEF WorkerCycle, TypeOK, WorkerType
    <3>2. Cancelled(w)' = Cancelled(w)
      BY <1>b, <2>1, <2>2 DEF Cancelled
    <3>3. Counted(w)'
      BY <1>1, <1>b, <2>1, <2>2, <3>1, <3>2 DEF Counted, LoopPcs, RowPcs
    <3> QED BY <1>a, <3>3
  <2>3. CASE ~WGoto(w, "final")
    <3>1. worker[w].cycle < worker[w].cycles /\ ~Cancelled(w)
      BY <1>4, <2>3 DEF WorkerCycle
    <3>2. /\ worker'[w].pc \in {"row", "exit"} /\ worker'[w].row = 0
          /\ worker'[w].run = worker[w].run
          /\ worker'[w].rows = worker[w].rows
          /\ worker'[w].cycles = worker[w].cycles
          /\ worker'[w].cycle = worker[w].cycle
      <4>1. PICK pc \in {"row", "exit"} :
              worker' = [worker EXCEPT ![w].pc = pc, ![w].row = 0]
        BY <1>4, <2>3 DEF WorkerCycle
      <4> QED BY <1>0, <4>1, RestartEffect
    <3>3. runner.cycleCount = worker[w].cycle /\ runner.completedRows = made + 0
      BY <1>1, <2>1, <3>1 DEF Counted, LoopPcs, RowPcs
    <3>4. Counted(w)'
      BY <1>0, <2>1, <3>1, <3>2, <3>3 DEF Counted, LoopPcs, RowPcs
    <3> QED BY <1>a, <3>4
  <2> QED BY <2>2, <2>3
<1>5. CASE WorkerRow(w)
  <2>1. /\ worker[w].pc = "row" /\ runner' = runner /\ event' = event
    BY <1>5 DEF WorkerRow, workerRest, eventVars
  <2>2. \/ worker[w].row = worker[w].rows /\ WGoto(w, "cycleEnd")
        \/ Cancelled(w) /\ WGoto(w, "cycleEnd")
        \/ worker[w].row < worker[w].rows /\ WGoto(w, "dispatch")
        \/ WGoto(w, "exit")
    BY <1>5 DEF WorkerRow
  <2>3. \A pc : WGoto(w, pc) => Cancelled(w)' = Cancelled(w)
    BY <1>b, <2>1 DEF Cancelled
  <2>4. Counted(w)'
    <3>1. CASE WGoto(w, "exit")
      BY <1>b, <1>c, <1>d, <3>1
    <3>2. CASE Cancelled(w) /\ WGoto(w, "cycleEnd")
      <4>1. worker'[w].pc = "cycleEnd" /\ Cancelled(w)'
        BY <1>b, <2>3, <3>2
      <4> QED BY <4>1 DEF Counted
    <3>3. CASE worker[w].row = worker[w].rows /\ WGoto(w, "cycleEnd")
      BY <1>1, <1>b, <2>1, <2>3, <3>3 DEF Counted, LoopPcs, RowPcs
    <3>4. CASE worker[w].row < worker[w].rows /\ WGoto(w, "dispatch")
      BY <1>0, <1>1, <1>b, <2>1, <2>3, <3>4 DEF Counted, LoopPcs, RowPcs
    <3> QED BY <2>2, <3>1, <3>2, <3>3, <3>4
  <2> QED BY <1>a, <2>4
<1>6. CASE \/ WorkerDispatch(w) \/ WorkerMove(w) \/ WorkerDwell(w)
           \/ WorkerSample(w) \/ WorkerWaitEnds(w)
  <2>1. /\ worker[w].pc \in {"dispatch", "move", "wait", "dwell"}
        /\ runner' = runner /\ event' = event
    BY <1>6 DEF WorkerDispatch, WorkerMove, WorkerDwell, WorkerSample,
       WorkerWaitEnds, workerRest, runVars, eventVars
  <2>2. /\ \/ worker'[w].pc \in {"move", "wait", "dwell", "count", "fail"}
           \/ worker'[w].pc = "cycleEnd" /\ Cancelled(w)
        /\ worker'[w].run = worker[w].run
        /\ worker'[w].rows = worker[w].rows
        /\ worker'[w].cycles = worker[w].cycles
        /\ worker'[w].row = worker[w].row
        /\ worker'[w].cycle = worker[w].cycle
    <3>1. CASE WorkerDispatch(w) \/ WorkerMove(w) \/ WorkerDwell(w)
      BY <1>b, <3>1 DEF WorkerDispatch, WorkerMove, WorkerDwell
    <3>2. CASE WorkerSample(w)
      BY <1>0, <3>2 DEF WorkerSample, TypeOK, WorkerType
    <3>3. CASE WorkerWaitEnds(w)
      <4>1. PICK pc \in {"fail"} \cup (IF Cancelled(w) THEN {"cycleEnd"} ELSE {}) :
              worker' = [worker EXCEPT ![w].pc = pc, ![w].based = FALSE]
        BY <3>3 DEF WorkerWaitEnds
      <4>2. pc = "fail" \/ (pc = "cycleEnd" /\ Cancelled(w))
        OBVIOUS
      <4> QED BY <1>0, <4>1, <4>2 DEF TypeOK, WorkerType
    <3> QED BY <1>6, <3>1, <3>2, <3>3
  <2>3. Cancelled(w)' = Cancelled(w)
    BY <2>1, <2>2 DEF Cancelled
  <2>4. Counted(w)'
    BY <1>0, <1>1, <2>1, <2>2, <2>3 DEF Counted, LoopPcs, RowPcs
  <2> QED BY <1>a, <2>4
<1>7. CASE WorkerCount(w)
  <2>1. worker[w].pc = "count" /\ event' = event
    BY <1>7 DEF WorkerCount, workerRest, eventVars
  <2>2. CASE WGoto(w, "exit")
    BY <1>a, <1>b, <1>c, <1>d, <2>2
  <2>3. CASE ~WGoto(w, "exit")
    <3>1. /\ ~Cancelled(w)
          /\ runner' = [runner EXCEPT !.completedRows = @ + 1]
          /\ worker' = [worker EXCEPT ![w].pc = "row", ![w].row = @ + 1]
      BY <1>7, <2>3 DEF WorkerCount
    <3>2. /\ worker'[w].pc = "row" /\ worker'[w].row = worker[w].row + 1
          /\ worker'[w].run = worker[w].run
          /\ worker'[w].rows = worker[w].rows
          /\ worker'[w].cycles = worker[w].cycles
          /\ worker'[w].cycle = worker[w].cycle
      BY <1>0, <3>1 DEF TypeOK, WorkerType
    <3>3. /\ runner'.completedRows = runner.completedRows + 1
          /\ runner'.cycleCount = runner.cycleCount
      BY <1>0, <3>1 DEF RunnerType
    <3>4. /\ runner.completedRows = made + worker[w].row
          /\ runner.cycleCount = worker[w].cycle
          /\ worker[w].row + 1 <= worker[w].rows
          /\ worker[w].cycle + 1 <= worker[w].cycles
      BY <1>1, <2>1, <3>1 DEF Counted, LoopPcs, RowPcs
    <3>5. runner'.completedRows = made + worker'[w].row
      <4> HIDE DEF made
      <4> QED BY <1>0, <1>m, <3>2, <3>3, <3>4
    <3>6. Counted(w)'
      BY <1>0, <3>2, <3>3, <3>4, <3>5 DEF Counted, LoopPcs, RowPcs
    <3> QED BY <1>a, <3>6
  <2> QED BY <2>2, <2>3
<1>8. CASE WorkerCycleEnd(w)
  <2>1. worker[w].pc = "cycleEnd" /\ event' = event
    BY <1>8 DEF WorkerCycleEnd, workerRest, eventVars
  <2>2. CASE WGoto(w, "exit")
    BY <1>a, <1>b, <1>c, <1>d, <2>2
  <2>3. CASE WGoto(w, "final") /\ Cancelled(w)
    <3>1. Cancelled(w)'
      BY <1>b, <2>1, <2>3 DEF Cancelled
    <3>2. worker'[w].pc = "final"
      BY <1>b, <2>3
    <3> QED BY <1>a, <3>1, <3>2 DEF Counted
  <2>4. CASE ~WGoto(w, "exit") /\ ~(WGoto(w, "final") /\ Cancelled(w))
    <3>1. /\ ~Cancelled(w)
          /\ runner' = [runner EXCEPT !.cycleCount = worker[w].cycle + 1]
          /\ worker' = [worker EXCEPT ![w].pc = "cycle", ![w].cycle = @ + 1]
      BY <1>8, <2>4 DEF WorkerCycleEnd
    <3>2. /\ worker'[w].pc = "cycle" /\ worker'[w].cycle = worker[w].cycle + 1
          /\ worker'[w].run = worker[w].run
          /\ worker'[w].rows = worker[w].rows
          /\ worker'[w].cycles = worker[w].cycles
      BY <1>0, <3>1 DEF TypeOK, WorkerType
    <3>3. /\ runner'.completedRows = runner.completedRows
          /\ runner'.cycleCount = worker[w].cycle + 1
      BY <1>0, <3>1 DEF RunnerType
    <3>4. /\ runner.completedRows = made + worker[w].rows
          /\ worker[w].cycle + 1 <= worker[w].cycles
      BY <1>1, <2>1, <3>1 DEF Counted, LoopPcs, RowPcs
    <3>5. made + worker[w].rows = (worker[w].cycle + 1) * worker[w].rows
      BY <1>0
    <3>6. /\ runner'.completedRows = worker'[w].cycle * worker'[w].rows + 0
          /\ worker'[w].cycle + 0 <= worker'[w].cycles
      BY <1>0, <3>2, <3>3, <3>4, <3>5
    <3>7. Counted(w)'
      BY <3>2, <3>3, <3>6 DEF Counted, LoopPcs, RowPcs
    <3> QED BY <1>a, <3>7
  <2> QED BY <2>2, <2>3, <2>4
<1>9. CASE WorkerFinal(w) \/ WorkerFails(w)
  <2>1. worker'[w].pc = "exit"
    BY <1>9, <1>b DEF WorkerFinal, WorkerFails
  <2> QED BY <1>a, <1>c, <1>d, <2>1
<1>10. CASE WorkerExit(w)
  <2>1. worker'[w].pc = "idle"
    BY <1>0, <1>10 DEF WorkerExit, TypeOK, IdleWorker
  <2> QED BY <1>a, <1>c, <1>d, <2>1
<1> QED BY <1>3, <1>4, <1>5, <1>6, <1>7, <1>8, <1>9, <1>10 DEF WorkerStep

\* A run is declared complete only by its worker, at the end of its loops.
Completes == runner.state # "complete" /\ runner'.state = "complete"

\* A stop thread counts nothing and completes nothing.
LEMMA StopperCounts ==
  ASSUME RunnerInv, CountInv, NEW s \in Stoppers, StopperStep(s)
  PROVE  CountInv' /\ ~Completes
<1>0. runner \in RunnerType
  BY DEF RunnerInv, TypeOK
<1>1. event' = event /\ worker' = worker
  BY DEF StopperStep, StopLock, StopSend, StopSample, StopGiveUp, StopReport,
         StopExit, stopperRest, eventVars
<1>2. /\ runner'.cycleCount = runner.cycleCount
      /\ runner'.completedRows = runner.completedRows
      /\ ~Completes
  <2>1. CASE ~StopReport(s)
    BY <2>1 DEF StopperStep, StopLock, StopSend, StopSample, StopGiveUp,
                StopExit, Completes
  <2>2. CASE StopReport(s)
    <3>1. ASSUME NEW ok \in BOOLEAN
          PROVE  StateAfterStop(ok) \in {"error", "stopped"}
      BY DEF StateAfterStop
    <3>2. stopper[s].confirmed \in BOOLEAN
      BY StopperTable DEF RunnerInv, StopperType
    <3> QED BY <1>0, <2>2, <3>1, <3>2 DEF StopReport, RunnerType, Completes
  <2> QED BY <2>1, <2>2
<1> QED BY <1>1, <1>2, CountKept

\* A request counts nothing and completes nothing.
LEMMA ClientCounts ==
  ASSUME RunnerInv, CountInv, NEW c \in Clients,
         ClientStep(c) \/ \E cmd \in Commands : Request(c, cmd)
  PROVE  CountInv' /\ ~Completes
<1>0. TypeOK /\ runner \in RunnerType
  BY DEF RunnerInv, TypeOK
<1>a. ASSUME UNCHANGED <<runner, event, worker>>
      PROVE  CountInv' /\ ~Completes
  BY <1>a, CountKept DEF Completes
<1>1. CASE \/ \E cmd \in Commands : Request(c, cmd)
           \/ WriteTable(c) \/ StartPrepare(c) \/ StartSetModeFails(c)
           \/ GuardEntry(c) \/ GuardExecute(c)
  BY <1>1, <1>a DEF Request, WriteTable, StartPrepare, StartSetModeFails,
     GuardEntry, GuardExecute, requestRest, runVars, eventVars, threadVars
<1>b. ASSUME NEW r, NEW err \in BOOLEAN, NEW retry \in BOOLEAN,
             RequestAbort(r, err, retry), worker' = worker
      PROVE  CountInv' /\ ~Completes
  BY <1>b, AbortCounts, CountKept DEF Completes
<1>2. CASE ClearTable(c)
  <2>1. worker' = worker
    BY <1>2 DEF ClearTable
  <2>2. CASE ~RunnerActive
    <3>1. \A w \in Workers : ~LiveWorker(w)
      BY <2>2, OwnedMeansActive
    <3>2. ~Completes
      <4>1. runner' = DefaultRunner
        BY <1>2, <2>2 DEF ClearTable
      <4> QED BY <4>1 DEF DefaultRunner, Completes
    <3> QED BY <2>1, <3>1, <3>2, CountIdle
  <2>3. CASE RunnerActive /\ runner.stopRequested
    BY <1>2, <1>a, <2>1, <2>3 DEF ClearTable
  <2>4. CASE RunnerActive /\ ~runner.stopRequested
    BY <1>2, <1>b, <2>1, <2>4 DEF ClearTable
  <2> QED BY <2>2, <2>3, <2>4
<1>3. CASE StartReserve(c)
  <2>1. worker' = worker
    BY <1>3 DEF StartReserve, threadVars
  <2>2. CASE UNCHANGED <<runner, event>>
    BY <1>a, <2>1, <2>2
  <2>3. CASE ~(UNCHANGED <<runner, event>>)
    <3>1. /\ ~RunnerActive
          /\ runner' = [DefaultRunner EXCEPT !.id = NextRunId,
                           !.state = "starting", !.running = TRUE,
                           !.preparing = TRUE]
      BY <1>3, <2>3 DEF StartReserve, eventVars
    <3>2. \A w \in Workers : ~LiveWorker(w)
      BY <3>1, OwnedMeansActive
    <3>3. ~Completes
      BY <3>1 DEF DefaultRunner, Completes
    <3> QED BY <2>1, <3>2, <3>3, CountIdle
  <2> QED BY <2>2, <2>3
<1>4. CASE StartLaunch(c) \/ StartFinish(c)
  <2>1. UNCHANGED <<event, worker>>
    BY <1>4 DEF StartLaunch, StartFinish, requestRest, eventVars, threadVars
  <2>2. /\ runner'.cycleCount = runner.cycleCount
        /\ runner'.completedRows = runner.completedRows
        /\ runner'.state \in {runner.state, "idle"}
    BY <1>0, <1>4
    DEF StartLaunch, StartFinish, ReleaseReservation, RunnerType
  <2> QED BY <2>1, <2>2, CountKept DEF Completes
<1>5. CASE StartWorker(c)
  <2>1. UNCHANGED <<runner, event>>
    BY <1>5 DEF StartWorker, runVars, eventVars
  <2>2. \A w \in Workers :
           \/ worker'[w] = worker[w]
           \/ worker'[w].pc = "begin" /\ worker'[w].cycle = 0
    BY <1>0, <1>5 DEF StartWorker, TypeOK, IdleWorker
  <2>3. "begin" \notin LoopPcs
    BY DEF LoopPcs, RowPcs
  <2> QED BY <2>1, <2>2, <2>3, CountKept DEF Completes
<1>6. CASE StartFails(c)
  BY <1>6, <1>b DEF StartFails
<1>7. CASE GuardAbort(c)
  <2>1. /\ (client[c].cmd # "cancel") \in BOOLEAN
        /\ RequestAbort(client[c].run, FALSE, client[c].cmd # "cancel")
        /\ worker' = worker
    BY <1>7 DEF GuardAbort
  <2> QED BY <1>b, <2>1
<1> QED BY <1>1, <1>2, <1>3, <1>4, <1>5, <1>6, <1>7 DEF ClientStep

\* Every step keeps the counters in line with the loops.
LEMMA CountStep == RunnerInv /\ CountInv /\ [Next]_vars => CountInv'
<1>1. ASSUME RunnerInv, CountInv, UNCHANGED vars \/ AxisCycle \/ DeliverLate
      PROVE  CountInv'
  <2>1. UNCHANGED <<runner, event, worker>>
    BY <1>1 DEF vars, AxisCycle, DeliverLate, runVars, eventVars, threadVars
  <2> QED BY <1>1, <2>1, CountKept
<1> QED BY <1>1, WorkerCounts, StopperCounts, ClientCounts DEF Next

\* The whole table was counted when a run is declared complete.
Whole ==
    Completes =>
       \E w \in Workers :
          /\ worker[w].pc = "final"
          /\ runner.cycleCount = worker[w].cycles
          /\ runner.completedRows = worker[w].cycles * worker[w].rows

\* A worker completes a run at the end of both loops only.
LEMMA WorkerWhole ==
  ASSUME RunnerInv, CountInv, NEW w \in Workers, WorkerStep(w)
  PROVE  Whole
<1>0. /\ runner \in RunnerType /\ runner.completedRows \in Nat
      /\ worker[w].rows \in Nat /\ worker[w].cycles \in Nat
  BY WorkerTable DEF RunnerInv, TypeOK, RunnerType, WorkerType
<1>1. CASE WorkerFinal(w)
  <2>1. CASE MayComplete(w)
    <3>1. worker[w].pc = "final" /\ ~Cancelled(w) /\ Counted(w)
      BY <1>1, <2>1 DEF WorkerFinal, MayComplete, CountInv
    <3>2. /\ runner.cycleCount = worker[w].cycles
          /\ runner.completedRows = worker[w].cycles * worker[w].rows + 0
      BY <3>1 DEF Counted, LoopPcs, RowPcs
    <3>3. worker[w].cycles * worker[w].rows \in Nat
      BY <1>0
    <3> QED BY <3>1, <3>2, <3>3 DEF Whole
  <2>2. CASE ~MayComplete(w)
    BY <1>1, <2>2 DEF WorkerFinal, Whole, Completes
  <2> QED BY <2>1, <2>2
<1>2. CASE WorkerFails(w)
  BY <1>2, AbortCounts DEF WorkerFails, Whole, Completes
<1>3. CASE ~(WorkerFinal(w) \/ WorkerFails(w))
  <2>1. ~Completes
    BY <1>0, <1>3
    DEF WorkerStep, WorkerBegin, WorkerCycle, WorkerRow, WorkerDispatch,
        WorkerMove, WorkerWaitEnds, WorkerSample, WorkerDwell, WorkerCount,
        WorkerCycleEnd, WorkerExit, runVars, RunnerType, Completes
  <2> QED BY <2>1 DEF Whole
<1> QED BY <1>1, <1>2, <1>3

\* A run is declared complete only when every row of every cycle was counted
\* (_run_worker).
THEOREM CompletionIsWhole == Spec => CompleteMeansWhole
<1>1. Spec => []CountInv
  BY InitCount, CountStep, Invariance, PTL DEF Spec
<1>2. ASSUME RunnerInv, CountInv, [Next]_vars PROVE [Whole]_vars
  <2>1. CASE UNCHANGED vars
    BY <2>1
  <2>2. CASE AxisCycle \/ DeliverLate
    BY <2>2 DEF AxisCycle, DeliverLate, runVars, Whole, Completes
  <2>3. CASE Next /\ ~(AxisCycle \/ DeliverLate)
    BY <1>2, <2>3, WorkerWhole, StopperCounts, ClientCounts DEF Next, Whole
  <2> QED BY <1>2, <2>1, <2>2, <2>3
<1>3. RunnerInv /\ CountInv /\ [Next]_vars =>
         [runner.state # "complete" /\ runner'.state = "complete" =>
             \E w \in Workers :
                /\ worker[w].pc = "final"
                /\ runner.cycleCount = worker[w].cycles
                /\ runner.completedRows = worker[w].cycles * worker[w].rows]_vars
  BY <1>2 DEF Whole, Completes
<1> QED BY <1>1, <1>3, Invariance, PTL DEF Spec, CompleteMeansWhole
=============================================================================
