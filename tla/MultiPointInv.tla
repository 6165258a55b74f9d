--------------------------- MODULE MultiPointInv ----------------------------
(***************************************************************************)
(* The inductive invariant of MultiPoint: why its safety invariants hold.  *)
(***************************************************************************)
EXTENDS MultiPoint

\* A request between the reservation of its run and its finally clause.
Starting(c) ==
    \/ client[c].pc \in {"prepare", "launch", "setmode", "finish"}
    \/ client[c].pc = "abort" /\ client[c].cmd = "run"

\* A request at a step made under the command lock.
UnderLock(c) ==
    \/ client[c].pc \in {"setmode", "exec"}
    \/ client[c].pc = "abort" /\ client[c].cmd # "run"

LiveWorker(w)  == worker[w].pc # "idle"
LiveStopper(s) == stopper[s].pc # "idle"

\* Who is at a step made under the command lock holds it.
LockInv ==
    /\ \A c \in Clients : UnderLock(c) => cmdLock = c
    /\ \A w \in Workers : worker[w].pc = "move" => cmdLock = w
    /\ \A s \in Stoppers : stopper[s].pc = "send" => cmdLock = s

\* One request at a time starts a run; there is no worker before it is done,
\* and the event it captured is the registered one until it lets go.
StartInv ==
    /\ \A c \in Clients : Starting(c) =>
          /\ client[c].cmd = "run"
          /\ client[c].run = runner.id /\ runner.id # 0
          /\ runner.preparing
          /\ client[c].pc # "finish" => \A w \in Workers : ~LiveWorker(w)
          /\ client[c].pc \in {"prepare", "launch", "setmode"} =>
                eventReg = runner.id
    /\ \A c, d \in Clients : Starting(c) /\ Starting(d) => c = d
    /\ runner.id <= seq

\* Live threads are registered and belong to the current run.
ThreadInv ==
    /\ \A w \in Workers : LiveWorker(w) =>
          w = workerReg /\ worker[w].run = runner.id /\ runner.id # 0
                        /\ eventReg = runner.id
    /\ \A s \in Stoppers : LiveStopper(s) =>
          s = stopReg /\ stopper[s].run = runner.id

\* The event of the current run is set with stop_requested, a row is not sent
\* after that, and every stop thread works for a requested stop.
CancelInv ==
    /\ \A r \in Runs : r = runner.id /\ r = eventReg /\ runner.stopRequested
          => event[r]
    /\ \A w \in Workers : worker[w].pc = "move" =>
          ~runner.stopRequested /\ ~event[worker[w].run]
    /\ \A s \in Stoppers : LiveStopper(s) =>
          /\ runner.stopRequested
          /\ stopper[s].pc # "exit" => ~runner.stopConfirmed
          /\ stopper[s].pc # "report" /\ stopper[s].pc # "exit" =>
                ~stopper[s].confirmed
    /\ runner.executionError => runner.stopRequested
    /\ runner.stopConfirmed => runner.stopRequested

\* What the two watchers know about the axis: the moving flag they accept was
\* computed after their command, and no motion is left in the socket.
AxisInv ==
    /\ \A w \in Workers :
          /\ w \in advanced => worker[w].pc = "wait"
          /\ worker[w].pc \in {"wait", "dwell", "count"} =>
                {"row", "other"} \cap late = {}
          /\ w \in advanced \/ worker[w].pc \in {"dwell", "count"} =>
                {"row", "other"} \cap due = {}
          /\ w \in advanced /\ ~axis.reported => axis.motion = "none"
    /\ \A s \in Stoppers :
          /\ s \in advanced => stopper[s].pc = "watch"
          /\ stopper[s].pc = "watch" => "row" \notin late
          /\ s \in advanced => "row" \notin due
          /\ s \in advanced /\ ~axis.reported => axis.motion # "row"
          /\ stopper[s].pc = "report" /\ stopper[s].confirmed =>
                axis.motion # "row" /\ "row" \notin late \cup due

RunnerInv ==
    /\ TypeOK
    /\ LockInv
    /\ StartInv
    /\ ThreadInv
    /\ CancelInv
    /\ AxisInv
    /\ ForeignCommandsRunAlone
    /\ OutcomeIsHonest
    /\ ConfirmedStopIsStandstill
    /\ CompletedRowIsAtRest
\* Run numbers start at 1: nothing of a run is left in the runner when it has
\* none, and a request that cancels a run found one.
NumberInv ==
    /\ runner.id = 0 => runner = DefaultRunner
    /\ \A c \in Clients : client[c].pc = "abort" => client[c].run # 0

\* The steps of the two loops of a worker, and those inside the row loop.
RowPcs  == {"row", "dispatch", "move", "wait", "dwell", "count"}
LoopPcs == RowPcs \cup {"cycle", "cycleEnd", "final"}

\* As long as its run is not cancelled, the counters of the runner are the
\* loop variables of the worker.
Counted(w) ==
    LET self == worker[w] IN
    /\ self.pc = "begin" => self.cycle = 0
    /\ self.pc \in LoopPcs /\ ~Cancelled(w) =>
          /\ runner.cycleCount = self.cycle
          /\ runner.completedRows = self.cycle * self.rows
                + (IF self.pc \in {"cycle", "final"} THEN 0 ELSE self.row)
          /\ IF self.pc = "final" THEN self.cycle = self.cycles
             ELSE self.cycle + (IF self.pc = "cycle" THEN 0 ELSE 1)
                     <= self.cycles
          /\ self.pc \in RowPcs => self.row <= self.rows
          /\ self.pc \in RowPcs \ {"row"} => self.row + 1 <= self.rows
          /\ self.pc = "cycleEnd" => self.row = self.rows

CountInv == \A w \in Workers : Counted(w)
=============================================================================
