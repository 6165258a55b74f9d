-------------------------- MODULE MCMultiPointLive --------------------------
(***************************************************************************)
(* Liveness of the runner under a finite number of requests.  A Python lock*)
(* does not promise a waiting thread its turn, so a client that sends a    *)
(* motion command over and over could keep the stop thread waiting; people *)
(* press a finite number of buttons.  The table has been written already.  *)
(***************************************************************************)
EXTENDS MultiPoint

CONSTANT MaxRequests   \* bound: requests sent

VARIABLE asked   \* requests sent so far

LiveInit == InitWith(MaxRows) /\ asked = 0

Ask(c, cmd) == asked < MaxRequests /\ asked' = asked + 1 /\ Request(c, cmd)

LiveNext ==
    \/ \E c \in Clients : \E cmd \in Commands : Ask(c, cmd)
    \/ /\ UNCHANGED asked
       /\ \/ \E c \in Clients : ClientStep(c)
          \/ \E w \in Workers : WorkerStep(w)
          \/ \E s \in Stoppers : StopperStep(s)
          \/ AxisCycle
          \/ DeliverLate

LiveSpec == LiveInit /\ [][LiveNext]_<<vars, asked>> /\ Fairness
=============================================================================
