------------------------------ MODULE AxisGate ------------------------------
(***************************************************************************)
(* What the multi-point runner promises about the ownership of an axis:    *)
(* one run at a time holds it, a cancelled run gives it back only after a  *)
(* confirmed stop, and an unconfirmed stop holds it until a retry.         *)
(***************************************************************************)
EXTENDS Naturals

VARIABLES
    gate,   \* "free", "held", "cancelling", "unconfirmed" or "confirmed"
    run,    \* the run that holds the axis or held it last, 0 after a clear
    last    \* the highest run number given out

vars == <<gate, run, last>>

Init == gate = "free" /\ run = 0 /\ last = 0

\* A run takes a free axis, under a number never used before.
Acquire ==
    /\ gate = "free" /\ gate' = "held"
    /\ last' = last + 1 /\ run' = last'

\* A run is cancelled; a request that found it active may come just after it
\* let go of the axis.
Cancel ==
    /\ gate \in {"held", "free"} /\ run # 0
    /\ gate' = "cancelling"
    /\ UNCHANGED <<run, last>>

Resolve ==
    /\ gate = "cancelling"
    /\ gate' \in {"confirmed", "unconfirmed"}
    /\ UNCHANGED <<run, last>>

Retry ==
    /\ gate = "unconfirmed" /\ gate' = "cancelling"
    /\ UNCHANGED <<run, last>>

\* Never from "cancelling" or "unconfirmed".
Release ==
    /\ gate \in {"held", "confirmed"} /\ gate' = "free"
    /\ UNCHANGED <<run, last>>

Forget ==
    /\ gate = "free" /\ run' = 0
    /\ UNCHANGED <<gate, last>>

Next == Acquire \/ Cancel \/ Resolve \/ Retry \/ Release \/ Forget

Spec == Init /\ [][Next]_vars
=============================================================================
