------------------------------ MODULE MCPanel -------------------------------
\* The page with two axes that were left in the same mode, each mode that has flows
\* of its own kind; the others are gone to.  The flows are interchangeable.
EXTENDS Panel
MCStored == {[d \in Devices |-> m] :
    m \in {"position", "multi_point", "anti_sway_position", "homing"}}
Symmetry == Permutations(Flows)
=============================================================================
