------------------------------ MODULE MCHoming ------------------------------
EXTENDS Homing

\* No backoff, one away from the obstruction, one through it.
BackoffOffsets == {0, -3, 2}
=============================================================================
