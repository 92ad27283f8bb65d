-------------------------------- MODULE MCReplay --------------------------------
\* The instance of MCMeasuredGate, with replays of what its gate leaves.
EXTENDS Replay, MCMeasuredGate
===============================================================================
