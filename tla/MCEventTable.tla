---------------------------- MODULE MCEventTable ----------------------------
\* Instances of the event table for TLC.
EXTENDS EventTable, TLC

CONSTANTS p1, p2
=============================================================================
