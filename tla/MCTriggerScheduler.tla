-------------------------- MODULE MCTriggerScheduler --------------------------
EXTENDS TriggerScheduler

MCPeriod  == [i \in Intervals |-> 2]
MCInstant == [o \in OneShots |-> 1]
=============================================================================
