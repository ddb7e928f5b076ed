---------------------------- MODULE MCScheduleSync ----------------------------
\* The instances of ScheduleSync that TLC checks.
EXTENDS ScheduleSync, TLC

RequestSymmetry == Permutations(Clients)
===============================================================================
