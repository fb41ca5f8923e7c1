---------------------------- MODULE MCScheduler ----------------------------
EXTENDS Scheduler

CONSTANTS sync, signals, ai

MCInterval == [l \in Loops |-> IF l = signals THEN 2 ELSE 1]
=============================================================================
