-------------------------- MODULE MCSignalPipeline --------------------------
EXTENDS SignalPipeline

CONSTANTS job, script, s05, s06

MCRegistry == <<s05, s06>>
=============================================================================
