---------------------------- MODULE MCSkyCleaner ----------------------------
EXTENDS SkyCleanerInv

RealTasks == TaskOps
=============================================================================
