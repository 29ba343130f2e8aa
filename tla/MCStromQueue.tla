---------------------------- MODULE MCStromQueue ----------------------------
EXTENDS StromQueue
=============================================================================
