------------------------------- MODULE MCFifo ------------------------------
EXTENDS MCScheduler, FifoScheduler
=============================================================================
