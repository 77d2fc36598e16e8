----------------------------- MODULE MCCpAccel -----------------------------
\* Small instances of CpAccel for TLC.
EXTENDS CpAccel

MCMsgs == {"req_event", "pending_event"}

=============================================================================
