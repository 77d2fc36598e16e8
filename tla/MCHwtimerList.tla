--------------------------- MODULE MCHwtimerList ---------------------------
\* Small instances of HwtimerList for TLC.
EXTENDS HwtimerList

=============================================================================
