------------------------------ MODULE MCMcu2Cp ------------------------------
\* Small instances of Mcu2Cp for TLC.
EXTENDS Mcu2Cp

=============================================================================
