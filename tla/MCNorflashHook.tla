--------------------------- MODULE MCNorflashHook ---------------------------
\* A small instance of NorflashHook for TLC.
EXTENDS NorflashHook

MCBits == {"b0"}

MCUsers == {"NORFLASH_API_USER_CP"}
=============================================================================
