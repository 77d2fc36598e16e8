----------------------------- MODULE MCNvRecord -----------------------------
\* Small instances of NvRecord for TLC.
EXTENDS NvRecord

\* One version per update, and the default.
MCBits == 0 .. MaxVer

=============================================================================
