--------------------------- MODULE MCNorflashApi ---------------------------
(* Small instances of NorflashApi.  One bit per page is enough to tell an   *)
(* erased page from a programmed one and a lost write from a kept one.      *)
EXTENDS NorflashApi

MCBits == {"b0"}

MCUsers == {"NORFLASH_API_USER_CP"}
=============================================================================
