---------------------------- MODULE FlashStore ----------------------------
(***************************************************************************)
(* What norflash_api promises to the modules that use it: a flash memory   *)
(* in which every accepted write and erase takes effect at once.  The      *)
(* queueing, the sector buffers, the suspended chip operations and the     *)
(* order in which they reach the chip cannot be observed by a read.        *)
(***************************************************************************)
EXTENDS Naturals

CONSTANTS Mods, Secs, Offs, Bits

VARIABLE contents

Init == contents = [m \in Mods |-> [s \in Secs |-> [o \in Offs |-> {}]]]

\* A run of pages is programmed; callers only clear bits.
Write(m, s, lo, hi, v) ==
    /\ \A o \in Offs : lo <= o /\ o <= hi => contents[m][s][o] \subseteq v
    /\ contents' = [contents EXCEPT ![m][s] =
                        [o \in Offs |-> IF lo <= o /\ o <= hi THEN v
                                        ELSE contents[m][s][o]]]

Erase(m, s) ==
    contents' = [contents EXCEPT ![m][s] = [o \in Offs |-> {}]]

Next == \E m \in Mods, s \in Secs :
            \/ Erase(m, s)
            \/ \E lo, hi \in Offs, v \in SUBSET Bits : Write(m, s, lo, hi, v)

Spec == Init /\ [][Next]_contents
=============================================================================
