------------------------- MODULE MCFlashProtection -------------------------
\* Instances of FlashProtection for TLC.
EXTENDS FlashProtection

Chip(t, k, d) == [total |-> t, kind |-> k, dual |-> d]

\* 128 KB to 16 MB, two chips of 128 KB to 16 MB side by side, and the 1 MB
\* and 32 MB chips with tables of their own.
Plain == {Chip(2^n, "other", FALSE) : n \in 17 .. 24}
Dual  == {Chip(2^n, "other", TRUE) : n \in 18 .. 25}
Own   == {Chip(2^20, "xt25q08b", FALSE), Chip(2^25, "256m_with_bmp", FALSE)}
GD25LE255E == {Chip(2^25, "256m", FALSE)}

MCChips == Plain \cup Dual \cup Own \cup GD25LE255E

\* Aligned pages, sectors, half blocks and blocks on both sides of the places
\* where an area can begin or end.
Borders == {b * 2^n : b \in 1 .. 3, n \in 12 .. 24}
Near(s) == {a \in {0} \cup Borders \cup {b - s : b \in {c \in Borders : c >= s}} :
                a % s = 0}
Aligned == UNION {{[addr |-> a, size |-> s] : a \in Near(s)} :
                      s \in {256, 4096, 8192, 32768, 65536, 131072}}

\* Writes that reach up to such a place and that begin just behind it.
Unaligned == {[addr |-> b - 2, size |-> 2] : b \in Borders}
             \cup {[addr |-> b + 1, size |-> 4095] : b \in Borders}
             \cup {[addr |-> b - 1, size |-> 1] : b \in Borders}

\* Erases of blocks that reach over such a place by a sector or half.
Blocks == {32768, 65536, 131072}
Across == {[addr |-> b - n * 4096, size |-> s] :
               b \in Borders \ 0 .. 131071, n \in {1, 2, 4, 6}, s \in Blocks}

MCOperations == Aligned \cup Unaligned \cup Across

=============================================================================
