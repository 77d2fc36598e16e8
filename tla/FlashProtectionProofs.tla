----------------------- MODULE FlashProtectionProofs -----------------------
(***************************************************************************)
(* Proofs about FlashProtection for every chip the service knows and every *)
(* operation it accepts: the table has room, its codes are told apart, and *)
(* the area that is protected around an operation is there, leaves the     *)
(* operation free, and is half of the flash or more.                       *)
(***************************************************************************)
EXTENDS FlashProtection, SequenceTheorems, WellFoundedInduction, TLAPS

-----------------------------------------------------------------------------
(* Arithmetic.                                                             *)

\* The values of 1 << k; a recursive function is what satisfies its equation,
\* and these do.
LEMMA Shifts ==
    /\ shl[0] = 1 /\ shl[1] = 2 /\ shl[2] = 4 /\ shl[3] = 8
    /\ shl[4] = 16 /\ shl[5] = 32 /\ shl[6] = 64 /\ shl[7] = 128
    /\ shl[8] = 256 /\ shl[9] = 512
    /\ shl[17] = 131072 /\ shl[18] = 262144 /\ shl[19] = 524288
    /\ shl[20] = 1048576 /\ shl[21] = 2097152 /\ shl[22] = 4194304
    /\ shl[23] = 8388608 /\ shl[24] = 16777216 /\ shl[25] = 33554432
<1> DEFINE Shifted(f) ==
        f = [k \in 0 .. 25 |-> IF k = 0 THEN 1 ELSE 2 * f[k - 1]]
<1>1. \E f : Shifted(f)
  <2> DEFINE a == [k \in 0 .. 25 |->
        CASE k = 0 -> 1 [] k = 1 -> 2 [] k = 2 -> 4 [] k = 3 -> 8
          [] k = 4 -> 16 [] k = 5 -> 32 [] k = 6 -> 64 [] k = 7 -> 128
          [] k = 8 -> 256 [] k = 9 -> 512 [] k = 10 -> 1024
          [] k = 11 -> 2048 [] k = 12 -> 4096 [] k = 13 -> 8192
          [] k = 14 -> 16384 [] k = 15 -> 32768 [] k = 16 -> 65536
          [] k = 17 -> 131072 [] k = 18 -> 262144 [] k = 19 -> 524288
          [] k = 20 -> 1048576 [] k = 21 -> 2097152 [] k = 22 -> 4194304
          [] k = 23 -> 8388608 [] k = 24 -> 16777216 [] k = 25 -> 33554432]
  <2>1. \A k \in 0 .. 25 : a[k] = IF k = 0 THEN 1 ELSE 2 * a[k - 1]
    OBVIOUS
  <2> HIDE DEF a
  <2>2. a = [k \in 0 .. 25 |-> a[k]]
    BY DEF a
  <2>3. Shifted(a)
    BY <2>1, <2>2
  <2> QED BY <2>3
<1>2. Shifted(shl)
  BY <1>1 DEF shl
<1>3. \A k \in 0 .. 25 : shl[k] = IF k = 0 THEN 1 ELSE 2 * shl[k - 1]
  BY <1>2, ZenonT(30)
<1>4. shl[0] = 1 /\ \A k \in 1 .. 25 : shl[k] = 2 * shl[k - 1]
  BY <1>3
<1> HIDE DEF Shifted
<1>5. shl[1] = 2 /\ shl[2] = 4 /\ shl[3] = 8 /\ shl[4] = 16 /\ shl[5] = 32
  BY <1>4
<1>6. shl[6] = 64 /\ shl[7] = 128 /\ shl[8] = 256 /\ shl[9] = 512
  BY <1>4, <1>5
<1>7. shl[10] = 1024 /\ shl[11] = 2048 /\ shl[12] = 4096 /\ shl[13] = 8192
  BY <1>4, <1>6
<1>8. shl[14] = 16384 /\ shl[15] = 32768 /\ shl[16] = 65536
      /\ shl[17] = 131072
  BY <1>4, <1>7
<1>9. shl[18] = 262144 /\ shl[19] = 524288 /\ shl[20] = 1048576
      /\ shl[21] = 2097152
  BY <1>4, <1>8
<1>10. shl[22] = 4194304 /\ shl[23] = 8388608 /\ shl[24] = 16777216
       /\ shl[25] = 33554432
  BY <1>4, <1>9
<1> QED BY <1>4, <1>5, <1>6, <1>8, <1>9, <1>10

\* A set of natural numbers has a least one.
LEMMA LeastNumber ==
    ASSUME NEW T \in SUBSET Nat, T # {}
    PROVE  \E n \in T : \A m \in T : n <= m
<1>1. \E n \in T : \A m \in T : ~ (<<m, n>> \in OpToRel(<, Nat))
  BY NatLessThanWellFounded, WFMin
<1>2. PICK n \in T : \A m \in T : ~ (<<m, n>> \in OpToRel(<, Nat))
  BY <1>1
<1>3. \A m \in T : ~(m < n)
  BY <1>2 DEF OpToRel
<1> QED BY <1>3

\* A loop from base up makes m turns, the last one of limit bytes.
Reaches(base, m, limit) == m \in 1 .. 9 /\ base * shl[m - 1] = limit

\* s bytes are so many sectors of 4 KB.
Sectors(s) == \E q \in Nat \ {0} : s = 4096 * q

LEMMA LoopTurns ==
    ASSUME NEW base, Sectors(base), NEW m, NEW limit, Reaches(base, m, limit)
    PROVE  /\ Turns(base, limit) = 1 .. m
           /\ \A k \in 1 .. m :
                Sectors(Size(base, k)) /\ Size(base, k) <= limit
           /\ Size(base, m) = limit
<1>1. PICK q \in Nat \ {0} : base = 4096 * q
  BY DEF Sectors
<1>2. m \in 1 .. 9 /\ base * shl[m - 1] = limit
  BY DEF Reaches
<1>3. \A k \in 1 .. 9 : shl[k - 1] \in Nat \ {0} /\ shl[k] = 2 * shl[k - 1]
  <2> SUFFICES ASSUME NEW k \in 1 .. 9
               PROVE  shl[k - 1] \in Nat \ {0} /\ shl[k] = 2 * shl[k - 1]
    OBVIOUS
  <2>1. \/ k = 1 \/ k = 2 \/ k = 3 \/ k = 4 \/ k = 5
        \/ k = 6 \/ k = 7 \/ k = 8 \/ k = 9
    OBVIOUS
  <2> QED BY <2>1, Shifts
<1>4. \A k, j \in 1 .. 10 :
          /\ Size(base, k) \in Nat
          /\ k < j => Size(base, k) < Size(base, j)
  <2> SUFFICES ASSUME NEW k \in 1 .. 10, NEW j \in 1 .. 10
               PROVE  /\ Size(base, k) \in Nat
                      /\ k < j => Size(base, k) < Size(base, j)
    OBVIOUS
  <2>1. \/ k = 1 \/ k = 2 \/ k = 3 \/ k = 4 \/ k = 5
        \/ k = 6 \/ k = 7 \/ k = 8 \/ k = 9 \/ k = 10
    OBVIOUS
  <2>2. \/ j = 1 \/ j = 2 \/ j = 3 \/ j = 4 \/ j = 5
        \/ j = 6 \/ j = 7 \/ j = 8 \/ j = 9 \/ j = 10
    OBVIOUS
  <2>3. Size(base, k) = base * shl[k - 1] /\ Size(base, j) = base * shl[j - 1]
    BY DEF Size
  <2> QED BY <1>1, <2>1, <2>2, <2>3, Shifts
<1>5. m \in 1 .. 10 /\ Size(base, m) = limit
  BY <1>2 DEF Size
<1>6. \A k \in 1 .. 10 : Size(base, k) <= limit <=> k <= m
  <2> SUFFICES ASSUME NEW k \in 1 .. 10
               PROVE  Size(base, k) <= limit <=> k <= m
    OBVIOUS
  <2>1. k < m \/ k = m \/ m < k
    BY <1>5
  <2> QED BY <1>4, <1>5, <2>1
<1>7. Turns(base, limit) = 1 .. m
  BY <1>5, <1>6 DEF Turns, MaxTurns
<1>8. \A k \in 1 .. m : Sectors(Size(base, k))
  <2> SUFFICES ASSUME NEW k \in 1 .. m PROVE Sectors(Size(base, k))
    OBVIOUS
  <2>1. k \in 1 .. 9 /\ shl[k - 1] \in Nat \ {0}
    BY <1>2, <1>3
  <2> DEFINE x == shl[k - 1]
             r == q * x
  <2>2. x \in Nat \ {0}
    BY <2>1
  <2> HIDE DEF x
  <2>3. r \in Nat \ {0} /\ (4096 * q) * x = 4096 * r
    BY <2>2
  <2>4. Size(base, k) = 4096 * r
    BY <1>1, <2>3 DEF Size, x
  <2> HIDE DEF r
  <2> QED BY <2>3, <2>4 DEF Sectors
<1> QED BY <1>5, <1>6, <1>7, <1>8

-----------------------------------------------------------------------------
(* Tables.                                                                 *)

\* No flash is larger.
MaxTotal == 33554432

Area == [bp : Nat, start_addr : Nat, end_addr : 0 .. MaxTotal - 1]

All(total) == Entry(FLASH_BP_ALL, 0, total - 1)

\* An area up to the end of a sector, and not the code of the whole flash.
Whole(e) == e.end_addr % 4096 = 4095 /\ e.bp # FLASH_BP_ALL

Distinct(s) ==
    \A i, j \in 1 .. Len(s) : s[i].bp = s[j].bp => i = j

\* The entries of one loop: their codes are lo to hi - 1.
IsPart(s, lo, hi) ==
    /\ s \in Seq(Area) /\ Distinct(s)
    /\ \A i \in 1 .. Len(s) : Whole(s[i]) /\ lo <= s[i].bp /\ s[i].bp < hi

\* None, all, and what the loops have added.
IsTable(s, total) ==
    /\ s \in Seq(Area) /\ Len(s) >= 2
    /\ s[1] = Entry(0, 0, 0) /\ s[2] = All(total)
    /\ \A i \in 3 .. Len(s) : Whole(s[i])

\* No code is used twice, and those from hi on are free but for the whole
\* flash's.
CodesBelow(s, hi) ==
    /\ Distinct(s)
    /\ \A i \in 1 .. Len(s) : s[i].bp < hi \/ s[i].bp = FLASH_BP_ALL

Has(s, start, end) ==
    \E i \in 1 .. Len(s) : s[i].start_addr = start /\ s[i].end_addr = end

LEMMA MaxIsNat == MaxTotal \in Nat
BY DEF MaxTotal

LEMMA FirstEntries ==
    ASSUME NEW total \in 1 .. MaxTotal
    PROVE  /\ IsTable(NoneAndAll(total), total)
           /\ Len(NoneAndAll(total)) = 2
           /\ CodesBelow(NoneAndAll(total), 4)
<1>1. Entry(0, 0, 0) \in Area /\ All(total) \in Area
  <2>1. 0 \in 0 .. MaxTotal - 1 /\ total - 1 \in 0 .. MaxTotal - 1
    BY MaxIsNat
  <2>2. FLASH_BP_ALL \in Nat
    BY DEF FLASH_BP_ALL
  <2> QED BY <2>1, <2>2 DEF Entry, All, Area
<1> DEFINE s == NoneAndAll(total)
<1>2. /\ s \in Seq(Area) /\ Len(s) = 2
      /\ s[1] = Entry(0, 0, 0) /\ s[2] = All(total)
  BY <1>1 DEF NoneAndAll, All
<1>3. s[1].bp = 0 /\ s[2].bp = FLASH_BP_ALL
  BY <1>2 DEF Entry, All
<1> HIDE DEF s
<1>4. IsTable(s, total)
  BY <1>2 DEF IsTable
<1>5. CodesBelow(s, 4)
  BY <1>2, <1>3 DEF CodesBelow, Distinct, FLASH_BP_ALL
<1> QED BY <1>2, <1>4, <1>5 DEF s

\* A loop adds its entries to the table.
LEMMA LoopAdds ==
    ASSUME NEW total, NEW s, IsTable(s, total),
           NEW lo \in Nat, NEW hi \in Nat, lo <= hi,
           NEW t, IsPart(t, lo, hi)
    PROVE  /\ IsTable(s \o t, total)
           /\ Len(s \o t) = Len(s) + Len(t)
           /\ CodesBelow(s, lo) => CodesBelow(s \o t, hi)
           /\ \A a, b : Has(s, a, b) \/ Has(t, a, b) => Has(s \o t, a, b)
<1> DEFINE u == s \o t
           m == Len(s)
           n == Len(t)
<1>1. /\ s \in Seq(Area) /\ t \in Seq(Area) /\ m \in Nat /\ n \in Nat
      /\ m >= 2
  BY LenProperties DEF IsTable, IsPart
<1>2. /\ u \in Seq(Area) /\ Len(u) = m + n
      /\ \A i \in 1 .. m + n : u[i] = IF i <= m THEN s[i] ELSE t[i - m]
  BY <1>1, ConcatProperties
<1>3. \A i \in 1 .. m : s[i] \in Area
  BY <1>1, ElementOfSeq
<1>4. \A i \in 1 .. n : t[i] \in Area
  BY <1>1, ElementOfSeq
<1>5. \A i \in 1 .. m : i \in 1 .. m + n /\ u[i] = s[i]
  BY <1>1, <1>2
<1>6. \A i \in 1 .. n : m + i \in 1 .. m + n /\ u[m + i] = t[i]
  <2> SUFFICES ASSUME NEW i \in 1 .. n
               PROVE  m + i \in 1 .. m + n /\ u[m + i] = t[i]
    OBVIOUS
  <2>1. m + i \in 1 .. m + n /\ ~(m + i <= m) /\ m + i - m = i
    BY <1>1
  <2> QED BY <1>2, <2>1
<1>7. \A i \in 1 .. m + n : \/ i \in 1 .. m
                            \/ \E k \in 1 .. n : i = m + k
  <2> SUFFICES ASSUME NEW i \in 1 .. m + n, i \notin 1 .. m
               PROVE  \E k \in 1 .. n : i = m + k
    OBVIOUS
  <2>1. i - m \in 1 .. n /\ i = m + (i - m)
    BY <1>1
  <2> QED BY <2>1
<1> HIDE DEF u, m, n
<1>8. IsTable(u, total)
  <2>1. \A i \in 3 .. m + n : Whole(u[i])
    <3> SUFFICES ASSUME NEW i \in 3 .. m + n PROVE Whole(u[i])
      OBVIOUS
    <3>1. CASE i \in 1 .. m
      <4>1. i \in 3 .. Len(s)
        BY <1>1, <3>1 DEF m
      <4> QED BY <1>5, <3>1, <4>1 DEF IsTable
    <3>2. ASSUME NEW k \in 1 .. n, i = m + k PROVE Whole(u[i])
      BY <1>6, <3>2 DEF IsPart, n
    <3>3. i \in 1 .. m + n
      BY <1>1
    <3> QED BY <1>7, <3>1, <3>2, <3>3
  <2>2. u[1] = s[1] /\ u[2] = s[2]
    BY <1>1, <1>5
  <2>3. Len(u) >= 2
    BY <1>1, <1>2
  <2> QED BY <1>2, <2>1, <2>2, <2>3 DEF IsTable
<1>9. ASSUME CodesBelow(s, lo) PROVE CodesBelow(u, hi)
  <2>1. /\ \A i \in 1 .. m : s[i].bp < lo \/ s[i].bp = FLASH_BP_ALL
        /\ \A i, j \in 1 .. m : s[i].bp = s[j].bp => i = j
    BY <1>9 DEF CodesBelow, Distinct, m
  <2>2. /\ \A i \in 1 .. n : /\ lo <= t[i].bp /\ t[i].bp < hi
                             /\ t[i].bp # FLASH_BP_ALL
        /\ \A i, j \in 1 .. n : t[i].bp = t[j].bp => i = j
    BY DEF IsPart, Whole, Distinct, n
  <2>3. \A i \in 1 .. m : s[i].bp \in Nat
    BY <1>3 DEF Area
  <2>4. \A i \in 1 .. n : t[i].bp \in Nat
    BY <1>4 DEF Area
  <2>5. \A i \in 1 .. m, j \in 1 .. n : s[i].bp # t[j].bp
    BY <2>1, <2>2, <2>3, <2>4
  <2>6. Distinct(u)
    <3> SUFFICES ASSUME NEW i \in 1 .. m + n, NEW j \in 1 .. m + n,
                        u[i].bp = u[j].bp
                 PROVE  i = j
      BY <1>2 DEF Distinct
    <3>1. CASE i \in 1 .. m /\ j \in 1 .. m
      BY <1>5, <2>1, <3>1
    <3>2. ASSUME i \in 1 .. m, NEW k \in 1 .. n, j = m + k PROVE FALSE
      BY <1>5, <1>6, <2>5, <3>2
    <3>3. ASSUME j \in 1 .. m, NEW k \in 1 .. n, i = m + k PROVE FALSE
      BY <1>5, <1>6, <2>5, <3>3
    <3>4. ASSUME NEW k \in 1 .. n, i = m + k, NEW l \in 1 .. n, j = m + l
          PROVE  i = j
      BY <1>6, <2>2, <3>4
    <3> QED BY <1>7, <3>1, <3>2, <3>3, <3>4
  <2>7. \A i \in 1 .. m + n : u[i].bp < hi \/ u[i].bp = FLASH_BP_ALL
    <3> SUFFICES ASSUME NEW i \in 1 .. m + n
                 PROVE  u[i].bp < hi \/ u[i].bp = FLASH_BP_ALL
      OBVIOUS
    <3>1. CASE i \in 1 .. m
      BY <1>5, <2>1, <2>3, <3>1
    <3>2. ASSUME NEW k \in 1 .. n, i = m + k PROVE u[i].bp < hi
      BY <1>6, <2>2, <3>2
    <3> QED BY <1>7, <3>1, <3>2
  <2> QED BY <1>2, <2>6, <2>7 DEF CodesBelow
<1>10. \A a, b : Has(s, a, b) \/ Has(t, a, b) => Has(u, a, b)
  <2> SUFFICES ASSUME NEW a, NEW b, Has(s, a, b) \/ Has(t, a, b)
               PROVE  Has(u, a, b)
    OBVIOUS
  <2>1. CASE Has(s, a, b)
    <3>1. PICK i \in 1 .. m : s[i].start_addr = a /\ s[i].end_addr = b
      BY <2>1 DEF Has, m
    <3> QED BY <1>2, <1>5, <3>1 DEF Has
  <2>2. CASE Has(t, a, b)
    <3>1. PICK i \in 1 .. n : t[i].start_addr = a /\ t[i].end_addr = b
      BY <2>2 DEF Has, n
    <3> DEFINE k == m + i
    <3>2. k \in 1 .. m + n /\ u[k] = t[i]
      BY <1>6
    <3> HIDE DEF k
    <3> QED BY <1>2, <3>1, <3>2 DEF Has
  <2> QED BY <2>1, <2>2
<1> QED BY <1>2, <1>8, <1>9, <1>10 DEF u, m, n

\* t has an entry from a[k] to b[k] for each turn.
OfLoop(t, m, cmp, code, a, b) ==
    t = [k \in 1 .. m |-> Entry(Bp(cmp, code, k - 1), a[k], b[k])]

\* The entries of a loop begin and end with sectors.
Bordered(m, a, b) ==
    \A k \in 1 .. m :
        /\ a[k] \in Nat
        /\ b[k] \in 0 .. MaxTotal - 1 /\ b[k] % 4096 = 4095

\* t is what a loop of m turns adds, whose codes are lo to hi - 1.
Adds(t, m, cmp, code, a, b, lo, hi) ==
    /\ m \in Nat /\ cmp \in Nat /\ code \in Nat /\ hi \in Nat
    /\ OfLoop(t, m, cmp, code, a, b) /\ Bordered(m, a, b)
    /\ lo = cmp + 4 * code /\ cmp + 4 * (code + m) <= hi
    /\ hi <= FLASH_BP_ALL \/ cmp = CMP

LEMMA LoopIsPart ==
    ASSUME NEW t, NEW m, NEW cmp, NEW code, NEW a, NEW b, NEW lo, NEW hi,
           Adds(t, m, cmp, code, a, b, lo, hi)
    PROVE  /\ IsPart(t, lo, hi) /\ Len(t) = m
           /\ \A k \in 1 .. m : Has(t, a[k], b[k])
<1>0. /\ m \in Nat /\ cmp \in Nat /\ code \in Nat /\ hi \in Nat
      /\ OfLoop(t, m, cmp, code, a, b) /\ Bordered(m, a, b)
      /\ lo = cmp + 4 * code /\ cmp + 4 * (code + m) <= hi
      /\ hi <= FLASH_BP_ALL \/ cmp = CMP
  BY DEF Adds
<1>1. ASSUME NEW k \in 1 .. m
      PROVE  /\ Bp(cmp, code, k - 1) \in Nat
             /\ lo <= Bp(cmp, code, k - 1) /\ Bp(cmp, code, k - 1) < hi
             /\ Bp(cmp, code, k - 1) # FLASH_BP_ALL
  <2> DEFINE bp == Bp(cmp, code, k - 1)
  <2>1. bp = cmp + 4 * (code + (k - 1))
    BY DEF Bp
  <2>2. k \in Nat /\ k <= m /\ 1 <= k
    BY <1>0
  <2> HIDE DEF bp
  <2>3. bp \in Nat /\ lo <= bp /\ bp < hi
    BY <1>0, <2>1, <2>2
  <2>4. bp # FLASH_BP_ALL
    <3>1. CASE cmp = CMP
      <4>1. bp >= 16384
        BY <1>0, <2>1, <2>2, <3>1 DEF CMP
      <4> QED BY <2>3, <4>1 DEF FLASH_BP_ALL
    <3>2. CASE hi <= FLASH_BP_ALL
      BY <1>0, <2>3, <3>2 DEF FLASH_BP_ALL
    <3> QED BY <1>0, <3>1, <3>2
  <2> QED BY <2>3, <2>4 DEF bp
<1>2. \A k \in 1 .. m :
        /\ t[k].bp = Bp(cmp, code, k - 1)
        /\ t[k].start_addr = a[k] /\ t[k].end_addr = b[k]
        /\ t[k] \in Area
  <2> SUFFICES ASSUME NEW k \in 1 .. m
               PROVE  /\ t[k].bp = Bp(cmp, code, k - 1)
                      /\ t[k].start_addr = a[k] /\ t[k].end_addr = b[k]
                      /\ t[k] \in Area
    OBVIOUS
  <2>1. t[k] = Entry(Bp(cmp, code, k - 1), a[k], b[k])
    BY <1>0 DEF OfLoop
  <2>2. /\ a[k] \in Nat /\ b[k] \in 0 .. MaxTotal - 1
        /\ Bp(cmp, code, k - 1) \in Nat
    BY <1>0, <1>1 DEF Bordered
  <2> QED BY <2>1, <2>2 DEF Entry, Area
<1>3. t \in [1 .. m -> Area]
  <2>1. DOMAIN t = 1 .. m /\ t = [k \in 1 .. m |-> t[k]]
    BY <1>0 DEF OfLoop
  <2>2. \A k \in 1 .. m : t[k] \in Area
    BY <1>2
  <2> QED BY <2>1, <2>2
<1>4. t \in Seq(Area)
  BY <1>0, <1>3, SeqDef
<1>5. Len(t) = m
  BY <1>0, <1>3, <1>4, LenProperties
<1>6. Distinct(t)
  <2> SUFFICES ASSUME NEW i \in 1 .. m, NEW j \in 1 .. m, t[i].bp = t[j].bp
               PROVE  i = j
    BY <1>5 DEF Distinct
  <2>1. Bp(cmp, code, i - 1) = Bp(cmp, code, j - 1)
    BY <1>2
  <2> QED BY <1>0, <2>1 DEF Bp
<1>7. \A k \in 1 .. m :
        Whole(t[k]) /\ lo <= t[k].bp /\ t[k].bp < hi
  <2> SUFFICES ASSUME NEW k \in 1 .. m
               PROVE  Whole(t[k]) /\ lo <= t[k].bp /\ t[k].bp < hi
    OBVIOUS
  <2> QED BY <1>0, <1>1, <1>2 DEF Whole, Bordered
<1>8. \A k \in 1 .. m : Has(t, a[k], b[k])
  BY <1>2, <1>5 DEF Has
<1> QED BY <1>4, <1>5, <1>6, <1>7, <1>8 DEF IsPart

\* The loop of m turns from base up, and what the flash has left.
Loop(total, base, m, limit) ==
    /\ Sectors(total) /\ Sectors(base) /\ Reaches(base, m, limit)
    /\ 2 * limit <= total /\ total <= MaxTotal

\* Where s bytes at an end of the flash begin and end.
Bordering(total, s) ==
    /\ s \in Nat /\ total - s \in Nat
    /\ \A e \in {s - 1, total - 1, total - s - 1} :
        e \in 0 .. MaxTotal - 1 /\ e % 4096 = 4095

LEMMA Borders ==
    ASSUME NEW total, Sectors(total), NEW s, Sectors(s), 2 * s <= total,
           total <= MaxTotal
    PROVE  Bordering(total, s)
<1>1. PICK q \in Nat \ {0} : total = 4096 * q
  BY DEF Sectors
<1>2. PICK r \in Nat \ {0} : s = 4096 * r
  BY DEF Sectors
<1>3. 2 * (4096 * r) <= 4096 * q
  BY <1>1, <1>2
<1>4. 4096 * q <= MaxTotal
  BY <1>1
<1>5. /\ 4096 * q - 1 \in 0 .. MaxTotal - 1
      /\ 4096 * r - 1 \in 0 .. MaxTotal - 1
      /\ 4096 * q - 4096 * r \in Nat
      /\ 4096 * q - 4096 * r - 1 \in 0 .. MaxTotal - 1
  BY <1>3, <1>4, MaxIsNat
<1>6. (4096 * q - 1) % 4096 = 4095 /\ (4096 * r - 1) % 4096 = 4095
  OBVIOUS
<1>7. (4096 * q - 4096 * r - 1) % 4096 = 4095
  BY <1>3
<1> QED BY <1>1, <1>2, <1>5, <1>6, <1>7 DEF Bordering

LEMMA LoopFacts ==
    ASSUME NEW total, NEW base, NEW m, NEW limit, Loop(total, base, m, limit)
    PROVE  /\ m \in 1 .. 9 /\ Turns(base, limit) = 1 .. m
           /\ Size(base, m) = limit /\ Size(base, 1) = base
           /\ \A k \in 1 .. m : Bordering(total, Size(base, k))
<1>1. /\ Sectors(base) /\ Reaches(base, m, limit)
      /\ Sectors(total) /\ 2 * limit <= total /\ total <= MaxTotal
  BY DEF Loop
<1>2. /\ Turns(base, limit) = 1 .. m
      /\ \A k \in 1 .. m : Sectors(Size(base, k)) /\ Size(base, k) <= limit
      /\ Size(base, m) = limit
  BY <1>1, LoopTurns
<1>3. m \in 1 .. 9
  BY <1>1 DEF Reaches
<1>4. limit \in Nat /\ total \in Nat
  BY <1>1, <1>2, <1>3 DEF Sectors
<1>5. ASSUME NEW k \in 1 .. m PROVE Bordering(total, Size(base, k))
  <2>1. Sectors(Size(base, k)) /\ Size(base, k) <= limit
    BY <1>2
  <2>2. Size(base, k) \in Nat
    BY <2>1 DEF Sectors
  <2>3. 2 * Size(base, k) <= total
    BY <1>1, <1>4, <2>1, <2>2
  <2> QED BY <1>1, <2>1, <2>3, Borders
<1>6. Size(base, 1) = base
  <2>1. base \in Nat
    BY <1>1 DEF Sectors
  <2> QED BY <2>1, Shifts DEF Size
<1> QED BY <1>2, <1>3, <1>5, <1>6

LEMMA UpperPart ==
    ASSUME NEW total, NEW base, NEW m, NEW limit, Loop(total, base, m, limit),
           NEW code \in Nat, NEW hi \in Nat,
           4 * (code + m) <= hi, hi <= FLASH_BP_ALL
    PROVE  LET t == Upper(total, base, limit, code)
           IN  /\ IsPart(t, 4 * code, hi) /\ Len(t) = m
               /\ Has(t, total - limit, total - 1)
<1> DEFINE t == Upper(total, base, limit, code)
           a == [k \in 1 .. m |-> total - Size(base, k)]
           b == [k \in 1 .. m |-> total - 1]
<1>0. PICK lo : lo = 0 + 4 * code
  OBVIOUS
<1>1. /\ m \in 1 .. 9 /\ Turns(base, limit) = 1 .. m
      /\ Size(base, m) = limit
      /\ \A k \in 1 .. m : Bordering(total, Size(base, k))
  BY LoopFacts
<1>2. Bordered(m, a, b)
  <2> SUFFICES ASSUME NEW k \in 1 .. m
               PROVE  /\ a[k] \in Nat
                      /\ b[k] \in 0 .. MaxTotal - 1 /\ b[k] % 4096 = 4095
    BY DEF Bordered
  <2>1. Bordering(total, Size(base, k))
    BY <1>1
  <2> QED BY <2>1 DEF Bordering
<1>3. OfLoop(t, m, 0, code, a, b)
  BY <1>1 DEF OfLoop, Upper
<1>4. a[m] = total - limit /\ b[m] = total - 1
  BY <1>1
<1> HIDE DEF t, a, b
<1>5. /\ IsPart(t, lo, hi) /\ Len(t) = m
      /\ \A k \in 1 .. m : Has(t, a[k], b[k])
  <2>1. m \in Nat /\ 0 \in Nat
    BY <1>1 DEF CMP
  <2>2. 0 + 4 * (code + m) <= hi /\ (hi <= FLASH_BP_ALL \/ 0 = CMP)
    BY <1>1 DEF FLASH_BP_ALL
  <2>3. Adds(t, m, 0, code, a, b, lo, hi)
    BY <1>0, <1>2, <1>3, <2>1, <2>2 DEF Adds
  <2> QED BY <2>3, LoopIsPart
<1>6. IsPart(t, 4 * code, hi) /\ Len(t) = m
  <2>1. lo = 4 * code
    BY <1>0
  <2> QED BY <1>5, <2>1
<1>7. \A k \in 1 .. m : Has(t, a[k], b[k])
  BY <1>5
<1>8. m \in 1 .. m
  BY <1>1
<1> QED BY <1>4, <1>6, <1>7, <1>8 DEF t

LEMMA LowerPart ==
    ASSUME NEW total, NEW base, NEW m, NEW limit, Loop(total, base, m, limit),
           NEW code \in Nat, NEW cmp \in {0, CMP}, NEW hi \in Nat,
           NEW lo, lo = cmp + 4 * code,
           cmp + 4 * (code + m) <= hi, hi <= FLASH_BP_ALL \/ cmp = CMP
    PROVE  LET t == Lower(total, base, limit, cmp, code)
           IN  /\ IsPart(t, lo, hi) /\ Len(t) = m
               /\ Has(t, 0, limit - 1) /\ Has(t, 0, base - 1)
<1> DEFINE t == Lower(total, base, limit, cmp, code)
           a == [k \in 1 .. m |-> 0]
           b == [k \in 1 .. m |-> Size(base, k) - 1]
<1>1. /\ m \in 1 .. 9 /\ Turns(base, limit) = 1 .. m
      /\ Size(base, m) = limit /\ Size(base, 1) = base
      /\ \A k \in 1 .. m : Bordering(total, Size(base, k))
  BY LoopFacts
<1>2. Bordered(m, a, b)
  <2> SUFFICES ASSUME NEW k \in 1 .. m
               PROVE  /\ a[k] \in Nat
                      /\ b[k] \in 0 .. MaxTotal - 1 /\ b[k] % 4096 = 4095
    BY DEF Bordered
  <2>1. Bordering(total, Size(base, k))
    BY <1>1
  <2> QED BY <2>1 DEF Bordering
<1>3. OfLoop(t, m, cmp, code, a, b)
  BY <1>1 DEF OfLoop, Lower
<1>4. a[m] = 0 /\ b[m] = limit - 1 /\ a[1] = 0 /\ b[1] = base - 1
  BY <1>1
<1> HIDE DEF t, a, b
<1>5. /\ IsPart(t, lo, hi) /\ Len(t) = m
      /\ \A k \in 1 .. m : Has(t, a[k], b[k])
  <2>1. m \in Nat /\ cmp \in Nat
    BY <1>1 DEF CMP
  <2>2. cmp + 4 * (code + m) <= hi /\ (hi <= FLASH_BP_ALL \/ cmp = CMP)
    BY <1>1 DEF FLASH_BP_ALL
  <2>3. Adds(t, m, cmp, code, a, b, lo, hi)
    BY <1>2, <1>3, <2>1, <2>2 DEF Adds
  <2> QED BY <2>3, LoopIsPart
<1>6. Has(t, 0, limit - 1) /\ Has(t, 0, base - 1)
  <2>1. m \in 1 .. m /\ 1 \in 1 .. m
    BY <1>1
  <2> QED BY <1>4, <1>5, <2>1
<1>7. IsPart(t, lo, hi) /\ Len(t) = m
  BY <1>5
<1> QED BY <1>6, <1>7 DEF t

LEMMA AllButUpperPart ==
    ASSUME NEW total, NEW base, NEW m, NEW limit, Loop(total, base, m, limit),
           NEW code \in Nat, NEW hi \in Nat,
           CMP + 4 * (code + m) <= hi
    PROVE  LET t == AllButUpper(total, base, limit, code)
           IN  /\ IsPart(t, CMP + 4 * code, hi) /\ Len(t) = m
               /\ Has(t, 0, total - limit - 1)
<1> DEFINE t == AllButUpper(total, base, limit, code)
           a == [k \in 1 .. m |-> 0]
           b == [k \in 1 .. m |-> total - Size(base, k) - 1]
<1>0. PICK lo : lo = CMP + 4 * code
  OBVIOUS
<1>1. /\ m \in 1 .. 9 /\ Turns(base, limit) = 1 .. m
      /\ Size(base, m) = limit
      /\ \A k \in 1 .. m : Bordering(total, Size(base, k))
  BY LoopFacts
<1>2. Bordered(m, a, b)
  <2> SUFFICES ASSUME NEW k \in 1 .. m
               PROVE  /\ a[k] \in Nat
                      /\ b[k] \in 0 .. MaxTotal - 1 /\ b[k] % 4096 = 4095
    BY DEF Bordered
  <2>1. Bordering(total, Size(base, k))
    BY <1>1
  <2> QED BY <2>1 DEF Bordering
<1>3. OfLoop(t, m, CMP, code, a, b)
  BY <1>1 DEF OfLoop, AllButUpper
<1>4. a[m] = 0 /\ b[m] = total - limit - 1
  BY <1>1
<1> HIDE DEF t, a, b
<1>5. /\ IsPart(t, lo, hi) /\ Len(t) = m
      /\ \A k \in 1 .. m : Has(t, a[k], b[k])
  <2>1. m \in Nat /\ CMP \in Nat
    BY <1>1 DEF CMP
  <2>2. CMP + 4 * (code + m) <= hi /\ (hi <= FLASH_BP_ALL \/ CMP = CMP)
    BY <1>1 DEF FLASH_BP_ALL
  <2>3. Adds(t, m, CMP, code, a, b, lo, hi)
    BY <1>0, <1>2, <1>3, <2>1, <2>2 DEF Adds
  <2> QED BY <2>3, LoopIsPart
<1>6. IsPart(t, CMP + 4 * code, hi) /\ Len(t) = m
  BY <1>0, <1>5
<1>7. \A k \in 1 .. m : Has(t, a[k], b[k])
  BY <1>5
<1>8. m \in 1 .. m
  BY <1>1
<1> QED BY <1>4, <1>6, <1>7, <1>8 DEF t

LEMMA AllButLowerPart ==
    ASSUME NEW total, NEW base, NEW m, NEW limit, Loop(total, base, m, limit),
           NEW code \in Nat, NEW hi \in Nat,
           CMP + 4 * (code + m) <= hi
    PROVE  LET t == AllButLower(total, base, limit, code)
           IN  /\ IsPart(t, CMP + 4 * code, hi) /\ Len(t) = m
               /\ Has(t, limit, total - 1)
<1> DEFINE t == AllButLower(total, base, limit, code)
           a == [k \in 1 .. m |-> Size(base, k)]
           b == [k \in 1 .. m |-> total - 1]
<1>0. PICK lo : lo = CMP + 4 * code
  OBVIOUS
<1>1. /\ m \in 1 .. 9 /\ Turns(base, limit) = 1 .. m
      /\ Size(base, m) = limit
      /\ \A k \in 1 .. m : Bordering(total, Size(base, k))
  BY LoopFacts
<1>2. Bordered(m, a, b)
  <2> SUFFICES ASSUME NEW k \in 1 .. m
               PROVE  /\ a[k] \in Nat
                      /\ b[k] \in 0 .. MaxTotal - 1 /\ b[k] % 4096 = 4095
    BY DEF Bordered
  <2>1. Bordering(total, Size(base, k))
    BY <1>1
  <2> QED BY <2>1 DEF Bordering
<1>3. OfLoop(t, m, CMP, code, a, b)
  BY <1>1 DEF OfLoop, AllButLower
<1>4. a[m] = limit /\ b[m] = total - 1
  BY <1>1
<1> HIDE DEF t, a, b
<1>5. /\ IsPart(t, lo, hi) /\ Len(t) = m
      /\ \A k \in 1 .. m : Has(t, a[k], b[k])
  <2>1. m \in Nat /\ CMP \in Nat
    BY <1>1 DEF CMP
  <2>2. CMP + 4 * (code + m) <= hi /\ (hi <= FLASH_BP_ALL \/ CMP = CMP)
    BY <1>1 DEF FLASH_BP_ALL
  <2>3. Adds(t, m, CMP, code, a, b, lo, hi)
    BY <1>0, <1>2, <1>3, <2>1, <2>2 DEF Adds
  <2> QED BY <2>3, LoopIsPart
<1>6. IsPart(t, CMP + 4 * code, hi) /\ Len(t) = m
  BY <1>0, <1>5
<1>7. \A k \in 1 .. m : Has(t, a[k], b[k])
  BY <1>5
<1>8. m \in 1 .. m
  BY <1>1
<1> QED BY <1>4, <1>6, <1>7, <1>8 DEF t

-----------------------------------------------------------------------------
(* The chips.                                                              *)

\* A block of the first loops of the table of chip c.
Block(c) ==
    CASE c.kind = "256m" -> 4 * Multi(c) * KBYTE
      [] c.kind = "256m_with_bmp" -> 32 * Multi(c) * KBYTE
      [] c.kind \in {"other", "xt25q08b"} -> 64 * Multi(c) * KBYTE

\* The chips whose tables have no areas smaller than a block.
Coarse(c) == c.kind \in {"256m", "xt25q08b"}

\* The smallest area from the beginning of the flash.
Low(c) == IF Coarse(c) THEN Block(c) ELSE Small(c)

\* The loops reach half of the flash, and 32 KB.
Fits(c) ==
    /\ Sectors(c.total) /\ c.dual \in BOOLEAN
    /\ \E q \in Nat \ {0} : Half(c) = 65536 * q /\ c.total = 2 * Half(c)
    /\ 16 * Small(c) <= Half(c) /\ Low(c) \in Nat \ {0, 1}
    /\ Coarse(c) => Low(c) + 16 * Small(c) <= Half(c)
    /\ \E m : /\ Loop(c.total, Block(c), m, Half(c))
              /\ c.kind # "256m" => m <= 6
    /\ \E m : Loop(c.total, Small(c), m, 32 * KBYTE) /\ m <= 4

\* The sizes and what is counted from them: the blocks and the turns.
LEMMA ChipFits ==
    ASSUME NEW c, c.dual \in BOOLEAN,
           NEW total \in Nat, c.total = total, total <= MaxTotal,
           NEW q \in Nat \ {0}, total = 131072 * q,
           NEW r \in Nat \ {0}, Block(c) = 4096 * r,
           NEW m \in 1 .. 9, Block(c) * shl[m - 1] = total \div 2,
           c.kind # "256m" => m <= 6,
           c.dual => q >= 2,
           Coarse(c) => ~c.dual /\ r = 16 /\ q >= 2
    PROVE  Fits(c)
<1>1. total \div 2 = 65536 * q /\ 2 * (total \div 2) = total
  OBVIOUS
<1>2. Half(c) = 65536 * q /\ total = 2 * Half(c)
  BY <1>1 DEF Half
<1>3. Sectors(total) /\ Sectors(Block(c))
  <2>1. 32 * q \in Nat \ {0} /\ total = 4096 * (32 * q)
    OBVIOUS
  <2> QED BY <2>1 DEF Sectors
<1>4. Loop(total, Block(c), m, Half(c))
  BY <1>2, <1>3 DEF Loop, Reaches, Half
<1>5. \E k : Loop(total, Small(c), k, 32 * KBYTE) /\ k <= 4
  <2>1. 2 * (32 * KBYTE) <= total
    BY DEF KBYTE
  <2>2. CASE c.dual
    <3>1. Small(c) = 4096 * 2 /\ Small(c) * shl[3 - 1] = 32 * KBYTE
      BY <2>2, Shifts DEF Small, KBYTE
    <3>2. Loop(total, Small(c), 3, 32 * KBYTE)
      BY <1>3, <2>1, <3>1 DEF Loop, Reaches, Sectors
    <3> QED BY <3>2
  <2>3. CASE ~c.dual
    <3>1. Small(c) = 4096 * 1 /\ Small(c) * shl[4 - 1] = 32 * KBYTE
      BY <2>3, Shifts DEF Small, KBYTE
    <3>2. Loop(total, Small(c), 4, 32 * KBYTE)
      BY <1>3, <2>1, <3>1 DEF Loop, Reaches, Sectors
    <3> QED BY <3>2
  <2> QED BY <2>2, <2>3
<1>6. Small(c) = 4096 \/ (Small(c) = 8192 /\ c.dual)
  BY DEF Small, KBYTE
<1>7. 16 * Small(c) <= Half(c)
  BY <1>2, <1>6
<1>8. Low(c) \in Nat \ {0, 1}
  BY <1>6 DEF Low
<1>9. Coarse(c) => Low(c) + 16 * Small(c) <= Half(c)
  BY <1>2, <1>6 DEF Low
<1> QED BY <1>2, <1>3, <1>4, <1>5, <1>7, <1>8, <1>9 DEF Fits

LEMMA EveryChipFits == \A c \in Chips : Fits(c)
<1> SUFFICES ASSUME NEW c \in Chips PROVE Fits(c)
  OBVIOUS
<1> DEFINE Is(n, kinds) == c.total = shl[n] /\ c.kind \in kinds
           Count(q, r, m) ==
               /\ c.total = 131072 * q /\ c.total <= MaxTotal
               /\ Block(c) = 4096 * r
               /\ Block(c) * shl[m - 1] = c.total \div 2
<1>0. /\ c.dual \in BOOLEAN
      /\ \/ \E n \in 17 .. 24 : Is(n, {"other"}) /\ ~c.dual
         \/ \E n \in 18 .. 25 : Is(n, {"other"}) /\ c.dual
         \/ Is(20, {"xt25q08b"}) /\ ~c.dual
         \/ Is(25, {"256m", "256m_with_bmp"}) /\ ~c.dual
  <2>1. CASE c \in [total : {shl[n] : n \in 17 .. 24}, kind : {"other"},
                    dual : {FALSE}]
    BY <2>1
  <2>2. CASE c \in [total : {shl[n] : n \in 18 .. 25}, kind : {"other"},
                    dual : {TRUE}]
    BY <2>2
  <2>3. CASE c \in [total : {shl[20]}, kind : {"xt25q08b"}, dual : {FALSE}]
    BY <2>3
  <2>4. CASE c \in [total : {shl[25]}, kind : {"256m", "256m_with_bmp"},
                    dual : {FALSE}]
    BY <2>4
  <2>5. c \in KnownChips
    BY ProtectionAssumption
  <2> QED BY <2>1, <2>2, <2>3, <2>4, <2>5 DEF KnownChips
<1>1. ASSUME NEW q \in Nat \ {0}, NEW r \in Nat \ {0}, NEW m \in 1 .. 9,
             Count(q, r, m), c.kind # "256m" => m <= 6,
             c.dual => q >= 2, Coarse(c) => ~c.dual /\ r = 16 /\ q >= 2
      PROVE  Fits(c)
  <2>1. 131072 * q \in Nat
    OBVIOUS
  <2> QED BY <1>0, <1>1, <2>1, ChipFits
<1>2. CASE Is(17, {"other"}) /\ ~c.dual
  <2>1. Count(1, 16, 1)
    BY <1>0, <1>2, Shifts DEF Block, Multi, KBYTE, MaxTotal
  <2> QED BY <1>1, <1>2, <2>1 DEF Coarse
<1>3. CASE Is(18, {"other"})
  <2>1. Count(2, 16, 2)
    BY <1>0, <1>3, Shifts DEF Block, Multi, KBYTE, MaxTotal
  <2> QED BY <1>1, <1>3, <2>1 DEF Coarse
<1>4. CASE Is(19, {"other"})
  <2>1. Count(4, 16, 3)
    BY <1>0, <1>4, Shifts DEF Block, Multi, KBYTE, MaxTotal
  <2> QED BY <1>1, <1>4, <2>1 DEF Coarse
<1>5. CASE Is(20, {"other"})
  <2>1. Count(8, 16, 4)
    BY <1>0, <1>5, Shifts DEF Block, Multi, KBYTE, MaxTotal
  <2> QED BY <1>1, <1>5, <2>1 DEF Coarse
<1>6. CASE Is(21, {"other"})
  <2>1. Count(16, 16, 5)
    BY <1>0, <1>6, Shifts DEF Block, Multi, KBYTE, MaxTotal
  <2> QED BY <1>1, <1>6, <2>1 DEF Coarse
<1>7. CASE Is(22, {"other"})
  <2>1. Count(32, 16, 6)
    BY <1>0, <1>7, Shifts DEF Block, Multi, KBYTE, MaxTotal
  <2> QED BY <1>1, <1>7, <2>1 DEF Coarse
<1>8. CASE Is(23, {"other"})
  <2>1. Count(64, 32, 6)
    BY <1>0, <1>8, Shifts DEF Block, Multi, KBYTE, MaxTotal
  <2> QED BY <1>1, <1>8, <2>1 DEF Coarse
<1>9. CASE Is(24, {"other"})
  <2>1. Count(128, 64, 6)
    BY <1>0, <1>9, Shifts DEF Block, Multi, KBYTE, MaxTotal
  <2> QED BY <1>1, <1>9, <2>1 DEF Coarse
<1>10. CASE Is(25, {"other"}) /\ c.dual
  <2>1. Count(256, 128, 6)
    BY <1>0, <1>10, Shifts DEF Block, Multi, KBYTE, MaxTotal
  <2> QED BY <1>1, <1>10, <2>1 DEF Coarse
<1>11. CASE Is(20, {"xt25q08b"}) /\ ~c.dual
  <2>1. Count(8, 16, 4)
    BY <1>0, <1>11, Shifts DEF Block, Multi, KBYTE, MaxTotal
  <2> QED BY <1>1, <1>11, <2>1 DEF Coarse
<1>12. CASE Is(25, {"256m_with_bmp"}) /\ ~c.dual
  <2>1. Count(256, 128, 6)
    BY <1>0, <1>12, Shifts DEF Block, Multi, KBYTE, MaxTotal
  <2> QED BY <1>1, <1>12, <2>1 DEF Coarse
<1>13. CASE Is(25, {"256m"}) /\ ~c.dual
  <2>1. Count(256, 16, 9)
    BY <1>0, <1>13, Shifts DEF Block, Multi, KBYTE, MaxTotal
  <2> QED BY <1>1, <1>13, <2>1 DEF Coarse
<1>14. \A n \in 17 .. 24 : n = 17 \/ n = 18 \/ n = 19 \/ n = 20
                         \/ n = 21 \/ n = 22 \/ n = 23 \/ n = 24
  OBVIOUS
<1>15. \A n \in 18 .. 25 : n = 18 \/ n = 19 \/ n = 20 \/ n = 21
                         \/ n = 22 \/ n = 23 \/ n = 24 \/ n = 25
  OBVIOUS
<1> QED BY <1>0, <1>2, <1>3, <1>4, <1>5, <1>6, <1>7, <1>8,
           <1>9, <1>10, <1>11, <1>12, <1>13, <1>14, <1>15

-----------------------------------------------------------------------------
(* The tables of the chips.                                                *)

\* A table of len entries, with no code twice and none from hi on.
Table(s, total, len, hi) ==
    IsTable(s, total) /\ Len(s) = len /\ CodesBelow(s, hi)

LEMMA TableGrows ==
    ASSUME NEW total, NEW len, NEW lo \in Nat, NEW hi \in Nat,
           NEW s, Table(s, total, len, lo),
           NEW low \in Nat, lo <= low, low <= hi,
           NEW m, NEW t, IsPart(t, low, hi), Len(t) = m
    PROVE  /\ Table(s \o t, total, len + m, hi)
           /\ \A a, b : Has(s, a, b) \/ Has(t, a, b) => Has(s \o t, a, b)
<1>1. /\ t \in Seq(Area) /\ Distinct(t)
      /\ \A i \in 1 .. Len(t) : Whole(t[i]) /\ low <= t[i].bp /\ t[i].bp < hi
  BY DEF IsPart
<1>2. \A i \in 1 .. Len(t) : t[i].bp \in Nat
  <2>1. \A i \in 1 .. Len(t) : t[i] \in Area
    BY <1>1, ElementOfSeq
  <2> QED BY <2>1 DEF Area
<1>3. \A i \in 1 .. Len(t) : Whole(t[i]) /\ lo <= t[i].bp /\ t[i].bp < hi
  BY <1>1, <1>2
<1>4. IsPart(t, lo, hi) /\ lo <= hi
  BY <1>1, <1>3 DEF IsPart
<1>5. IsTable(s, total) /\ Len(s) = len /\ CodesBelow(s, lo)
  BY DEF Table
<1>6. /\ IsTable(s \o t, total) /\ Len(s \o t) = Len(s) + Len(t)
      /\ CodesBelow(s \o t, hi)
      /\ \A a, b : Has(s, a, b) \/ Has(t, a, b) => Has(s \o t, a, b)
  BY <1>4, <1>5, LoopAdds
<1> QED BY <1>5, <1>6 DEF Table

\* A table that has some areas, and still has them later.
TableWith(s, total, len, hi, areas) ==
    Table(s, total, len, hi) /\ \A p \in areas : Has(s, p[1], p[2])

Halves(c) == {<<c.total - Half(c), c.total - 1>>, <<0, Half(c) - 1>>}

LEMMA AreasStay ==
    ASSUME NEW total, NEW len, NEW lo \in Nat, NEW hi \in Nat, NEW areas,
           NEW s, TableWith(s, total, len, lo, areas),
           NEW low \in Nat, lo <= low, low <= hi,
           NEW m, NEW t, IsPart(t, low, hi), Len(t) = m
    PROVE  TableWith(s \o t, total, len + m, hi, areas)
<1>1. Table(s, total, len, lo)
  BY DEF TableWith
<1>2. /\ Table(s \o t, total, len + m, hi)
      /\ \A a, b : Has(s, a, b) \/ Has(t, a, b) => Has(s \o t, a, b)
  BY <1>1, TableGrows
<1> QED BY <1>2 DEF TableWith

LEMMA WithCmpTable ==
    ASSUME NEW c, NEW block, NEW m, m <= 6, Loop(c.total, block, m, Half(c)),
           NEW k, k <= 4, Loop(c.total, Small(c), k, 32 * KBYTE)
    PROVE  LET s == WithCmp(c, block)
           IN  TableWith(s, c.total, 2 + 4 * m + 4 * k, CMP + 200,
                         Halves(c) \cup {<<0, Small(c) - 1>>})
<1>1. m \in 0 .. 6 /\ k \in 0 .. 4
  BY LoopFacts
<1> DEFINE n == c.total
           t1 == Upper(n, block, Half(c), 1)
           t2 == Lower(n, block, Half(c), 0, 9)
           t3 == Upper(n, Small(c), 32 * KBYTE, 17)
           t4 == Lower(n, Small(c), 32 * KBYTE, 0, 25)
           t5 == AllButUpper(n, block, Half(c), 1)
           t6 == AllButLower(n, block, Half(c), 9)
           t7 == AllButUpper(n, Small(c), 32 * KBYTE, 17)
           t8 == AllButLower(n, Small(c), 32 * KBYTE, 25)
           areas == Halves(c) \cup {<<0, Small(c) - 1>>}
           s0 == NoneAndAll(n)
           s1 == s0 \o t1
           s2 == s1 \o t2
           s3 == s2 \o t3
           s4 == s3 \o t4
           s5 == s4 \o t5
           s6 == s5 \o t6
           s7 == s6 \o t7
           s8 == s7 \o t8
<1>2. s8 = WithCmp(c, block)
  BY DEF WithCmp
<1>3. n \in 1 .. MaxTotal
  <2>1. Sectors(n) /\ n <= MaxTotal
    BY DEF Loop
  <2> HIDE DEF n
  <2>2. n \in Nat \ {0}
    BY <2>1 DEF Sectors
  <2> QED BY <2>1, <2>2, MaxIsNat
<1> HIDE DEF n
<1>4. Table(s0, n, 2, 4)
  BY <1>3, FirstEntries DEF Table
<1> HIDE DEF s0
<1>5. IsPart(t1, 4 * 1, 36) /\ Len(t1) = m /\ Has(t1, n - Half(c), n - 1)
  <2>1. 4 * (1 + m) <= 36 /\ 36 <= FLASH_BP_ALL
    BY <1>1 DEF CMP, FLASH_BP_ALL
  <2>2. Loop(n, block, m, Half(c))
    BY DEF n
  <2>3. 36 \in Nat /\ 0 \in {0, CMP}
    BY DEF CMP
  <2> QED BY <2>1, <2>2, <2>3, UpperPart
<1> HIDE DEF t1
<1>6. Table(s1, n, 2 + m, 36) /\ Has(s1, n - Half(c), n - 1)
  <2>1. /\ 4 \in Nat /\ 4 * 1 \in Nat /\ 36 \in Nat
        /\ 4 <= 4 * 1 /\ 4 * 1 <= 36
    BY DEF CMP
  <2> QED BY <1>4, <1>5, <2>1, TableGrows
<1> HIDE DEF s1
<1>7. IsPart(t2, 0 + 4 * 9, 68) /\ Len(t2) = m /\ Has(t2, 0, Half(c) - 1)
  <2>1. 0 + 4 * (9 + m) <= 68 /\ 68 <= FLASH_BP_ALL
    BY <1>1 DEF CMP, FLASH_BP_ALL
  <2>2. Loop(n, block, m, Half(c))
    BY DEF n
  <2>3. 68 \in Nat /\ 0 \in {0, CMP}
    BY DEF CMP
  <2> QED BY <2>1, <2>2, <2>3, LowerPart
<1> HIDE DEF t2
<1>8. TableWith(s2, n, 2 + m + m, 68, Halves(c))
  <2>1. /\ 36 \in Nat /\ 0 + 4 * 9 \in Nat /\ 68 \in Nat
        /\ 36 <= 0 + 4 * 9 /\ 0 + 4 * 9 <= 68
    BY DEF CMP
  <2>2. /\ Table(s2, n, 2 + m + m, 68)
        /\ \A a, b : Has(s1, a, b) \/ Has(t2, a, b) => Has(s2, a, b)
    BY <1>6, <1>7, <2>1, TableGrows
  <2> QED BY <1>6, <1>7, <2>2 DEF TableWith, Halves, n
<1> HIDE DEF s2
<1>9. IsPart(t3, 4 * 17, 100) /\ Len(t3) = k
  <2>1. 4 * (17 + k) <= 100 /\ 100 <= FLASH_BP_ALL
    BY <1>1 DEF CMP, FLASH_BP_ALL
  <2>2. Loop(n, Small(c), k, 32 * KBYTE)
    BY DEF n
  <2>3. 100 \in Nat /\ 0 \in {0, CMP}
    BY DEF CMP
  <2> QED BY <2>1, <2>2, <2>3, UpperPart
<1> HIDE DEF t3
<1>10. TableWith(s3, n, 2 + m + m + k, 100, Halves(c))
  <2>1. /\ 68 \in Nat /\ 4 * 17 \in Nat /\ 100 \in Nat
        /\ 68 <= 4 * 17 /\ 4 * 17 <= 100
    BY DEF CMP
  <2> QED BY <1>8, <1>9, <2>1, AreasStay
<1> HIDE DEF s3
<1>11. IsPart(t4, 0 + 4 * 25, 124) /\ Len(t4) = k
       /\ Has(t4, 0, Small(c) - 1)
  <2>1. 0 + 4 * (25 + k) <= 124 /\ 124 <= FLASH_BP_ALL
    BY <1>1 DEF CMP, FLASH_BP_ALL
  <2>2. Loop(n, Small(c), k, 32 * KBYTE)
    BY DEF n
  <2>3. 124 \in Nat /\ 0 \in {0, CMP}
    BY DEF CMP
  <2> QED BY <2>1, <2>2, <2>3, LowerPart
<1> HIDE DEF t4
<1> HIDE DEF areas
<1>12. TableWith(s4, n, 2 + m + m + k + k, 124, areas)
  <2>1. /\ 100 \in Nat /\ 0 + 4 * 25 \in Nat /\ 124 \in Nat
        /\ 100 <= 0 + 4 * 25 /\ 0 + 4 * 25 <= 124
    BY DEF CMP
  <2>2. TableWith(s4, n, 2 + m + m + k + k, 124, Halves(c))
    BY <1>10, <1>11, <2>1, AreasStay
  <2>3. Table(s3, n, 2 + m + m + k, 100)
    BY <1>10 DEF TableWith
  <2>4. /\ Table(s4, n, 2 + m + m + k + k, 124)
        /\ \A x, y : Has(s3, x, y) \/ Has(t4, x, y) => Has(s4, x, y)
    BY <1>11, <2>1, <2>3, TableGrows
  <2>5. Has(s4, 0, Small(c) - 1)
    BY <1>11, <2>4
  <2> HIDE DEF s4
  <2> QED BY <2>2, <2>5 DEF TableWith, areas
<1> HIDE DEF s4
<1>13. IsPart(t5, CMP + 4 * 1, CMP + 36) /\ Len(t5) = m
  <2>1. CMP + 4 * (1 + m) <= CMP + 36
    BY <1>1 DEF CMP, FLASH_BP_ALL
  <2>2. Loop(n, block, m, Half(c))
    BY DEF n
  <2>3. CMP + 36 \in Nat /\ 0 \in {0, CMP}
    BY DEF CMP
  <2> QED BY <2>1, <2>2, <2>3, AllButUpperPart
<1> HIDE DEF t5
<1>14. TableWith(s5, n, 2 + m + m + k + k + m, CMP + 36, areas)
  <2>1. /\ 124 \in Nat /\ CMP + 4 * 1 \in Nat /\ CMP + 36 \in Nat
        /\ 124 <= CMP + 4 * 1 /\ CMP + 4 * 1 <= CMP + 36
    BY DEF CMP
  <2> QED BY <1>12, <1>13, <2>1, AreasStay
<1> HIDE DEF s5
<1>15. IsPart(t6, CMP + 4 * 9, CMP + 68) /\ Len(t6) = m
  <2>1. CMP + 4 * (9 + m) <= CMP + 68
    BY <1>1 DEF CMP, FLASH_BP_ALL
  <2>2. Loop(n, block, m, Half(c))
    BY DEF n
  <2>3. CMP + 68 \in Nat /\ 0 \in {0, CMP}
    BY DEF CMP
  <2> QED BY <2>1, <2>2, <2>3, AllButLowerPart
<1> HIDE DEF t6
<1>16. TableWith(s6, n, 2 + m + m + k + k + m + m, CMP + 68, areas)
  <2>1. /\ CMP + 36 \in Nat /\ CMP + 4 * 9 \in Nat /\ CMP + 68 \in Nat
        /\ CMP + 36 <= CMP + 4 * 9 /\ CMP + 4 * 9 <= CMP + 68
    BY DEF CMP
  <2> QED BY <1>14, <1>15, <2>1, AreasStay
<1> HIDE DEF s6
<1>17. IsPart(t7, CMP + 4 * 17, CMP + 100) /\ Len(t7) = k
  <2>1. CMP + 4 * (17 + k) <= CMP + 100
    BY <1>1 DEF CMP, FLASH_BP_ALL
  <2>2. Loop(n, Small(c), k, 32 * KBYTE)
    BY DEF n
  <2>3. CMP + 100 \in Nat /\ 0 \in {0, CMP}
    BY DEF CMP
  <2> QED BY <2>1, <2>2, <2>3, AllButUpperPart
<1> HIDE DEF t7
<1>18. TableWith(s7, n, 2 + m + m + k + k + m + m + k, CMP + 100, areas)
  <2>1. /\ CMP + 68 \in Nat /\ CMP + 4 * 17 \in Nat /\ CMP + 100 \in Nat
        /\ CMP + 68 <= CMP + 4 * 17 /\ CMP + 4 * 17 <= CMP + 100
    BY DEF CMP
  <2> QED BY <1>16, <1>17, <2>1, AreasStay
<1> HIDE DEF s7
<1>19. IsPart(t8, CMP + 4 * 25, CMP + 200) /\ Len(t8) = k
  <2>1. CMP + 4 * (25 + k) <= CMP + 200
    BY <1>1 DEF CMP, FLASH_BP_ALL
  <2>2. Loop(n, Small(c), k, 32 * KBYTE)
    BY DEF n
  <2>3. CMP + 200 \in Nat /\ 0 \in {0, CMP}
    BY DEF CMP
  <2> QED BY <2>1, <2>2, <2>3, AllButLowerPart
<1> HIDE DEF t8
<1>20. TableWith(s8, n, 2 + m + m + k + k + m + m + k + k, CMP + 200, areas)
  <2>1. /\ CMP + 100 \in Nat /\ CMP + 4 * 25 \in Nat /\ CMP + 200 \in Nat
        /\ CMP + 100 <= CMP + 4 * 25 /\ CMP + 4 * 25 <= CMP + 200
    BY DEF CMP
  <2> QED BY <1>18, <1>19, <2>1, AreasStay
<1> HIDE DEF s8
<1>21. 2 + m + m + k + k + m + m + k + k = 2 + 4 * m + 4 * k
  BY <1>1
<1> QED BY <1>2, <1>20, <1>21 DEF n, areas

\* What the properties need of the table of chip c.
Suits(c, s) ==
    /\ IsTable(s, c.total) /\ Len(s) <= FLASH_BP_MAP_LEN_MAX
    /\ Has(s, 0, Half(c) - 1) /\ Has(s, c.total - Half(c), c.total - 1)
    /\ Has(s, 0, Low(c) - 1)
    /\ c.kind # "256m" => Distinct(s)

\* The tables of the four kinds.
LEMMA WithCmpSuits ==
    ASSUME NEW c, Fits(c), ~Coarse(c)
    PROVE  Suits(c, WithCmp(c, Block(c)))
<1>0. c.kind # "256m" /\ Low(c) = Small(c)
  BY DEF Coarse, Low
<1>1. PICK m : Loop(c.total, Block(c), m, Half(c)) /\ m <= 6
  BY <1>0 DEF Fits
<1>2. PICK k : Loop(c.total, Small(c), k, 32 * KBYTE) /\ k <= 4
  BY DEF Fits
<1> DEFINE s == WithCmp(c, Block(c))
           areas == Halves(c) \cup {<<0, Small(c) - 1>>}
<1>3. TableWith(s, c.total, 2 + 4 * m + 4 * k, CMP + 200, areas)
  BY <1>1, <1>2, WithCmpTable
<1>4. 2 + 4 * m + 4 * k <= FLASH_BP_MAP_LEN_MAX
  <2>1. m \in 1 .. 9 /\ k \in 1 .. 9
    BY <1>1, <1>2, LoopFacts
  <2> QED BY <1>1, <1>2, <2>1 DEF FLASH_BP_MAP_LEN_MAX
<1> HIDE DEF s
<1>5. /\ Table(s, c.total, 2 + 4 * m + 4 * k, CMP + 200)
      /\ \A p \in areas : Has(s, p[1], p[2])
  BY <1>3 DEF TableWith
<1>6. /\ Has(s, 0, Half(c) - 1) /\ Has(s, c.total - Half(c), c.total - 1)
      /\ Has(s, 0, Small(c) - 1)
  BY <1>5 DEF Halves
<1> QED BY <1>0, <1>4, <1>5, <1>6 DEF Suits, Table, CodesBelow, s

\* t is what the second loop of a table of two loops adds.
LEMMA OtherSuits ==
    ASSUME NEW c, Fits(c), Coarse(c),
           NEW m, Loop(c.total, Block(c), m, Half(c)),
           NEW low \in Nat, NEW hi \in Nat, low <= hi,
           c.kind # "256m" => 40 <= low,
           NEW t, IsPart(t, low, hi), Len(t) = m,
           Has(t, 0, Half(c) - 1), Has(t, 0, Block(c) - 1)
    PROVE  Suits(c, NoneAndAll(c.total)
                    \o Upper(c.total, Block(c), Half(c), 1) \o t)
<1> DEFINE n == c.total
           t1 == Upper(n, Block(c), Half(c), 1)
           s0 == NoneAndAll(n)
           s1 == s0 \o t1
           s2 == s1 \o t
<1>1. m \in 1 .. 9
  BY LoopFacts
<1>2. n \in 1 .. MaxTotal
  <2>1. Sectors(n) /\ n <= MaxTotal
    BY DEF Loop
  <2> HIDE DEF n
  <2>2. n \in Nat \ {0}
    BY <2>1 DEF Sectors
  <2> QED BY <2>1, <2>2, MaxIsNat
<1> HIDE DEF n
<1>3. Table(s0, n, 2, 4)
  BY <1>2, FirstEntries DEF Table
<1> HIDE DEF s0
<1>4. IsPart(t1, 4 * 1, 40) /\ Len(t1) = m /\ Has(t1, n - Half(c), n - 1)
  <2>1. 4 * (1 + m) <= 40 /\ 40 <= FLASH_BP_ALL
    BY <1>1 DEF FLASH_BP_ALL
  <2> QED BY <2>1, UpperPart DEF n
<1> HIDE DEF t1
<1>5. Table(s1, n, 2 + m, 40) /\ Has(s1, n - Half(c), n - 1)
  <2>1. /\ 4 \in Nat /\ 4 * 1 \in Nat /\ 40 \in Nat
        /\ 4 <= 4 * 1 /\ 4 * 1 <= 40
    BY DEF CMP
  <2> QED BY <1>3, <1>4, <2>1, TableGrows
<1> HIDE DEF s1
<1>6. IsTable(s1, n) /\ Len(s1) = 2 + m
  BY <1>5 DEF Table
<1>7. /\ IsTable(s2, n) /\ Len(s2) = Len(s1) + Len(t)
      /\ \A a, b : Has(s1, a, b) \/ Has(t, a, b) => Has(s2, a, b)
  BY <1>6, LoopAdds
<1>8. ASSUME c.kind # "256m" PROVE Distinct(s2)
  <2>1. 40 \in Nat /\ 40 <= low
    BY <1>8
  <2>2. Table(s2, n, 2 + m + m, hi)
    BY <1>5, <2>1, TableGrows
  <2> QED BY <2>2 DEF Table, CodesBelow
<1> HIDE DEF s2
<1>9. /\ IsTable(s2, n) /\ Len(s2) = 2 + m + m
      /\ Has(s2, n - Half(c), n - 1) /\ Has(s2, 0, Half(c) - 1)
      /\ Has(s2, 0, Low(c) - 1)
  BY <1>5, <1>6, <1>7 DEF Low
<1>10. 2 + m + m <= FLASH_BP_MAP_LEN_MAX
  BY <1>1 DEF FLASH_BP_MAP_LEN_MAX
<1> QED BY <1>8, <1>9, <1>10 DEF Suits, n, s0, s1, s2, t1

LEMMA EveryTableSuits ==
    \A c \in Chips : Suits(c, norflash_api_protection_bp_init(c))
<1> SUFFICES ASSUME NEW c \in Chips
             PROVE  Suits(c, norflash_api_protection_bp_init(c))
  OBVIOUS
<1>1. Fits(c)
  BY EveryChipFits
<1>2. c.kind \in {"256m", "256m_with_bmp", "xt25q08b", "other"}
  <2>1. c \in KnownChips
    BY ProtectionAssumption
  <2> QED BY <2>1 DEF KnownChips
<1>3. CASE c.kind = "other"
  <2>1. norflash_api_protection_bp_init(c) = WithCmp(c, Block(c))
    BY <1>3 DEF norflash_api_protection_bp_init, bp_init_2m_128m, Block
  <2> QED BY <1>1, <1>3, <2>1, WithCmpSuits DEF Coarse
<1>4. CASE c.kind = "256m_with_bmp"
  <2>1. norflash_api_protection_bp_init(c) = WithCmp(c, Block(c))
    BY <1>4 DEF norflash_api_protection_bp_init, bp_init_256m_with_bmp, Block
  <2> QED BY <1>1, <1>4, <2>1, WithCmpSuits DEF Coarse
<1>5. PICK m : /\ Loop(c.total, Block(c), m, Half(c))
               /\ c.kind # "256m" => m <= 6
  BY <1>1 DEF Fits
<1>6. m \in 1 .. 9
  BY <1>5, LoopFacts
<1>7. CASE c.kind = "256m"
  <2>1. norflash_api_protection_bp_init(c) =
            NoneAndAll(c.total)
            \o Upper(c.total, Block(c), Half(c), 1)
            \o Lower(c.total, Block(c), Half(c), 0, 9)
    BY <1>7 DEF norflash_api_protection_bp_init, bp_init_256m, Block
  <2> DEFINE t == Lower(c.total, Block(c), Half(c), 0, 9)
  <2>2. /\ IsPart(t, 0 + 4 * 9, 72) /\ Len(t) = m
        /\ Has(t, 0, Half(c) - 1) /\ Has(t, 0, Block(c) - 1)
    <3>1. 0 + 4 * (9 + m) <= 72 /\ 72 <= FLASH_BP_ALL
      BY <1>6 DEF FLASH_BP_ALL
    <3>2. 72 \in Nat /\ 0 \in {0, CMP}
      BY DEF CMP
    <3> QED BY <1>5, <3>1, <3>2, LowerPart
  <2> HIDE DEF t
  <2>3. 0 + 4 * 9 \in Nat /\ 72 \in Nat /\ 0 + 4 * 9 <= 72
    BY DEF CMP
  <2>4. Suits(c, NoneAndAll(c.total)
                 \o Upper(c.total, Block(c), Half(c), 1) \o t)
    BY <1>1, <1>5, <1>7, <2>2, <2>3, OtherSuits DEF Coarse
  <2> QED BY <2>1, <2>4 DEF t
<1>8. CASE c.kind = "xt25q08b"
  <2>1. norflash_api_protection_bp_init(c) =
            NoneAndAll(c.total)
            \o Upper(c.total, Block(c), Half(c), 1)
            \o Lower(c.total, Block(c), Half(c), CMP, 1)
    BY <1>8 DEF norflash_api_protection_bp_init, bp_init_xt25q08b, Block
  <2> DEFINE t == Lower(c.total, Block(c), Half(c), CMP, 1)
  <2>2. /\ IsPart(t, CMP + 4 * 1, CMP + 40) /\ Len(t) = m
        /\ Has(t, 0, Half(c) - 1) /\ Has(t, 0, Block(c) - 1)
    <3>1. CMP + 4 * (1 + m) <= CMP + 40
      BY <1>6 DEF CMP
    <3>2. CMP + 40 \in Nat /\ CMP \in {0, CMP}
      BY DEF CMP
    <3> QED BY <1>5, <3>1, <3>2, LowerPart
  <2> HIDE DEF t
  <2>3. /\ CMP + 4 * 1 \in Nat /\ CMP + 40 \in Nat
        /\ CMP + 4 * 1 <= CMP + 40 /\ 40 <= CMP + 4 * 1
    BY DEF CMP
  <2>4. Suits(c, NoneAndAll(c.total)
                 \o Upper(c.total, Block(c), Half(c), 1) \o t)
    BY <1>1, <1>5, <1>8, <2>2, <2>3, OtherSuits DEF Coarse
  <2> QED BY <2>1, <2>4 DEF t
<1> QED BY <1>2, <1>3, <1>4, <1>7, <1>8

-----------------------------------------------------------------------------
(* The area chosen for an operation.                                       *)

\* Of some numbered spans the largest with the least number.
LEMMA FirstLargest ==
    ASSUME NEW found \in SUBSET Nat, found # {},
           NEW span, \A k \in found : span[k] \in 0 .. MaxTotal
    PROVE  \E k \in found : \A j \in found :
               \/ span[j] < span[k]
               \/ span[j] = span[k] /\ k <= j
<1> DEFINE short == {MaxTotal - span[k] : k \in found}
<1>1. short \in SUBSET Nat /\ short # {}
  BY MaxIsNat
<1>2. PICK n \in short : \A j \in short : n <= j
  <2> HIDE DEF short
  <2> QED BY <1>1, LeastNumber
<1> DEFINE largest == {k \in found : MaxTotal - span[k] = n}
<1>3. largest \in SUBSET Nat /\ largest # {}
  BY <1>2
<1>4. PICK k \in largest : \A j \in largest : k <= j
  <2> HIDE DEF largest, short
  <2> QED BY <1>3, LeastNumber
<1>5. k \in found /\ n = MaxTotal - span[k]
  BY <1>4
<1>6. ASSUME NEW j \in found
      PROVE  \/ span[j] < span[k]
             \/ span[j] = span[k] /\ k <= j
  <2>1. n <= MaxTotal - span[j]
    BY <1>2
  <2>2. span[j] \in Nat /\ span[k] \in Nat
    BY <1>5
  <2>3. span[j] <= span[k]
    BY <1>5, <2>1, <2>2, MaxIsNat
  <2>4. span[j] = span[k] => j \in largest
    BY <1>5
  <2> HIDE DEF largest, short
  <2> QED BY <1>4, <2>2, <2>3, <2>4
<1> QED BY <1>5, <1>6

\* An operation on both sides of the middle of the flash.
Crosses(c, op) == 2 * op.addr < c.total /\ c.total < 2 * (op.addr + op.size)

\* From b to e is neither none nor all.
Partly(c, b, e) == e # 0 /\ (b # 0 \/ e # c.total - 1)

\* Such an area of the table is one of the loops'.
LEMMA EntryOf ==
    ASSUME NEW c, NEW s, Suits(c, s),
           NEW b, NEW e, Has(s, b, e), Partly(c, b, e)
    PROVE  \E k \in 3 .. Len(s) : s[k].start_addr = b /\ s[k].end_addr = e
<1>1. PICK k \in 1 .. Len(s) : s[k].start_addr = b /\ s[k].end_addr = e
  BY DEF Has
<1>2. s \in Seq(Area) /\ s[1] = Entry(0, 0, 0) /\ s[2] = All(c.total)
  BY DEF Suits, IsTable
<1>3. k # 1 /\ k # 2
  BY <1>1, <1>2 DEF Partly, Entry, All
<1>4. Len(s) \in Nat
  BY <1>2, LenProperties
<1> QED BY <1>1, <1>3, <1>4

\* An operation within one half of the flash leaves the other half alone.
LEMMA HalfIsFree ==
    ASSUME NEW c, Fits(c), NEW s, Suits(c, s),
           NEW op \in Operations, ~Crosses(c, op)
    PROVE  \E k \in 3 .. Len(s) :
               Outside(op, s[k]) /\ Span(s[k]) = Half(c) - 1
<1>1. PICK q \in Nat \ {0} : Half(c) = 65536 * q /\ c.total = 2 * Half(c)
  BY DEF Fits
<1>2. op.addr \in Nat /\ op.size \in Nat \ {0}
  BY ProtectionAssumption
<1>3. PICK l \in 3 .. Len(s) :
          s[l].start_addr = 0 /\ s[l].end_addr = Half(c) - 1
  <2>1. Partly(c, 0, Half(c) - 1)
    BY <1>1 DEF Partly
  <2>2. Has(s, 0, Half(c) - 1)
    BY DEF Suits
  <2> QED BY <2>1, <2>2, EntryOf
<1>4. PICK u \in 3 .. Len(s) :
          s[u].start_addr = c.total - Half(c) /\ s[u].end_addr = c.total - 1
  <2>1. Partly(c, c.total - Half(c), c.total - 1)
    BY <1>1 DEF Partly
  <2>2. Has(s, c.total - Half(c), c.total - 1)
    BY DEF Suits
  <2> QED BY <2>1, <2>2, EntryOf
<1>5. Span(s[l]) = Half(c) - 1 /\ Span(s[u]) = Half(c) - 1
  BY <1>1, <1>3, <1>4 DEF Span
<1>6. CASE 2 * op.addr >= c.total
  <2>1. op.addr >= s[l].end_addr
    BY <1>1, <1>2, <1>3, <1>6
  <2> QED BY <1>5, <2>1 DEF Outside
<1>7. CASE 2 * (op.addr + op.size) <= c.total
  <2>1. op.addr + op.size <= s[u].start_addr
    BY <1>1, <1>2, <1>4, <1>7
  <2> QED BY <1>5, <2>1 DEF Outside
<1> QED BY <1>1, <1>2, <1>6, <1>7 DEF Crosses

\* A write within a sector does not reach over the border of sectors.
LEMMA WriteWithin ==
    ASSUME NEW sector \in {4096, 8192}, NEW a \in Nat, NEW size \in Nat,
           (a % sector) + size <= sector,
           NEW h \in Nat, a < sector * h
    PROVE  a + size <= sector * h
<1>1. CASE sector = 4096
  BY <1>1
<1>2. CASE sector = 8192
  BY <1>2
<1> QED BY <1>1, <1>2

\* An erase over the middle leaves the beginning of the flash alone.
LEMMA EraseBehind ==
    ASSUME NEW sector \in {4096, 8192}, NEW a \in Nat, a % sector = 0,
           NEW size \in {n * sector : n \in {1, 8, 16}},
           NEW half \in Nat, 16 * sector <= half, half < a + size
    PROVE  sector <= a /\ half < a + 16 * sector
<1>1. half < a + 16 * sector
  OBVIOUS
<1>2. a > 0
  BY <1>1
<1>3. CASE sector = 4096
  BY <1>1, <1>2, <1>3
<1>4. CASE sector = 8192
  BY <1>1, <1>2, <1>4
<1> QED BY <1>1, <1>3, <1>4

\* Every operation the service accepts leaves an area alone, half of the flash
\* unless it is an erase over the middle.
LEMMA SomeIsFree ==
    ASSUME NEW c, Fits(c), NEW s, Suits(c, s), NEW op \in Operations,
           EraseAllowed(c, op) \/ WriteAllowed(c, op)
    PROVE  \E k \in 3 .. Len(s) :
               /\ Outside(op, s[k]) /\ Span(s[k]) > 0
               /\ ~Crosses(c, op) => Span(s[k]) = Half(c) - 1
<1>1. PICK q \in Nat \ {0} : Half(c) = 65536 * q /\ c.total = 2 * Half(c)
  BY DEF Fits
<1>2. op.addr \in Nat /\ op.size \in Nat \ {0}
  BY ProtectionAssumption
<1> DEFINE sector == Small(c)
<1>3. sector \in {4096, 8192} /\ sector_size(c) = sector
  BY DEF Small, sector_size, KBYTE
<1>4. /\ 16 * sector <= Half(c) /\ Low(c) \in Nat \ {0, 1}
      /\ Low(c) = sector \/ Low(c) + 16 * sector <= Half(c)
  BY DEF Fits, Low
<1> HIDE DEF sector
<1>5. CASE ~Crosses(c, op)
  <2>1. PICK k \in 3 .. Len(s) :
            Outside(op, s[k]) /\ Span(s[k]) = Half(c) - 1
    BY <1>5, HalfIsFree
  <2>2. Half(c) - 1 > 0
    BY <1>1
  <2> QED BY <2>1, <2>2
<1>6. CASE Crosses(c, op)
  <2>1. op.addr < Half(c) /\ Half(c) < op.addr + op.size
    BY <1>1, <1>2, <1>6 DEF Crosses
  <2>2. ~WriteAllowed(c, op)
    <3> SUFFICES ASSUME (op.addr % sector) + op.size <= sector PROVE FALSE
      BY <1>3 DEF WriteAllowed
    <3>1. PICK h \in Nat : Half(c) = sector * h
      <4>1. 65536 * q = 4096 * (16 * q) /\ 65536 * q = 8192 * (8 * q)
        OBVIOUS
      <4>2. 16 * q \in Nat /\ 8 * q \in Nat
        OBVIOUS
      <4>3. CASE sector = 4096
        BY <1>1, <4>1, <4>2, <4>3
      <4>4. CASE sector = 8192
        BY <1>1, <4>1, <4>2, <4>4
      <4> QED BY <1>3, <4>3, <4>4
    <3>2. op.addr + op.size <= sector * h
      BY <1>2, <1>3, <2>1, <3>1, WriteWithin
    <3>3. Half(c) \in Nat
      BY <1>1
    <3> QED BY <1>2, <2>1, <3>1, <3>2, <3>3
  <2>3. /\ op.addr % sector = 0
        /\ op.size \in {n * sector : n \in {1, 8, 16}}
    BY <1>3, <2>2 DEF EraseAllowed
  <2>4. sector <= op.addr /\ Half(c) < op.addr + 16 * sector
    <3>1. Half(c) \in Nat
      BY <1>1
    <3> QED BY <1>2, <1>3, <1>4, <2>1, <2>3, <3>1, EraseBehind
  <2>5. Low(c) <= op.addr
    BY <1>1, <1>2, <1>3, <1>4, <2>4
  <2>6. PICK k \in 3 .. Len(s) :
            s[k].start_addr = 0 /\ s[k].end_addr = Low(c) - 1
    <3>1. Partly(c, 0, Low(c) - 1)
      BY <1>1, <1>2, <1>4, <2>1, <2>5 DEF Partly
    <3>2. Has(s, 0, Low(c) - 1)
      BY DEF Suits
    <3> QED BY <3>1, <3>2, EntryOf
  <2>7. op.addr >= s[k].end_addr /\ Span(s[k]) > 0
    BY <1>2, <1>4, <2>5, <2>6 DEF Span
  <2> QED BY <1>6, <2>7 DEF Outside
<1> QED BY <1>5, <1>6

\* Entry e is away from op; it is half of the flash or more unless op is on
\* both sides of the middle, and not the whole flash unless op begins with the
\* flash's last byte.
Chosen(c, op, e) ==
    \E k \in 2 .. Len(bp_map) :
        /\ e = bp_map[k] /\ Outside(op, e)
        /\ k = 2 => op.addr + 1 = c.total
        /\ ~Crosses(c, op) => Half(c) - 1 <= Span(e)

\* _protection_part finds such an entry.
LEMMA PartChosen ==
    ASSUME NEW c, Fits(c), Suits(c, bp_map),
           NEW op \in Operations, op.addr + op.size <= c.total,
           EraseAllowed(c, op) \/ WriteAllowed(c, op)
    PROVE  Chosen(c, op, protection_part(op))
<1> DEFINE found == {k \in DOMAIN bp_map :
                         Outside(op, bp_map[k]) /\ Span(bp_map[k]) > 0}
           best == {k \in found : \A j \in found :
                        \/ Span(bp_map[j]) < Span(bp_map[k])
                        \/ Span(bp_map[j]) = Span(bp_map[k]) /\ k <= j}
           span == [k \in DOMAIN bp_map |-> Span(bp_map[k])]
<1>1. PICK q \in Nat \ {0} : Half(c) = 65536 * q /\ c.total = 2 * Half(c)
  BY DEF Fits
<1>2. op.addr \in Nat /\ op.size \in Nat \ {0}
  BY ProtectionAssumption
<1>3. /\ bp_map \in Seq(Area) /\ Len(bp_map) \in Nat
      /\ DOMAIN bp_map = 1 .. Len(bp_map)
      /\ bp_map[1] = Entry(0, 0, 0) /\ bp_map[2] = All(c.total)
  <2>1. /\ bp_map \in Seq(Area)
        /\ bp_map[1] = Entry(0, 0, 0) /\ bp_map[2] = All(c.total)
    BY DEF Suits, IsTable
  <2> QED BY <2>1, LenProperties
<1>4. PICK h \in 3 .. Len(bp_map) :
          /\ Outside(op, bp_map[h]) /\ Span(bp_map[h]) > 0
          /\ ~Crosses(c, op) => Span(bp_map[h]) = Half(c) - 1
  BY SomeIsFree
<1>5. h \in found
  BY <1>3, <1>4
<1>6. 1 \notin found
  <2>1. Span(bp_map[1]) = 0
    BY <1>3 DEF Entry, Span
  <2> QED BY <2>1
<1>7. 2 \in found => op.addr + 1 = c.total
  <2> SUFFICES ASSUME Outside(op, bp_map[2]) PROVE op.addr + 1 = c.total
    OBVIOUS
  <2>1. bp_map[2].start_addr = 0 /\ bp_map[2].end_addr = c.total - 1
    BY <1>3 DEF Entry, All
  <2>2. op.addr >= c.total - 1
    BY <1>2, <2>1 DEF Outside
  <2>3. c.total \in Nat
    BY <1>1
  <2>4. op.addr + op.size <= c.total
    OBVIOUS
  <2> HIDE DEF found, best, span
  <2> QED BY <1>2, <2>2, <2>3, <2>4
<1>8. found \subseteq 2 .. Len(bp_map)
  <2>1. found \subseteq 1 .. Len(bp_map)
    BY <1>3
  <2> HIDE DEF found
  <2> QED BY <1>3, <1>6, <2>1
<1>9. \A k \in found : span[k] \in 0 .. MaxTotal
  <2> SUFFICES ASSUME NEW k \in found PROVE span[k] \in 0 .. MaxTotal
    OBVIOUS
  <2>1. k \in 1 .. Len(bp_map) /\ Span(bp_map[k]) > 0
    BY <1>3
  <2>2. bp_map[k] \in Area
    BY <1>3, <2>1, ElementOfSeq
  <2>3. /\ bp_map[k].start_addr \in Nat
        /\ bp_map[k].end_addr \in 0 .. MaxTotal - 1
    BY <2>2 DEF Area
  <2>4. span[k] = bp_map[k].end_addr - bp_map[k].start_addr
    BY <1>3, <2>1 DEF Span
  <2>5. span[k] > 0
    BY <1>3, <2>1
  <2> HIDE DEF span
  <2> QED BY <2>3, <2>4, <2>5, MaxIsNat
<1>10. \E k \in found : \A j \in found :
           \/ span[j] < span[k]
           \/ span[j] = span[k] /\ k <= j
  <2>1. found \in SUBSET Nat /\ found # {}
    BY <1>5, <1>8
  <2> HIDE DEF found, span
  <2> QED BY <1>9, <2>1, FirstLargest
<1>11. \A k \in found : span[k] = Span(bp_map[k])
  OBVIOUS
<1>12. best # {}
  <2> HIDE DEF found, span
  <2> QED BY <1>10, <1>11
<1> DEFINE k == CHOOSE n \in best : TRUE
<1>13. k \in best
  <2> HIDE DEF best
  <2> QED BY <1>12
<1>14. protection_part(op) = bp_map[k]
  <2>1. found # {}
    BY <1>5
  <2> QED BY <2>1 DEF protection_part
<1>15. k \in found
  <2> HIDE DEF found, k
  <2> QED BY <1>13
<1>16. k \in 2 .. Len(bp_map) /\ Outside(op, bp_map[k])
  <2> HIDE DEF k
  <2> QED BY <1>8, <1>15
<1>17. Span(bp_map[h]) <= Span(bp_map[k])
  <2>1. \/ Span(bp_map[h]) < Span(bp_map[k])
        \/ Span(bp_map[h]) = Span(bp_map[k])
    <3> HIDE DEF found, k
    <3> QED BY <1>5, <1>13
  <2>2. Span(bp_map[h]) \in Nat /\ Span(bp_map[k]) \in Nat
    <3> HIDE DEF found, k, span
    <3> QED BY <1>5, <1>9, <1>11, <1>15, MaxIsNat
  <2> HIDE DEF k
  <2> QED BY <2>1, <2>2
<1>18. k = 2 => op.addr + 1 = c.total
  <2> HIDE DEF found, k
  <2> QED BY <1>7, <1>15
<1> HIDE DEF k
<1> QED BY <1>4, <1>14, <1>16, <1>17, <1>18 DEF Chosen

-----------------------------------------------------------------------------
(* The service.                                                            *)

\* The table is the chip's; without an operation, or with one that a call has
\* overtaken, all is protected, otherwise what _protection_part has chosen.
IInv ==
    /\ chip \in Chips
    /\ bp_map = norflash_api_protection_bp_init(chip)
    /\ phase = "none" <=> opera = None
    /\ opera = None => ~overtaken
    /\ opera # None => opera \in Operations
    /\ IF opera = None \/ overtaken
       THEN prot = bp_map[2]
       ELSE Chosen(chip, opera, prot)

\* The table never changes, and the status register holds the area chosen for
\* the operation in progress, suspended or not, or the whole flash.
THEOREM Invariance == Spec => []IInv
<1>1. Init => IInv
  BY DEF Init, IInv
<1>2. IInv /\ [Next]_vars => IInv'
  <2> SUFFICES ASSUME IInv, [Next]_vars PROVE IInv'
    OBVIOUS
  <2>1. CASE Start
    <3>1. PICK op \in Operations :
              /\ op.addr + op.size <= chip.total
              /\ EraseAllowed(chip, op) \/ WriteAllowed(chip, op)
              /\ opera' = op
              /\ prot' = protection_part(op)
      BY <2>1 DEF Start
    <3>2. Fits(chip) /\ Suits(chip, bp_map)
      BY EveryChipFits, EveryTableSuits DEF IInv
    <3>3. Chosen(chip, op, protection_part(op))
      BY <3>1, <3>2, PartChosen
    <3>4. chip' = chip /\ bp_map' = bp_map
      BY <2>1 DEF Start
    <3>5. Chosen(chip, opera, prot)'
      BY <3>1, <3>3, <3>4 DEF Chosen
    <3>6. op # None
      <4>1. op.size # 0
        BY ProtectionAssumption
      <4> QED BY <4>1 DEF None
    <3>7. opera = None /\ ~overtaken' /\ phase' # "none"
      BY <2>1 DEF Start, IInv
    <3> QED BY <3>1, <3>4, <3>5, <3>6, <3>7 DEF IInv
  <2>2. CASE Complete
    BY <2>2 DEF Complete, IInv
  <2>3. CASE Overtake
    BY <2>3 DEF Overtake, IInv
  <2>4. CASE Suspend \/ Resume \/ UNCHANGED vars
    <3>1. UNCHANGED <<chip, bp_map, opera, overtaken, prot>>
          /\ (phase' = "none" <=> phase = "none")
      BY <2>4 DEF Suspend, Resume, vars
    <3> QED BY <3>1 DEF IInv, Chosen
  <2> QED BY <2>1, <2>2, <2>3, <2>4 DEF Next
<1> QED BY <1>1, <1>2, PTL DEF Spec

\* What the table and the chip are in a state of the invariant.
LEMMA TableSuits ==
    ASSUME IInv
    PROVE  /\ Fits(chip) /\ Suits(chip, bp_map)
           /\ bp_map \in Seq(Area) /\ Len(bp_map) \in Nat
           /\ bp_map[2] = All(chip.total)
           /\ \A k \in 3 .. Len(bp_map) :
                bp_map[k] \in Area /\ Whole(bp_map[k])
<1>1. Fits(chip) /\ Suits(chip, bp_map)
  BY EveryChipFits, EveryTableSuits DEF IInv
<1>2. /\ bp_map \in Seq(Area) /\ bp_map[2] = All(chip.total)
      /\ \A k \in 3 .. Len(bp_map) : Whole(bp_map[k])
  BY <1>1 DEF Suits, IsTable
<1>3. Len(bp_map) \in Nat
  BY <1>2, LenProperties
<1>4. \A k \in 3 .. Len(bp_map) : bp_map[k] \in Area
  <2>1. \A k \in 3 .. Len(bp_map) : k \in 1 .. Len(bp_map)
    BY <1>3
  <2> QED BY <1>2, <2>1, ElementOfSeq
<1> QED BY <1>1, <1>2, <1>3, <1>4

\* Init routines of every chip fill flash_bp_map within its 64 entries.
THEOREM TableHasRoom == Spec => []FitsMap
<1>1. IInv => FitsMap
  BY TableSuits DEF Suits, FitsMap
<1> QED BY <1>1, Invariance, PTL

\* The ASSERT of _protection_part, "protection area undefined!", holds for
\* every erase and write the service accepts, but for a write of the flash's
\* last byte alone.
THEOREM AreaFound == Spec => []AreaDefined
<1>1. IInv => AreaDefined
  <2> SUFFICES ASSUME IInv, opera # None, ~overtaken,
                      opera.addr + 1 # chip.total
               PROVE  prot.bp # FLASH_BP_ALL
    BY DEF AreaDefined
  <2>1. PICK k \in 2 .. Len(bp_map) : prot = bp_map[k] /\ k # 2
    BY DEF IInv, Chosen
  <2>2. k \in 3 .. Len(bp_map)
    BY <2>1
  <2> QED BY <2>1, <2>2, TableSuits DEF Whole
<1> QED BY <1>1, Invariance, PTL

\* The area protected around an operation shares no byte with it, although
\* _protection_part takes an end address for the first byte behind an area:
\* areas end with a sector, and the operation does not begin with a sector's
\* last byte.  The area stays over suspensions and resumes, unless a call
\* overtakes the operation while it is suspended.
THEOREM TargetFree == Spec => []TargetUnprotected
<1>1. IInv => TargetUnprotected
  <2> SUFFICES ASSUME IInv, opera # None, ~overtaken, ~BeginsAtEnd(opera),
                      NEW a \in {opera.addr, opera.addr + opera.size - 1,
                                 prot.start_addr, prot.end_addr}
               PROVE  ~(/\ opera.addr <= a /\ a < opera.addr + opera.size
                        /\ prot.start_addr <= a /\ a <= prot.end_addr)
    BY DEF TargetUnprotected
  <2>1. PICK k \in 2 .. Len(bp_map) :
            prot = bp_map[k] /\ (k = 2 => opera.addr + 1 = chip.total)
    BY DEF IInv, Chosen
  <2>2. opera \in Operations /\ Outside(opera, prot)
    BY DEF IInv, Chosen
  <2>3. /\ opera.addr \in Nat /\ opera.size \in Nat \ {0}
        /\ opera.addr % 4096 # 4095
    BY <2>2, ProtectionAssumption DEF BeginsAtEnd
  <2>4. k # 2
    <3>1. PICK q \in Nat \ {0} : chip.total = 4096 * q
      BY TableSuits DEF Fits, Sectors
    <3>2. opera.addr # 4096 * q - 1
      <4>1. (4096 * q - 1) % 4096 = 4095
        OBVIOUS
      <4> QED BY <2>3, <4>1
    <3> QED BY <2>1, <2>3, <3>1, <3>2
  <2>5. prot \in Area /\ prot.end_addr % 4096 = 4095
    <3>1. k \in 3 .. Len(bp_map)
      BY <2>4
    <3> QED BY <2>1, <3>1, TableSuits DEF Whole
  <2>6. prot.start_addr \in Nat /\ prot.end_addr \in Nat
    <3>1. prot.start_addr \in Nat /\ prot.end_addr \in 0 .. MaxTotal - 1
      BY <2>5 DEF Area
    <3> QED BY <3>1, MaxIsNat
  <2>7. \/ opera.addr > prot.end_addr
        \/ opera.addr + opera.size <= prot.start_addr
    <3>1. opera.addr # prot.end_addr
      BY <2>3, <2>5
    <3>2. \/ opera.addr >= prot.end_addr
          \/ opera.addr + opera.size <= prot.start_addr
      BY <2>2 DEF Outside
    <3> QED BY <2>3, <2>6, <3>1, <3>2
  <2>8. a \in Nat
    <3>1. opera.addr + opera.size - 1 \in Nat
      BY <2>3
    <3> QED BY <2>3, <2>6, <3>1
  <2> QED BY <2>3, <2>6, <2>7, <2>8
<1> QED BY <1>1, Invariance, PTL

\* With an operation within one half in progress, half of the flash or more
\* stays protected, without an operation all of it.
THEOREM HalfProtected == Spec => []HalfStaysProtected
<1>1. IInv => HalfStaysProtected
  <2> SUFFICES ASSUME IInv, ~CrossesMiddle(opera)
               PROVE  2 * (Span(prot) + 1) >= chip.total
    BY DEF HalfStaysProtected
  <2>1. PICK q \in Nat \ {0} :
            Half(chip) = 65536 * q /\ chip.total = 2 * Half(chip)
    BY TableSuits DEF Fits
  <2>2. prot \in Area
    <3>1. prot = bp_map[2] \/ \E k \in 2 .. Len(bp_map) : prot = bp_map[k]
      BY DEF IInv, Chosen
    <3>2. \A k \in 2 .. Len(bp_map) : k \in 1 .. Len(bp_map)
      BY TableSuits
    <3>3. Len(bp_map) >= 2
      BY TableSuits DEF Suits, IsTable
    <3>4. 2 \in 1 .. Len(bp_map)
      BY <3>3, TableSuits
    <3> QED BY <3>1, <3>2, <3>4, TableSuits, ElementOfSeq
  <2>3. prot.start_addr \in Nat /\ prot.end_addr \in Nat
    <3>1. prot.start_addr \in Nat /\ prot.end_addr \in 0 .. MaxTotal - 1
      BY <2>2 DEF Area
    <3> QED BY <3>1, MaxIsNat
  <2>4. Half(chip) - 1 <= Span(prot)
    <3>1. CASE opera = None \/ overtaken
      <4>1. prot = All(chip.total)
        BY <3>1, TableSuits DEF IInv
      <4>2. Span(prot) = chip.total - 1
        BY <2>1, <4>1 DEF All, Entry, Span
      <4> QED BY <2>1, <4>2
    <3>2. CASE opera # None /\ ~overtaken
      <4>1. ~Crosses(chip, opera)
        BY DEF CrossesMiddle, Crosses
      <4> QED BY <3>2, <4>1 DEF IInv, Chosen
    <3> QED BY <3>1, <3>2
  <2>5. Span(prot) \in Int
    BY <2>3 DEF Span
  <2> QED BY <2>1, <2>4, <2>5
<1> QED BY <1>1, Invariance, PTL

\* Entries of a table have codes of their own, those of GD25LE255E's apart:
\* its loops make nine turns, and the codes of the first reach the second's.
THEOREM CodesApart == Spec => []CodesDistinct
<1>1. IInv => CodesDistinct
  <2> SUFFICES ASSUME IInv, chip.kind # "256m",
                      NEW k \in DOMAIN bp_map, NEW j \in DOMAIN bp_map,
                      bp_map[k].bp = bp_map[j].bp
               PROVE  k = j
    BY DEF CodesDistinct
  <2>1. Distinct(bp_map) /\ DOMAIN bp_map = 1 .. Len(bp_map)
    BY TableSuits, LenProperties DEF Suits
  <2> QED BY <2>1 DEF Distinct
<1> QED BY <1>1, Invariance, PTL

=============================================================================
