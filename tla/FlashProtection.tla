-------------------------- MODULE FlashProtection --------------------------
(***************************************************************************)
(* The write protection of the NOR flash, services/norflash_api/           *)
(* norflash_api.cpp under FLASH_PROTECTION.                                *)
(*                                                                         *)
(* The chip protects one area at a time, named by the BP bits of its       *)
(* status register.  A table of the areas it knows is built from its size  *)
(* at start.  For an erase or a write the service protects the largest     *)
(* area that leaves the range of the operation free, and afterwards the    *)
(* whole flash again.  An operation of the queue may be suspended in the   *)
(* chip and resumed; a resume leaves the register as it finds it.          *)
(***************************************************************************)
EXTENDS Naturals, Sequences

CONSTANTS
    Chips,      \* the flash chips
    Operations  \* ranges that erases and writes are made for

\* shl[k] is 1 << k.
shl[k \in 0 .. 25] == IF k = 0 THEN 1 ELSE 2 * shl[k - 1]

\* Sizes are powers of two.  norflash_api_init asserts 128 KB to 32 MB, of two
\* chips side by side 256 KB to 32 MB; single chips of 32 MB and one of 1 MB
\* have tables of their own.
KnownChips ==
    [total : {shl[n] : n \in 17 .. 24}, kind : {"other"}, dual : {FALSE}]
    \cup [total : {shl[n] : n \in 18 .. 25}, kind : {"other"}, dual : {TRUE}]
    \cup [total : {shl[20]}, kind : {"xt25q08b"}, dual : {FALSE}]
    \cup [total : {shl[25]}, kind : {"256m", "256m_with_bmp"}, dual : {FALSE}]

ASSUME ProtectionAssumption ==
    /\ Chips \subseteq KnownChips
    /\ Operations \subseteq [addr : Nat, size : Nat \ {0}]

VARIABLES
    chip,   \* what hal_norflash_get_id and .._get_flash_total_size answer
    bp_map, \* flash_bp_map up to flash_bp_numer
    opera,  \* the range of the operation in progress, or None
    phase,  \* "none", "suspendable", "nosuspend" or "suspended"
    overtaken,  \* history: a call was served while it was suspended
    prot    \* the entry whose bp the status register holds

vars == <<chip, bp_map, opera, phase, overtaken, prot>>

None == [addr |-> 0, size |-> 0]

FLASH_BP_MAP_LEN_MAX == 64
FLASH_BP_ALL == 124     \* 0x007C
CMP == 16384            \* 0x4000
KBYTE == 1024

-----------------------------------------------------------------------------
(* The tables.                                                             *)

Entry(bp, start, end) == [bp |-> bp, start_addr |-> start, end_addr |-> end]

\* bp = cmp | (i + code) << 2
Bp(cmp, code, i) == cmp + 4 * (code + i)

\* The turns of one loop: base, 2 * base, 4 * base.. bytes, up to limit.
Size(base, k) == base * shl[k - 1]

MaxTurns == 10  \* bound: no loop makes as many turns

Turns(base, limit) == {k \in 1 .. MaxTurns : Size(base, k) <= limit}

\* Loops with CMP = 0 protect size bytes at one end, loops with CMP = 1 all
\* but size bytes at the other end.
Upper(total, base, limit, code) ==
    [k \in Turns(base, limit) |->
        Entry(Bp(0, code, k - 1), total - Size(base, k), total - 1)]

\* Mutant: the lower areas get the codes of the upper ones.
MutLowerCode(total, base, limit, cmp, code) ==
    [k \in Turns(base, limit) |->
        Entry(Bp(cmp, 1, k - 1), 0, Size(base, k) - 1)]

\* Mutant: the end of the upper areas.
MutLowerEnd(total, base, limit, cmp, code) ==
    [k \in Turns(base, limit) |->
        Entry(Bp(cmp, code, k - 1), 0, total - 1)]

Lower(total, base, limit, cmp, code) ==
    [k \in Turns(base, limit) |->
        Entry(Bp(cmp, code, k - 1), 0, Size(base, k) - 1)]

AllButUpper(total, base, limit, code) ==
    [k \in Turns(base, limit) |->
        Entry(Bp(CMP, code, k - 1), 0, total - Size(base, k) - 1)]

AllButLower(total, base, limit, code) ==
    [k \in Turns(base, limit) |->
        Entry(Bp(CMP, code, k - 1), Size(base, k), total - 1)]

\* bp 0: none, and all.
NoneAndAll(total) ==
    <<Entry(0, 0, 0), Entry(FLASH_BP_ALL, 0, total - 1)>>

\* Blocks of a fraction of the flash, up to its half.
Multi(c) ==
    LET m == shl[c.total \div 8388608]
    IN  IF c.dual THEN m \div shl[c.total \div 33554432] ELSE m

\* Mutant: the largest block is a quarter of the flash.
MutQuarter(c) == c.total \div 4

Half(c) == c.total \div 2

\* Mutant: in bytes, not in KB.
MutSmall(c) == IF c.dual THEN 8 ELSE 4

\* Sectors, up to 32 KB.
Small(c) == IF c.dual THEN 8 * KBYTE ELSE 4 * KBYTE

WithCmp(c, block) ==
    NoneAndAll(c.total)
    \o Upper(c.total, block, Half(c), 1)
    \o Lower(c.total, block, Half(c), 0, 9)
    \o Upper(c.total, Small(c), 32 * KBYTE, 17)
    \o Lower(c.total, Small(c), 32 * KBYTE, 0, 25)
    \o AllButUpper(c.total, block, Half(c), 1)
    \o AllButLower(c.total, block, Half(c), 9)
    \o AllButUpper(c.total, Small(c), 32 * KBYTE, 17)
    \o AllButLower(c.total, Small(c), 32 * KBYTE, 25)

bp_init_2m_128m(c) == WithCmp(c, 64 * Multi(c) * KBYTE)

bp_init_256m_with_bmp(c) == WithCmp(c, 32 * Multi(c) * KBYTE)

bp_init_256m(c) ==
    LET block == 4 * Multi(c) * KBYTE
    IN  NoneAndAll(c.total)
        \o Upper(c.total, block, Half(c), 1)
        \o Lower(c.total, block, Half(c), 0, 9)

bp_init_xt25q08b(c) ==
    LET block == 64 * Multi(c) * KBYTE
    IN  NoneAndAll(c.total)
        \o Upper(c.total, block, Half(c), 1)
        \o Lower(c.total, block, Half(c), CMP, 1)

\* A table _bp_init_gd25d20_40 has built is overwritten: the if that follows
\* is no else if.
norflash_api_protection_bp_init(c) ==
    CASE c.kind = "xt25q08b"      -> bp_init_xt25q08b(c)
      [] c.kind = "256m"          -> bp_init_256m(c)
      [] c.kind = "256m_with_bmp" -> bp_init_256m_with_bmp(c)
      [] c.kind = "other"         -> bp_init_2m_128m(c)

-----------------------------------------------------------------------------
(* _protection_part and _protection_all.                                   *)

Span(e) == e.end_addr - e.start_addr

\* Mutant: the end of the operation is not looked at.
MutStartOnly(op, e) ==
    op.addr >= e.end_addr \/ op.addr < e.start_addr

Outside(op, e) ==
    op.addr >= e.end_addr \/ op.addr + op.size <= e.start_addr

\* The first of the largest entries; bp stays FLASH_BP_ALL without any.
protection_part(op) ==
    LET found == {k \in DOMAIN bp_map :
                      Outside(op, bp_map[k]) /\ Span(bp_map[k]) > 0}
        best  == {k \in found : \A j \in found :
                      \/ Span(bp_map[j]) < Span(bp_map[k])
                      \/ Span(bp_map[j]) = Span(bp_map[k]) /\ k <= j}
    IN  IF found = {} THEN bp_map[2] ELSE bp_map[CHOOSE k \in best : TRUE]

sector_size(c) == IF c.dual THEN 8192 ELSE 4096

\* An erase is of a sector or of a block, which has 8 sectors or, under
\* FLASH_LARGE_BLOCK, 16; only to sectors it has to be aligned.
EraseAllowed(c, op) ==
    /\ op.addr % sector_size(c) = 0
    /\ op.size \in {n * sector_size(c) : n \in {1, 8, 16}}

\* IN_ONE_SECTOR
WriteAllowed(c, op) == (op.addr % sector_size(c)) + op.size <= sector_size(c)

Init ==
    /\ chip \in Chips
    /\ bp_map = norflash_api_protection_bp_init(chip)
    /\ opera = None /\ phase = "none" /\ overtaken = FALSE
    /\ prot = bp_map[2]

\* From the queue, by the flush loop or, to its end, for a synchronous call;
\* or the operation of a synchronous call.
Start ==
    /\ opera = None
    /\ \E op \in Operations :
          /\ op.addr + op.size <= chip.total
          /\ EraseAllowed(chip, op) \/ WriteAllowed(chip, op)
          /\ opera' = op
          /\ prot' = protection_part(op)
    /\ phase' \in {"suspendable", "nosuspend"}
    /\ UNCHANGED <<chip, bp_map, overtaken>>

\* HAL_NORFLASH_SUSPENDED
Suspend ==
    /\ phase = "suspendable"
    /\ phase' = "suspended"
    /\ UNCHANGED <<chip, bp_map, opera, overtaken, prot>>

\* By the flush loop or, to its end, for a synchronous call.
Resume ==
    /\ phase = "suspended"
    /\ phase' \in {"suspendable", "nosuspend"}
    /\ UNCHANGED <<chip, bp_map, opera, overtaken, prot>>

\* A synchronous call of the same module while flushing is not allowed goes on
\* to its own operation.  It protects for it, the driver refuses it because
\* the chip holds a suspended one, and all is protected again.
Overtake ==
    /\ phase = "suspended"
    /\ overtaken' = TRUE
    /\ prot' = bp_map[2]
    /\ UNCHANGED <<chip, bp_map, opera, phase>>

\* _protection_all, once the operation has run to its end.
Complete ==
    /\ phase \in {"suspendable", "nosuspend"}
    /\ opera' = None /\ phase' = "none" /\ overtaken' = FALSE
    /\ prot' = bp_map[2]
    /\ UNCHANGED <<chip, bp_map>>

Next == Start \/ Suspend \/ Resume \/ Overtake \/ Complete

Spec == Init /\ [][Next]_vars

-----------------------------------------------------------------------------
(* Properties.                                                             *)

\* The table has room for every entry: FLASH_BP_MAP_LEN_MAX.
FitsMap == Len(bp_map) <= FLASH_BP_MAP_LEN_MAX

\* The ASSERT "protection area undefined!" of _protection_part does not fail:
\* for every operation, also for a block erase that is not aligned to blocks,
\* the table has an area away from it.  For one that begins with the last byte
\* of the flash even the area of all of it is taken.  The area stays until the
\* operation ends or is overtaken.
AreaDefined ==
    opera # None /\ ~overtaken /\ opera.addr + 1 # chip.total =>
        prot.bp # FLASH_BP_ALL

\* Operations that begin with the last byte of a sector: where an area ends
\* with this byte, _protection_part takes it for one behind.
BeginsAtEnd(op) == op.addr % 4096 = 4095

\* No byte of the operation is protected from its start to its end, over any
\* number of suspensions and resumes; the end address of an entry is the last
\* byte it protects.  A call that overtakes it while it is suspended leaves
\* all protected, and the resume does not open its range again: the property
\* leaves these operations out.
TargetUnprotected ==
    opera # None /\ ~overtaken /\ ~BeginsAtEnd(opera) =>
        \A a \in {opera.addr, opera.addr + opera.size - 1,
                  prot.start_addr, prot.end_addr} :
            ~(/\ opera.addr <= a /\ a < opera.addr + opera.size
              /\ prot.start_addr <= a /\ a <= prot.end_addr)

\* A block erase that is not aligned to blocks may reach over the middle.
CrossesMiddle(op) ==
    2 * op.addr < chip.total /\ chip.total < 2 * (op.addr + op.size)

\* An operation within one half of the flash never lays more than half of it
\* open, suspended, resumed and overtaken too.
HalfStaysProtected ==
    ~CrossesMiddle(opera) => 2 * (Span(prot) + 1) >= chip.total

\* A code stands for one area, in every table but that of GD25LE255E, whose
\* codes leave their bounds.
CodesDistinct ==
    chip.kind # "256m" =>
        \A k, j \in DOMAIN bp_map : bp_map[k].bp = bp_map[j].bp => k = j

=============================================================================
