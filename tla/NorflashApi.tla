---------------------------- MODULE NorflashApi ----------------------------
(***************************************************************************)
(* The asynchronous NOR flash service, services/norflash_api/              *)
(* norflash_api.cpp, on top of the suspendable erase and program calls of  *)
(* platform/hal/hal_norflash.c.                                            *)
(*                                                                         *)
(* Every registered module owns a list of pending operations: sector       *)
(* erases, and writes that own a sector buffer.  A new operation goes to   *)
(* the head of the list, norflash_api_flush takes the one at the tail.  In *)
(* a FLASH_SUSPEND build the chip gives an operation up when an interrupt  *)
(* arrives and resumes it in a later call.  List nodes and sector buffers  *)
(* come from two pools shared by all modules.                              *)
(*                                                                         *)
(* The API takes norflash_api_mutex and masks interrupts, so an            *)
(* asynchronous call is one step.  A synchronous call holds both over two  *)
(* loops; an iteration of a loop is a step and sync blocks everybody else. *)
(***************************************************************************)
EXTENDS Naturals, FiniteSets

CONSTANTS
    ModNum,     \* NORFLASH_API_MODULE_ID_COUNT
    SecNum,     \* sectors of a module
    SecLen,     \* program pages of a sector
    Bits,       \* the bits of a page; a page is the set of its cleared bits
    OpraNum,    \* NORFLASH_API_SYS_OPRA_NUM, list nodes
    BufferNum,  \* NORFLASH_API_SYS_BUFFER_NUM, sector buffers
    Suspend,    \* FLASH_SUSPEND is defined
    Users       \* NORFLASH_API_USER: who calls norflash_api_flush_disable

ASSUME ConstAssumption ==
    /\ ModNum \in Nat \ {0} /\ SecNum \in Nat \ {0} /\ SecLen \in Nat \ {0}
    /\ OpraNum \in Nat /\ BufferNum \in Nat
    /\ Suspend \in BOOLEAN

Mods  == 0 .. ModNum - 1
Secs  == 0 .. SecNum - 1
Offs  == 0 .. SecLen - 1
Slots == 1 .. OpraNum
Bufs  == 1 .. BufferNum
Null  == 0
NoMod == ModNum

VARIABLES
    opera_info,     \* the nodes in each module's list
    before,         \* <<a, b>>: a is nearer the head of its list than b
    node,           \* the pool of list nodes
    opera_used,     \* is_used of the list nodes
    buffer_used,    \* is_used of the sector buffers
    cur_opera_info, \* the node being processed, or Null
    state,          \* NORFLASH_API_STATE of each module
    cur_mod,        \* the module being flushed, or NoMod
    cur_mod_id,     \* where the round robin search starts
    allowed_cb,     \* the flush-allowed callback of each user: NULL, or what
                    \* a call of it would return
    sync,           \* the synchronous call in progress, or NoCall
    suspend_state,  \* hal_norflash.c: the suspended operation of the chip
    flash,          \* the memory cells
    contents        \* history: what the calls accepted so far amount to

lists == <<opera_info, before, node, opera_used, buffer_used>>
chip  == <<suspend_state, flash>>
vars  == <<lists, cur_opera_info, state, cur_mod, cur_mod_id, allowed_cb,
           sync, chip, contents>>

-----------------------------------------------------------------------------
Sector  == [Offs -> SUBSET Bits]
Erased  == [o \in Offs |-> {}]

\* OPRA_INFO; an operation stays within its sector.
Node == {n \in [type : {"WRITTING", "ERASING"}, addr : Secs, w_offs : Offs,
                w_len : 0 .. SecLen, buff : Bufs \cup {Null}, data : Sector,
                lock : BOOLEAN] : n.w_offs + n.w_len <= SecLen}
FreeNode == [type |-> "ERASING", addr |-> 0, w_offs |-> 0, w_len |-> 0,
             buff |-> Null, data |-> Erased, lock |-> FALSE]

Call   == [mod : Mods, type : {"WRITTING", "ERASING"}, addr : Secs,
           w_offs : Offs, w_len : 0 .. SecLen, val : SUBSET Bits,
           bresult : BOOLEAN]
NoCall == [mod |-> NoMod, type |-> "ERASING", addr |-> 0, w_offs |-> 0,
           w_len |-> 0, val |-> {}, bresult |-> FALSE]

States == {"UNINITED", "IDLE", "WRITTING_SUSPEND", "ERASE_SUSPEND"}

TypeOK ==
    /\ opera_info \in [Mods -> SUBSET Slots]
    /\ before \subseteq Slots \X Slots
    /\ node \in [Slots -> Node]
    /\ opera_used \subseteq Slots
    /\ buffer_used \subseteq Bufs
    /\ cur_opera_info \in [Mods -> Slots \cup {Null}]
    /\ state \in [Mods -> States]
    /\ cur_mod \in Mods \cup {NoMod}
    /\ cur_mod_id \in Mods \cup {NoMod}
    /\ allowed_cb \in [Users -> {"NULL", "false", "true"}]
    /\ sync \in Call \cup {NoCall}
    /\ suspend_state \in {"NONE", "ERASE_SUSPEND", "PROGRAM_SUSPEND"}
    /\ flash \in [Mods -> [Secs -> Sector]]
    /\ contents \in [Mods -> [Secs -> Sector]]

\* Nothing is queued, registered or suspended after a reset, and the flash of
\* a new device is erased.
Init ==
    /\ opera_info = [m \in Mods |-> {}]
    /\ before = {}
    /\ node = [i \in Slots |-> FreeNode]
    /\ opera_used = {}
    /\ buffer_used = {}
    /\ cur_opera_info = [m \in Mods |-> Null]
    /\ state = [m \in Mods |-> "UNINITED"]
    /\ cur_mod = NoMod
    /\ cur_mod_id = NoMod
    /\ allowed_cb = [u \in Users |-> "NULL"]
    /\ sync = NoCall
    /\ suspend_state = "NONE"
    /\ flash = [m \in Mods |-> [s \in Secs |-> Erased]]
    /\ contents = flash

-----------------------------------------------------------------------------
(* Lists and pools.                                                        *)

Registered(m) == state[m] # "UNINITED"

\* No synchronous call holds the mutex.
Running == sync.mod = NoMod

OfSector(m, s) == {n \in opera_info[m] : node[n].addr = s}

\* The node of S that a walk from the head of its list meets first.
FirstOf(S) == CHOOSE n \in S : \A k \in S \ {n} : <<n, k>> \in before

\* Mutant: the newest operation is taken.
MutTailIsHead(m) == FirstOf(opera_info[m])

\* _get_tail
Tail(m) == CHOOSE n \in opera_info[m] :
               \A k \in opera_info[m] \ {n} : <<k, n>> \in before

\* An entry with is_used = false; it makes no difference which.
FirstFree(S) == CHOOSE i \in S : TRUE

InRange(x, offs, len) == offs <= x /\ x < offs + len

\* norflash_memcpy of len pages into a sector buffer.
Memcpy(d, offs, len, v) ==
    [x \in Offs |-> IF InRange(x, offs, len) THEN v ELSE d[x]]

\* The chip programs a page by clearing bits.
Program(d, offs, len, src) ==
    [x \in Offs |-> IF InRange(x, offs, len) THEN d[x] \cup src[x] ELSE d[x]]

SetSector(f, m, s, d) == [f EXCEPT ![m][s] = d]

\* Mutant: the walk does not stop at the first node of the sector.
MutReadOldest(m, s) ==
    IF OfSector(m, s) = {} THEN flash[m][s]
    ELSE LET n == node[CHOOSE i \in OfSector(m, s) :
                          \A k \in OfSector(m, s) \ {i} : <<k, i>> \in before]
         IN  IF n.type = "WRITTING" THEN n.data ELSE Erased

\* What norflash_api_read returns for a sector.
opera_read(m, s) ==
    IF OfSector(m, s) = {} THEN flash[m][s]
    ELSE LET n == node[FirstOf(OfSector(m, s))]
         IN  IF n.type = "WRITTING" THEN n.data ELSE Erased

Without(R) == {p \in before : p[1] \notin R /\ p[2] \notin R}

\* A new node becomes the head of the list that holds S.
Push(m, S, i, nd) ==
    /\ opera_info' = [opera_info EXCEPT ![m] = S \cup {i}]
    /\ before' = Without(opera_info[m] \ S) \cup ({i} \X S)
    /\ node' = [[n \in Slots |-> IF n \in opera_info[m] \ S
                                 THEN FreeNode ELSE node[n]]
                    EXCEPT ![i] = nd]

-----------------------------------------------------------------------------
(* Registration and the flush-allowed callback.                            *)

norflash_api_register(m) ==
    /\ Running
    /\ ~Registered(m)
    /\ state' = [state EXCEPT ![m] = "IDLE"]
    /\ UNCHANGED <<lists, cur_opera_info, cur_mod, cur_mod_id, allowed_cb,
                   sync, chip, contents>>

norflash_api_flush_disable(user) ==
    /\ Running
    /\ \E cb \in {"false", "true"} :
          allowed_cb' = [allowed_cb EXCEPT ![user] = cb]
    /\ UNCHANGED <<lists, cur_opera_info, state, cur_mod, cur_mod_id, sync,
                   chip, contents>>

norflash_api_flush_enable(user) ==
    /\ Running
    /\ allowed_cb' = [allowed_cb EXCEPT ![user] = "NULL"]
    /\ UNCHANGED <<lists, cur_opera_info, state, cur_mod, cur_mod_id, sync,
                   chip, contents>>

\* The callback of every caller is cp_accel_init_done.  The coprocessor runs
\* on its own core: it may turn true during a synchronous call.
CpInitDone(user) ==
    /\ allowed_cb[user] = "false"
    /\ allowed_cb' = [allowed_cb EXCEPT ![user] = "true"]
    /\ UNCHANGED <<lists, cur_opera_info, state, cur_mod, cur_mod_id, sync,
                   chip, contents>>

flush_is_allowed == \A user \in Users : allowed_cb[user] # "false"

\* A callback that returns true is forgotten.
PollAllowedCb ==
    allowed_cb' = [user \in Users |->
                      IF allowed_cb[user] = "true" THEN "NULL"
                      ELSE allowed_cb[user]]

-----------------------------------------------------------------------------
(* Asynchronous calls.                                                     *)

\* Mutant: any locked node of the sector absorbs a new erase.
MutMergedIntoWrite(m, s) == {n \in OfSector(m, s) : node[n].lock}

\* An erase that is already being processed absorbs a new one.
MergedErase(m, s) ==
    {n \in OfSector(m, s) : node[n].lock /\ node[n].type = "ERASING"}

\* Mutant: _e_opera_add frees the nodes it removes, not their buffers.
MutBuffersLeak(R) == buffer_used

BuffersAfterFree(R) == buffer_used \ {node[n].buff : n \in R}

\* norflash_api_erase(m, s, sector length, true) with _e_opera_add.
EraseAsync(m, s) ==
    LET merged  == MergedErase(m, s)
        dropped == {n \in OfSector(m, s) :
                        ~node[n].lock /\ \A k \in merged : <<n, k>> \in before}
        kept    == opera_info[m] \ dropped
        free    == Slots \ (opera_used \ dropped)
    IN
    /\ Running /\ Registered(m)
    /\ buffer_used' = BuffersAfterFree(dropped)
    /\ \/ /\ merged # {}
          /\ opera_info' = [opera_info EXCEPT ![m] = kept]
          /\ before' = Without(dropped)
          /\ node' = [n \in Slots |-> IF n \in dropped THEN FreeNode
                                      ELSE node[n]]
          /\ opera_used' = opera_used \ dropped
       \/ /\ merged = {} /\ free # {}
          /\ Push(m, kept, FirstFree(free), [FreeNode EXCEPT !.addr = s])
          /\ opera_used' = (opera_used \ dropped) \cup {FirstFree(free)}
    /\ contents' = SetSector(contents, m, s, Erased)
    /\ UNCHANGED <<cur_opera_info, state, cur_mod, cur_mod_id, allowed_cb, sync, chip>>

\* The list nodes _w_opera_add looks at: it passes over a locked write.
Mergeable(m, s) ==
    {n \in OfSector(m, s) : ~(node[n].type = "WRITTING" /\ node[n].lock)}

\* Callers only clear bits: they erase a sector before they reuse it.
NorDiscipline(m, s, offs, len, v) ==
    \A x \in Offs : InRange(x, offs, len) => contents[m][s][x] \subseteq v

ValidRange(offs, len) == len > 0 /\ offs + len <= SecLen

\* Mutant: the lengths of the two writes are added up.
MutMergedLen(nd, offs, len) == nd.w_len + len

MergedOffs(nd, offs) == IF nd.w_offs <= offs THEN nd.w_offs ELSE offs

MergedLen(nd, offs, len) ==
    LET end1 == nd.w_offs + nd.w_len
        end2 == offs + len
    IN  (IF end1 >= end2 THEN end1 ELSE end2) - MergedOffs(nd, offs)

\* norflash_api_write(.., true) with _w_opera_add, merging into a queued
\* write of the sector: the union of the two ranges, with any gap.
WriteAsyncMerge(m, s, offs, len, v) ==
    LET i   == FirstOf(Mergeable(m, s))
        old == node[i]
    IN
    /\ Mergeable(m, s) # {} /\ old.type = "WRITTING"
    /\ node' = [node EXCEPT ![i] =
                    [old EXCEPT !.data = Memcpy(old.data, offs, len, v),
                                !.w_offs = MergedOffs(old, offs),
                                !.w_len = MergedLen(old, offs, len)]]
    /\ UNCHANGED <<opera_info, before, opera_used, buffer_used>>

\* Mutant: the buffer is filled from flash although an erase is queued.
MutBaseFromFlash(m, s) == flash[m][s]

\* What a new sector buffer holds around the data of the write.
BaseOf(m, s) == IF Mergeable(m, s) # {} THEN Erased ELSE flash[m][s]

\* norflash_api_write(.., true) with _w_opera_add, as a node of its own.
WriteAsyncNew(m, s, offs, len, v) ==
    LET i == FirstFree(Slots \ opera_used)
        b == FirstFree(Bufs \ buffer_used)
    IN
    /\ Mergeable(m, s) # {} =>
           node[FirstOf(Mergeable(m, s))].type = "ERASING"
    /\ Slots \ opera_used # {} /\ Bufs \ buffer_used # {}
    /\ opera_used' = opera_used \cup {i}
    /\ buffer_used' = buffer_used \cup {b}
    /\ Push(m, opera_info[m], i,
            [type |-> "WRITTING", addr |-> s, w_offs |-> offs, w_len |-> len,
             buff |-> b, data |-> Memcpy(BaseOf(m, s), offs, len, v),
             lock |-> FALSE])

\* A call that returns NORFLASH_API_BUFFER_FULL changes nothing.
WriteAsync(m, s, offs, len, v) ==
    /\ Running /\ Registered(m)
    /\ ValidRange(offs, len) /\ NorDiscipline(m, s, offs, len, v)
    /\ WriteAsyncMerge(m, s, offs, len, v) \/ WriteAsyncNew(m, s, offs, len, v)
    /\ contents' = SetSector(contents, m, s,
                             Memcpy(contents[m][s], offs, len, v))
    /\ UNCHANGED <<cur_opera_info, state, cur_mod, cur_mod_id, allowed_cb, sync, chip>>

-----------------------------------------------------------------------------
(* _opera_flush.                                                           *)

\* The node the call works on: the current one or the tail of the list.
CurNode(m) == IF cur_opera_info[m] # Null THEN cur_opera_info[m] ELSE Tail(m)

HasWork(m) == cur_opera_info[m] # Null \/ opera_info[m] # {}

\* The state check of _opera_flush and the suspend_state check of the hal
\* call that starts or resumes the operation.
HalAccepts(m) ==
    \/ state[m] = "IDLE" /\ suspend_state = "NONE"
    \/ /\ node[CurNode(m)].type = "WRITTING"
       /\ state[m] = "WRITTING_SUSPEND" /\ suspend_state = "PROGRAM_SUSPEND"
    \/ /\ node[CurNode(m)].type = "ERASING"
       /\ state[m] = "ERASE_SUSPEND" /\ suspend_state = "ERASE_SUSPEND"

\* The sector after the whole operation.
Applied(d, n) ==
    IF n.type = "WRITTING" THEN Program(d, n.w_offs, n.w_len, n.data)
    ELSE Erased

\* hal returns HAL_NORFLASH_OK, then _opera_del.
OperaCompletes(m) ==
    LET n  == CurNode(m)
        nd == node[n]
    IN
    /\ flash' = SetSector(flash, m, nd.addr, Applied(flash[m][nd.addr], nd))
    /\ suspend_state' = "NONE"
    /\ state' = [state EXCEPT ![m] = "IDLE"]
    /\ opera_info' = [opera_info EXCEPT ![m] =
                          {k \in opera_info[m] : <<k, n>> \in before}]
    /\ before' = Without({n})
    /\ opera_used' = opera_used \ {n}
    /\ buffer_used' = BuffersAfterFree({n})
    /\ node' = [node EXCEPT ![n] = FreeNode]
    /\ cur_opera_info' = [cur_opera_info EXCEPT ![m] = Null]

\* hal returns HAL_NORFLASH_SUSPENDED.  A suspended program has written some
\* leading pages; a suspended erase leaves any page old or erased.
OperaSuspends(m) ==
    LET n  == CurNode(m)
        nd == node[n]
    IN
    /\ Suspend
    /\ \/ /\ nd.type = "WRITTING"
          /\ \E k \in 0 .. nd.w_len :
                flash' = SetSector(flash, m, nd.addr,
                            Program(flash[m][nd.addr], nd.w_offs, k, nd.data))
          /\ state' = [state EXCEPT ![m] = "WRITTING_SUSPEND"]
          /\ suspend_state' = "PROGRAM_SUSPEND"
       \/ /\ nd.type = "ERASING"
          /\ \E P \in SUBSET Offs :
                flash' = SetSector(flash, m, nd.addr,
                            [x \in Offs |-> IF x \in P THEN {}
                                            ELSE flash[m][nd.addr][x]])
          /\ state' = [state EXCEPT ![m] = "ERASE_SUSPEND"]
          /\ suspend_state' = "ERASE_SUSPEND"
    /\ node' = [node EXCEPT ![n] = [nd EXCEPT !.lock = TRUE]]
    /\ cur_opera_info' = [cur_opera_info EXCEPT ![m] = n]
    /\ UNCHANGED <<opera_info, before, opera_used, buffer_used>>

opera_flush(m, nosuspend) ==
    /\ HalAccepts(m)    \* otherwise ASSERT(0), see NoAssert
    /\ OperaCompletes(m) \/ (~nosuspend /\ OperaSuspends(m))

-----------------------------------------------------------------------------
(* norflash_api_flush.                                                     *)

\* The search of _get_cur_mod tries the modules after cur_mod_id first.
Distance(m) == IF m > cur_mod_id THEN m - cur_mod_id
               ELSE m + ModNum - cur_mod_id

\* Mutant: the search does not come back to the module it started from.
MutSkipCurModId ==
    LET busy == {m \in Mods \ {cur_mod_id} : opera_info[m] # {}}
    IN  IF cur_mod # NoMod THEN cur_mod
        ELSE IF busy = {} THEN NoMod
        ELSE CHOOSE m \in busy : \A k \in busy : Distance(m) <= Distance(k)

get_cur_mod ==
    LET busy == {m \in Mods : Registered(m) /\ opera_info[m] # {}}
    IN  IF cur_mod # NoMod THEN cur_mod
        ELSE IF busy = {} THEN NoMod
        ELSE CHOOSE m \in busy : \A k \in busy : Distance(m) <= Distance(k)

\* The call returns 0 when flushing is not allowed and when there is no
\* module to flush, before or after it has worked on one.
FlushReturns0 == ~flush_is_allowed \/ get_cur_mod = NoMod

FlushIdle ==
    /\ Running
    /\ FlushReturns0
    /\ PollAllowedCb
    /\ UNCHANGED <<lists, cur_opera_info, state, cur_mod, cur_mod_id,
                   sync, chip, contents>>

FlushOpera(m) ==
    /\ Running
    /\ flush_is_allowed /\ get_cur_mod = m /\ m # NoMod
    /\ PollAllowedCb
    /\ cur_mod_id' = m
    /\ \/ /\ HasWork(m)
          /\ cur_mod' = m
          /\ opera_flush(m, FALSE)
       \/ /\ ~HasWork(m)
          /\ cur_mod' = NoMod
          /\ UNCHANGED <<lists, cur_opera_info, state, chip>>
    /\ UNCHANGED <<sync, contents>>

norflash_api_flush == FlushIdle \/ \E m \in Mods : FlushOpera(m)

-----------------------------------------------------------------------------
(* Synchronous norflash_api_erase and norflash_api_write.                  *)

\* The call takes the mutex and masks interrupts.
SyncCall(c) ==
    /\ Running /\ Registered(c.mod)
    /\ ~c.bresult
    /\ IF c.type = "WRITTING"
       THEN /\ ValidRange(c.w_offs, c.w_len)
            /\ NorDiscipline(c.mod, c.addr, c.w_offs, c.w_len, c.val)
       ELSE c.w_offs = 0 /\ c.w_len = 0 /\ c.val = {}
    /\ sync' = c
    /\ UNCHANGED <<lists, cur_opera_info, state, cur_mod, cur_mod_id,
                   allowed_cb, chip, contents>>

\* Mutant: the suspended operation of another module is not waited for.
MutIgnoreSuspended == FALSE

\* The first loop is not over: another module has a suspended operation.
OtherSuspended == /\ cur_mod # NoMod /\ cur_mod # sync.mod
                  /\ state[cur_mod] # "IDLE"

SyncTarget == IF OtherSuspended THEN cur_mod ELSE sync.mod

\* An iteration of either loop that calls _opera_flush(.., true).  The call
\* waits in the first loop for as long as flushing is not allowed.
SyncFlush ==
    LET m == SyncTarget IN
    /\ sync.mod # NoMod
    /\ flush_is_allowed
    /\ HasWork(m)
    /\ PollAllowedCb
    /\ opera_flush(m, TRUE)
    /\ sync' = [sync EXCEPT !.bresult = TRUE]
    /\ UNCHANGED <<cur_mod, cur_mod_id, contents>>

\* Mutant: the second loop flushes one operation only.
MutFlushOnce == ~OtherSuspended /\ (sync.bresult \/ ~HasWork(sync.mod))

\* The second loop ends when the module's list is empty, and also when
\* flushing is not allowed: its continue goes on to test bresult.
SyncLoopEnds ==
    /\ ~OtherSuspended
    /\ IF flush_is_allowed THEN ~HasWork(sync.mod) ELSE ~sync.bresult

\* The chip refuses the operation while another one is suspended, and the
\* call returns NORFLASH_API_ERR.
SyncOperate ==
    LET d == IF sync.type = "ERASING" THEN Erased
             ELSE Program(flash[sync.mod][sync.addr], sync.w_offs, sync.w_len,
                          [x \in Offs |-> sync.val])
        c == IF sync.type = "ERASING" THEN Erased
             ELSE Memcpy(contents[sync.mod][sync.addr], sync.w_offs,
                         sync.w_len, sync.val)
    IN
    /\ sync.mod # NoMod
    /\ SyncLoopEnds
    /\ PollAllowedCb
    /\ \/ /\ suspend_state = "NONE"
          /\ flash' = SetSector(flash, sync.mod, sync.addr, d)
          /\ contents' = SetSector(contents, sync.mod, sync.addr, c)
       \/ /\ suspend_state # "NONE"
          /\ UNCHANGED <<flash, contents>>
    /\ sync' = NoCall
    /\ UNCHANGED <<lists, cur_opera_info, state, cur_mod, cur_mod_id, suspend_state>>

-----------------------------------------------------------------------------
Client ==
    \/ \E m \in Mods : norflash_api_register(m)
    \/ \E m \in Mods, s \in Secs : EraseAsync(m, s)
    \/ \E m \in Mods, s \in Secs, o \in Offs, l \in 1 .. SecLen,
          v \in SUBSET Bits : WriteAsync(m, s, o, l, v)
    \/ \E c \in Call : SyncCall(c)
    \/ \E user \in Users : norflash_api_flush_disable(user)
    \/ \E user \in Users : norflash_api_flush_enable(user)

Next ==
    \/ Client
    \/ \E user \in Users : CpInitDone(user)
    \/ norflash_api_flush
    \/ SyncFlush
    \/ SyncOperate

Spec == Init /\ [][Next]_vars

-----------------------------------------------------------------------------
(* Properties.                                                             *)

\* A list is a chain: its nodes have one order, and no node is linked to a
\* node outside its list.
Chains ==
    /\ \A n, k \in Slots : <<n, k>> \in before =>
           n # k /\ \E m \in Mods : n \in opera_info[m] /\ k \in opera_info[m]
    /\ \A m \in Mods : \A n, k \in opera_info[m] :
           n # k => (<<n, k>> \in before <=> <<k, n>> \notin before)
    /\ \A n, k, j \in Slots :
           <<n, k>> \in before /\ <<k, j>> \in before => <<n, j>> \in before

\* Neither pool leaks or shares an entry: exactly the nodes in the lists are
\* in use, each by one module, and exactly the writes own a buffer, each its
\* own (_norflash_api_malloc and _norflash_api_free in _e_opera_add,
\* _w_opera_add and _opera_del).
PoolsExact ==
    /\ opera_used = UNION {opera_info[m] : m \in Mods}
    /\ \A m, k \in Mods : m # k => opera_info[m] \cap opera_info[k] = {}
    /\ \A n \in opera_used : node[n].type = "WRITTING" <=> node[n].buff # Null
    /\ buffer_used = {node[n].buff : n \in opera_used} \ {Null}
    /\ \A n, k \in opera_used :
           n # k /\ node[n].buff # Null => node[n].buff # node[k].buff

\* At most one operation is suspended in the chip.  It is the locked tail of
\* the list of the module that cur_mod keeps, its module remembers which
\* kind it is, and hal_norflash.c agrees; nothing else is locked.
OneSuspended ==
    /\ \A m \in Mods :
           IF state[m] \in {"UNINITED", "IDLE"} THEN cur_opera_info[m] = Null
           ELSE /\ cur_mod = m
                /\ cur_opera_info[m] \in opera_info[m]
                /\ \A k \in opera_info[m] \ {cur_opera_info[m]} :
                       <<k, cur_opera_info[m]>> \in before
                /\ node[cur_opera_info[m]].lock
                /\ <<node[cur_opera_info[m]].type, state[m], suspend_state>> \in
                      {<<"WRITTING", "WRITTING_SUSPEND", "PROGRAM_SUSPEND">>,
                       <<"ERASING", "ERASE_SUSPEND", "ERASE_SUSPEND">>}
    /\ \A n \in Slots : node[n].lock => \E m \in Mods : cur_opera_info[m] = n
    /\ suspend_state # "NONE" => \E m \in Mods : cur_opera_info[m] # Null

\* No ASSERT of _opera_flush fails: whenever it is called with an operation
\* to process, the module's state fits it and the hal does not answer BAD_OP.
NoAssert ==
    \A m \in Mods :
        /\ HasWork(m) /\ flush_is_allowed
        /\ IF Running THEN get_cur_mod = m ELSE SyncTarget = m
        => HalAccepts(m)

\* When a module's list is empty its flash holds what its calls wrote.
DrainedIsContents ==
    \A m \in Mods : opera_info[m] = {} => flash[m] = contents[m]

\* norflash_api_read returns what the calls accepted so far amount to, at
\* any moment: queued, being programmed or done.
ReadYourWrites ==
    \A m \in Mods, s \in Secs : opera_read(m, s) = contents[m][s]

\* "flush all of cur module opera": a synchronous erase or write reaches the
\* chip after everything the module queued before it.
SyncAfterQueue ==
    [][SyncOperate => opera_info[sync.mod] = {}]_vars

\* The flash as a reader sees it is a FlashStore: an accepted write or erase
\* changes it at once and as a whole, and flushing never does.
Visible == [m \in Mods |-> [s \in Secs |-> opera_read(m, s)]]

Store == INSTANCE FlashStore WITH contents <- Visible

StoreSpec == Store!Spec

=============================================================================
