--------------------------- MODULE NorflashThread ---------------------------
(***************************************************************************)
(* The mailbox that wakes the norflash thread, services/norflash_api/      *)
(* norflash_api.cpp.                                                       *)
(*                                                                         *)
(* Any thread may call norflash_api_hook_activate, and so does an          *)
(* asynchronous erase or write, which a hook may run in the norflash       *)
(* thread itself.  A message takes an                                      *)
(* entry of a memory pool and then a place in a message queue; both have   *)
(* NORFLASH_API_MAILBOX_MAX.  A counter beside them, a uint8_t that no     *)
(* lock protects, is tested first, so that a full mailbox refuses quietly. *)
(*                                                                         *)
(* One core runs the thread of the highest priority that is ready; the     *)
(* norflash thread has osPriorityLow, and threads of equal priority share  *)
(* the core in time slices.  No other thread has osPriorityLow.  An        *)
(* increment is a load and a store.                                        *)
(***************************************************************************)
EXTENDS Naturals, FiniteSets

CONSTANTS
    Putters,        \* the other threads that call norflash_api_hook_activate
    osPriority      \* the priorities of all

NORFLASH_API_MAILBOX_MAX == 2
UINT8 == 256
Norflash == "norflash_api_thread"

Threads == Putters \cup {Norflash}

ASSUME ThreadAssumption ==
    /\ IsFiniteSet(Putters) /\ Norflash \notin Putters
    /\ osPriority \in [Threads -> Nat]
    /\ \A p \in Putters : osPriority[Norflash] < osPriority[p]

VARIABLES
    mailbox_cnt,    \* _norflash_api_mailbox_cnt
    pool,           \* entries of mail_box_mp_id in use
    queue,          \* messages in mail_box_mq_id
    thread,         \* where the norflash thread is
    putter,         \* where each thread is in _norflash_api_mailbox_put
    reg,            \* the value of the counter a thread has loaded
    raced           \* history: an update of the counter got lost

vars == <<mailbox_cnt, pool, queue, thread, putter, reg, raced>>

ThreadTypeOK ==
    /\ mailbox_cnt \in 0 .. UINT8 - 1
    /\ pool \in 0 .. NORFLASH_API_MAILBOX_MAX
    /\ queue \in 0 .. NORFLASH_API_MAILBOX_MAX
    /\ thread \in {"wait", "hook", "free", "load", "store"}
    /\ putter \in [Threads -> {"idle", "alloc", "put", "load", "store"}]
    /\ reg \in [Threads -> 0 .. UINT8 - 1]
    /\ raced \in BOOLEAN

\* _norflash_api_mailbox_init
Init ==
    /\ mailbox_cnt = 0
    /\ pool = 0 /\ queue = 0
    /\ thread = "wait"
    /\ putter = [t \in Threads |-> "idle"]
    /\ reg = [t \in Threads |-> 0]
    /\ raced = FALSE

\* No thread of a higher priority is in the middle of a put; it does not
\* block there.
Runs(prio) ==
    \A q \in Threads : putter[q] # "idle" => osPriority[q] <= prio

-----------------------------------------------------------------------------
(* _norflash_api_mailbox_put.                                              *)

At(p, here, next) ==
    /\ putter[p] = here
    /\ Runs(osPriority[p])
    /\ putter' = [putter EXCEPT ![p] = next]

\* A full mailbox refuses the message, and the call returns 0 all the same.
PutCheck(p) ==
    /\ At(p, "idle", IF mailbox_cnt >= NORFLASH_API_MAILBOX_MAX THEN "idle"
                     ELSE "alloc")
    /\ UNCHANGED <<mailbox_cnt, pool, queue, thread, reg, raced>>

\* Mutant: the message is counted before it is in the queue.
MutCountFirst(p) ==
    /\ At(p, "alloc", "put")
    /\ pool < NORFLASH_API_MAILBOX_MAX
    /\ pool' = pool + 1
    /\ mailbox_cnt' = mailbox_cnt + 1
    /\ UNCHANGED <<queue, thread, reg, raced>>

\* Mutant: an entry is taken without looking for a free one.
MutAllocUnchecked(p) ==
    /\ At(p, "alloc", "put")
    /\ pool' = pool + 1
    /\ UNCHANGED <<mailbox_cnt, queue, thread, reg, raced>>

\* osMemoryPoolAlloc; without an entry the ASSERT stops the system.
PutAlloc(p) ==
    /\ At(p, "alloc", "put")
    /\ pool < NORFLASH_API_MAILBOX_MAX
    /\ pool' = pool + 1
    /\ UNCHANGED <<mailbox_cnt, queue, thread, reg, raced>>

\* osMessageQueuePut; a full queue would keep the entry.
PutMessage(p) ==
    /\ IF queue < NORFLASH_API_MAILBOX_MAX
       THEN At(p, "put", "load") /\ queue' = queue + 1
       ELSE At(p, "put", "idle") /\ queue' = queue
    /\ UNCHANGED <<mailbox_cnt, pool, thread, reg, raced>>

LoadCnt(p) ==
    /\ At(p, "load", "store")
    /\ reg' = [reg EXCEPT ![p] = mailbox_cnt]
    /\ UNCHANGED <<mailbox_cnt, pool, queue, thread, raced>>

IncrementCnt(p) ==
    /\ At(p, "store", "idle")
    /\ mailbox_cnt' = (reg[p] + 1) % UINT8
    /\ raced' = (raced \/ reg[p] # mailbox_cnt)
    /\ UNCHANGED <<pool, queue, thread, reg>>

\* The norflash thread calls it only while it runs the hooks.
norflash_api_hook_activate(p) ==
    /\ p = Norflash => thread = "hook"
    /\ \/ PutCheck(p)
       \/ PutAlloc(p)
       \/ PutMessage(p)
       \/ LoadCnt(p)
       \/ IncrementCnt(p)

-----------------------------------------------------------------------------
(* _norflash_api_thread.                                                   *)

ThreadAt(here, next) ==
    /\ thread = here
    /\ Runs(osPriority[Norflash])
    /\ putter[Norflash] = "idle"
    /\ thread' = next

\* _norflash_api_mailbox_get
MailboxGet ==
    /\ ThreadAt("wait", "hook")
    /\ queue > 0
    /\ queue' = queue - 1
    /\ UNCHANGED <<mailbox_cnt, pool, putter, reg, raced>>

\* _norflash_api_exec_flush_hook
ExecFlushHook ==
    /\ ThreadAt("hook", "free")
    /\ UNCHANGED <<mailbox_cnt, pool, queue, putter, reg, raced>>

\* Mutant: the entry is not given back.
MutNoFree ==
    /\ ThreadAt("free", "load")
    /\ UNCHANGED <<mailbox_cnt, pool, queue, putter, reg, raced>>

\* _norflash_api_mailbox_free
MailboxFree ==
    /\ ThreadAt("free", "load")
    /\ pool' = pool - 1
    /\ UNCHANGED <<mailbox_cnt, queue, putter, reg, raced>>

FreeLoadCnt ==
    /\ ThreadAt("load", "store")
    /\ reg' = [reg EXCEPT ![Norflash] = mailbox_cnt]
    /\ UNCHANGED <<mailbox_cnt, pool, queue, putter, raced>>

DecrementCnt ==
    /\ ThreadAt("store", "wait")
    /\ mailbox_cnt' = (reg[Norflash] + UINT8 - 1) % UINT8
    /\ raced' = (raced \/ reg[Norflash] # mailbox_cnt)
    /\ UNCHANGED <<pool, queue, putter, reg>>

norflash_api_thread ==
    \/ MailboxGet
    \/ ExecFlushHook
    \/ MailboxFree
    \/ FreeLoadCnt
    \/ DecrementCnt

Next ==
    \/ norflash_api_thread
    \/ \E p \in Threads : norflash_api_hook_activate(p)

Spec == Init /\ [][Next]_vars

-----------------------------------------------------------------------------
(* Properties.                                                             *)

\* Every pool entry in use is a message: one in the queue, the one whose
\* hook round runs, or one a thread is about to queue.  None is leaked, and
\* the queue always has a place for an entry that was allocated.
PoolIsMessages ==
    pool = queue + (IF thread \in {"hook", "free"} THEN 1 ELSE 0)
           + Cardinality({p \in Threads : putter[p] = "put"})

\* A wake-up that _norflash_api_mailbox_put refuses loses nothing: a message
\* is still in the queue, so a whole hook round is still to come.  The one
\* exception is a counter that has wrapped, above the maximum; before that an
\* update of it got lost in a race.
RefusedMeansQueued ==
    mailbox_cnt >= NORFLASH_API_MAILBOX_MAX =>
        \/ queue > 0
        \/ raced /\ mailbox_cnt > NORFLASH_API_MAILBOX_MAX

\* The ASSERT "osMailAlloc error" of _norflash_api_mailbox_put: a thread that
\* has found room in the mailbox finds an entry in the pool.
MailAllocSucceeds ==
    \A p \in Threads : putter[p] = "alloc" /\ Runs(osPriority[p]) =>
        pool < NORFLASH_API_MAILBOX_MAX

=============================================================================
