------------------------ MODULE NorflashThreadProofs ------------------------
(***************************************************************************)
(* Proofs about NorflashThread for any threads that wake the norflash      *)
(* thread, with any priorities above its own.                              *)
(***************************************************************************)
EXTENDS NorflashThread, FiniteSetTheorems, TLAPS

\* The threads that hold a pool entry they have not queued.
Putting == {p \in Threads : putter[p] = "put"}

IInv == ThreadTypeOK /\ PoolIsMessages

LEMMA PuttingIsFinite == IsFiniteSet(Putting)
BY ThreadAssumption, FS_Subset, FS_AddElement DEF Putting, Threads

\* A thread that comes to "put", leaves it or moves elsewhere changes the
\* number of those that are there accordingly.
LEMMA PuttingChanges ==
    ASSUME ThreadTypeOK, NEW p \in Threads,
           NEW next \in {"idle", "alloc", "put", "load", "store"},
           putter' = [putter EXCEPT ![p] = next]
    PROVE  /\ Cardinality(Putting) \in Nat
           /\ putter[p] # "put" /\ next = "put" =>
                  Cardinality(Putting') = Cardinality(Putting) + 1
           /\ putter[p] = "put" /\ next # "put" =>
                  /\ Cardinality(Putting) > 0
                  /\ Cardinality(Putting') = Cardinality(Putting) - 1
           /\ putter[p] # "put" /\ next # "put" => Putting' = Putting
<1>1. \A q \in Threads : putter'[q] = IF q = p THEN next ELSE putter[q]
  BY DEF ThreadTypeOK
<1>2. Cardinality(Putting) \in Nat
  BY PuttingIsFinite, FS_CardinalityType
<1>3. ASSUME putter[p] # "put", next = "put"
      PROVE  Cardinality(Putting') = Cardinality(Putting) + 1
  <2>1. Putting' = Putting \cup {p} /\ p \notin Putting
    BY <1>1, <1>3 DEF Putting
  <2> QED BY <2>1, PuttingIsFinite, FS_AddElement
<1>4. ASSUME putter[p] = "put", next # "put"
      PROVE  /\ Cardinality(Putting) > 0
             /\ Cardinality(Putting') = Cardinality(Putting) - 1
  <2>1. Putting' = Putting \ {p} /\ p \in Putting
    BY <1>1, <1>4 DEF Putting
  <2>2. Cardinality(Putting) # 0
    BY <2>1, PuttingIsFinite, FS_EmptySet
  <2>3. Cardinality(Putting') = Cardinality(Putting) - 1
    BY <2>1, PuttingIsFinite, FS_RemoveElement
  <2> QED BY <1>2, <2>2, <2>3
<1>5. ASSUME putter[p] # "put", next # "put"
      PROVE  Putting' = Putting
  BY <1>1, <1>5 DEF Putting
<1> QED BY <1>2, <1>3, <1>4, <1>5

\* PoolIsMessages in terms of Putting.
LEMMA PoolCount ==
    PoolIsMessages <=>
        pool = queue + (IF thread \in {"hook", "free"} THEN 1 ELSE 0)
               + Cardinality(Putting)
BY DEF PoolIsMessages, Putting

\* Nothing is in the mailbox after _norflash_api_mailbox_init.
THEOREM InitIInv == Init => IInv
<1> SUFFICES ASSUME Init PROVE IInv
  OBVIOUS
<1>1. ThreadTypeOK
  <2>1. raced \in BOOLEAN
    BY Zenon DEF Init
  <2> QED BY <2>1 DEF Init, ThreadTypeOK, UINT8, NORFLASH_API_MAILBOX_MAX
<1>2. Putting = {}
  BY DEF Init, Putting
<1>3. PoolIsMessages
  BY <1>2, PoolCount, FS_EmptySet DEF Init
<1> QED BY <1>1, <1>3 DEF IInv

-----------------------------------------------------------------------------
(* The steps of a put.                                                     *)

LEMMA PutterKeeps ==
    ASSUME IInv, NEW p \in Threads, norflash_api_hook_activate(p)
    PROVE  IInv'
<1> USE DEF NORFLASH_API_MAILBOX_MAX, UINT8
<1>0. /\ ThreadTypeOK /\ PoolIsMessages
      /\ Cardinality(Putting) \in Nat
      /\ pool = queue + (IF thread \in {"hook", "free"} THEN 1 ELSE 0)
                + Cardinality(Putting)
  BY PoolCount, PuttingIsFinite, FS_CardinalityType DEF IInv
<1>1. CASE PutCheck(p)
  <2> DEFINE next == IF mailbox_cnt >= 2 THEN "idle" ELSE "alloc"
  <2>1. /\ putter[p] = "idle" /\ putter' = [putter EXCEPT ![p] = next]
        /\ UNCHANGED <<mailbox_cnt, pool, queue, thread, reg, raced>>
    BY <1>1 DEF PutCheck, At
  <2>2. Putting' = Putting
    BY <1>0, <2>1, PuttingChanges
  <2>3. ThreadTypeOK'
    BY <1>0, <2>1 DEF ThreadTypeOK
  <2> QED BY <1>0, <2>1, <2>2, <2>3, PoolCount DEF IInv, PoolIsMessages, Putting
<1>2. CASE PutAlloc(p)
  <2>1. /\ putter[p] = "alloc" /\ putter' = [putter EXCEPT ![p] = "put"]
        /\ pool < 2 /\ pool' = pool + 1
        /\ UNCHANGED <<mailbox_cnt, queue, thread, reg, raced>>
    BY <1>2 DEF PutAlloc, At
  <2>2. Cardinality(Putting') = Cardinality(Putting) + 1
    BY <1>0, <2>1, PuttingChanges
  <2>3. ThreadTypeOK'
    BY <1>0, <2>1 DEF ThreadTypeOK
  <2>4. PoolIsMessages'
    BY <1>0, <2>1, <2>2 DEF PoolIsMessages, Putting, ThreadTypeOK
  <2> QED BY <2>3, <2>4 DEF IInv
<1>3. CASE PutMessage(p)
  <2>1. /\ putter[p] = "put"
        /\ Cardinality(Putting) > 0
    BY <1>0, <1>3, PuttingChanges DEF PutMessage, At
  <2>2. queue < 2
    BY <1>0, <2>1 DEF ThreadTypeOK
  <2>3. /\ putter' = [putter EXCEPT ![p] = "load"] /\ queue' = queue + 1
        /\ UNCHANGED <<mailbox_cnt, pool, thread, reg, raced>>
    BY <1>3, <2>2 DEF PutMessage, At
  <2>4. Cardinality(Putting') = Cardinality(Putting) - 1
    BY <1>0, <2>1, <2>3, PuttingChanges
  <2>5. ThreadTypeOK'
    BY <1>0, <2>2, <2>3 DEF ThreadTypeOK
  <2>6. PoolIsMessages'
    BY <1>0, <2>1, <2>3, <2>4 DEF PoolIsMessages, Putting, ThreadTypeOK
  <2> QED BY <2>5, <2>6 DEF IInv
<1>4. CASE LoadCnt(p)
  <2>1. /\ putter[p] = "load" /\ putter' = [putter EXCEPT ![p] = "store"]
        /\ reg' = [reg EXCEPT ![p] = mailbox_cnt]
        /\ UNCHANGED <<mailbox_cnt, pool, queue, thread, raced>>
    BY <1>4 DEF LoadCnt, At
  <2>2. Putting' = Putting
    BY <1>0, <2>1, PuttingChanges
  <2>3. ThreadTypeOK'
    BY <1>0, <2>1 DEF ThreadTypeOK
  <2> QED BY <1>0, <2>1, <2>2, <2>3 DEF IInv, PoolIsMessages, Putting
<1>5. CASE IncrementCnt(p)
  <2>1. /\ putter[p] = "store" /\ putter' = [putter EXCEPT ![p] = "idle"]
        /\ mailbox_cnt' = (reg[p] + 1) % 256
        /\ raced' = (raced \/ reg[p] # mailbox_cnt)
        /\ UNCHANGED <<pool, queue, thread, reg>>
    BY <1>5 DEF IncrementCnt, At
  <2>2. Putting' = Putting
    BY <1>0, <2>1, PuttingChanges
  <2>3. reg[p] \in 0 .. 255
    BY <1>0 DEF ThreadTypeOK
  <2>4. mailbox_cnt' \in 0 .. 255
    BY <2>1, <2>3
  <2>5. ThreadTypeOK'
    BY <1>0, <2>1, <2>4 DEF ThreadTypeOK
  <2> QED BY <1>0, <2>1, <2>2, <2>5 DEF IInv, PoolIsMessages, Putting
<1> QED BY <1>1, <1>2, <1>3, <1>4, <1>5 DEF norflash_api_hook_activate

-----------------------------------------------------------------------------
(* The steps of the norflash thread.                                       *)

LEMMA ThreadKeeps == IInv /\ norflash_api_thread => IInv'
<1> SUFFICES ASSUME IInv, norflash_api_thread PROVE IInv'
  OBVIOUS
<1> USE DEF NORFLASH_API_MAILBOX_MAX, UINT8
<1>0. /\ ThreadTypeOK /\ PoolIsMessages
      /\ Cardinality(Putting) \in Nat
      /\ pool = queue + (IF thread \in {"hook", "free"} THEN 1 ELSE 0)
                + Cardinality(Putting)
      /\ reg[Norflash] \in 0 .. 255
  BY PoolCount, PuttingIsFinite, FS_CardinalityType DEF IInv, ThreadTypeOK, Threads
<1>1. UNCHANGED putter /\ Putting' = Putting
  BY DEF norflash_api_thread, MailboxGet, ExecFlushHook, MailboxFree,
         FreeLoadCnt, DecrementCnt, Putting
<1>2. ThreadTypeOK'
  <2>1. CASE MailboxGet
    BY <1>0, <2>1 DEF MailboxGet, ThreadAt, ThreadTypeOK
  <2>2. CASE ExecFlushHook
    BY <1>0, <2>2 DEF ExecFlushHook, ThreadAt, ThreadTypeOK
  <2>3. CASE MailboxFree
    BY <1>0, <2>3 DEF MailboxFree, ThreadAt, ThreadTypeOK
  <2>4. CASE FreeLoadCnt
    BY <1>0, <2>4 DEF FreeLoadCnt, ThreadAt, ThreadTypeOK
  <2>5. CASE DecrementCnt
    <3>1. (reg[Norflash] + 256 - 1) % 256 \in 0 .. 255
      BY <1>0
    <3> QED BY <1>0, <2>5, <3>1 DEF DecrementCnt, ThreadAt, ThreadTypeOK
  <2> QED BY <2>1, <2>2, <2>3, <2>4, <2>5 DEF norflash_api_thread
<1>3. pool' = queue' + (IF thread' \in {"hook", "free"} THEN 1 ELSE 0)
              + Cardinality(Putting)
  <2>1. CASE MailboxGet
    BY <1>0, <2>1 DEF MailboxGet, ThreadAt, ThreadTypeOK
  <2>2. CASE ExecFlushHook
    BY <1>0, <2>2 DEF ExecFlushHook, ThreadAt
  <2>3. CASE MailboxFree
    BY <1>0, <2>3 DEF MailboxFree, ThreadAt, ThreadTypeOK
  <2>4. CASE FreeLoadCnt
    BY <1>0, <2>4 DEF FreeLoadCnt, ThreadAt
  <2>5. CASE DecrementCnt
    BY <1>0, <2>5 DEF DecrementCnt, ThreadAt
  <2> QED BY <2>1, <2>2, <2>3, <2>4, <2>5 DEF norflash_api_thread
<1>4. PoolIsMessages'
  BY <1>1, <1>3 DEF PoolIsMessages, Putting
<1> QED BY <1>2, <1>4 DEF IInv

\* Every step of any thread preserves the invariant.
THEOREM NextIInv == IInv /\ [Next]_vars => IInv'
<1> SUFFICES ASSUME IInv, [Next]_vars PROVE IInv'
  OBVIOUS
<1>1. CASE UNCHANGED vars
  BY <1>1 DEF vars, IInv, ThreadTypeOK, PoolIsMessages
<1> QED BY <1>1, PutterKeeps, ThreadKeeps DEF Next

\* The types and the accounting of the pool hold in every reachable state.
THEOREM Invariance == Spec => []IInv
BY InitIInv, NextIInv, PTL DEF Spec

\* The counter keeps to its uint8_t, and neither the pool nor the queue ever
\* holds more than NORFLASH_API_MAILBOX_MAX.
THEOREM TypesHold == Spec => []ThreadTypeOK
<1>1. IInv => ThreadTypeOK
  BY DEF IInv
<1> QED BY <1>1, Invariance, PTL

\* No pool entry of the mailbox is ever leaked, and an entry that was
\* allocated always finds a place in the queue, whatever the unlocked
\* counter says: _norflash_api_mailbox_put and _norflash_api_mailbox_free.
THEOREM NoMessageLost == Spec => []PoolIsMessages
<1>1. IInv => PoolIsMessages
  BY DEF IInv
<1> QED BY <1>1, Invariance, PTL

-----------------------------------------------------------------------------
(* The counter.                                                            *)

\* The threads whose message is queued and not counted yet.
Counting == {p \in Threads : putter[p] \in {"load", "store"}}

\* The messages the norflash thread has not counted down yet.
Pending == queue + (IF thread = "wait" THEN 0 ELSE 1)

Counted == Pending - Cardinality(Counting)

\* Increments get lost, decrements do not: the counter, and each copy of it
\* that will be stored, stays below the messages it counts...
CountsLess ==
    /\ Cardinality(Counting) <= queue
    /\ mailbox_cnt <= Counted
    /\ \A p \in Threads :
           putter[p] = "store" \/ (p = Norflash /\ thread = "store") =>
               reg[p] <= Counted
    /\ ~raced => mailbox_cnt = Counted

\* ... until it wraps below 0; then it refuses every message for good.
Wrapped ==
    /\ raced
    /\ \A p \in Threads : putter[p] = "idle"
    /\ mailbox_cnt >= UINT8 - 3 + Pending
    /\ thread = "store" => reg[Norflash] = mailbox_cnt

CountInv == CountsLess \/ Wrapped

LEMMA CountingFacts ==
    IsFiniteSet(Counting) /\ Cardinality(Counting) \in Nat
BY ThreadAssumption, FS_Subset, FS_AddElement, FS_CardinalityType
   DEF Counting, Threads

\* A thread that begins to count its message, or has done so.
LEMMA CountingChanges ==
    ASSUME ThreadTypeOK, NEW p \in Threads,
           NEW next \in {"idle", "alloc", "put", "load", "store"},
           putter' = [putter EXCEPT ![p] = next]
    PROVE  /\ putter[p] = "put" /\ next = "load" =>
                  Cardinality(Counting') = Cardinality(Counting) + 1
           /\ putter[p] = "store" /\ next = "idle" =>
                  /\ Cardinality(Counting) > 0
                  /\ Cardinality(Counting') = Cardinality(Counting) - 1
           /\ (putter[p] \in {"load", "store"} <=> next \in {"load", "store"}) =>
                  Counting' = Counting
<1>1. \A q \in Threads : putter'[q] = IF q = p THEN next ELSE putter[q]
  BY DEF ThreadTypeOK
<1>2. ASSUME putter[p] = "put", next = "load"
      PROVE  Cardinality(Counting') = Cardinality(Counting) + 1
  <2>1. Counting' = Counting \cup {p} /\ p \notin Counting
    BY <1>1, <1>2 DEF Counting
  <2> QED BY <2>1, CountingFacts, FS_AddElement
<1>3. ASSUME putter[p] = "store", next = "idle"
      PROVE  /\ Cardinality(Counting) > 0
             /\ Cardinality(Counting') = Cardinality(Counting) - 1
  <2>1. Counting' = Counting \ {p} /\ p \in Counting
    BY <1>1, <1>3 DEF Counting
  <2>2. Cardinality(Counting) # 0
    BY <2>1, CountingFacts, FS_EmptySet
  <2>3. Cardinality(Counting') = Cardinality(Counting) - 1
    BY <2>1, CountingFacts, FS_RemoveElement
  <2> QED BY <2>2, <2>3, CountingFacts
<1>4. ASSUME putter[p] \in {"load", "store"} <=> next \in {"load", "store"}
      PROVE  Counting' = Counting
  BY <1>1, <1>4 DEF Counting
<1> QED BY <1>2, <1>3, <1>4

LEMMA InitCount == Init => CountInv
<1> SUFFICES ASSUME Init PROVE CountsLess
  BY DEF CountInv
<1>1. Counting = {}
  BY DEF Init, Counting
<1> QED BY <1>1, FS_EmptySet DEF Init, CountsLess, Counted, Pending, Norflash

LEMMA PutterCounts ==
    ASSUME IInv, CountInv, NEW p \in Threads, norflash_api_hook_activate(p)
    PROVE  CountInv'
<1> USE DEF NORFLASH_API_MAILBOX_MAX, UINT8
<1>0. /\ ThreadTypeOK /\ Cardinality(Counting) \in Nat
      /\ mailbox_cnt \in 0 .. 255 /\ queue \in 0 .. 2
      /\ \A q \in Threads : reg[q] \in 0 .. 255
      /\ p = Norflash => thread = "hook"
  BY CountingFacts DEF IInv, ThreadTypeOK, norflash_api_hook_activate
<1>1. CASE Wrapped
  <2>1. PutCheck(p)
    BY <1>1 DEF norflash_api_hook_activate, PutAlloc, PutMessage, LoadCnt,
                IncrementCnt, At, Wrapped
  <2>2. mailbox_cnt >= 2
    BY <1>0, <1>1 DEF Wrapped, Pending
  <2>3. putter' = [putter EXCEPT ![p] = "idle"]
        /\ UNCHANGED <<mailbox_cnt, queue, thread, reg, raced>>
    BY <2>1, <2>2 DEF PutCheck, At
  <2>4. \A q \in Threads : putter'[q] = "idle"
    BY <1>0, <1>1, <2>3 DEF Wrapped, ThreadTypeOK
  <2> QED BY <1>1, <2>3, <2>4 DEF CountInv, Wrapped, Pending
<1>2. CASE CountsLess /\ (PutCheck(p) \/ PutAlloc(p))
  <2>1. PICK next \in {"idle", "alloc", "put"} :
          putter' = [putter EXCEPT ![p] = next]
    BY <1>2 DEF PutCheck, PutAlloc, At
  <2>2. /\ putter[p] \in {"idle", "alloc"}
        /\ UNCHANGED <<mailbox_cnt, queue, thread, reg, raced>>
    BY <1>2 DEF PutCheck, PutAlloc, At
  <2>3. Counting' = Counting
    BY <1>0, <2>1, <2>2, CountingChanges
  <2>4. \A q \in Threads : putter'[q] = "store" => putter[q] = "store"
    BY <1>0, <2>1 DEF ThreadTypeOK
  <2> QED BY <1>2, <2>2, <2>3, <2>4 DEF CountInv, CountsLess, Counted, Pending
<1>3. CASE CountsLess /\ PutMessage(p)
  <2>0. putter[p] = "put" /\ Cardinality(Putting) > 0
    BY <1>0, <1>3, PuttingChanges DEF PutMessage, At
  <2>1. queue < 2
    BY <1>0, <2>0, PoolCount, PuttingIsFinite, FS_CardinalityType
       DEF IInv, ThreadTypeOK
  <2>2. /\ putter' = [putter EXCEPT ![p] = "load"] /\ queue' = queue + 1
        /\ UNCHANGED <<mailbox_cnt, thread, reg, raced>>
    BY <1>3, <2>1 DEF PutMessage, At
  <2>3. Cardinality(Counting') = Cardinality(Counting) + 1
    BY <1>0, <2>0, <2>2, CountingChanges
  <2>4. Counted' = Counted
    BY <1>0, <2>2, <2>3 DEF Counted, Pending
  <2>5. \A q \in Threads : putter'[q] = "store" => putter[q] = "store"
    BY <1>0, <2>2 DEF ThreadTypeOK
  <2> QED BY <1>0, <1>3, <2>2, <2>3, <2>4, <2>5 DEF CountInv, CountsLess
<1>4. CASE CountsLess /\ LoadCnt(p)
  <2>1. /\ putter[p] = "load" /\ putter' = [putter EXCEPT ![p] = "store"]
        /\ reg' = [reg EXCEPT ![p] = mailbox_cnt]
        /\ UNCHANGED <<mailbox_cnt, queue, thread, raced>>
    BY <1>4 DEF LoadCnt, At
  <2>2. Counting' = Counting
    BY <1>0, <2>1, CountingChanges
  <2>3. \A q \in Threads :
          reg'[q] = IF q = p THEN mailbox_cnt ELSE reg[q]
    BY <1>0, <2>1 DEF ThreadTypeOK
  <2>4. \A q \in Threads : q # p => putter'[q] = putter[q]
    BY <1>0, <2>1 DEF ThreadTypeOK
  <2> QED BY <1>4, <2>1, <2>2, <2>3, <2>4 DEF CountInv, CountsLess, Counted, Pending
<1>5. CASE CountsLess /\ IncrementCnt(p)
  <2>1. /\ putter[p] = "store" /\ putter' = [putter EXCEPT ![p] = "idle"]
        /\ mailbox_cnt' = (reg[p] + 1) % 256
        /\ raced' = (raced \/ reg[p] # mailbox_cnt)
        /\ UNCHANGED <<queue, thread, reg>>
    BY <1>5 DEF IncrementCnt, At
  <2>2. /\ Cardinality(Counting) > 0
        /\ Cardinality(Counting') = Cardinality(Counting) - 1
    BY <1>0, <2>1, CountingChanges
  <2>3. Counted \in Int /\ Counted' = Counted + 1
    BY <1>0, <2>1, <2>2 DEF Counted, Pending
  <2>4. reg[p] <= Counted /\ Counted <= 3
    BY <1>0, <1>5, <2>1 DEF CountsLess, Counted, Pending
  <2>5. mailbox_cnt' <= Counted'
    <3>1. reg[p] + 1 \in 0 .. 4
      BY <1>0, <2>3, <2>4
    <3>2. (reg[p] + 1) % 256 = reg[p] + 1
      BY <3>1
    <3> QED BY <2>1, <2>3, <2>4, <3>2, <1>0
  <2>6. \A q \in Threads : putter'[q] = "store" => putter[q] = "store"
    BY <1>0, <2>1 DEF ThreadTypeOK
  <2>7. \A q \in Threads : reg[q] <= Counted => reg'[q] <= Counted'
    BY <1>0, <2>1, <2>3
  <2>8. Cardinality(Counting') <= queue'
    BY <1>0, <1>5, <2>1, <2>2 DEF CountsLess
  <2>9. ~raced' => ~raced /\ reg[p] = mailbox_cnt
    BY <2>1
  <2>10. ~raced => mailbox_cnt = Counted
    BY <1>5 DEF CountsLess
  <2>11. ~raced' => mailbox_cnt' = Counted'
    <3>1. reg[p] + 1 \in 0 .. 4
      BY <1>0, <2>3, <2>4
    <3>2. (reg[p] + 1) % 256 = reg[p] + 1
      BY <3>1
    <3> QED BY <2>1, <2>3, <2>9, <2>10, <3>2
  <2>12. \A q \in Threads :
          putter'[q] = "store" \/ (q = Norflash /\ thread' = "store") =>
              reg'[q] <= Counted'
    BY <1>5, <2>1, <2>6, <2>7 DEF CountsLess
  <2> QED BY <2>5, <2>8, <2>11, <2>12 DEF CountInv, CountsLess
<1> QED BY <1>1, <1>2, <1>3, <1>4, <1>5
        DEF CountInv, norflash_api_hook_activate

\* The norflash thread runs only when no thread is in the middle of a put.
LEMMA NobodyPuts ==
    ASSUME ThreadTypeOK, Runs(osPriority[Norflash]), putter[Norflash] = "idle"
    PROVE  (\A p \in Threads : putter[p] = "idle") /\ Cardinality(Counting) = 0
<1>1. \A p \in Threads : putter[p] = "idle"
  <2> SUFFICES ASSUME NEW p \in Putters, putter[p] # "idle" PROVE FALSE
    BY DEF Threads
  <2>1. osPriority[p] <= osPriority[Norflash]
    BY DEF Runs, Threads
  <2>2. osPriority[p] \in Nat /\ osPriority[Norflash] \in Nat
        /\ osPriority[Norflash] < osPriority[p]
    BY ThreadAssumption DEF Threads
  <2> QED BY <2>1, <2>2
<1>2. Counting = {}
  BY <1>1 DEF Counting
<1> QED BY <1>1, <1>2, FS_EmptySet

LEMMA ThreadCounts ==
    ASSUME IInv, CountInv, norflash_api_thread
    PROVE  CountInv'
<1> USE DEF NORFLASH_API_MAILBOX_MAX, UINT8
<1>0. /\ ThreadTypeOK
      /\ mailbox_cnt \in 0 .. 255 /\ queue \in 0 .. 2
      /\ Norflash \in Threads
      /\ reg \in [Threads -> 0 .. 255] /\ reg[Norflash] \in 0 .. 255
  BY DEF IInv, ThreadTypeOK, Threads
<1>1. /\ \A p \in Threads : putter[p] = "idle" /\ putter'[p] = "idle"
      /\ Cardinality(Counting) = 0 /\ Counting' = Counting
  <2>1. Runs(osPriority[Norflash]) /\ putter[Norflash] = "idle" /\ putter' = putter
    BY DEF norflash_api_thread, MailboxGet, ExecFlushHook, MailboxFree,
           FreeLoadCnt, DecrementCnt, ThreadAt
  <2> QED BY <1>0, <2>1, NobodyPuts DEF Counting
<1>2. queue' \in Nat /\ Cardinality(Counting') <= queue'
  BY <1>0, <1>1 DEF norflash_api_thread, MailboxGet, ExecFlushHook, MailboxFree,
                    FreeLoadCnt, DecrementCnt
<1>3. Counted = Pending /\ Counted' = Pending' /\ Pending \in 0 .. 3
  BY <1>0, <1>1, <1>2 DEF Counted, Pending
<1>4. mailbox_cnt <= Pending \/ Wrapped
  BY <1>3 DEF CountInv, CountsLess
<1>5. thread = "store" => reg[Norflash] <= Pending \/ Wrapped
  BY <1>0, <1>3 DEF CountInv, CountsLess
<1>6. ASSUME mailbox_cnt' <= Pending',
             thread' = "store" => reg'[Norflash] <= Pending',
             ~raced' => mailbox_cnt' = Pending'
      PROVE  CountInv'
  BY <1>1, <1>3, <1>2, <1>6 DEF CountInv, CountsLess
<1>10. ~raced => mailbox_cnt = Pending
  BY <1>3 DEF CountInv, CountsLess, Wrapped
<1>7. CASE MailboxGet \/ ExecFlushHook \/ MailboxFree
  <2>1. /\ Pending' = Pending /\ mailbox_cnt' = mailbox_cnt
        /\ thread' # "store" /\ raced' = raced
    BY <1>0, <1>7 DEF MailboxGet, ExecFlushHook, MailboxFree, ThreadAt, Pending
  <2>2. CASE Wrapped
    BY <1>1, <2>1, <2>2 DEF CountInv, Wrapped
  <2>3. CASE mailbox_cnt <= Pending
    BY <1>6, <1>10, <2>1, <2>3
  <2> QED BY <1>4, <2>2, <2>3
<1>8. CASE FreeLoadCnt
  <2>1. /\ Pending' = Pending /\ mailbox_cnt' = mailbox_cnt
        /\ reg'[Norflash] = mailbox_cnt /\ raced' = raced
    BY <1>0, <1>8 DEF FreeLoadCnt, ThreadAt, Pending
  <2>2. CASE Wrapped
    BY <1>1, <2>1, <2>2 DEF CountInv, Wrapped
  <2>3. CASE mailbox_cnt <= Pending
    BY <1>6, <1>10, <2>1, <2>3
  <2> QED BY <1>4, <2>2, <2>3
<1>9. CASE DecrementCnt
  <2>1. /\ thread = "store" /\ thread' = "wait" /\ queue' = queue
        /\ mailbox_cnt' = (reg[Norflash] + 255) % 256
        /\ raced' = (raced \/ reg[Norflash] # mailbox_cnt)
    BY <1>0, <1>9 DEF DecrementCnt, ThreadAt
  <2>2. Pending' = Pending - 1
    BY <1>0, <2>1 DEF Pending
  <2>3. /\ reg[Norflash] = 0 => mailbox_cnt' = 255
        /\ reg[Norflash] > 0 => mailbox_cnt' = reg[Norflash] - 1
    BY <1>0, <2>1
  <2>7. ~raced' => ~raced /\ reg[Norflash] = mailbox_cnt
    BY <2>1
  <2>8. Pending \in 1 .. 3
    BY <1>0, <1>3, <2>1 DEF Pending
  <2>4. CASE reg[Norflash] <= Pending /\ reg[Norflash] > 0
    <3>1. ~raced' => mailbox_cnt' = Pending'
      BY <1>0, <1>3, <1>10, <2>2, <2>3, <2>4, <2>7
    <3> QED BY <1>0, <1>3, <1>6, <2>1, <2>2, <2>3, <2>4, <3>1
  <2>5. CASE reg[Norflash] = 0
    <3>1. raced'
      BY <1>10, <2>5, <2>7, <2>8
    <3> QED BY <1>1, <1>3, <2>1, <2>2, <2>3, <2>5, <3>1 DEF CountInv, Wrapped
  <2>6. CASE Wrapped
    <3>1. raced'
      BY <2>6, <2>7 DEF Wrapped
    <3> QED BY <1>0, <1>1, <1>3, <2>1, <2>2, <2>3, <2>6, <3>1
            DEF CountInv, Wrapped
  <2> QED BY <1>0, <1>5, <2>1, <2>4, <2>5, <2>6
<1> QED BY <1>7, <1>8, <1>9 DEF norflash_api_thread

LEMMA NextCount == IInv /\ CountInv /\ [Next]_vars => CountInv'
<1> SUFFICES ASSUME IInv, CountInv, [Next]_vars PROVE CountInv'
  OBVIOUS
<1>1. CASE UNCHANGED vars
  BY <1>1 DEF vars, CountInv, CountsLess, Wrapped, Counted, Pending, Counting
<1> QED BY <1>1, PutterCounts, ThreadCounts DEF Next

\* A mailbox that refuses a wake-up has a message in its queue, for any
\* threads: until it wraps the counter never claims a message that is not
\* there, so that a whole round of the hooks follows.  It wraps only after a
\* race in which an update got lost.
THEOREM RefusedIsQueued == Spec => []RefusedMeansQueued
<1>1. IInv /\ CountInv => RefusedMeansQueued
  <2> SUFFICES ASSUME ThreadTypeOK, CountInv, mailbox_cnt >= 2
               PROVE  queue > 0 \/ (raced /\ mailbox_cnt > 2)
    BY DEF IInv, RefusedMeansQueued, NORFLASH_API_MAILBOX_MAX
  <2>1. /\ queue \in Nat /\ Cardinality(Counting) \in Nat
        /\ mailbox_cnt \in Nat
    BY CountingFacts DEF ThreadTypeOK, NORFLASH_API_MAILBOX_MAX, UINT8
  <2>2. CASE CountsLess
    BY <2>1, <2>2 DEF CountsLess, Counted, Pending
  <2>3. CASE Wrapped
    BY <2>1, <2>3 DEF Wrapped, Pending, UINT8
  <2> QED BY <2>2, <2>3 DEF CountInv
<1> QED BY <1>1, Invariance, InitCount, NextCount, PTL DEF Spec

=============================================================================
