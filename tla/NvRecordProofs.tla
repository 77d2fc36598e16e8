--------------------------- MODULE NvRecordProofs ---------------------------
(***************************************************************************)
(* Proofs about NvRecord for any number of updates, crashes, other modules *)
(* of the service, pages of a sector, nodes and buffers: what the service  *)
(* keeps in order it keeps in order across crashes, the two sectors are    *)
(* never rewritten at once, and a crash costs no finished save.            *)
(***************************************************************************)
EXTENDS NvRecord, NorflashApiProofs

-----------------------------------------------------------------------------
(* The queue of the record in the service.                                 *)

Queue == opera_info[USERDATA]

IsTail(n) == \A k \in Queue \ {n} : <<k, n>> \in before

\* Sector s is erased, or the erase is all that is queued.
Erasing(s) ==
    /\ \A n \in Queue : node[n].addr = s /\ node[n].type = "ERASING"
    /\ \A n, k \in Queue : n = k
    /\ Queue = {} => flash[USERDATA][s] = Erased

\* A node that writes burn_buf to a whole sector.
FullWrite(n) ==
    /\ node[n].type = "WRITTING"
    /\ node[n].w_offs = 0 /\ node[n].w_len = SecLen
    /\ \A x \in Offs : node[n].data[x] = burn_buf

\* burn_buf is written to sector s, once or twice, perhaps after an erase
\* that is still queued.
Writing(s) ==
    /\ \A n \in Queue :
        /\ node[n].addr = s
        /\ \/ FullWrite(n)
           \/ node[n].type = "ERASING" /\ IsTail(n)
    /\ (\A n \in Queue : node[n].type = "WRITTING") =>
           \A x \in Offs : flash[USERDATA][s][x] \subseteq burn_buf
    /\ Queue # {} => \E n \in Queue : node[n].type = "WRITTING"
    /\ Queue = {} => \A x \in Offs : flash[USERDATA][s][x] = burn_buf

QueueFits ==
    /\ nv_state \in {"IDLE", "MAIN_ERASING", "MAIN_DONE", "BAK_ERASING"} =>
           Queue = {}
    /\ nv_state \in {"MAIN_ERASED", "MAIN_WRITE_PENDING"} => Erasing(Main)
    /\ nv_state = "MAIN_WRITTEN" => Writing(Main)
    /\ nv_state = "BAK_ERASED" => Erasing(Bak)
    /\ nv_state = "BAK_WRITE_PENDING" => Erasing(Bak) \/ Writing(Bak)
    /\ nv_state = "BAK_WRITTEN" => Writing(Bak)

-----------------------------------------------------------------------------
(* The record, the sectors and the history.                                *)

BakPhase == {"MAIN_DONE", "BAK_ERASING", "BAK_ERASED", "BAK_WRITE_PENDING",
             "BAK_WRITTEN"}
MainPhase == NV_STATE \ BakPhase

OffIsReset ==
    nvrec_init = "off" =>
        /\ nv_state = "IDLE" /\ ~flushing /\ hook = "wait" /\ ~setting
        /\ burn_buf = Bits

\* Whatever is a valid record is no older than the last finished save.
Fresh ==
    /\ \A s \in {Main, Bak}, v \in Bits : Holds(flash, s, v) => saved <= v
    /\ nvrec_init # "off" => saved <= nv_record
    /\ \A v \in Bits : burn_buf = {v} => saved <= v /\ v <= nv_record

\* The sector that is not written to is valid.
OtherValid ==
    /\ nv_state \in MainPhase /\ ~repair =>
           \/ saved = 0 \/ IsValid(flash, Bak)
           \/ nvrec_init = "off" /\ IsValid(flash, Main)
    /\ nv_state \in BakPhase =>
           /\ IsValid(flash, Main)
           /\ \A v \in Bits : burn_buf = {v} => Holds(flash, Main, v)

\* A save of main writes a record; what goes to bak unread from main is one
\* too, but in the boot that repairs bak.
BurnBuf ==
    /\ nv_state \in {"MAIN_WRITE_PENDING", "MAIN_WRITTEN"} => burn_buf # Bits
    /\ nv_state \in BakPhase /\ burn_buf = Bits => repair

\* is_update tells whether the record in RAM is newer than the one saved or
\* being saved.
UpdateTold ==
    nvrec_init # "off" =>
        /\ nv_state \in {"MAIN_ERASING", "MAIN_ERASED"} => is_update
        /\ /\ nv_state \in BakPhase \cup {"MAIN_WRITE_PENDING", "MAIN_WRITTEN"}
           /\ ~is_update
           => burn_buf # Bits /\ (~setting => burn_buf = {nv_record})
        /\ nv_state = "IDLE" /\ ~is_update =>
               /\ IsValid(flash, Bak)
               /\ ~setting => Holds(flash, Main, nv_record)

Types ==
    /\ NvTypeOK
    /\ burn_buf = Bits \/ \E v \in Bits : burn_buf = {v}
    /\ sync = NoCall

-----------------------------------------------------------------------------
(* What the record needs of the constants.                                 *)

LEMMA NvConstants ==
    /\ USERDATA \in Mods /\ Main \in Secs /\ Bak \in Secs /\ Main # Bak
    /\ Bits = 0 .. MaxVer /\ 0 \in Bits /\ 1 \in Bits /\ 0 \in Offs
    /\ SecLen \in 1 .. SecLen /\ 1 \in 1 .. SecLen /\ MaxVer \in Nat \ {0}
    /\ CrashNum \in Nat /\ SecLen \in Nat \ {0}
BY ConstAssumption, NvAssumption
   DEF USERDATA, Main, Bak, Mods, Secs, Offs

\* A sector holds one version at most, and none when a page is erased or
\* holds all bits.
LEMMA HoldsOne ==
    ASSUME NEW f, NEW s, NEW v, NEW w, Holds(f, s, v), Holds(f, s, w)
    PROVE  v = w
<1>1. f[USERDATA][s] = [o \in Offs |-> {v}] /\ f[USERDATA][s] = [o \in Offs |-> {w}]
  BY DEF Holds
<1>2. f[USERDATA][s][0] = {v} /\ f[USERDATA][s][0] = {w}
  BY ONLY <1>1, NvConstants
<1> QED BY <1>2

LEMMA VersionHeld ==
    ASSUME NEW f, NEW s, IsValid(f, s)
    PROVE  VersionIn(f, s) \in Bits /\ Holds(f, s, VersionIn(f, s))
BY NvConstants DEF IsValid, VersionIn

LEMMA LoadedType == \A f : Loaded(f) \in Bits
BY VersionHeld, NvConstants DEF Loaded, Default

-----------------------------------------------------------------------------
(* The service below the record.                                           *)

LEMMA InitTypes == NvInit => Types
<1> SUFFICES ASSUME NvInit PROVE Types
  OBVIOUS
<1>1. /\ sync = NoCall /\ burn_buf = Bits /\ nv_record = 0 /\ saved = 0
      /\ nv_state \in NV_STATE
  BY DEF NvInit, Init, Default, NV_STATE
<1>2. 0 \in 0 .. MaxVer /\ 0 \in 0 .. CrashNum
  BY NvConstants
<1>3. NvTypeOK
  BY <1>1, <1>2 DEF NvInit, NvTypeOK
<1> QED BY <1>1, <1>3 DEF Types

\* Every call of the service the record's code makes is one of those the
\* service is proved for.
LEMMA StepOfService ==
    ASSUME Types, IInv, NvNext
    PROVE  [Next]_vars \/ Crash
<1> USE NvConstants
<1>1. burn_buf \in SUBSET Bits
  BY DEF Types
<1>2. ASSUME NEW s \in Secs, EraseAsync(USERDATA, s) PROVE Next
  BY <1>2 DEF Next, Client
<1>3. ASSUME NEW s \in Secs, WriteAsync(USERDATA, s, 0, SecLen, burn_buf)
      PROVE  Next
  BY <1>1, <1>3 DEF Next, Client
<1>4. ASSUME norflash_api_flush PROVE Next
  BY <1>4 DEF Next
<1>5. ASSUME FlushStep PROVE [Next]_vars
  BY <1>2, <1>3, <1>4, <1>5
     DEF FlushStep, Erase, Copy, Write, WaitMain, BakReady, WaitBak
<1>6. ASSUME AsyncFlush PROVE [Next]_vars
  BY <1>5, <1>6 DEF AsyncFlush
<1>7. CASE nv_record_extension_init
  BY <1>7 DEF nv_record_extension_init, Next, Client
<1>8. CASE OtherCall
  <2>1. PICK m \in Others :
          \/ norflash_api_register(m)
          \/ \E s \in Secs : EraseAsync(m, s)
          \/ WriteAsync(m, 0, 0, 1, {0})
    BY <1>8 DEF OtherCall
  <2>2. m \in Mods /\ 0 \in Secs /\ {0} \in SUBSET Bits
    BY DEF Others, Main
  <2> QED BY <2>1, <2>2 DEF Next, Client
<1>9. CASE OtherFlush
  BY <1>4, <1>9 DEF OtherFlush
<1>10. CASE SyncStep \/ HookFlush \/ nv_record_execute_async_flush
  BY <1>5, <1>6, <1>10 DEF SyncStep, HookFlush, nv_record_execute_async_flush
<1>11. CASE \/ SetterWrites \/ nv_record_extension_update \/ FlushBegin
            \/ FlushEnd \/ HookCheck \/ HookReturn \/ TimerFires
  BY <1>11 DEF SetterWrites, nv_record_extension_update, FlushBegin, FlushEnd,
               HookCheck, HookReturn, TimerFires
<1> QED BY <1>7, <1>8, <1>9, <1>10, <1>11 DEF NvNext

\* A reset leaves the service as it starts, but for the flash.
LEMMA CrashResets ==
    ASSUME IInv, Crash
    PROVE  IInv'
<1>1. TypeOK'
  <2>1. NoCall \in Call \cup {NoCall}
    OBVIOUS
  <2> QED BY <2>1, FreeNodeType DEF Crash, IInv, TypeOK, States
<1>2. Chains' /\ PoolsExact'
  BY DEF Crash, Chains, PoolsExact
<1>3. OneSuspended'
  BY DEF Crash, OneSuspended, FreeNode
<1>4. UnregisteredEmpty'
  BY DEF Crash, UnregisteredEmpty
<1> QED BY <1>1, <1>2, <1>3, <1>4 DEF IInv

LEMMA ServiceKeeps ==
    ASSUME Types, IInv, [NvNext]_allVars
    PROVE  IInv'
<1>1. CASE UNCHANGED allVars
  BY <1>1, NextIInv DEF allVars
<1>2. CASE NvNext
  BY <1>2, StepOfService, CrashResets, NextIInv
<1> QED BY <1>1, <1>2

-----------------------------------------------------------------------------
(* Types.                                                                  *)

LEMMA FlushStepTypes ==
    ASSUME Types, FlushStep
    PROVE  /\ nv_state' \in NV_STATE /\ is_update' \in BOOLEAN
           /\ burn_buf' = burn_buf \/ burn_buf' = {nv_record}
           /\ mail' \in BOOLEAN /\ saved' \in 0 .. MaxVer
           /\ repair' \in BOOLEAN /\ sync' = NoCall
           /\ UNCHANGED <<nv_record, setting, flush_is_delay, debouce_timer,
                          nvrec_init, crashes, flushing>>
<1>0. /\ UNCHANGED <<nv_record, setting, flush_is_delay, debouce_timer,
                     nvrec_init, crashes, flushing>>
      /\ mail \in BOOLEAN /\ saved \in 0 .. MaxVer /\ repair \in BOOLEAN
      /\ is_update \in BOOLEAN /\ nv_state \in NV_STATE /\ sync = NoCall
  BY DEF FlushStep, Types, NvTypeOK
<1>1. /\ \A s : EraseAsync(USERDATA, s) => sync' = sync
      /\ \A s, o, l, v : WriteAsync(USERDATA, s, o, l, v) => sync' = sync
      /\ norflash_api_flush => sync' = sync
      /\ UNCHANGED vars => sync' = sync
  BY DEF EraseAsync, WriteAsync, norflash_api_flush, FlushIdle, FlushOpera, vars
<1>2. ASSUME NEW s, NEW from, NEW busy \in NV_STATE, NEW done \in NV_STATE,
             Erase(s, from, busy, done)
      PROVE  /\ nv_state' \in NV_STATE /\ mail' \in BOOLEAN
             /\ sync' = NoCall /\ UNCHANGED <<is_update, burn_buf, saved, repair>>
  BY <1>0, <1>1, <1>2 DEF Erase
<1>3. ASSUME NEW s, NEW from, NEW done \in NV_STATE, Write(s, from, done)
      PROVE  /\ nv_state' \in NV_STATE /\ mail' \in BOOLEAN
             /\ sync' = NoCall /\ UNCHANGED <<is_update, burn_buf, saved, repair>>
  BY <1>0, <1>1, <1>3 DEF Write
<1>4. CASE Erase(Main, {"IDLE", "MAIN_ERASING"}, "MAIN_ERASING", "MAIN_ERASED")
  <2>1. "MAIN_ERASING" \in NV_STATE /\ "MAIN_ERASED" \in NV_STATE
    BY DEF NV_STATE
  <2> QED BY <1>0, <1>2, <1>4, <2>1
<1>5. CASE Erase(Bak, {"MAIN_DONE", "BAK_ERASING"}, "BAK_ERASING", "BAK_ERASED")
  <2>1. "BAK_ERASING" \in NV_STATE /\ "BAK_ERASED" \in NV_STATE
    BY DEF NV_STATE
  <2> QED BY <1>0, <1>2, <1>5, <2>1
<1>6. CASE \/ Write(Main, "MAIN_WRITE_PENDING", "MAIN_WRITTEN")
           \/ Write(Bak, "BAK_WRITE_PENDING", "BAK_WRITTEN")
  <2>1. "MAIN_WRITTEN" \in NV_STATE /\ "BAK_WRITTEN" \in NV_STATE
    BY DEF NV_STATE
  <2> QED BY <1>0, <1>3, <1>6, <2>1
<1>7. CASE Copy \/ BakReady
  BY <1>0, <1>1, <1>7 DEF Copy, BakReady, NV_STATE
<1>8. CASE WaitMain
  BY <1>0, <1>1, <1>8 DEF WaitMain, NV_STATE
<1>9. CASE WaitBak
  <2>1. /\ nv_state' \in NV_STATE /\ sync' = NoCall
        /\ UNCHANGED <<mail, is_update, burn_buf>>
    BY <1>0, <1>1, <1>9 DEF WaitBak, NV_STATE
  <2>2. ASSUME burn_buf # Bits
        PROVE  (CHOOSE v \in Bits : burn_buf = {v}) \in 0 .. MaxVer
    BY <2>2, NvConstants DEF Types
  <2>3. saved' \in 0 .. MaxVer /\ repair' \in BOOLEAN
    BY <1>0, <1>9, <2>2 DEF WaitBak
  <2> QED BY <1>0, <2>1, <2>3
<1> QED BY <1>4, <1>5, <1>6, <1>7, <1>8, <1>9 DEF FlushStep

LEMMA TypesKeep ==
    ASSUME Types, [NvNext]_allVars
    PROVE  Types'
<1>0. /\ nv_record \in Bits /\ saved \in Bits /\ Bits = 0 .. MaxVer
      /\ 0 \in Bits /\ MaxVer \in Nat /\ crashes \in 0 .. CrashNum /\ CrashNum \in Nat
  BY NvConstants DEF Types, NvTypeOK
<1> USE DEF Types, NvTypeOK, NV_STATE
<1>1. CASE nv_record_extension_init
  <2>1. Loaded(flash) \in Bits
    BY LoadedType
  <2>2. nv_record' \in Bits /\ saved' \in Bits /\ sync' = sync
    BY <1>0, <1>1, <2>1 DEF nv_record_extension_init, norflash_api_register
  <2>3. /\ is_update' \in BOOLEAN /\ repair' \in BOOLEAN /\ flushing' \in BOOLEAN
        /\ mail' \in BOOLEAN
    BY <1>1 DEF nv_record_extension_init
  <2>4. /\ nv_state' \in NV_STATE /\ nvrec_init' \in {"off", "boot", "on"}
        /\ UNCHANGED <<setting, burn_buf, flush_is_delay, debouce_timer, hook,
                       crashes>>
    BY <1>1 DEF nv_record_extension_init
  <2> QED BY <1>0, <2>2, <2>3, <2>4
<1>2. CASE SetterWrites
  BY <1>0, <1>2 DEF SetterWrites, vars, flushState, threadVars
<1>12. CASE nv_record_extension_update
  BY <1>0, <1>12, ZenonT(30) DEF nv_record_extension_update, vars
<1>13. CASE FlushBegin
  BY <1>0, <1>13 DEF FlushBegin, vars, threadVars
<1>14. CASE FlushEnd
  BY <1>0, <1>14 DEF FlushEnd, vars, flushState, threadVars
<1>3. CASE SyncStep
  BY <1>0, <1>3, FlushStepTypes DEF SyncStep
<1>4. ASSUME AsyncFlush, hook' \in {"wait", "check", "flush", "return"}
      PROVE  Types'
  <2>1. CASE FlushStep
    BY <1>0, <1>4, <2>1, FlushStepTypes
  <2>2. CASE UNCHANGED <<vars, nv_record, setting, flushState, flush_is_delay,
                         debouce_timer, mail, flushing, nvrec_init, crashes,
                         saved, repair>>
    BY <1>0, <1>4, <2>2 DEF vars, flushState
  <2> QED BY <1>4, <2>1, <2>2 DEF AsyncFlush
<1>5. CASE HookFlush \/ nv_record_execute_async_flush
  BY <1>4, <1>5 DEF HookFlush, nv_record_execute_async_flush
<1>6. CASE HookCheck
  BY <1>0, <1>6, ZenonT(30)
     DEF HookCheck, DebounceStarts, DebounceOver, vars, flushState
<1>7. CASE HookReturn
  BY <1>0, <1>7 DEF HookReturn, vars, flushState
<1>15. CASE TimerFires
  <2>1. debouce_timer' = FALSE /\ mail' = TRUE
    BY <1>15 DEF TimerFires
  <2>2. /\ UNCHANGED <<nv_record, setting, is_update, nv_state, burn_buf,
                       flush_is_delay, hook, flushing, nvrec_init, crashes>>
        /\ UNCHANGED <<saved, repair, sync>>
    BY <1>15 DEF TimerFires, vars, flushState
  <2>3. debouce_timer' \in BOOLEAN /\ mail' \in BOOLEAN
    BY <2>1
  <2> QED BY <2>2, <2>3
<1>8. CASE OtherCall
  <2>1. sync' = sync
    BY <1>8 DEF OtherCall, norflash_api_register, EraseAsync, WriteAsync
  <2>2. mail' \in BOOLEAN
    BY <1>8 DEF OtherCall
  <2>3. /\ UNCHANGED <<nv_record, setting, is_update, nv_state, burn_buf,
                       flush_is_delay, debouce_timer, hook, flushing>>
        /\ UNCHANGED <<nvrec_init, crashes, saved, repair>>
    BY <1>8 DEF OtherCall, flushState
  <2> QED BY <2>1, <2>2, <2>3
<1>9. CASE OtherFlush
  <2>1. sync' = sync
    BY <1>9 DEF OtherFlush, norflash_api_flush, FlushIdle, FlushOpera
  <2> QED BY <1>9, <2>1 DEF OtherFlush, nvVars, flushState, threadVars
<1>10. CASE Crash
  <2>1. /\ nv_record' = 0 /\ setting' = FALSE /\ is_update' = FALSE
        /\ nv_state' = "IDLE" /\ burn_buf' = Bits /\ flush_is_delay' = FALSE
        /\ debouce_timer' = FALSE /\ hook' = "wait" /\ mail' = FALSE
        /\ flushing' = FALSE /\ nvrec_init' = "off"
        /\ UNCHANGED <<saved, repair>> /\ sync' = NoCall
    BY <1>10 DEF Crash, Default
  <2>2. crashes' \in 0 .. CrashNum
    BY <1>0, <1>10 DEF Crash
  <2>3. /\ setting' \in BOOLEAN /\ is_update' \in BOOLEAN
        /\ flush_is_delay' \in BOOLEAN /\ debouce_timer' \in BOOLEAN
        /\ mail' \in BOOLEAN /\ flushing' \in BOOLEAN
    BY <2>1
  <2> QED BY <1>0, <2>1, <2>2, <2>3
<1>11. CASE UNCHANGED allVars
  BY <1>11 DEF allVars, nvVars, flushState, threadVars, vars
<1> QED BY <1>1, <1>2, <1>3, <1>5, <1>6, <1>7, <1>8, <1>9, <1>10, <1>11,
        <1>12, <1>13, <1>14, <1>15 DEF NvNext

-----------------------------------------------------------------------------
(* What a step of the service does to the record's list and sectors.       *)

\* Node n is the operation it was.
SameNode(n) ==
    /\ node'[n].type = node[n].type /\ node'[n].addr = node[n].addr
    /\ node'[n].w_offs = node[n].w_offs /\ node'[n].w_len = node[n].w_len
    /\ node'[n].data = node[n].data

SameOrder(S) == \A n, k \in S : <<n, k>> \in before' <=> <<n, k>> \in before

Untouched ==
    /\ Queue' = Queue /\ flash'[USERDATA] = flash[USERDATA]
    /\ \A n \in Queue : SameNode(n)
    /\ SameOrder(Queue)

\* The tail of the list is done.
TailDone(n) ==
    /\ n \in Queue /\ IsTail(n) /\ Queue' = Queue \ {n}
    /\ flash'[USERDATA] = [flash[USERDATA] EXCEPT ![node[n].addr] =
                               Applied(flash[USERDATA][node[n].addr], node[n])]
    /\ \A k \in Queue \ {n} : SameNode(k)
    /\ SameOrder(Queue \ {n})

\* The tail of the list is interrupted.
TailPart(n) ==
    /\ n \in Queue /\ IsTail(n) /\ Queue' = Queue
    /\ \A k \in Queue : SameNode(k)
    /\ SameOrder(Queue)
    /\ \/ /\ node[n].type = "WRITTING"
          /\ \E k \in 0 .. node[n].w_len :
                flash'[USERDATA] = [flash[USERDATA] EXCEPT ![node[n].addr] =
                    Program(flash[USERDATA][node[n].addr], node[n].w_offs, k,
                            node[n].data)]
       \/ /\ node[n].type = "ERASING"
          /\ \E P \in SUBSET Offs :
                flash'[USERDATA] = [flash[USERDATA] EXCEPT ![node[n].addr] =
                    [x \in Offs |-> IF x \in P THEN {}
                                    ELSE flash[USERDATA][node[n].addr][x]]]

LEMMA QueueFacts ==
    ASSUME IInv
    PROVE  /\ Queue \in SUBSET opera_used /\ Queue \subseteq Slots
           /\ \A m \in Others : m \in Mods /\ m # USERDATA
                                /\ opera_info[m] \cap Queue = {}
BY NvConstants DEF IInv, PoolsExact, Queue, Others, TypeOK

\* What stays as it is does not touch the record.
LEMMA StillUntouched ==
    ASSUME UNCHANGED <<opera_info, before, node, flash>>
    PROVE  Untouched
BY DEF Untouched, Queue, SameNode, SameOrder

\* Other modules' calls do not touch the record.
LEMMA OtherErase ==
    ASSUME IInv, NEW m \in Others, NEW s \in Secs, EraseAsync(m, s)
    PROVE  Untouched
<1> DEFINE merged  == MergedErase(m, s)
           dropped == {n \in OfSector(m, s) :
                         ~node[n].lock /\ \A k \in merged : <<n, k>> \in before}
           kept    == opera_info[m] \ dropped
           free    == Slots \ (opera_used \ dropped)
           i       == FirstFree(free)
           nd      == [FreeNode EXCEPT !.addr = s]
<1>1. dropped \subseteq opera_info[m] /\ flash' = flash
  BY DEF OfSector, EraseAsync, chip
<1>2. /\ m \in Mods /\ m # USERDATA /\ opera_info[m] \cap Queue = {}
      /\ Queue \subseteq opera_used /\ Queue \subseteq Slots
      /\ opera_info \in [Mods -> SUBSET Slots] /\ node \in [Slots -> Node]
      /\ before \subseteq Slots \X Slots
  BY QueueFacts DEF IInv, TypeOK
<1>3. \/ /\ opera_info' = [opera_info EXCEPT ![m] = kept]
         /\ before' = Without(dropped)
         /\ node' = [n \in Slots |-> IF n \in dropped THEN FreeNode ELSE node[n]]
      \/ /\ free # {}
         /\ Push(m, kept, i, nd)
  BY DEF EraseAsync
<1>4. opera_info[m] \ kept = dropped
  BY <1>1
<1>5. free # {} => i \in Slots /\ i \notin opera_used \ dropped
  BY DEF FirstFree
<1> HIDE DEF dropped, kept, free, i, nd
<1>6. CASE /\ opera_info' = [opera_info EXCEPT ![m] = kept]
           /\ before' = Without(dropped)
           /\ node' = [n \in Slots |-> IF n \in dropped THEN FreeNode ELSE node[n]]
  <2>1. Queue' = Queue
    BY <1>2, <1>6, NvConstants DEF Queue
  <2>2. \A n \in Queue : n \notin dropped /\ node'[n] = node[n]
    BY <1>1, <1>2, <1>6
  <2>3. SameOrder(Queue)
    BY <2>2, <1>6 DEF SameOrder, Without
  <2> QED BY <1>1, <2>1, <2>2, <2>3 DEF Untouched, SameNode
<1>7. CASE free # {} /\ Push(m, kept, i, nd)
  <2>1. /\ opera_info' = [opera_info EXCEPT ![m] = kept \cup {i}]
        /\ before' = Without(dropped) \cup ({i} \X kept)
        /\ node' = [[n \in Slots |-> IF n \in dropped THEN FreeNode ELSE node[n]]
                      EXCEPT ![i] = nd]
    BY <1>4, <1>7 DEF Push
  <2>2. Queue' = Queue
    BY <1>2, <2>1, NvConstants DEF Queue
  <2>3. \A n \in Queue : n \notin dropped /\ n # i /\ node'[n] = node[n]
    BY <1>1, <1>2, <1>5, <1>7, <2>1
  <2>4. SameOrder(Queue)
    BY <2>3, <2>1 DEF SameOrder, Without
  <2> QED BY <1>1, <2>2, <2>3, <2>4 DEF Untouched, SameNode
<1> QED BY <1>3, <1>6, <1>7

LEMMA OtherWrite ==
    ASSUME IInv, NEW m \in Others, NEW s, NEW o, NEW l, NEW v,
           WriteAsync(m, s, o, l, v)
    PROVE  Untouched
<1>1. flash' = flash
  BY DEF WriteAsync, chip
<1>2. /\ m \in Mods /\ m # USERDATA /\ opera_info[m] \cap Queue = {}
      /\ Queue \subseteq opera_used /\ Queue \subseteq Slots
      /\ opera_info \in [Mods -> SUBSET Slots] /\ node \in [Slots -> Node]
      /\ before \subseteq Slots \X Slots
  BY QueueFacts DEF IInv, TypeOK
<1>3. CASE WriteAsyncMerge(m, s, o, l, v)
  <2> DEFINE i == FirstOf(Mergeable(m, s))
  <2>1. Mergeable(m, s) \in SUBSET opera_info[m]
    BY DEF Mergeable, OfSector
  <2>2. i \in opera_info[m]
    BY <2>1, <1>2, <1>3, FirstOfPart DEF WriteAsyncMerge, IInv
  <2>3. /\ UNCHANGED <<opera_info, before>>
        /\ \E new : node' = [node EXCEPT ![i] = new]
    BY <1>3 DEF WriteAsyncMerge
  <2> HIDE DEF i
  <2>4. \A n \in Queue : n # i /\ node'[n] = node[n]
    BY <1>2, <2>2, <2>3
  <2> QED BY <1>1, <2>3, <2>4 DEF Untouched, SameNode, SameOrder, Queue
<1>4. CASE WriteAsyncNew(m, s, o, l, v)
  <2> DEFINE i == FirstFree(Slots \ opera_used)
  <2>1. i \in Slots \ opera_used
    BY <1>4 DEF WriteAsyncNew, FirstFree
  <2>2. \E nd : Push(m, opera_info[m], i, nd)
    BY <1>4 DEF WriteAsyncNew
  <2>3. opera_info[m] \ opera_info[m] = {}
    OBVIOUS
  <2> HIDE DEF i
  <2>4. /\ opera_info' = [opera_info EXCEPT ![m] = opera_info[m] \cup {i}]
        /\ before' = Without({}) \cup ({i} \X opera_info[m])
        /\ \E nd : node' = [[n \in Slots |-> IF n \in {} THEN FreeNode ELSE node[n]]
                              EXCEPT ![i] = nd]
    BY <2>2, <2>3 DEF Push
  <2>5. Queue' = Queue
    BY <1>2, <2>4, NvConstants DEF Queue
  <2>6. \A n \in Queue : n # i /\ node'[n] = node[n]
    BY <1>2, <2>1, <2>4
  <2>7. SameOrder(Queue)
    BY <2>4, <2>6 DEF SameOrder, Without
  <2> QED BY <1>1, <2>5, <2>6, <2>7 DEF Untouched, SameNode
<1> QED BY <1>3, <1>4 DEF WriteAsync

\* A flush works on the tail of the record's list or does not touch it.
LEMMA FlushQueue ==
    ASSUME IInv, norflash_api_flush
    PROVE  Untouched \/ \E n \in Queue : TailDone(n) \/ TailPart(n)
<1>1. CASE FlushIdle
  BY <1>1, StillUntouched DEF FlushIdle, lists, chip
<1>2. ASSUME NEW m \in Mods, FlushOpera(m)
      PROVE  Untouched \/ \E n \in Queue : TailDone(n) \/ TailPart(n)
  <2> DEFINE n == CurNode(m)
  <2>1. CASE ~HasWork(m)
    BY <1>2, <2>1, StillUntouched DEF FlushOpera, lists, chip
  <2>2. CASE HasWork(m) /\ (OperaCompletes(m) \/ OperaSuspends(m))
    <3>1. /\ n \in opera_info[m] /\ n \in Slots
          /\ \A k \in opera_info[m] \ {n} : <<k, n>> \in before
      BY <2>2, CurNodeFacts
    <3>2. /\ opera_info \in [Mods -> SUBSET Slots] /\ node \in [Slots -> Node]
          /\ flash \in [Mods -> [Secs -> Sector]] /\ USERDATA \in Mods
          /\ Queue \subseteq Slots
      BY NvConstants, QueueFacts DEF IInv, TypeOK
    <3>3. {k \in opera_info[m] : <<k, n>> \in before} = opera_info[m] \ {n}
      BY <3>1, <3>2 DEF IInv, Chains
    <3>4. CASE OperaCompletes(m)
      <4>1. /\ flash' = SetSector(flash, m, node[n].addr,
                                  Applied(flash[m][node[n].addr], node[n]))
            /\ opera_info' = [opera_info EXCEPT ![m] = opera_info[m] \ {n}]
            /\ before' = Without({n})
            /\ node' = [node EXCEPT ![n] = FreeNode]
        BY <3>3, <3>4 DEF OperaCompletes
      <4> HIDE DEF n
      <4>2. CASE m = USERDATA
        <5>1. n \in Queue /\ IsTail(n)
          BY <3>1, <4>2 DEF Queue, IsTail
        <5>2. Queue' = Queue \ {n}
          BY <3>2, <4>1, <4>2 DEF Queue
        <5>3. \A k \in Queue \ {n} : SameNode(k)
          BY <3>2, <4>1 DEF SameNode
        <5>4. SameOrder(Queue \ {n})
          BY <4>1 DEF SameOrder, Without
        <5>5. flash'[USERDATA] = [flash[USERDATA] EXCEPT ![node[n].addr] =
                  Applied(flash[USERDATA][node[n].addr], node[n])]
          BY <3>2, <4>1, <4>2 DEF SetSector
        <5> QED BY <5>1, <5>2, <5>3, <5>4, <5>5 DEF TailDone
      <4>3. CASE m # USERDATA
        <5>1. n \notin Queue
          BY <3>1, <4>3, QueueFacts DEF Others
        <5>2. Queue' = Queue /\ flash'[USERDATA] = flash[USERDATA]
          BY <3>2, <4>1, <4>3 DEF Queue, SetSector
        <5>3. \A k \in Queue : SameNode(k)
          BY <3>2, <4>1, <5>1 DEF SameNode
        <5>4. SameOrder(Queue)
          BY <4>1, <5>1 DEF SameOrder, Without
        <5> QED BY <5>2, <5>3, <5>4 DEF Untouched
      <4> QED BY <4>2, <4>3
    <3>5. CASE OperaSuspends(m)
      <4>1. /\ UNCHANGED <<opera_info, before>>
            /\ node' = [node EXCEPT ![n] = [node[n] EXCEPT !.lock = TRUE]]
            /\ \/ /\ node[n].type = "WRITTING"
                  /\ \E k \in 0 .. node[n].w_len :
                        flash' = SetSector(flash, m, node[n].addr,
                                    Program(flash[m][node[n].addr],
                                            node[n].w_offs, k, node[n].data))
               \/ /\ node[n].type = "ERASING"
                  /\ \E P \in SUBSET Offs :
                        flash' = SetSector(flash, m, node[n].addr,
                                    [x \in Offs |-> IF x \in P THEN {}
                                         ELSE flash[m][node[n].addr][x]])
        BY <3>5 DEF OperaSuspends
      <4> HIDE DEF n
      <4>2. \A k \in Slots : SameNode(k)
        BY <3>1, <3>2, <4>1 DEF SameNode, Node
      <4>3. Queue' = Queue /\ SameOrder(Queue)
        BY <4>1 DEF Queue, SameOrder
      <4>4. CASE m = USERDATA
        <5>1. n \in Queue /\ IsTail(n)
          BY <3>1, <4>4 DEF Queue, IsTail
        <5>2. CASE node[n].type = "WRITTING"
          <6>1. PICK k \in 0 .. node[n].w_len :
                    flash' = SetSector(flash, m, node[n].addr,
                                Program(flash[m][node[n].addr],
                                        node[n].w_offs, k, node[n].data))
            BY <4>1, <5>2
          <6>2. flash'[USERDATA] = [flash[USERDATA] EXCEPT ![node[n].addr] =
                    Program(flash[USERDATA][node[n].addr], node[n].w_offs, k,
                            node[n].data)]
            BY <3>2, <4>4, <6>1 DEF SetSector
          <6> QED BY <3>2, <4>2, <4>3, <5>1, <5>2, <6>2 DEF TailPart
        <5>3. CASE node[n].type = "ERASING"
          <6>1. PICK P \in SUBSET Offs :
                    flash' = SetSector(flash, m, node[n].addr,
                                [x \in Offs |-> IF x \in P THEN {}
                                     ELSE flash[m][node[n].addr][x]])
            BY <4>1, <5>3
          <6>2. flash'[USERDATA] = [flash[USERDATA] EXCEPT ![node[n].addr] =
                    [x \in Offs |-> IF x \in P THEN {}
                                    ELSE flash[USERDATA][node[n].addr][x]]]
            BY <3>2, <4>4, <6>1 DEF SetSector
          <6> QED BY <3>2, <4>2, <4>3, <5>1, <5>3, <6>2 DEF TailPart
        <5> QED BY <4>1, <5>2, <5>3
      <4>5. CASE m # USERDATA
        <5>1. flash'[USERDATA] = flash[USERDATA]
          BY <3>2, <4>1, <4>5 DEF SetSector
        <5> QED BY <3>2, <4>2, <4>3, <5>1 DEF Untouched
      <4> QED BY <4>4, <4>5
    <3> QED BY <2>2, <3>4, <3>5
  <2> QED BY <1>2, <2>1, <2>2 DEF FlushOpera, opera_flush
<1> QED BY <1>1, <1>2 DEF norflash_api_flush

\* Only sector s is written to.
Moved(s) == \A t \in Secs \ {s} : flash'[USERDATA][t] = flash[USERDATA][t]

LEMMA RecordTypes ==
    ASSUME IInv, Types
    PROVE  /\ flash[USERDATA] \in [Secs -> [Offs -> SUBSET Bits]]
           /\ \A n \in Queue : node[n] \in Node
           /\ burn_buf \in SUBSET Bits /\ burn_buf # {}
           /\ \A n, k \in Queue : n # k =>
                  ~(<<n, k>> \in before /\ <<k, n>> \in before)
<1>1. /\ flash[USERDATA] \in [Secs -> [Offs -> SUBSET Bits]]
      /\ \A n \in Queue : node[n] \in Node
  BY NvConstants, QueueFacts DEF IInv, TypeOK, Sector
<1>2. burn_buf \in SUBSET Bits /\ burn_buf # {}
  BY NvConstants DEF Types
<1>3. \A n, k \in Queue : n # k => ~(<<n, k>> \in before /\ <<k, n>> \in before)
  BY NvConstants DEF IInv, Chains, Queue
<1> QED BY <1>1, <1>2, <1>3

LEMMA UntouchedKeeps ==
    ASSUME Untouched, burn_buf' = burn_buf, NEW s
    PROVE  /\ Queue = {} => Queue' = {}
           /\ Erasing(s) => Erasing(s)'
           /\ Writing(s) => Writing(s)'
<1>1. Queue' = Queue /\ flash'[USERDATA] = flash[USERDATA]
  BY DEF Untouched
<1>2. \A n \in Queue : /\ node'[n].type = node[n].type
                       /\ node'[n].addr = node[n].addr
                       /\ FullWrite(n) => FullWrite(n)'
                       /\ IsTail(n) => IsTail(n)'
  BY DEF Untouched, SameNode, SameOrder, FullWrite, IsTail
<1>3. Erasing(s) => Erasing(s)'
  BY <1>1, <1>2 DEF Erasing
<1>4. ASSUME Writing(s) PROVE Writing(s)'
  <2>1. \A n \in Queue' :
          /\ node'[n].addr = s
          /\ FullWrite(n)' \/ (node'[n].type = "ERASING" /\ IsTail(n)')
    BY <1>1, <1>2, <1>4 DEF Writing
  <2>2. (\A n \in Queue' : node'[n].type = "WRITTING") =>
            \A x \in Offs : flash'[USERDATA][s][x] \subseteq burn_buf'
    BY <1>1, <1>2, <1>4 DEF Writing
  <2>3. /\ Queue' # {} => \E n \in Queue' : node'[n].type = "WRITTING"
        /\ Queue' = {} => \A x \in Offs : flash'[USERDATA][s][x] = burn_buf'
    BY <1>1, <1>2, <1>4 DEF Writing
  <2> QED BY <2>1, <2>2, <2>3 DEF Writing
<1> QED BY <1>1, <1>3, <1>4

\* An erase, done or interrupted, makes no page a valid one.
LEMMA ErasingFlush ==
    ASSUME IInv, Types, NEW s \in Secs, Erasing(s),
           NEW n \in Queue, TailDone(n) \/ TailPart(n)
    PROVE  /\ Erasing(s)' /\ Moved(s)
           /\ \A v : Holds(flash', s, v) => Holds(flash, s, v)
<1>1. /\ node[n].addr = s /\ node[n].type = "ERASING" /\ Queue = {n}
      /\ flash[USERDATA] \in [Secs -> [Offs -> SUBSET Bits]] /\ 0 \in Offs
  BY RecordTypes, NvConstants DEF Erasing
<1>2. CASE TailDone(n)
  <2>1. /\ Queue' = {}
        /\ flash'[USERDATA] = [flash[USERDATA] EXCEPT ![s] = Erased]
    BY <1>1, <1>2 DEF TailDone, Applied
  <2>2. Erasing(s)' /\ Moved(s)
    BY <1>1, <2>1 DEF Erasing, Moved
  <2>3. ASSUME NEW v, Holds(flash', s, v) PROVE FALSE
    <3>1. [o \in Offs |-> {v}] = [o \in Offs |-> {}]
      BY <1>1, <2>1, <2>3 DEF Holds, Erased
    <3>2. [o \in Offs |-> {v}][0] = {v} /\ [o \in Offs |-> {}][0] = {}
      BY ONLY <1>1
    <3> QED BY <3>1, <3>2
  <2> QED BY <2>2, <2>3
<1>3. CASE TailPart(n)
  <2>1. PICK P \in SUBSET Offs :
            flash'[USERDATA] = [flash[USERDATA] EXCEPT ![s] =
                [x \in Offs |-> IF x \in P THEN {} ELSE flash[USERDATA][s][x]]]
    BY <1>1, <1>3 DEF TailPart
  <2>2. Queue' = Queue /\ SameNode(n)
    BY <1>1, <1>3 DEF TailPart
  <2>3. Erasing(s)' /\ Moved(s)
    BY <1>1, <2>1, <2>2 DEF Erasing, Moved, SameNode
  <2>4. ASSUME NEW v, Holds(flash', s, v) PROVE Holds(flash, s, v)
    <3>1. [x \in Offs |-> IF x \in P THEN {} ELSE flash[USERDATA][s][x]]
              = [o \in Offs |-> {v}]
      BY <1>1, <2>1, <2>4 DEF Holds
    <3>2. \A x \in Offs :
             (IF x \in P THEN {} ELSE flash[USERDATA][s][x]) = {v}
      BY <3>1
    <3>3. \A x \in Offs : flash[USERDATA][s][x] = {v}
      BY <3>2
    <3>4. flash[USERDATA][s] = [o \in Offs |-> {v}]
      BY <1>1, <3>3
    <3> QED BY <3>4 DEF Holds
  <2> QED BY <2>3, <2>4
<1> QED BY <1>2, <1>3

\* A program, done or interrupted, makes no sector valid but with the version
\* that is written.
LEMMA WritingFlush ==
    ASSUME IInv, Types, NEW s \in Secs, Writing(s), burn_buf' = burn_buf,
           NEW n \in Queue, TailDone(n) \/ TailPart(n)
    PROVE  /\ Writing(s)' /\ Moved(s)
           /\ \A v : Holds(flash', s, v) => Holds(flash, s, v) \/ burn_buf = {v}
<1>1. /\ flash[USERDATA] \in [Secs -> [Offs -> SUBSET Bits]] /\ 0 \in Offs
      /\ flash[USERDATA][s] \in [Offs -> SUBSET Bits]
      /\ burn_buf # {} /\ Offs = 0 .. SecLen - 1 /\ SecLen \in Nat \ {0}
  BY RecordTypes, NvConstants DEF Offs
<1>2. /\ node[n].addr = s
      /\ FullWrite(n) \/ node[n].type = "ERASING"
      /\ IsTail(n)
  BY DEF Writing, TailDone, TailPart
<1>3. \A k \in Queue \ {n} : node[k].type = "ERASING" => FALSE
  BY <1>2, RecordTypes DEF Writing, IsTail, FullWrite
<1>4. \A k \in Queue \ {n} : FullWrite(k)
  BY <1>3 DEF Writing
<1>5. ASSUME NEW d \in [Offs -> SUBSET Bits],
             flash'[USERDATA] = [flash[USERDATA] EXCEPT ![s] = d]
      PROVE  Moved(s) /\ flash'[USERDATA][s] = d
  BY <1>1, <1>5 DEF Moved
<1>6. \A k \in Queue : SameNode(k) => (FullWrite(k) => FullWrite(k)')
  BY DEF SameNode, FullWrite
<1>7. CASE TailDone(n) /\ FullWrite(n)
  <2>1. \A x \in Offs : flash[USERDATA][s][x] \subseteq burn_buf
    BY <1>4, <1>7 DEF Writing, FullWrite
  <2> DEFINE d == Applied(flash[USERDATA][s], node[n])
  <2>2. d = [x \in Offs |-> flash[USERDATA][s][x] \cup node[n].data[x]]
    BY <1>1, <1>7 DEF Applied, FullWrite, Program, InRange
  <2>3. d = [x \in Offs |-> burn_buf]
    BY <2>1, <2>2, <1>7 DEF FullWrite
  <2>4. d \in [Offs -> SUBSET Bits]
    BY <2>3, RecordTypes
  <2>5. flash'[USERDATA] = [flash[USERDATA] EXCEPT ![s] = d]
    BY <1>2, <1>7 DEF TailDone
  <2> HIDE DEF d
  <2>6. Moved(s) /\ flash'[USERDATA][s] = [x \in Offs |-> burn_buf]
    BY <1>5, <2>3, <2>4, <2>5
  <2>7. Queue' = Queue \ {n} /\ \A k \in Queue' : FullWrite(k)' /\ node'[k].addr = s
    BY <1>4, <1>6, <1>7 DEF TailDone, SameNode, Writing
  <2>8. \A x \in Offs : flash'[USERDATA][s][x] = burn_buf'
    BY <2>6
  <2>9. Writing(s)'
    BY <2>7, <2>8 DEF Writing, FullWrite
  <2>10. ASSUME NEW v, Holds(flash', s, v) PROVE burn_buf = {v}
    <3>1. [x \in Offs |-> burn_buf] = [o \in Offs |-> {v}]
      BY <2>6, <2>10 DEF Holds
    <3>2. [x \in Offs |-> burn_buf][0] = burn_buf /\ [o \in Offs |-> {v}][0] = {v}
      BY ONLY <1>1
    <3> QED BY <3>1, <3>2
  <2> QED BY <2>6, <2>9, <2>10
<1>8. CASE TailDone(n) /\ node[n].type = "ERASING"
  <2>1. flash'[USERDATA] = [flash[USERDATA] EXCEPT ![s] = Erased]
    BY <1>2, <1>8 DEF TailDone, Applied
  <2>2. Erased \in [Offs -> SUBSET Bits]
    BY DEF Erased
  <2>3. Moved(s) /\ flash'[USERDATA][s] = Erased
    BY <1>5, <2>1, <2>2
  <2>4. Queue' = Queue \ {n} /\ \A k \in Queue' : FullWrite(k)' /\ node'[k].addr = s
    BY <1>4, <1>6, <1>8 DEF TailDone, SameNode, Writing
  <2>5. PICK k \in Queue : node[k].type = "WRITTING"
    BY DEF Writing
  <2>6. k \in Queue' /\ node'[k].type = "WRITTING"
    BY <1>8, <2>4, <2>5 DEF FullWrite
  <2>7. \A x \in Offs : flash'[USERDATA][s][x] \subseteq burn_buf'
    BY <2>3 DEF Erased
  <2>8. Writing(s)'
    BY <2>4, <2>6, <2>7 DEF Writing
  <2>9. ASSUME NEW v, Holds(flash', s, v) PROVE FALSE
    <3>1. [o \in Offs |-> {v}] = [o \in Offs |-> {}]
      BY <2>3, <2>9 DEF Holds, Erased
    <3>2. [o \in Offs |-> {v}][0] = {v} /\ [o \in Offs |-> {}][0] = {}
      BY ONLY <1>1
    <3> QED BY <3>1, <3>2
  <2> QED BY <2>3, <2>8, <2>9
<1>9. CASE TailPart(n)
  <2>1. /\ Queue' = Queue /\ \A k \in Queue : SameNode(k)
        /\ \A k \in Queue : IsTail(k) => IsTail(k)'
    BY <1>9 DEF TailPart, SameOrder, IsTail
  <2>2. \A k \in Queue' :
          /\ node'[k].addr = s
          /\ FullWrite(k)' \/ (node'[k].type = "ERASING" /\ IsTail(k)')
    BY <1>6, <2>1 DEF Writing, SameNode
  <2>3. \E k \in Queue' : node'[k].type = "WRITTING"
    <3>1. PICK k \in Queue : node[k].type = "WRITTING"
      BY DEF Writing
    <3> QED BY <2>1, <3>1 DEF SameNode
  <2>4. CASE FullWrite(n)
    <3>1. \A x \in Offs : flash[USERDATA][s][x] \subseteq burn_buf
      BY <1>4, <2>4 DEF Writing, FullWrite
    <3>2. PICK l \in 0 .. node[n].w_len :
              flash'[USERDATA] = [flash[USERDATA] EXCEPT ![s] =
                  Program(flash[USERDATA][s], node[n].w_offs, l, node[n].data)]
      BY <1>2, <1>9, <2>4 DEF TailPart, FullWrite
    <3> DEFINE d == Program(flash[USERDATA][s], node[n].w_offs, l, node[n].data)
    <3>3. l \in Nat /\ node[n].w_offs = 0 /\ \A x \in Offs : node[n].data[x] = burn_buf
      BY <1>1, <2>4, <3>2 DEF FullWrite
    <3>4. d = [x \in Offs |-> IF x < l THEN flash[USERDATA][s][x] \cup burn_buf
                              ELSE flash[USERDATA][s][x]]
      <4>1. \A x \in Offs : InRange(x, node[n].w_offs, l) <=> x < l
        BY <1>1, <3>3 DEF InRange
      <4>2. \A x \in Offs : node[n].data[x] = burn_buf
        BY <3>3
      <4> QED BY <4>1, <4>2 DEF Program
    <3>5. d \in [Offs -> SUBSET Bits]
      BY <1>1, <3>4, RecordTypes
    <3> HIDE DEF d
    <3>6. Moved(s) /\ flash'[USERDATA][s] = d
      BY <1>5, <3>2, <3>5 DEF d
    <3>7. \A x \in Offs : d[x] \subseteq burn_buf
      BY <3>1, <3>4
    <3>8. Writing(s)'
      BY <2>2, <2>3, <3>6, <3>7 DEF Writing
    <3>9. ASSUME NEW v, Holds(flash', s, v), burn_buf # {v}
          PROVE  Holds(flash, s, v)
      <4>1. d = [o \in Offs |-> {v}]
        BY <3>6, <3>9 DEF Holds
      <4>2. \A x \in Offs : d[x] = {v}
        BY <4>1
      <4>3. l = 0
        <5> SUFFICES ASSUME 0 < l PROVE FALSE
          BY <3>3
        <5>1. d[0] = flash[USERDATA][s][0] \cup burn_buf
          BY <1>1, <3>4
        <5>2. burn_buf \subseteq {v}
          BY <1>1, <4>2, <5>1
        <5> QED BY <1>1, <3>9, <5>2
      <4>4. d = flash[USERDATA][s]
        BY <1>1, <3>4, <4>3
      <4> QED BY <4>1, <4>4 DEF Holds
    <3> QED BY <3>6, <3>8, <3>9
  <2>5. CASE node[n].type = "ERASING"
    <3>1. PICK P \in SUBSET Offs :
              flash'[USERDATA] = [flash[USERDATA] EXCEPT ![s] =
                  [x \in Offs |-> IF x \in P THEN {} ELSE flash[USERDATA][s][x]]]
      BY <1>2, <1>9, <2>5 DEF TailPart
    <3> DEFINE d == [x \in Offs |-> IF x \in P THEN {} ELSE flash[USERDATA][s][x]]
    <3>2. d \in [Offs -> SUBSET Bits]
      BY <1>1
    <3> HIDE DEF d
    <3>3. Moved(s) /\ flash'[USERDATA][s] = d
      BY <1>5, <3>1, <3>2 DEF d
    <3>4. node'[n].type = "ERASING" /\ n \in Queue'
      BY <2>1, <2>5 DEF SameNode
    <3>5. Writing(s)'
      BY <2>2, <2>3, <3>4 DEF Writing
    <3>6. ASSUME NEW v, Holds(flash', s, v) PROVE Holds(flash, s, v)
      <4>1. d = [o \in Offs |-> {v}]
        BY <3>3, <3>6 DEF Holds
      <4>2. \A x \in Offs : d[x] = {v}
        BY <4>1
      <4>3. \A x \in Offs : flash[USERDATA][s][x] = {v}
        BY <4>2 DEF d
      <4> QED BY <1>1, <4>3 DEF Holds
    <3> QED BY <3>3, <3>5, <3>6
  <2> QED BY <1>2, <2>4, <2>5
<1> QED BY <1>2, <1>7, <1>8, <1>9

\* With nothing queued, an erase is all that is queued afterwards.
LEMMA EraseQueue ==
    ASSUME IInv, Queue = {}, NEW s \in Secs, EraseAsync(USERDATA, s)
    PROVE  flash' = flash /\ Erasing(s)'
<1> DEFINE merged  == MergedErase(USERDATA, s)
           dropped == {n \in OfSector(USERDATA, s) :
                         ~node[n].lock /\ \A k \in merged : <<n, k>> \in before}
           kept    == opera_info[USERDATA] \ dropped
           free    == Slots \ (opera_used \ dropped)
           i       == FirstFree(free)
           nd      == [FreeNode EXCEPT !.addr = s]
<1>1. flash' = flash
  BY DEF EraseAsync, chip
<1>2. OfSector(USERDATA, s) = {} /\ merged = {} /\ dropped = {} /\ kept = {}
  BY DEF OfSector, MergedErase, Queue
<1>3. \/ /\ merged # {}
         /\ opera_info' = [opera_info EXCEPT ![USERDATA] = kept]
         /\ before' = Without(dropped)
         /\ node' = [n \in Slots |-> IF n \in dropped THEN FreeNode ELSE node[n]]
         /\ opera_used' = opera_used \ dropped
      \/ /\ merged = {} /\ free # {}
         /\ Push(USERDATA, kept, i, nd)
         /\ opera_used' = (opera_used \ dropped) \cup {i}
  BY DEF EraseAsync
<1>4. free # {} => i \in Slots
  BY DEF FirstFree
<1>5. nd.addr = s /\ nd.type = "ERASING"
  BY DEF FreeNode
<1> HIDE DEF merged, dropped, kept, free, i, nd
<1>6. /\ opera_info' = [opera_info EXCEPT ![USERDATA] = {i}]
      /\ node' = [[n \in Slots |-> IF n \in opera_info[USERDATA] \ {} THEN FreeNode
                                   ELSE node[n]] EXCEPT ![i] = nd]
      /\ i \in Slots
  BY <1>2, <1>3, <1>4 DEF Push
<1>7. Queue' = {i} /\ node'[i] = nd
  BY <1>6, NvConstants DEF Queue, IInv, TypeOK
<1> QED BY <1>1, <1>5, <1>7 DEF Erasing

\* A write of the whole of burn_buf merges into the one that is queued or goes
\* in front of the list.
LEMMA WriteQueue ==
    ASSUME IInv, Types, NEW s \in Secs, Erasing(s) \/ Writing(s),
           WriteAsync(USERDATA, s, 0, SecLen, burn_buf), burn_buf' = burn_buf
    PROVE  flash' = flash /\ Writing(s)'
<1>1. /\ flash' = flash /\ Offs = 0 .. SecLen - 1 /\ SecLen \in Nat \ {0}
      /\ 0 \in Offs /\ USERDATA \in Mods
  BY NvConstants DEF WriteAsync, chip, Offs
<1>2. /\ opera_info \in [Mods -> SUBSET Slots] /\ node \in [Slots -> Node]
      /\ before \subseteq Slots \X Slots
      /\ Queue \subseteq Slots /\ Queue \subseteq opera_used
  BY QueueFacts DEF IInv, TypeOK
<1>3. \A n \in Queue : node[n].addr = s
  BY DEF Erasing, Writing
<1>4. \A d, x : x \in Offs => Memcpy(d, 0, SecLen, burn_buf)[x] = burn_buf
  BY <1>1 DEF Memcpy, InRange
<1>5. CASE WriteAsyncMerge(USERDATA, s, 0, SecLen, burn_buf)
  <2>0. PICK i : i = FirstOf(Mergeable(USERDATA, s))
    OBVIOUS
  <2> DEFINE old == node[i]
             new == [old EXCEPT !.data = Memcpy(old.data, 0, SecLen, burn_buf),
                                !.w_offs = MergedOffs(old, 0),
                                !.w_len = MergedLen(old, 0, SecLen)]
  <2>1. Mergeable(USERDATA, s) \in SUBSET opera_info[USERDATA]
    BY DEF Mergeable, OfSector
  <2>2. i \in Queue
    BY <1>1, <1>5, <2>0, <2>1, FirstOfPart DEF WriteAsyncMerge, IInv, Queue
  <2>3. /\ node' = [node EXCEPT ![i] = new] /\ old.type = "WRITTING"
        /\ UNCHANGED <<opera_info, before>>
    BY <1>5, <2>0 DEF WriteAsyncMerge
  <2>4. Writing(s) /\ FullWrite(i)
    BY <2>2, <2>3 DEF Erasing, Writing
  <2>5. MergedOffs(old, 0) = 0 /\ MergedLen(old, 0, SecLen) = SecLen
    BY <1>1, <2>4 DEF FullWrite, MergedOffs, MergedLen
  <2>6. i \in Slots /\ old \in Node
    BY <1>2, <2>2
  <2>7. /\ new.type = "WRITTING" /\ new.addr = s /\ new.w_offs = 0
        /\ new.w_len = SecLen /\ \A x \in Offs : new.data[x] = burn_buf
    BY <1>3, <1>4, <2>2, <2>3, <2>5, <2>6 DEF Node
  <2> HIDE DEF old, new
  <2>8. node'[i] = new /\ \A n \in Queue \ {i} : node'[n] = node[n]
    BY <1>2, <2>3, <2>6
  <2>9. Queue' = Queue /\ \A n \in Queue : IsTail(n) => IsTail(n)'
    BY <2>3 DEF Queue, IsTail
  <2>10. FullWrite(i)' /\ node'[i].addr = s /\ node'[i].type = "WRITTING"
    BY <2>7, <2>8 DEF FullWrite
  <2>11. \A n \in Queue' :
           /\ node'[n].addr = s
           /\ FullWrite(n)' \/ (node'[n].type = "ERASING" /\ IsTail(n)')
    <3>1. ASSUME NEW n \in Queue \ {i}
          PROVE  /\ node'[n].addr = s
                 /\ FullWrite(n)' \/ (node'[n].type = "ERASING" /\ IsTail(n)')
      BY <2>4, <2>8, <2>9 DEF Writing, FullWrite
    <3> QED BY <2>9, <2>10, <3>1
  <2>12. (\A n \in Queue' : node'[n].type = "WRITTING") =>
             \A x \in Offs : flash'[USERDATA][s][x] \subseteq burn_buf'
    <3>1. \A n \in Queue : node'[n].type = "WRITTING" => node[n].type = "WRITTING"
      BY <2>4, <2>8 DEF FullWrite
    <3> QED BY <1>1, <2>4, <2>9, <3>1 DEF Writing
  <2> QED BY <1>1, <2>2, <2>9, <2>10, <2>11, <2>12 DEF Writing
<1>6. CASE WriteAsyncNew(USERDATA, s, 0, SecLen, burn_buf)
  <2>0. PICK i : i = FirstFree(Slots \ opera_used)
    OBVIOUS
  <2> DEFINE nd == [type |-> "WRITTING", addr |-> s, w_offs |-> 0, w_len |-> SecLen,
                    buff |-> FirstFree(Bufs \ buffer_used),
                    data |-> Memcpy(BaseOf(USERDATA, s), 0, SecLen, burn_buf),
                    lock |-> FALSE]
  <2>1. i \in Slots \ opera_used
    BY <1>6, <2>0 DEF WriteAsyncNew, FirstFree
  <2>2. Push(USERDATA, Queue, i, nd)
    BY <1>6, <2>0 DEF WriteAsyncNew, Queue
  <2>3. /\ nd.type = "WRITTING" /\ nd.addr = s /\ nd.w_offs = 0
        /\ nd.w_len = SecLen /\ \A x \in Offs : nd.data[x] = burn_buf
    BY <1>4
  <2> HIDE DEF nd
  <2>4. /\ opera_info' = [opera_info EXCEPT ![USERDATA] = Queue \cup {i}]
        /\ before' = Without(opera_info[USERDATA] \ Queue) \cup ({i} \X Queue)
        /\ node' = [[n \in Slots |-> IF n \in opera_info[USERDATA] \ Queue
                                     THEN FreeNode ELSE node[n]] EXCEPT ![i] = nd]
    BY <2>2 DEF Push
  <2>5. Queue' = Queue \cup {i} /\ opera_info[USERDATA] \ Queue = {}
    BY <1>1, <1>2, <2>4 DEF Queue
  <2>6. node'[i] = nd /\ \A n \in Queue : n # i /\ node'[n] = node[n]
    BY <1>2, <2>1, <2>4, <2>5
  <2>7. before' = before \cup ({i} \X Queue)
    BY <1>2, <2>4, <2>5 DEF Without
  <2>8. FullWrite(i)' /\ node'[i].addr = s /\ node'[i].type = "WRITTING"
    BY <2>3, <2>6 DEF FullWrite
  <2>9. \A n \in Queue : IsTail(n) => IsTail(n)'
    BY <2>5, <2>7 DEF IsTail
  <2>10. \A n \in Queue : FullWrite(n) \/ (node[n].type = "ERASING" /\ IsTail(n))
    BY DEF Erasing, Writing, IsTail
  <2>11. \A n \in Queue' :
           /\ node'[n].addr = s
           /\ FullWrite(n)' \/ (node'[n].type = "ERASING" /\ IsTail(n)')
    <3>1. ASSUME NEW n \in Queue
          PROVE  /\ node'[n].addr = s
                 /\ FullWrite(n)' \/ (node'[n].type = "ERASING" /\ IsTail(n)')
      BY <1>3, <2>6, <2>9, <2>10 DEF FullWrite
    <3> QED BY <2>5, <2>8, <3>1
  <2>12. (\A n \in Queue' : node'[n].type = "WRITTING") =>
             \A x \in Offs : flash'[USERDATA][s][x] \subseteq burn_buf'
    <3> SUFFICES ASSUME \A n \in Queue' : node'[n].type = "WRITTING"
                 PROVE  \A x \in Offs : flash'[USERDATA][s][x] \subseteq burn_buf'
      OBVIOUS
    <3>1. \A n \in Queue : node[n].type = "WRITTING"
      BY <2>5, <2>6
    <3>2. CASE Erasing(s)
      <4>1. flash[USERDATA][s] = Erased
        BY <3>1, <3>2 DEF Erasing
      <4> QED BY <1>1, <4>1 DEF Erased
    <3>3. CASE Writing(s)
      BY <1>1, <3>1, <3>3 DEF Writing
    <3> QED BY <3>2, <3>3
  <2> QED BY <1>1, <2>5, <2>8, <2>11, <2>12 DEF Writing
<1> QED BY <1>5, <1>6 DEF WriteAsync

\* A sector becomes a valid record only if that record is in burn_buf.
Shows(s) == \A v : Holds(flash', s, v) => Holds(flash, s, v) \/ burn_buf = {v}

LEMMA WorkKeeps ==
    ASSUME IInv, Types, norflash_api_flush \/ Untouched, burn_buf' = burn_buf,
           NEW s \in Secs
    PROVE  /\ Queue = {} => Queue' = {} /\ flash'[USERDATA] = flash[USERDATA]
           /\ Erasing(s) => Erasing(s)' /\ Moved(s) /\ Shows(s)
           /\ Writing(s) => Writing(s)' /\ Moved(s) /\ Shows(s)
<1>1. Untouched \/ \E n \in Queue : TailDone(n) \/ TailPart(n)
  BY FlushQueue
<1>2. CASE Untouched
  BY <1>2, UntouchedKeeps DEF Untouched, Moved, Shows, Holds
<1>3. CASE \E n \in Queue : TailDone(n) \/ TailPart(n)
  <2>1. PICK n \in Queue : TailDone(n) \/ TailPart(n)
    BY <1>3
  <2>2. Erasing(s) => Erasing(s)' /\ Moved(s) /\ Shows(s)
    BY <2>1, ErasingFlush DEF Shows
  <2>3. Writing(s) => Writing(s)' /\ Moved(s) /\ Shows(s)
    BY <2>1, WritingFlush DEF Shows
  <2> QED BY <2>2, <2>3
<1> QED BY <1>1, <1>2, <1>3

MainWork == {"MAIN_ERASED", "MAIN_WRITE_PENDING", "MAIN_WRITTEN"}
BakWork  == {"BAK_ERASED", "BAK_WRITE_PENDING", "BAK_WRITTEN"}

\* Only the sector a save works on changes, and only towards burn_buf.
SectorsKeep ==
    /\ nv_state \notin MainWork => flash'[USERDATA][Main] = flash[USERDATA][Main]
    /\ nv_state \notin BakWork => flash'[USERDATA][Bak] = flash[USERDATA][Bak]
    /\ Shows(Main) /\ Shows(Bak)

LEMMA QuietSectors ==
    ASSUME flash'[USERDATA] = flash[USERDATA]
    PROVE  SectorsKeep
BY DEF SectorsKeep, Shows, Holds

LEMMA FlushSectors ==
    ASSUME IInv, Types, QueueFits, norflash_api_flush \/ Untouched,
           burn_buf' = burn_buf
    PROVE  SectorsKeep
<1>0. Main \in Secs /\ Bak \in Secs /\ Main # Bak /\ nv_state \in NV_STATE
  BY NvConstants DEF Types, NvTypeOK
<1>1. CASE Queue = {}
  BY <1>0, <1>1, WorkKeeps, QuietSectors
<1>2. CASE nv_state \in MainWork
  <2>1. Moved(Main) /\ Shows(Main)
    BY <1>0, <1>2, WorkKeeps DEF QueueFits, MainWork
  <2>2. flash'[USERDATA][Bak] = flash[USERDATA][Bak]
    BY <1>0, <2>1 DEF Moved
  <2> QED BY <1>2, <2>1, <2>2 DEF SectorsKeep, Shows, Holds, MainWork, BakWork
<1>3. CASE nv_state \in BakWork
  <2>1. Moved(Bak) /\ Shows(Bak)
    BY <1>0, <1>3, WorkKeeps DEF QueueFits, BakWork
  <2>2. flash'[USERDATA][Main] = flash[USERDATA][Main]
    BY <1>0, <2>1 DEF Moved
  <2> QED BY <1>3, <2>1, <2>2 DEF SectorsKeep, Shows, Holds, MainWork, BakWork
<1> QED BY <1>0, <1>1, <1>2, <1>3 DEF QueueFits, NV_STATE, MainWork, BakWork

LEMMA FlushQueueFits ==
    ASSUME IInv, Types, QueueFits, norflash_api_flush \/ Untouched,
           UNCHANGED <<nv_state, burn_buf>>
    PROVE  QueueFits'
<1>0. Main \in Secs /\ Bak \in Secs
  BY NvConstants
<1> QED BY <1>0, WorkKeeps DEF QueueFits

-----------------------------------------------------------------------------
(* The inductive step.                                                     *)

RecordFits == OffIsReset /\ Fresh /\ OtherValid /\ BurnBuf /\ UpdateTold

NvInv == Types /\ IInv /\ QueueFits /\ RecordFits

\* While the record, the flags and the history stay, the sectors may change
\* the way a flush changes them.
LEMMA QuietRecord ==
    ASSUME Types, RecordFits, SectorsKeep,
           UNCHANGED <<nv_record, setting, is_update, nv_state, burn_buf,
                       flushing, nvrec_init, saved, repair>>,
           nvrec_init = "off" => hook' = hook
    PROVE  RecordFits'
<1>1. OffIsReset'
  BY DEF RecordFits, OffIsReset
<1>2. Fresh'
  BY DEF RecordFits, Fresh, SectorsKeep, Shows
<1>3. OtherValid'
  <2>1. nv_state \in MainPhase => nv_state \notin BakWork
    BY DEF MainPhase, BakPhase, BakWork
  <2>2. nv_state \in BakPhase => nv_state \notin MainWork
    BY DEF BakPhase, MainWork
  <2>3. nvrec_init = "off" => nv_state \notin MainWork
    BY DEF RecordFits, OffIsReset, MainWork
  <2> QED BY <2>1, <2>2, <2>3
          DEF RecordFits, OtherValid, SectorsKeep, IsValid, Holds
<1>4. BurnBuf'
  BY DEF RecordFits, BurnBuf
<1>5. UpdateTold'
  <2>1. nv_state = "IDLE" => nv_state \notin MainWork /\ nv_state \notin BakWork
    BY DEF MainWork, BakWork
  <2> QED BY <2>1 DEF RecordFits, UpdateTold, SectorsKeep, IsValid, Holds
<1> QED BY <1>1, <1>2, <1>3, <1>4, <1>5 DEF RecordFits

LEMMA InitRecord ==
    ASSUME NvInit
    PROVE  QueueFits /\ RecordFits
<1>1. /\ Queue = {} /\ nv_state = "IDLE" /\ burn_buf = Bits
      /\ nvrec_init = "off" /\ saved = 0 /\ ~flushing /\ hook = "wait" /\ ~setting
      /\ flash[USERDATA][Main] = Erased /\ flash[USERDATA][Bak] = Erased
  BY NvConstants DEF NvInit, Init, Queue, Default
<1>2. QueueFits
  BY <1>1 DEF QueueFits
<1>3. \A s \in {Main, Bak}, v \in Bits : ~Holds(flash, s, v)
  <2> SUFFICES ASSUME NEW v, [o \in Offs |-> {}] = [o \in Offs |-> {v}]
               PROVE  FALSE
    BY <1>1 DEF Holds, Erased
  <2>1. [o \in Offs |-> {v}][0] = {v} /\ [o \in Offs |-> {}][0] = {}
    BY ONLY NvConstants
  <2> QED BY <2>1
<1>4. \A v : burn_buf # {v}
  BY <1>1, NvConstants
<1> QED BY <1>1, <1>2, <1>3, <1>4
        DEF RecordFits, OffIsReset, Fresh, OtherValid, BurnBuf, UpdateTold,
            BakPhase

\* A save goes on, the sectors stay.
LEMMA PhaseRecord ==
    ASSUME RecordFits, nvrec_init # "off", flash'[USERDATA] = flash[USERDATA],
           UNCHANGED <<nv_record, setting, is_update, burn_buf, nvrec_init,
                       saved, repair>>,
           \/ /\ nv_state \in {"IDLE", "MAIN_ERASING"} /\ is_update
              /\ nv_state' \in {"MAIN_ERASING", "MAIN_ERASED"}
           \/ nv_state = "MAIN_WRITE_PENDING" /\ nv_state' = "MAIN_WRITTEN"
           \/ nv_state \in BakPhase /\ nv_state' \in BakPhase
    PROVE  RecordFits'
<1>1. OffIsReset'
  BY DEF OffIsReset
<1>2. Fresh'
  BY DEF RecordFits, Fresh, Holds
<1>3. OtherValid'
  <2>1. nv_state' \in BakPhase => nv_state \in BakPhase
    BY DEF BakPhase
  <2>2. nv_state' \in MainPhase => nv_state \in MainPhase
    BY DEF MainPhase, BakPhase, NV_STATE
  <2> QED BY <2>1, <2>2 DEF RecordFits, OtherValid, IsValid, Holds
<1>4. BurnBuf'
  BY DEF RecordFits, BurnBuf, BakPhase
<1>5. UpdateTold'
  BY DEF RecordFits, UpdateTold, BakPhase
<1> QED BY <1>1, <1>2, <1>3, <1>4, <1>5 DEF RecordFits

LEMMA EraseStep ==
    ASSUME Types, IInv, QueueFits, RecordFits, FlushStep, nvrec_init # "off",
           \/ /\ nv_state = "IDLE" => is_update
              /\ Erase(Main, {"IDLE", "MAIN_ERASING"}, "MAIN_ERASING", "MAIN_ERASED")
           \/ Erase(Bak, {"MAIN_DONE", "BAK_ERASING"}, "BAK_ERASING", "BAK_ERASED")
    PROVE  QueueFits' /\ RecordFits'
<1>1. /\ UNCHANGED <<nv_record, setting, is_update, burn_buf, nvrec_init, saved,
                     repair, flushing>>
      /\ nv_state \in {"IDLE", "MAIN_ERASING", "MAIN_DONE", "BAK_ERASING"}
  BY DEF FlushStep, Erase
<1>2. Queue = {} /\ Main \in Secs /\ Bak \in Secs
  BY <1>1, NvConstants DEF QueueFits
<1>3. nv_state \in {"IDLE", "MAIN_ERASING"} => is_update
  BY <1>1 DEF Erase, RecordFits, UpdateTold
<1>4. \/ EraseAsync(USERDATA, Main) /\ nv_state \in {"IDLE", "MAIN_ERASING"}
         /\ nv_state' = "MAIN_ERASED"
      \/ EraseAsync(USERDATA, Bak) /\ nv_state \in {"MAIN_DONE", "BAK_ERASING"}
         /\ nv_state' = "BAK_ERASED"
      \/ norflash_api_flush /\ nv_state \in {"IDLE", "MAIN_ERASING"}
         /\ nv_state' \in {nv_state, "MAIN_ERASING"}
      \/ norflash_api_flush /\ nv_state \in {"MAIN_DONE", "BAK_ERASING"}
         /\ nv_state' \in {nv_state, "BAK_ERASING"}
  BY DEF Erase
<1>5. \/ flash' = flash /\ Erasing(Main)' /\ nv_state' = "MAIN_ERASED"
      \/ flash' = flash /\ Erasing(Bak)' /\ nv_state' = "BAK_ERASED"
      \/ /\ Queue' = {} /\ flash'[USERDATA] = flash[USERDATA]
         /\ nv_state' \in {"IDLE", "MAIN_ERASING", "MAIN_DONE", "BAK_ERASING"}
  BY <1>1, <1>2, <1>4, EraseQueue, WorkKeeps
<1>6. QueueFits'
  BY <1>5 DEF QueueFits
<1>7. RecordFits'
  <2>1. flash'[USERDATA] = flash[USERDATA]
    BY <1>5
  <2>2. CASE nv_state' = nv_state
    BY <1>1, <2>1, <2>2, QuietSectors, QuietRecord
  <2>3. CASE nv_state' # nv_state
    BY <1>1, <1>3, <1>4, <2>1, <2>3, PhaseRecord DEF BakPhase
  <2> QED BY <2>2, <2>3
<1> QED BY <1>6, <1>7

LEMMA WriteStep ==
    ASSUME Types, IInv, QueueFits, RecordFits, FlushStep, nvrec_init # "off",
           \/ Write(Main, "MAIN_WRITE_PENDING", "MAIN_WRITTEN")
           \/ Write(Bak, "BAK_WRITE_PENDING", "BAK_WRITTEN")
    PROVE  QueueFits' /\ RecordFits'
<1>1. UNCHANGED <<nv_record, setting, is_update, burn_buf, nvrec_init, saved,
                  repair, flushing>>
  BY DEF FlushStep, Write
<1>2. Main \in Secs /\ Bak \in Secs
  BY NvConstants
<1>3. CASE norflash_api_flush /\ nv_state' = nv_state
  BY <1>1, <1>3, FlushSectors, FlushQueueFits, QuietRecord
<1>4. CASE /\ nv_state = "MAIN_WRITE_PENDING" /\ nv_state' = "MAIN_WRITTEN"
           /\ WriteAsync(USERDATA, Main, 0, SecLen, burn_buf)
  <2>1. Erasing(Main)
    BY <1>4 DEF QueueFits
  <2>2. flash' = flash /\ Writing(Main)'
    BY <1>1, <1>2, <1>4, <2>1, WriteQueue
  <2>3. QueueFits'
    BY <1>4, <2>2 DEF QueueFits
  <2> QED BY <1>1, <1>4, <2>2, <2>3, PhaseRecord
<1>5. CASE /\ nv_state = "BAK_WRITE_PENDING" /\ nv_state' = "BAK_WRITTEN"
           /\ WriteAsync(USERDATA, Bak, 0, SecLen, burn_buf)
  <2>1. Erasing(Bak) \/ Writing(Bak)
    BY <1>5 DEF QueueFits
  <2>2. flash' = flash /\ Writing(Bak)'
    BY <1>1, <1>2, <1>5, <2>1, WriteQueue
  <2>3. QueueFits'
    BY <1>5, <2>2 DEF QueueFits
  <2> QED BY <1>1, <1>5, <2>2, <2>3, PhaseRecord DEF BakPhase
<1> QED BY <1>3, <1>4, <1>5 DEF Write

\* The copy is the record as it is, and the flag is reset with it.
LEMMA CopyStep ==
    ASSUME Types, IInv, QueueFits, RecordFits, FlushStep, nvrec_init # "off", Copy
    PROVE  QueueFits' /\ RecordFits'
<1>1. /\ UNCHANGED <<nv_record, setting, nvrec_init, saved, repair>>
      /\ UNCHANGED <<opera_info, before, node, flash>>
      /\ nv_state = "MAIN_ERASED" /\ nv_state' = "MAIN_WRITE_PENDING"
      /\ burn_buf' = {nv_record} /\ is_update' = FALSE
  BY DEF FlushStep, Copy, vars, lists, chip
<1>2. nv_record \in Bits /\ saved \in Nat /\ {nv_record} # Bits
  <2>1. nv_record \in Bits
    BY NvConstants DEF Types, NvTypeOK
  <2> QED BY <2>1, NvConstants DEF Types, NvTypeOK
<1>3. QueueFits'
  <2>1. Erasing(Main)
    BY <1>1 DEF QueueFits
  <2>2. Erasing(Main)'
    BY <1>1, <2>1 DEF Erasing, Queue
  <2> QED BY <1>1, <2>2 DEF QueueFits
<1>4. OffIsReset'
  BY <1>1 DEF OffIsReset
<1>5. Fresh'
  <2>1. saved <= nv_record /\ nv_record <= nv_record
    BY <1>2, NvConstants DEF RecordFits, Fresh
  <2> QED BY <1>1, <2>1 DEF RecordFits, Fresh, Holds
<1>6. OtherValid'
  BY <1>1 DEF RecordFits, OtherValid, MainPhase, BakPhase, NV_STATE, IsValid, Holds
<1>7. BurnBuf'
  BY <1>1, <1>2 DEF BurnBuf, BakPhase
<1>8. UpdateTold'
  BY <1>1, <1>2 DEF UpdateTold
<1> QED BY <1>3, <1>4, <1>5, <1>6, <1>7, <1>8 DEF RecordFits

\* What burn_buf holds is what a sector holds when its write is done.
LEMMA WrittenHolds ==
    ASSUME IInv, Types, NEW s \in Secs, Writing(s), Queue = {}, burn_buf # Bits
    PROVE  \E v \in Bits : burn_buf = {v} /\ Holds(flash, s, v)
<1>1. PICK v \in Bits : burn_buf = {v}
  BY DEF Types
<1>2. flash[USERDATA][s] \in [Offs -> SUBSET Bits]
  BY RecordTypes
<1>3. \A x \in Offs : flash[USERDATA][s][x] = {v}
  BY <1>1 DEF Writing
<1>4. Holds(flash, s, v)
  BY <1>2, <1>3 DEF Holds
<1> QED BY <1>1, <1>4

LEMMA WaitMainStep ==
    ASSUME Types, IInv, QueueFits, RecordFits, FlushStep, nvrec_init # "off",
           WaitMain
    PROVE  QueueFits' /\ RecordFits'
<1>1. /\ UNCHANGED <<nv_record, setting, is_update, burn_buf, nvrec_init, saved,
                     repair, flushing>>
      /\ nv_state = "MAIN_WRITTEN"
  BY DEF FlushStep, WaitMain
<1>2. CASE norflash_api_flush /\ nv_state' = nv_state
  BY <1>1, <1>2, FlushSectors, FlushQueueFits, QuietRecord
<1>3. CASE QueueEmpty /\ nv_state' = "MAIN_DONE" /\ UNCHANGED vars
  <2>1. Queue = {} /\ Queue' = {} /\ flash' = flash
    BY <1>3 DEF QueueEmpty, Queue, vars, lists, chip
  <2>2. QueueFits'
    BY <1>3, <2>1 DEF QueueFits
  <2>3. burn_buf # Bits
    BY <1>1 DEF RecordFits, BurnBuf
  <2>4. PICK v \in Bits : burn_buf = {v} /\ Holds(flash, Main, v)
    BY <1>1, <2>1, <2>3, WrittenHolds, NvConstants DEF QueueFits
  <2>5. OffIsReset' /\ BurnBuf'
    BY <1>1, <1>3, <2>3 DEF OffIsReset, BurnBuf
  <2>6. Fresh'
    BY <1>1, <2>1 DEF RecordFits, Fresh, Holds
  <2>7. OtherValid'
    <3>1. /\ IsValid(flash, Main)
          /\ \A w \in Bits : burn_buf = {w} => Holds(flash, Main, w)
      BY <2>4, NvConstants DEF IsValid
    <3> QED BY <1>1, <1>3, <2>1, <3>1
            DEF OtherValid, MainPhase, BakPhase, IsValid, Holds
  <2>8. UpdateTold'
    BY <1>1, <1>3, <2>3 DEF RecordFits, UpdateTold, BakPhase
  <2> QED BY <2>2, <2>5, <2>6, <2>7, <2>8 DEF RecordFits
<1> QED BY <1>2, <1>3 DEF WaitMain

\* The save is done: both sectors hold the version it wrote, but in the boot
\* that repairs bak.
LEMMA WaitBakStep ==
    ASSUME Types, IInv, QueueFits, RecordFits, FlushStep, nvrec_init # "off",
           WaitBak
    PROVE  QueueFits' /\ RecordFits'
<1>1. /\ UNCHANGED <<nv_record, setting, is_update, burn_buf, nvrec_init, flushing>>
      /\ nv_state = "BAK_WRITTEN"
  BY DEF FlushStep, WaitBak
<1>2. CASE /\ norflash_api_flush /\ nv_state' = nv_state
           /\ UNCHANGED <<saved, repair>>
  BY <1>1, <1>2, FlushSectors, FlushQueueFits, QuietRecord
<1>3. CASE QueueEmpty /\ nv_state' = "IDLE" /\ UNCHANGED vars
  <2>1. Queue = {} /\ Queue' = {} /\ flash' = flash
    BY <1>3 DEF QueueEmpty, Queue, vars, lists, chip
  <2>2. QueueFits'
    BY <1>3, <2>1 DEF QueueFits
  <2>3. OffIsReset' /\ BurnBuf'
    BY <1>1, <1>3 DEF OffIsReset, BurnBuf, BakPhase
  <2>4. nv_state \in BakPhase /\ "IDLE" \notin BakPhase
    BY <1>1 DEF BakPhase
  <2>5. CASE burn_buf = Bits
    <3>1. UNCHANGED <<saved, repair>>
      BY <1>3, <2>5 DEF WaitBak
    <3>2. repair
      BY <2>4, <2>5 DEF RecordFits, BurnBuf
    <3>3. is_update
      BY <1>1, <2>4, <2>5 DEF RecordFits, UpdateTold
    <3>4. Fresh'
      BY <1>1, <2>1, <3>1 DEF RecordFits, Fresh, Holds
    <3>5. OtherValid'
      BY <1>3, <2>4, <3>1, <3>2 DEF OtherValid
    <3>6. UpdateTold'
      BY <1>1, <1>3, <2>4, <3>3 DEF UpdateTold
    <3> QED BY <2>2, <2>3, <3>4, <3>5, <3>6 DEF RecordFits
  <2>6. CASE burn_buf # Bits
    <3>1. PICK v \in Bits : burn_buf = {v} /\ Holds(flash, Bak, v)
      BY <1>1, <2>1, <2>6, WrittenHolds, NvConstants DEF QueueFits
    <3>2. Holds(flash, Main, v) /\ saved <= v /\ v <= nv_record
      BY <2>4, <3>1 DEF RecordFits, OtherValid, Fresh
    <3>3. saved' = v
      <4>1. saved' = CHOOSE w \in Bits : burn_buf = {w}
        BY <1>3, <1>1, <2>6, <2>4 DEF WaitBak
      <4> QED BY <3>1, <4>1
    <3>4. v <= v
      BY NvConstants
    <3>5. Fresh'
      <4>1. \A s \in {Main, Bak}, w \in Bits : Holds(flash, s, w) => w = v
        BY <3>1, <3>2, HoldsOne
      <4>2. \A w \in Bits : burn_buf = {w} => w = v
        BY <3>1
      <4> QED BY <1>1, <2>1, <3>2, <3>3, <3>4, <4>1, <4>2 DEF Fresh, Holds
    <3>6. IsValid(flash, Bak)
      BY <3>1, NvConstants DEF IsValid
    <3>7. OtherValid'
      BY <1>3, <2>1, <2>4, <3>6 DEF OtherValid, IsValid, Holds
    <3>8. UpdateTold'
      <4>1. nvrec_init # "off" /\ ~is_update /\ ~setting => burn_buf = {nv_record}
        BY <2>4 DEF RecordFits, UpdateTold
      <4>2. ~is_update /\ ~setting => Holds(flash, Main, nv_record)
        BY <3>1, <3>2, <4>1
      <4> QED BY <1>1, <1>3, <2>1, <2>4, <3>6, <4>2 DEF UpdateTold, IsValid, Holds
    <3> QED BY <2>2, <2>3, <3>5, <3>7, <3>8 DEF RecordFits
  <2> QED BY <2>5, <2>6
<1> QED BY <1>2, <1>3 DEF WaitBak

LEMMA FlushStepKeeps ==
    ASSUME Types, IInv, QueueFits, RecordFits, FlushStep, nvrec_init # "off"
    PROVE  QueueFits' /\ RecordFits'
<1>1. CASE BakReady
  <2>1. /\ UNCHANGED <<nv_record, setting, is_update, burn_buf, nvrec_init, saved,
                       repair>>
        /\ UNCHANGED <<opera_info, before, node, flash>>
        /\ nv_state = "BAK_ERASED" /\ nv_state' = "BAK_WRITE_PENDING"
    BY <1>1 DEF FlushStep, BakReady, vars, lists, chip
  <2>2. Erasing(Bak)'
    BY <2>1 DEF QueueFits, Erasing, Queue
  <2>3. QueueFits'
    BY <2>1, <2>2 DEF QueueFits
  <2> QED BY <2>1, <2>3, PhaseRecord DEF BakPhase
<1> QED BY <1>1, EraseStep, WriteStep, CopyStep, WaitMainStep, WaitBakStep
        DEF FlushStep

\* A boot takes the record of main, else that of bak, and saves it again
\* unless both are valid.
LEMMA BootStep ==
    ASSUME Types, IInv, QueueFits, RecordFits, nv_record_extension_init
    PROVE  QueueFits' /\ RecordFits'
<1> DEFINE main == IsValid(flash, Main)
           bak  == IsValid(flash, Bak)
           w    == Loaded(flash)
<1>1. /\ nvrec_init = "off" /\ nvrec_init' # "off" /\ nv_record' = w
      /\ is_update' = ~(main /\ bak)
      /\ nv_state' = IF main /\ ~bak THEN "MAIN_DONE" ELSE "IDLE"
      /\ repair' = (main /\ ~bak)
      /\ saved' = IF w < saved THEN w ELSE saved
      /\ UNCHANGED <<setting, burn_buf>>
  BY DEF nv_record_extension_init
<1>2. UNCHANGED <<opera_info, before, node, flash>>
  BY DEF nv_record_extension_init, norflash_api_register, lists, chip
<1>3. nv_state = "IDLE" /\ ~setting /\ burn_buf = Bits
  BY <1>1 DEF RecordFits, OffIsReset
<1>4. \A v : burn_buf # {v}
  BY <1>3, NvConstants
<1>5. w \in Nat /\ saved \in Nat /\ saved' <= w /\ saved' <= saved /\ saved' \in Nat
      /\ w \in Bits
  <2>1. w \in Bits /\ saved \in Bits
    BY LoadedType, NvConstants DEF Types, NvTypeOK
  <2> HIDE DEF w
  <2> QED BY <1>1, <2>1, NvConstants
<1>6. main => Holds(flash, Main, w)
  BY VersionHeld DEF Loaded
<1>7. ~main /\ ~bak => saved' = 0
  BY <1>1, <1>5 DEF Loaded, Default
<1> HIDE DEF w
<1>8. QueueFits'
  <2>1. Queue' = {}
    BY <1>2, <1>3 DEF QueueFits, Queue
  <2> QED BY <1>1, <2>1 DEF QueueFits
<1>9. OffIsReset' /\ BurnBuf'
  BY <1>1, <1>3 DEF OffIsReset, BurnBuf, BakPhase
<1>10. Fresh'
  <2>1. \A s \in {Main, Bak}, v \in Bits : Holds(flash, s, v) => saved' <= v
    <3> SUFFICES ASSUME NEW s \in {Main, Bak}, NEW v \in Bits, Holds(flash, s, v)
                 PROVE  saved' <= v
      OBVIOUS
    <3>1. saved <= v /\ v \in Nat
      BY NvConstants DEF RecordFits, Fresh
    <3> QED BY <1>5, <3>1
  <2> QED BY <1>1, <1>2, <1>4, <1>5, <2>1 DEF Fresh, Holds
<1>11. OtherValid'
  <2>1. "MAIN_DONE" \notin MainPhase /\ "IDLE" \notin BakPhase
    BY DEF MainPhase, BakPhase
  <2>2. UNCHANGED <<flash, burn_buf>>
    BY <1>1, <1>2
  <2> QED BY <1>1, <1>4, <1>7, <2>1, <2>2 DEF OtherValid, IsValid, Holds
<1>12. UpdateTold'
  <2>1. UNCHANGED flash
    BY <1>2
  <2>2. nv_state' \in {"MAIN_DONE", "IDLE"} /\ (nv_state' = "MAIN_DONE" => is_update')
    BY <1>1
  <2>3. ~is_update' => bak /\ Holds(flash, Main, nv_record')
    BY <1>1, <1>6
  <2>4. "IDLE" \notin BakPhase
    BY DEF BakPhase
  <2> QED BY <2>1, <2>2, <2>3, <2>4 DEF UpdateTold, IsValid, Holds
<1> QED BY <1>8, <1>9, <1>10, <1>11, <1>12 DEF RecordFits

\* A power failure leaves the flash, and nothing of a save in it is lost.
LEMMA CrashStep ==
    ASSUME Types, IInv, QueueFits, RecordFits, Crash
    PROVE  QueueFits' /\ RecordFits'
<1>1. /\ nvrec_init # "off" /\ nvrec_init' = "off" /\ nv_state' = "IDLE"
      /\ burn_buf' = Bits /\ flushing' = FALSE /\ hook' = "wait" /\ setting' = FALSE
      /\ UNCHANGED <<flash, saved, repair>> /\ nv_record' = 0
      /\ opera_info' = [m \in Mods |-> {}]
  BY DEF Crash, Default
<1>2. QueueFits'
  BY <1>1, NvConstants DEF QueueFits, Queue
<1>3. OffIsReset' /\ BurnBuf' /\ UpdateTold'
  BY <1>1 DEF OffIsReset, BurnBuf, UpdateTold, BakPhase
<1>4. Fresh'
  <2>1. \A v : burn_buf' # {v}
    BY <1>1, NvConstants
  <2> QED BY <1>1, <2>1 DEF RecordFits, Fresh, Holds
<1>5. OtherValid'
  <2>1. "IDLE" \notin BakPhase /\ "IDLE" \in MainPhase
    BY DEF MainPhase, BakPhase, NV_STATE
  <2>2. nv_state \in BakPhase \/ nv_state \in MainPhase
    BY DEF MainPhase, Types, NvTypeOK
  <2>3. ~repair => saved = 0 \/ IsValid(flash, Bak) \/ IsValid(flash, Main)
    BY <2>2, <1>1 DEF RecordFits, OtherValid
  <2> QED BY <1>1, <2>1, <2>3 DEF OtherValid, IsValid, Holds
<1> QED BY <1>2, <1>3, <1>4, <1>5 DEF RecordFits

\* The other actions of the record leave the service alone.
LEMMA RecordStep ==
    ASSUME Types, IInv, QueueFits, RecordFits,
           \/ SetterWrites \/ nv_record_extension_update \/ FlushBegin \/ FlushEnd
           \/ HookCheck \/ HookReturn \/ TimerFires \/ UNCHANGED allVars
    PROVE  QueueFits' /\ RecordFits'
<1>1. UNCHANGED <<opera_info, before, node, flash>>
  BY DEF SetterWrites, nv_record_extension_update, FlushBegin, FlushEnd,
         HookCheck, HookReturn, TimerFires, allVars, vars, lists, chip
<1>2. Untouched /\ flash'[USERDATA] = flash[USERDATA]
  BY <1>1, StillUntouched
<1>3. ASSUME UNCHANGED <<nv_record, setting, is_update, nv_state, burn_buf,
                         flushing, nvrec_init, saved, repair>>,
             nvrec_init = "off" => hook' = hook
      PROVE  QueueFits' /\ RecordFits'
  BY <1>2, <1>3, FlushQueueFits, QuietSectors, QuietRecord
<1>4. CASE SetterWrites
  <2>1. /\ nvrec_init = "on" /\ nv_record' = nv_record + 1 /\ setting' = TRUE
        /\ UNCHANGED <<is_update, nv_state, burn_buf, flushing, nvrec_init, hook>>
        /\ UNCHANGED <<saved, repair>>
    BY <1>4 DEF SetterWrites, flushState, threadVars
  <2>2. QueueFits'
    BY <1>2, <2>1, FlushQueueFits
  <2>3. OffIsReset' /\ OtherValid' /\ BurnBuf' /\ UpdateTold'
    <3>1. OffIsReset' /\ BurnBuf'
      BY <2>1 DEF RecordFits, OffIsReset, BurnBuf
    <3>2. OtherValid'
      BY <1>1, <2>1 DEF RecordFits, OtherValid, IsValid, Holds
    <3>3. UpdateTold'
      BY <1>1, <2>1 DEF RecordFits, UpdateTold, IsValid, Holds
    <3> QED BY <3>1, <3>2, <3>3
  <2>4. Fresh'
    <3>1. saved \in Nat /\ nv_record \in Nat /\ Bits \subseteq Nat
      BY NvConstants DEF Types, NvTypeOK
    <3>2. saved <= nv_record' /\ \A v \in Bits : v <= nv_record => v <= nv_record'
      BY <2>1, <3>1 DEF RecordFits, Fresh
    <3> QED BY <1>1, <2>1, <3>2 DEF RecordFits, Fresh, Holds
  <2> QED BY <2>2, <2>3, <2>4 DEF RecordFits
<1>5. CASE nv_record_extension_update
  <2>1. /\ setting /\ setting' = FALSE /\ is_update' = TRUE
        /\ UNCHANGED <<nv_record, nv_state, burn_buf, flushing, nvrec_init, hook>>
        /\ UNCHANGED <<saved, repair>>
    BY <1>5 DEF nv_record_extension_update
  <2>2. QueueFits'
    BY <1>2, <2>1, FlushQueueFits
  <2>3. OffIsReset' /\ BurnBuf'
    BY <2>1 DEF RecordFits, OffIsReset, BurnBuf
  <2>4. Fresh'
    BY <1>1, <2>1 DEF RecordFits, Fresh, Holds
  <2>5. OtherValid'
    BY <1>1, <2>1 DEF RecordFits, OtherValid, IsValid, Holds
  <2>6. UpdateTold'
    BY <2>1 DEF UpdateTold
  <2> QED BY <2>2, <2>3, <2>4, <2>5, <2>6 DEF RecordFits
<1>6. CASE FlushBegin
  <2>1. /\ nvrec_init = "on"
        /\ UNCHANGED <<nv_record, setting, is_update, burn_buf, nvrec_init, saved,
                       repair>>
        /\ nv_state' = IF nv_state = "BAK_WRITTEN" THEN "BAK_WRITE_PENDING"
                       ELSE nv_state
    BY <1>6 DEF FlushBegin
  <2>2. CASE nv_state = "BAK_WRITTEN"
    <3>1. nv_state' = "BAK_WRITE_PENDING" /\ Writing(Bak)'
      BY <1>2, <2>1, <2>2, UntouchedKeeps DEF QueueFits
    <3>2. QueueFits'
      BY <3>1 DEF QueueFits
    <3> QED BY <1>2, <2>1, <2>2, <3>1, <3>2, PhaseRecord DEF BakPhase
  <2>3. CASE nv_state # "BAK_WRITTEN"
    <3>1. UNCHANGED <<nv_state, hook>>
      BY <1>6, <2>3 DEF FlushBegin, threadVars
    <3>2. QueueFits'
      BY <1>2, <2>1, <3>1, FlushQueueFits
    <3>3. OffIsReset' /\ BurnBuf'
      BY <2>1, <3>1 DEF RecordFits, OffIsReset, BurnBuf
    <3>4. Fresh'
      BY <1>1, <2>1 DEF RecordFits, Fresh, Holds
    <3>5. OtherValid'
      BY <1>1, <2>1, <3>1 DEF RecordFits, OtherValid, IsValid, Holds
    <3>6. UpdateTold'
      BY <1>1, <2>1, <3>1 DEF RecordFits, UpdateTold, IsValid, Holds
    <3> QED BY <3>2, <3>3, <3>4, <3>5, <3>6 DEF RecordFits
  <2> QED BY <2>2, <2>3
<1>7. CASE FlushEnd
  <2>1. /\ flushing /\ nvrec_init' = "on"
        /\ UNCHANGED <<nv_record, setting, is_update, nv_state, burn_buf, saved,
                       repair>>
    BY <1>7 DEF FlushEnd, flushState
  <2>2. nvrec_init # "off"
    BY <2>1 DEF RecordFits, OffIsReset
  <2>3. QueueFits'
    BY <1>2, <2>1, FlushQueueFits
  <2>4. OffIsReset' /\ BurnBuf'
    BY <2>1 DEF RecordFits, OffIsReset, BurnBuf
  <2>5. Fresh'
    BY <1>1, <2>1, <2>2 DEF RecordFits, Fresh, Holds
  <2>6. OtherValid'
    BY <1>1, <2>1, <2>2 DEF RecordFits, OtherValid, IsValid, Holds
  <2>7. UpdateTold'
    BY <1>1, <2>1, <2>2 DEF RecordFits, UpdateTold, IsValid, Holds
  <2> QED BY <2>3, <2>4, <2>5, <2>6, <2>7 DEF RecordFits
<1>8. CASE HookCheck
  BY <1>3, <1>8 DEF HookCheck, flushState
<1>9. CASE HookReturn
  BY <1>3, <1>9 DEF HookReturn, flushState, RecordFits, OffIsReset
<1>10. CASE TimerFires
  BY <1>3, <1>10 DEF TimerFires, flushState
<1>11. CASE UNCHANGED allVars
  BY <1>3, <1>11 DEF allVars, nvVars, flushState, threadVars
<1> QED BY <1>4, <1>5, <1>6, <1>7, <1>8, <1>9, <1>10, <1>11

LEMMA NextNvInv ==
    ASSUME NvInv, [NvNext]_allVars
    PROVE  NvInv'
<1> USE DEF NvInv
<1>1. Types' /\ IInv'
  BY TypesKeep, ServiceKeeps
<1>2. CASE nv_record_extension_init
  BY <1>1, <1>2, BootStep
<1>3. CASE SyncStep
  BY <1>1, <1>3, FlushStepKeeps DEF SyncStep, RecordFits, OffIsReset
<1>4. ASSUME AsyncFlush, nvrec_init # "off"
      PROVE  QueueFits' /\ RecordFits'
  <2>1. CASE UNCHANGED <<vars, nv_record, setting, flushState, flush_is_delay,
                         debouce_timer, mail, flushing, nvrec_init, crashes,
                         saved, repair>>
    <3>1. UNCHANGED <<opera_info, before, node, flash>>
      BY <2>1 DEF vars, lists, chip
    <3>2. Untouched /\ SectorsKeep
      BY <3>1, StillUntouched, QuietSectors
    <3>3. UNCHANGED <<nv_record, setting, is_update, nv_state, burn_buf,
                      flushing, nvrec_init, saved, repair>>
      BY <2>1 DEF flushState
    <3> QED BY <1>4, <3>2, <3>3, FlushQueueFits, QuietRecord
  <2> QED BY <1>4, <2>1, FlushStepKeeps DEF AsyncFlush
<1>5. CASE HookFlush \/ nv_record_execute_async_flush
  BY <1>1, <1>4, <1>5
     DEF HookFlush, nv_record_execute_async_flush, RecordFits, OffIsReset
<1>6. CASE OtherCall
  <2>1. Untouched
    <3>1. PICK m \in Others :
            \/ norflash_api_register(m)
            \/ \E s \in Secs : EraseAsync(m, s)
            \/ WriteAsync(m, 0, 0, 1, {0})
      BY <1>6 DEF OtherCall
    <3>2. CASE norflash_api_register(m)
      BY <3>2, StillUntouched DEF norflash_api_register, lists, chip
    <3> QED BY <3>1, <3>2, OtherErase, OtherWrite
  <2>2. /\ UNCHANGED <<nv_record, setting, is_update, nv_state, burn_buf,
                       flushing, nvrec_init, saved, repair>>
        /\ hook' = hook
    BY <1>6 DEF OtherCall, flushState
  <2> QED BY <1>1, <2>1, <2>2, FlushSectors, FlushQueueFits, QuietRecord
<1>7. CASE OtherFlush
  <2>1. /\ UNCHANGED <<nv_record, setting, is_update, nv_state, burn_buf,
                       flushing, nvrec_init, saved, repair>>
        /\ hook' = hook /\ norflash_api_flush
    BY <1>7 DEF OtherFlush, nvVars, flushState, threadVars
  <2> QED BY <1>1, <2>1, FlushSectors, FlushQueueFits, QuietRecord
<1>8. CASE Crash
  BY <1>1, <1>8, CrashStep
<1>9. CASE \/ SetterWrites \/ nv_record_extension_update \/ FlushBegin
           \/ FlushEnd \/ HookCheck \/ HookReturn \/ TimerFires
           \/ UNCHANGED allVars
  BY <1>1, <1>9, RecordStep
<1> QED BY <1>1, <1>2, <1>3, <1>5, <1>6, <1>7, <1>8, <1>9 DEF NvNext

-----------------------------------------------------------------------------
(* Theorems.                                                               *)

\* The queue of the record, its sectors, the flag and the history fit the
\* state of the save, and the service below stays in order, whatever crashes,
\* other modules, interrupts and callers do.
THEOREM RecordInvariance == NvSpec => []NvInv
<1>1. NvInit => NvInv
  BY InitTypes, InitIInv, InitRecord DEF NvInit, NvInv
<1> QED BY <1>1, NextNvInv, PTL DEF NvSpec

\* Lists, pools and the suspend state of the service survive crashes and boots
\* in the middle of anything.
THEOREM ServiceSurvives == NvSpec => []IInv
<1>1. NvInv => IInv
  BY DEF NvInv
<1> QED BY <1>1, RecordInvariance, PTL

\* Every variable of the record keeps its type.
THEOREM NvTypeCorrect == NvSpec => []NvTypeOK
<1>1. NvInv => NvTypeOK
  BY DEF NvInv, Types
<1> QED BY <1>1, RecordInvariance, PTL

\* nv_record_extension_flush_main and _flush_bak never have operations on both
\* sectors queued.
THEOREM SectorsOneByOne == NvSpec => []OneSectorAtATime
<1>1. NvInv => OneSectorAtATime
  <2> SUFFICES ASSUME NvInv PROVE OneSectorAtATime
    OBVIOUS
  <2>1. nv_state \in NV_STATE
    BY DEF NvInv, Types, NvTypeOK
  <2>2. \/ Queue = {} \/ Erasing(Main) \/ Writing(Main) \/ Erasing(Bak) \/ Writing(Bak)
    BY <2>1 DEF NvInv, QueueFits, NV_STATE
  <2> QED BY <2>2 DEF OneSectorAtATime, Erasing, Writing, Queue
<1> QED BY <1>1, RecordInvariance, PTL

\* A power failure at any moment of a save, of main or of bak, leaves a record
\* no older than the last finished save to nv_record_extension_init.
THEOREM CrashCostsNoSave == NvSpec => []SavedSurvives
<1>1. NvInv => SavedSurvives
  <2> SUFFICES ASSUME NvInv, ~repair PROVE Loaded(flash) >= saved
    BY DEF SavedSurvives
  <2>1. nv_state \in MainPhase \/ nv_state \in BakPhase
    BY DEF NvInv, Types, NvTypeOK, MainPhase
  <2>2. saved = 0 \/ IsValid(flash, Main) \/ IsValid(flash, Bak)
    BY <2>1 DEF NvInv, RecordFits, OtherValid
  <2>3. \A s \in {Main, Bak} : IsValid(flash, s) => saved <= VersionIn(flash, s)
    BY VersionHeld DEF NvInv, RecordFits, Fresh
  <2>4. saved = 0 \/ saved <= Loaded(flash)
    BY <2>2, <2>3 DEF Loaded
  <2>5. Loaded(flash) \in Nat /\ saved \in Nat
    <3>1. Loaded(flash) \in Bits /\ saved \in Bits
      BY LoadedType, NvConstants DEF NvInv, Types, NvTypeOK
    <3> QED BY <3>1, NvConstants
  <2> QED BY <2>4, <2>5
<1> QED BY <1>1, RecordInvariance, PTL

\* When nothing is left to do, main holds the record as it is in RAM and bak a
\* record no older than the last finished save: no update falls between the
\* copy to burn_buf and the flag.
THEOREM NothingForgotten == NvSpec => []CleanIsSaved
<1>1. NvInv => CleanIsSaved
  <2> SUFFICES ASSUME NvInv, nvrec_init = "on", nv_state = "IDLE", ~is_update,
                      ~setting
               PROVE  /\ Holds(flash, Main, nv_record)
                      /\ \E v \in saved .. MaxVer : Holds(flash, Bak, v)
    BY DEF CleanIsSaved
  <2>1. IsValid(flash, Bak) /\ Holds(flash, Main, nv_record)
    BY DEF NvInv, RecordFits, UpdateTold
  <2>2. PICK v \in Bits : Holds(flash, Bak, v)
    BY <2>1, NvConstants DEF IsValid
  <2>3. saved <= v /\ saved \in Bits
    BY <2>2, NvConstants DEF NvInv, RecordFits, Fresh, Types, NvTypeOK
  <2>4. v \in saved .. MaxVer
    BY <2>3, NvConstants
  <2> QED BY <2>1, <2>2, <2>4
<1> QED BY <1>1, RecordInvariance, PTL

=============================================================================
