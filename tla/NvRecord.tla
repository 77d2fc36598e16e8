------------------------------ MODULE NvRecord ------------------------------
(***************************************************************************)
(* The user data record, services/nv_section/userdata_section/             *)
(* nvrecord_extension.c, saved through the NOR flash service.              *)
(*                                                                         *)
(* The record lives in RAM.  A save copies it to _nv_burn_buf and writes   *)
(* it to the main sector and then to the bak sector, each erased first.    *)
(* Saves run step by step from the hook of the norflash thread, behind a   *)
(* debounce timer, or at once in nv_record_flash_flush.  Power may fail at *)
(* any moment; the next boot takes the main sector if its crc is right,    *)
(* else the bak sector, else default values.                               *)
(*                                                                         *)
(* A version of the record is a number: version v fills the pages of its   *)
(* sector with the value {v}, so a sector with missing or mixed pages is   *)
(* one whose crc is wrong.                                                 *)
(***************************************************************************)
EXTENDS NorflashApi

CONSTANTS
    MaxVer,     \* bound on the number of updates
    CrashNum    \* bound on the number of crashes

ASSUME NvAssumption ==
    /\ MaxVer \in Nat \ {0} /\ CrashNum \in Nat
    /\ Bits = 0 .. MaxVer
    /\ SecNum >= 2

USERDATA == 0   \* NORFLASH_API_MODULE_ID_USERDATA
Main     == 0   \* _user_data_main_start
Bak      == 1   \* _user_data_bak_start

\* NV_STATE without the states that nothing enters (.._WRITTING) or that do
\* not outlive a call (BAK_DONE).
NV_STATE == {"IDLE", "MAIN_ERASING", "MAIN_ERASED", "MAIN_WRITE_PENDING",
             "MAIN_WRITTEN", "MAIN_DONE", "BAK_ERASING", "BAK_ERASED",
             "BAK_WRITE_PENDING", "BAK_WRITTEN"}

VARIABLES
    nv_record,      \* local_extension_data
    setting,        \* a setter has changed the record and has not yet called
                    \* nv_record_extension_update
    is_update,      \* nv_flush_state.is_update
    nv_state,       \* nv_flush_state.state
    burn_buf,       \* _nv_burn_buf
    flush_is_delay, \* the debounce has begun
    debouce_timer,  \* osTimerIsRunning
    hook,           \* where the norflash thread is in the hook
    mail,           \* a message waits in its mailbox
    flushing,       \* a call of nv_record_extension_flush(false) has the mutex
    nvrec_init,     \* "off" before nv_record_init, then "boot", then "on"
    crashes,        \* history: crashes so far
    saved,          \* history: the newest version that a finished save wrote,
                    \* or what a boot has found if that is older
    repair          \* history: this boot found main valid and bak not, and no
                    \* save has finished since

flushState == <<is_update, nv_state, burn_buf>>
threadVars == <<flush_is_delay, debouce_timer, hook, mail>>
nvVars == <<nv_record, setting, flushState, threadVars, flushing, nvrec_init, crashes,
            saved, repair>>
allVars == <<vars, nvVars>>

-----------------------------------------------------------------------------
(* What a boot finds.                                                      *)

\* nv_record_data_is_valid
Holds(f, s, v) == f[USERDATA][s] = [o \in Offs |-> {v}]

IsValid(f, s) == \E v \in 0 .. MaxVer : Holds(f, s, v)

VersionIn(f, s) == CHOOSE v \in 0 .. MaxVer : Holds(f, s, v)

\* nv_record_set_default
Default == 0

\* Mutant: the bak sector is not used.
MutLoadMainOnly(f) == IF IsValid(f, Main) THEN VersionIn(f, Main) ELSE Default

\* The version nv_record_extension_init takes from flash f.
Loaded(f) == IF IsValid(f, Main) THEN VersionIn(f, Main)
             ELSE IF IsValid(f, Bak) THEN VersionIn(f, Bak)
             ELSE Default

NvTypeOK ==
    /\ nv_record \in 0 .. MaxVer
    /\ setting \in BOOLEAN
    /\ is_update \in BOOLEAN
    /\ nv_state \in NV_STATE
    /\ burn_buf \in SUBSET Bits
    /\ flush_is_delay \in BOOLEAN
    /\ debouce_timer \in BOOLEAN
    /\ hook \in {"wait", "check", "flush", "return"}
    /\ mail \in BOOLEAN
    /\ flushing \in BOOLEAN
    /\ nvrec_init \in {"off", "boot", "on"}
    /\ crashes \in 0 .. CrashNum
    /\ saved \in 0 .. MaxVer
    /\ repair \in BOOLEAN

\* Static data after a reset: _nv_burn_buf is zero, all bits cleared.
NvInit ==
    /\ Init
    /\ nv_record = Default /\ setting = FALSE
    /\ is_update = FALSE /\ nv_state = "IDLE" /\ burn_buf = Bits
    /\ flush_is_delay = FALSE /\ debouce_timer = FALSE
    /\ hook = "wait" /\ mail = FALSE
    /\ flushing = FALSE
    /\ nvrec_init = "off"
    /\ crashes = 0 /\ saved = Default /\ repair = FALSE

\* nv_record_extension_init.  It saves the record at once, before the hook
\* is installed, unless both sectors are valid.
nv_record_extension_init ==
    LET main == IsValid(flash, Main)
        bak  == IsValid(flash, Bak)
    IN
    /\ nvrec_init = "off"
    /\ norflash_api_register(USERDATA)
    /\ nv_record' = Loaded(flash)
    /\ is_update' = ~(main /\ bak)
    /\ nv_state' = IF main /\ ~bak THEN "MAIN_DONE" ELSE "IDLE"
    /\ repair' = (main /\ ~bak)
    /\ flushing' = ~(main /\ bak)
    /\ nvrec_init' = IF main /\ bak THEN "on" ELSE "boot"
    /\ saved' = IF Loaded(flash) < saved THEN Loaded(flash) ELSE saved
    /\ mail' = (mail \/ ~(main \/ bak))
    /\ UNCHANGED <<setting, burn_buf, flush_is_delay, debouce_timer, hook,
                   crashes>>

-----------------------------------------------------------------------------
(* Users of the record.                                                    *)

\* A setter changes the record between nv_record_pre_write_operation and
\* nv_record_post_write_operation, with interrupts masked.
SetterWrites ==
    /\ nvrec_init = "on" /\ ~setting /\ nv_record < MaxVer
    /\ nv_record' = nv_record + 1
    /\ setting' = TRUE
    /\ UNCHANGED <<vars, flushState, threadVars, flushing, nvrec_init, crashes,
                   saved, repair>>

\* It reports the change, before or after it unmasks interrupts.
nv_record_extension_update ==
    /\ setting
    /\ setting' = FALSE
    /\ is_update' = TRUE
    /\ mail' = TRUE
    /\ UNCHANGED <<vars, nv_record, nv_state, burn_buf, flush_is_delay,
                   debouce_timer, hook, flushing, nvrec_init, crashes, saved,
                   repair>>

\* nv_record_flash_flush takes the mutex.  A save left at BAK_WRITTEN by the
\* hook writes its bak sector again.
FlushBegin ==
    /\ nvrec_init = "on" /\ ~flushing
    /\ flushing' = TRUE
    /\ nv_state' = IF nv_state = "BAK_WRITTEN" THEN "BAK_WRITE_PENDING"
                   ELSE nv_state
    /\ UNCHANGED <<vars, nv_record, setting, is_update, burn_buf, threadVars,
                   nvrec_init, crashes, saved, repair>>

\* The loop of nv_record_extension_flush(false) ends.
FlushEnd ==
    /\ flushing
    /\ nv_state = "IDLE" /\ ~is_update
    /\ flushing' = FALSE
    /\ nvrec_init' = "on"
    /\ UNCHANGED <<vars, nv_record, setting, flushState, threadVars, crashes,
                   saved, repair>>

-----------------------------------------------------------------------------
(* One step of nv_record_extension_flush_main or _flush_bak.               *)

\* norflash_api_erase and norflash_api_write return NORFLASH_API_BUFFER_FULL.
EraseFull(s) == /\ MergedErase(USERDATA, s) = {}
                /\ \A n \in OfSector(USERDATA, s) : node[n].lock
                /\ opera_used = Slots

WriteFull(s) ==
    /\ Mergeable(USERDATA, s) # {} =>
           node[FirstOf(Mergeable(USERDATA, s))].type = "ERASING"
    /\ opera_used = Slots \/ buffer_used = Bufs

\* norflash_api_get_used_buffer_count(USERDATA, NORFLASH_API_ALL) == 0
QueueEmpty == opera_info[USERDATA] = {}

\* The asynchronous calls wake the norflash thread, whatever they return.
Erase(s, from, busy, done) ==
    /\ nv_state \in from
    /\ mail' = TRUE
    /\ \/ EraseAsync(USERDATA, s) /\ nv_state' = done
       \/ EraseFull(s) /\ norflash_api_flush
          /\ nv_state' = IF flushing THEN nv_state ELSE busy
    /\ UNCHANGED <<is_update, burn_buf, saved, repair>>

\* Mutant: a write that found the service full counts as queued.
MutFullIsQueued(s, from, done) ==
    /\ nv_state = from
    /\ mail' = TRUE
    /\ nv_state' = done
    /\ \/ WriteAsync(USERDATA, s, 0, SecLen, burn_buf)
       \/ WriteFull(s) /\ norflash_api_flush
    /\ UNCHANGED <<is_update, burn_buf, saved, repair>>

Write(s, from, done) ==
    /\ nv_state = from
    /\ mail' = TRUE
    /\ \/ WriteAsync(USERDATA, s, 0, SecLen, burn_buf) /\ nv_state' = done
       \/ WriteFull(s) /\ norflash_api_flush /\ nv_state' = nv_state
    /\ UNCHANGED <<is_update, burn_buf, saved, repair>>

\* Mutant: is_update stays set.
MutCopyKeepsUpdate ==
    /\ nv_state = "MAIN_ERASED"
    /\ burn_buf' = {nv_record}
    /\ nv_state' = "MAIN_WRITE_PENDING"
    /\ UNCHANGED <<vars, is_update, mail, saved, repair>>

\* The copy is made with interrupts locked.
Copy ==
    /\ nv_state = "MAIN_ERASED"
    /\ burn_buf' = {nv_record}
    /\ is_update' = FALSE
    /\ nv_state' = "MAIN_WRITE_PENDING"
    /\ UNCHANGED <<vars, mail, saved, repair>>

\* Mutant: the bak sector is erased while the main sector is still queued.
MutNoWaitMain ==
    /\ nv_state = "MAIN_WRITTEN"
    /\ nv_state' = "MAIN_DONE"
    /\ UNCHANGED <<vars, mail, is_update, burn_buf, saved, repair>>

WaitMain ==
    /\ nv_state = "MAIN_WRITTEN"
    /\ \/ QueueEmpty /\ nv_state' = "MAIN_DONE" /\ UNCHANGED vars
       \/ ~QueueEmpty /\ norflash_api_flush /\ nv_state' = nv_state
    /\ UNCHANGED <<mail, is_update, burn_buf, saved, repair>>

\* Mutant: the state is set before the write, as the code once did.
MutBakWritting ==
    /\ nv_state = "BAK_ERASED"
    /\ nv_state' = "BAK_WRITTING"
    /\ UNCHANGED <<vars, mail, is_update, burn_buf, saved, repair>>

\* The copy of main for bak is commented out: burn_buf still holds it.
BakReady ==
    /\ nv_state = "BAK_ERASED"
    /\ nv_state' = "BAK_WRITE_PENDING"
    /\ UNCHANGED <<vars, mail, is_update, burn_buf, saved, repair>>

\* Mutant: is_update is cleared when the save is done.
MutClearWhenDone ==
    /\ nv_state = "BAK_WRITTEN"
    /\ QueueEmpty
    /\ nv_state' = "IDLE" /\ is_update' = FALSE
    /\ UNCHANGED <<vars, mail, burn_buf, saved, repair>>

\* BAK_DONE turns into IDLE at the end of the same call.
WaitBak ==
    /\ nv_state = "BAK_WRITTEN"
    /\ \/ /\ QueueEmpty /\ nv_state' = "IDLE" /\ UNCHANGED vars
          /\ IF burn_buf = Bits THEN UNCHANGED <<saved, repair>>
             ELSE saved' = (CHOOSE v \in Bits : burn_buf = {v}) /\ repair' = FALSE
       \/ /\ ~QueueEmpty /\ norflash_api_flush /\ nv_state' = nv_state
          /\ UNCHANGED <<saved, repair>>
    /\ UNCHANGED <<mail, is_update, burn_buf>>

FlushStep ==
    /\ \/ /\ nv_state = "IDLE" => is_update
          /\ Erase(Main, {"IDLE", "MAIN_ERASING"}, "MAIN_ERASING", "MAIN_ERASED")
       \/ Copy
       \/ Write(Main, "MAIN_WRITE_PENDING", "MAIN_WRITTEN")
       \/ WaitMain
       \/ Erase(Bak, {"MAIN_DONE", "BAK_ERASING"}, "BAK_ERASING", "BAK_ERASED")
       \/ BakReady
       \/ Write(Bak, "BAK_WRITE_PENDING", "BAK_WRITTEN")
       \/ WaitBak
    /\ UNCHANGED <<nv_record, setting, flush_is_delay, debouce_timer,
                   nvrec_init, crashes, flushing>>

SyncStep == flushing /\ FlushStep /\ UNCHANGED hook

-----------------------------------------------------------------------------
(* The hook in the norflash thread, nv_record_flash_flush_in_sleep.        *)

\* nv_norflash_async_flush_check returns false: the timer is (re)started.
DebounceStarts ==
    /\ ~flush_is_delay \/ debouce_timer
    /\ flush_is_delay' = TRUE /\ debouce_timer' = TRUE

\* It returns true: the timer has run out, or else osTimerStart fails.
DebounceOver ==
    /\ debouce_timer' = FALSE
    /\ flush_is_delay' = FALSE

HookCheck ==
    /\ nvrec_init = "on"
    /\ \/ hook = "wait" /\ mail /\ mail' = FALSE
       \/ hook = "check" /\ UNCHANGED mail
    /\ \/ nv_state = "IDLE" /\ DebounceStarts /\ hook' = "wait"
       \/ nv_state = "IDLE" /\ DebounceOver /\ hook' = "flush"
       \/ /\ nv_state # "IDLE" /\ hook' = "flush"
          /\ UNCHANGED <<flush_is_delay, debouce_timer>>
    /\ UNCHANGED <<vars, nv_record, setting, flushState, flushing, nvrec_init, crashes,
                   saved, repair>>

\* nv_record_extension_flush(true) waits for the mutex and makes one step.
AsyncFlush ==
    /\ ~flushing
    /\ \/ FlushStep
       \/ /\ nv_state = "IDLE" /\ ~is_update
          /\ UNCHANGED <<vars, nv_record, setting, flushState, flush_is_delay,
                         debouce_timer, mail, flushing, nvrec_init, crashes,
                         saved, repair>>

HookFlush == hook = "flush" /\ hook' = "return" /\ AsyncFlush

\* Other threads call it too, after they have set something.
nv_record_execute_async_flush ==
    nvrec_init = "on" /\ AsyncFlush /\ UNCHANGED hook

\* The thread runs the hook again until it returns 0.
HookReturn ==
    /\ hook = "return"
    /\ hook' = IF nv_state = "IDLE" /\ ~is_update THEN "wait" ELSE "check"
    /\ UNCHANGED <<vars, nv_record, setting, flushState, flush_is_delay, debouce_timer,
                   mail, flushing, nvrec_init, crashes, saved, repair>>

\* async_flush_confirm_timer_callback
TimerFires ==
    /\ debouce_timer
    /\ debouce_timer' = FALSE
    /\ mail' = TRUE
    /\ UNCHANGED <<vars, nv_record, setting, flushState, flush_is_delay, hook, flushing,
                   nvrec_init, crashes, saved, repair>>

-----------------------------------------------------------------------------
(* The rest of the system.                                                 *)

Others == Mods \ {USERDATA}

\* Another module uses the service and wakes the norflash thread.
OtherCall ==
    /\ \E m \in Others :
          \/ norflash_api_register(m) /\ UNCHANGED mail
          \/ \E s \in Secs : EraseAsync(m, s) /\ mail' = TRUE
          \/ WriteAsync(m, 0, 0, 1, {0}) /\ mail' = TRUE
    /\ UNCHANGED <<nv_record, setting, flushState, flush_is_delay, debouce_timer, hook,
                   flushing, nvrec_init, crashes, saved, repair>>

\* A hook of another module flushes the service.
OtherFlush == norflash_api_flush /\ UNCHANGED nvVars

\* Power fails.  A chip that was in the middle of an operation leaves what
\* OperaSuspends leaves.
Crash ==
    /\ nvrec_init # "off" /\ crashes < CrashNum
    /\ crashes' = crashes + 1
    /\ opera_info' = [m \in Mods |-> {}] /\ before' = {}
    /\ node' = [i \in Slots |-> FreeNode]
    /\ opera_used' = {} /\ buffer_used' = {}
    /\ cur_opera_info' = [m \in Mods |-> Null]
    /\ state' = [m \in Mods |-> "UNINITED"]
    /\ cur_mod' = NoMod /\ cur_mod_id' = NoMod
    /\ allowed_cb' = [user \in Users |-> "NULL"]
    /\ sync' = NoCall /\ suspend_state' = "NONE"
    /\ contents' = flash
    /\ nv_record' = Default /\ setting' = FALSE
    /\ is_update' = FALSE /\ nv_state' = "IDLE" /\ burn_buf' = Bits
    /\ flush_is_delay' = FALSE /\ debouce_timer' = FALSE
    /\ hook' = "wait" /\ mail' = FALSE
    /\ flushing' = FALSE
    /\ nvrec_init' = "off"
    /\ UNCHANGED <<flash, saved, repair>>

-----------------------------------------------------------------------------
NvNext ==
    \/ nv_record_extension_init
    \/ SetterWrites
    \/ nv_record_extension_update
    \/ nv_record_execute_async_flush
    \/ FlushBegin
    \/ FlushEnd
    \/ SyncStep
    \/ HookCheck
    \/ HookFlush
    \/ HookReturn
    \/ TimerFires
    \/ OtherCall
    \/ OtherFlush
    \/ Crash

NvSpec == NvInit /\ [][NvNext]_allVars

\* A call of norflash_api_flush in which the chip finishes an operation.
FlushCompletes ==
    \E m \in Mods : HasWork(m) /\ FlushOpera(m) /\ OperaCompletes(m)

\* The threads run, the timer fires and the chip makes progress between two
\* interrupts.
NvLiveSpec ==
    /\ NvSpec
    /\ WF_allVars(nv_record_extension_init)
    /\ WF_allVars(nv_record_extension_update)
    /\ WF_allVars(FlushEnd)
    /\ WF_allVars(SyncStep)
    /\ WF_allVars(HookCheck)
    /\ WF_allVars(HookFlush)
    /\ WF_allVars(HookReturn)
    /\ WF_allVars(TimerFires)
    /\ SF_allVars((SyncStep \/ HookFlush) /\ FlushCompletes)

-----------------------------------------------------------------------------
(* Properties.                                                             *)

\* No update is lost between the copy and the flag: when nothing is left to
\* do, the main sector holds the record as it is in RAM, and the bak sector
\* holds a valid record no older than the last finished save.  (It may be
\* older than the main sector: a boot does not compare the two.)
CleanIsSaved ==
    nvrec_init = "on" /\ nv_state = "IDLE" /\ ~is_update /\ ~setting =>
        /\ Holds(flash, Main, nv_record)
        /\ \E v \in saved .. MaxVer : Holds(flash, Bak, v)

\* A crash at any moment costs at most the updates made since the last
\* finished save: one of the sectors holds that version or a newer one.
\* The boot that repairs a bak sector is left out, see ValidRecordWritten.
SavedSurvives == ~repair => Loaded(flash) >= saved

\* The ASSERT "nv_record is invalid!": what a save writes is a valid record.
ValidRecordWritten ==
    nv_state \in {"MAIN_WRITE_PENDING", "BAK_WRITE_PENDING"} =>
        \E v \in 0 .. MaxVer : burn_buf = {v}

\* The two sectors are never rewritten at the same time: an operation on one
\* waits until the queue has nothing left for the other.
OneSectorAtATime ==
    \A n, k \in opera_info[USERDATA] : node[n].addr = node[k].addr

\* Once nobody updates the record or loads the service any more, the last
\* update is saved.
SavedWhenQuiet ==
    \/ []<><<SetterWrites \/ OtherCall \/ Crash>>_allVars
    \/ <>[](nvrec_init = "on" /\ nv_state = "IDLE" /\ ~is_update)

=============================================================================
