# Verification of the BES headset SDK

TLA+ models, TLC runs and TLAPS proofs about the firmware in `src/`: the BES
Bluetooth audio SDK in the configuration of one headset (`make
T=best1502x_ibrt_anc FREEMAN_ENABLED_STERO=1 FLASH_SIZE=0x400000 ...`).

Three parts of the firmware are modelled:

- everything between a setter of the user record and the cells of the NOR
  flash: the record and its two copies, the asynchronous flash service with its
  queues and its suspendable chip, the thread that drives it, and the write
  protection;
- the software timers on their one hardware timer;
- the channel between the MCU and the coprocessor, and the coprocessor's work
  queue on top of it.

They were chosen because this is where interrupts, threads, a second core and
power failures meet in code of the firmware's own that is in the repository
(much of the Bluetooth side is prebuilt).

1. [The system](#1-the-system)
2. [Modules and code](#2-modules-and-code)
3. [Runs](#3-runs)
4. [Fairness](#4-fairness)
5. [Proofs](#5-proofs)
6. [What the models leave out](#6-what-the-models-leave-out)
7. [Disagreements found](#7-disagreements-found)
8. [Not modelled](#8-not-modelled)

## 1. The system

One Cortex-M core runs RTX5 threads and interrupt handlers; a coprocessor and a
Bluetooth controller have cores of their own. Two headsets may be linked as a
pair (TWS).

| component | state it keeps | operations | how it meets others | what is hard |
|---|---|---|---|---|
| norflash API (`services/norflash_api/norflash_api.cpp`) | a list of operations per module, pools of nodes and sector buffers, the module being flushed, the flush-allowed callbacks | register, erase, write, read, flush, flush_disable/enable | called by every owner of a flash area; calls the driver; calls flush-allowed callbacks | merging, suspended operations, round robin, two pools at their limit, synchronous calls that overtake |
| flash driver (`platform/hal/hal_norflash.c`) | which operation the chip holds suspended | erase, write, read, suspend, resume | the norflash API; interrupts make an operation suspend | refuses calls that do not fit its state |
| norflash thread (same file) | mailbox: pool, queue, counter | hook_activate, the thread's loop | any thread wakes it; it runs the hooks of the modules | an unlocked counter beside a pool and a queue |
| write protection (same file) | table of areas, the status register | protect a part, protect all | around every erase and write | borders of areas, codes computed from loop counters |
| user data record (`services/nv_section/userdata_section/nvrecord_extension.c`) | the record in RAM, is_update, a save's state, the burn buffer, a debounce timer | init, setters, update, flush at once, flush from the hook | two sectors through the norflash API, the norflash thread, setters in all threads | power failure at any moment, setters racing a save, a full service |
| record contents (`nvrecord_bt.c`, `nvrecord_ble.c`, `nvrecord_env.c`) | device list, keys, settings | find, add, update, delete | setters of the record | most recently used order, eviction of a full list |
| application flash API (`app_flash_api.cpp`) | a page cache per module | program, flush, read | a second client of the norflash API | flush at a page border, at a suspend |
| log and dump sections (`log_section/`) | ring positions | write, flush | clients of the norflash API | wrap-around in the middle of an erase |
| hardware timer list (`utils/hwtimer_list/hwtimer_list.c`) | free, active and fired lists, differences of times | alloc, free, start, stop, the interrupt | callbacks with interrupts enabled | stop and restart during callbacks, spreading an overrun |
| coprocessor channel (`platform/hal/hal_mcu2cp.c`) | per direction: records, the list the other core reads, the list for later, a half received message | open, close, send, start_recv, stop_recv, two interrupts | two cores through memory and the interrupts IND and DONE; callbacks of the clients | no lock between the cores, sending from the sent callback, messages taken in parts |
| coprocessor tasks (`platform/drivers/cp_accel/cp_accel.c`) | which tasks are open, a counter and a queue of events, flags per event | open, close, send_event, the coprocessor's loop | audio threads on the MCU, work functions on the coprocessor; the channel | close during work, sleep against a late event, boot and switch-off |
| trigger synchronisation (`apps/bt_sync/app_bt_sync.cpp`) | trigger channels, supervised triggers, a timer | enable, peer command, trigger interrupt, time-out | two headsets over TWS, interrupt, timer thread, its own thread | trigger before supervision, time-out racing the trigger, both sides starting |
| queues and lists (`utils/cqueue`, `utils/kfifo`, `utils/list`) | ring buffers | put, peek, get | producers and consumers everywhere | wrap-around, full against empty |
| heaps and pools (`utils/heap`, `umm_malloc`) | free blocks | malloc, free, realloc | everyone | vendored |
| keys (`platform/hal/hal_key.c`, `apps/key`) | debounce and click state | timer tick, GPIO and power key interrupts | application thread | multiple keys, click counts, long press |
| battery (`apps/battery`) | charger state, voltage average | timer, charger interrupt | application thread, power off | plug and unplug during a measurement |
| application thread, watchdog (`apps/common`) | a mailbox | put, get | all application events | the mailbox at its limit stops the system |
| media manager (`services/audio_bt`) | per device: streams active and current | start, stop, swap | profiles, audio threads | priority of calls over music on several links |
| RPC, chip bridge, serial links (`services/rpc`, `apps/app_rpc`, `apps/common/chip_bridge`, `services/communication`) | request and response state | send, receive, time-out | a second chip | retries, late answers |
| firmware update (`services/ota`, `utils/boot_struct`) | breakpoint, segment CRC, boot flag | segment, verify, apply | flash service, phone, the other headset | power failure in the middle of an update |
| Bluetooth host, LE audio, earbud UX, voice assistants, diagnostics, sensors, noise cancellation, audio flinger, RTOS, drivers | | | | listed in `PROJECT.json` with the reason for each |

### What makes each core component correct

*norflash API.* A read returns what the accepted calls amount to, whatever is
queued, suspended or done. A drained module's flash holds what was written. No
entry of either pool leaks. At most one operation is suspended and everybody
agrees which; no ASSERT of the flush path fails. A synchronous operation comes
after the module's queue (it does not, section 7). What a call queues is seen by
a round of the norflash thread, and queues drain.

*User data record.* When nothing is left to do, the flash holds the record. A
finished save survives a power failure at any later moment, but for the boot
that repairs the bak sector (section 7). The two sectors are never in danger at
the same time. The last update is saved in the end, if the norflash thread can
be woken.

*norflash thread.* No message or pool entry is lost, a mailbox that refuses a
wake-up holds one that will run, unless its counter has wrapped, and a thread
that found room finds an entry (it does not always, section 7).

*Write protection.* The chosen area never covers the target from the start of an
operation to its end, over suspensions, always exists, and leaves at most half
of the flash open, for operations within one half; a code names one area. Writes
that begin with an area's last byte and operations that a call overtakes are
exceptions.

*Hardware timer list.* A timer's state and the list it is in agree. The
hardware timer runs for the first timer whenever there is one. Starting or
stopping a timer does not move the others. A timer is called when it is due,
once per start, never after a stop, and is called in the end.

*Coprocessor channel.* One core at a time has the list. A record is in use
exactly while its message waits. Every accepted message arrives once and in
order.

*Coprocessor tasks.* The counter of events agrees with the channel. An event
that was sent is worked on, unless its task is closed or an interrupt of an
earlier session was left pending. Once a close returns, no work of the task
runs.

## 2. Modules and code

| module | models | extends |
|---|---|---|
| `NorflashApi` | `norflash_api.cpp`, the suspend states of `hal_norflash.c` | |
| `FlashStore` | abstract: what the service promises its clients | |
| `NorflashHook` | the norflash thread's rounds over the service, with its mailbox | `NorflashApi` |
| `NvRecord` | `nvrecord_extension.c` on top of the service | `NorflashApi` |
| `NorflashThread` | mailbox and thread of `norflash_api.cpp` | |
| `FlashProtection` | `_bp_init_*`, `_protection_part`, `_protection_all` | |
| `HwtimerList` | `hwtimer_list.c`, the one-shot timer of `hal_timer.c` | |
| `MsgChannel` | abstract: what a channel between two cores promises | |
| `Mcu2Cp` | one direction of a channel, `hal_mcu2cp.c` | |
| `CpAccel` | `cp_accel.c` on top of the channel | `Mcu2Cp` |
| `NorflashApiProofs` | theorems about `NorflashApi` | `NorflashApi` |
| `NorflashThreadProofs` | theorems about `NorflashThread` | `NorflashThread` |
| `NorflashDataProofs` | theorems about its data, the refinement of `FlashStore`; about `NorflashHook` | `NorflashApiProofs`, `NorflashHook` |
| `NvRecordProofs` | theorems about `NvRecord` | `NvRecord`, `NorflashApiProofs` |
| `FlashProtectionProofs` | theorems about `FlashProtection` | `FlashProtection` |
| `HwtimerListProofs` | theorems about `HwtimerList` | `HwtimerList` |
| `Mcu2CpProofs` | theorems about `Mcu2Cp`, the refinement of `MsgChannel` | `Mcu2Cp` |
| `CpAccelProofs` | theorems about `CpAccel` | `CpAccel` |
| `MC...` | instances for TLC | |

`PROJECT.json` maps every definition to its lines.

**NorflashApi.** `opera_info[m]` is the set of nodes in module `m`'s list and
`before` the order of the lists (the C code's `next` pointers); new operations
enter at the head, `Tail` is `_get_tail`. `node`, `opera_used` and
`buffer_used` are the two pools. A page is the set of its cleared bits:
programming is union, erasing is the empty set, so a program of a page that was
not erased, a lost write and a write applied twice are told apart. An
asynchronous call runs under the mutex with interrupts masked and is one
action (`EraseAsync`, `WriteAsync`). A synchronous one holds both over two
loops, which call the driver and flush-allowed callbacks that run on another
core's progress: it is `SyncCall`, any number of `SyncFlush`, one
`SyncOperate`. `norflash_api_flush` processes one operation, which completes or,
in a `FLASH_SUSPEND` build, suspends: a program has then written some leading
pages, an erase leaves any page old or erased (what an interrupted chip may
hold). `Users` are the users that may close the flush window, in the tree the
coprocessor; `allowed_cb` holds for each of them its callback with the value the
next call of it returns, and `CpInitDone` is the coprocessor's own progress, at
any moment.
`contents` is a history variable: what the accepted calls amount to. Callers
erase before they write (`NorDiscipline`, external): that is what every client
in the tree does.

**FlashStore.** A memory in which each accepted write and erase takes effect at
once. `NorflashApi` implements it under the mapping `contents <- Visible`, what
`norflash_api_read` would return now (`StoreSpec`): flushing, suspending and
merging are stutters to a reader. The refinement says more than
`ReadYourWrites` does alone: a reader never sees a value between two accepted
calls.

**NorflashHook.** Who calls `norflash_api_flush`: the norflash thread, in rounds.
An asynchronous call puts a message into the mailbox (`MailboxPut`, one step
here; its steps are `NorflashThread`'s), for which the thread calls the hooks of
all users again and again until each answers 0 (`RoundFlush`). The first hook is
`norflash_api_flush`; whether another one asks for one more iteration is open. It
answers 0 also while the window is closed, and then the round ends with
operations queued, and `norflash_api_flush_enable` puts no message. `missed`
remembers that the thread's last flush was not allowed, or that a wake-up after
it was refused by a wrapped counter. All the actions of `NorflashApi` are
there beside the round, in any order: the calls in `HookClient`, the steps that
are no calls in `Others`.

**NvRecord.** A record is a version number; a sector holds version `v` when all
its pages hold `{v}`, so that a mixture of two versions or a half-written sector
is invalid, as a CRC would find it. `nv_state` is `nv_flush_state.state`. A step
of the save is one call of `nv_record_extension_flush_main` or `_flush_bak`:
from the hook (`HookCheck`, `HookFlush`, `HookReturn`: the debounce timer is
read before the mutex is taken, the state after it is given back), from another
thread (`nv_record_execute_async_flush`), or in the loop of a synchronous save
that keeps the mutex (`FlushBegin`, `SyncStep`, `FlushEnd`). Setters need two
steps, the write and the report, since another thread may run between them.
`Crash` is a power failure at any step; whatever the chip was doing is left as a
suspended operation would leave it. `saved` is the version of the last finished
save (a history variable) and `repair` marks the boot that repairs the bak
sector, see `ValidRecordWritten`.

**NorflashThread.** `norflash_api_hook_activate` step by step (test of the
counter, allocation, queueing, load and store of the increment) in threads of
several priorities, and the thread's loop. The norflash thread itself is one of
them while it runs the hooks: an asynchronous erase or write of a hook wakes
the thread it runs in. `Runs` is the scheduler: a thread
runs only when no thread of a higher priority is ready. `raced` remembers that a
store to the counter has overwritten another one's.

**FlashProtection.** The tables are built for each chip as sequences of entries
with the same borders and codes, then one operation at a time protects the rest
of the flash. It may suspend and be resumed any number of times; neither touches
the register, so that the area chosen by `Start` must serve until `Complete`. A
synchronous call first resumes a suspended operation to its end, but one of its
own module only if flushing is allowed: if not it goes on (`Overtake`), the
driver refuses it, and all is protected. The entry that `_protection_part` takes
is the first of the largest ones that leave the operation free. An operation is
what `norflash_api_erase` and `norflash_api_write` accept (`EraseAllowed`,
`WriteAllowed`): an erase of a sector or a block, aligned to sectors only, or a
write within a sector. `shl` is the table of `1 << k`, and `MaxTurns` a bound on
the turns of a loop that no loop reaches (the longest makes nine). `KnownChips`
are the chips the service accepts, for each its size, whether it is two chips
side by side, and which `_bp_init` its id leads to.

**HwtimerList.** `active` and `fired` are the two lists; a timer's time is the
distance from the one before it, as in the code. The hardware timer is a counter
(`left`, `value`, `elapsed`) that takes one tick to take the value it is loaded
with. `Tick` is the only action in which time passes: each function of the
module runs with interrupts masked, for microseconds. The interrupt is held off
for up to `MaxLate` ticks. The handler is `Interrupt` (the hardware's handler
clears the flag), `HandlerReturns` or `HandlerFires` (the expired timers move to
`fired` and the first one is called) and one `CallbackReturns` for each
callback; between these steps, and inside the callbacks, any of the functions
may be called for any timer, which is what threads, callbacks and higher
interrupts can do. The two halves of `hwtimer_alloc` are one step, since no
other function looks at a timer that is half allocated. `Spent` is the loop that
spreads the overrun, `Due` the walk over the timers that are due.

**MsgChannel.** A FIFO: a message is accepted, and later received. `turn` tells
the reception of two equal messages apart.

**Mcu2Cp.** `send_msg_list` is the list the receiver may walk,
`send_pending_list` the one for later, `rx` and `tx` the position of the
message whose callback runs. On one core a function masks interrupts and the
two handlers have one priority, so that what a handler does between two
callbacks is one step; the other core sees the state at every callback. A
callback ends by taking the whole message (`RxWhole`) or a part (`RxPart`), which
the client decides. `Send` may come at any moment, also while the sent callback
runs. `Mcu2Cp` implements `MsgChannel` under `queue <- Undelivered`.

**CpAccel.** The MCU's side runs in one thread and in the sent callback;
`McuThread` says that a thread runs only when no interrupt does. An event is
identified with its task. `req_event` and `pending_event`, the two bytes the
messages point to, are the channel's two messages, and `event` their contents,
which the coprocessor reads when it receives: a byte that is overwritten too
early is a lost event. `msg_ptr` is the record its receive interrupt looks at.
`SendCheck` and `cp_accel_send_event_mcu2cp` are two steps because the first
runs with interrupts enabled. `cp` is where the coprocessor is; from `AccelTake`
to `AccelWake` it has interrupts masked, and `__WFI` returns when one is
pending. `cp_accel_close` is one step: it holds the lock of the work, so it
cannot begin in the middle of any, and it masks interrupts. The coprocessor
stops wherever it is when `SwitchOff` takes its clock away, and may answer the
last list until then (`LateAnswer`). `hal_mcu2cp_open` and `hal_mcu2cp_close`
disable the interrupts in the NVIC and clear them in the clock unit, but not
what the NVIC has latched: a DONE that nobody has taken outlives the close and
the next open, and fires when the first send enables it (`tx_enabled`). `stale`
says that a session has begun so. Then the sent callback runs before the
coprocessor has read the list, and the record is free; the model follows this,
records that are read after they were given away included (`ReadList` without a
list answers at once). Enabling a coprocessor that boots already does nothing
(`hal_cmu_best1502x.c:3151`).

## 3. Runs

The largest, `cp_accel` with 760,775 states and `norflash_hook` with 550,968, take
two to three minutes on two workers.

| run | instance | shows |
|---|---|---|
| `norflash_normal` | 2 modules, 1 sector of 2 pages, 3 nodes, 1 buffer, suspend | the product's build: all safety properties and the refinement of `FlashStore` |
| `norflash_hook` | 2 modules, 1 page, 2 nodes, a coprocessor user, the norflash thread | the flush window opens and closes at any moment; nothing queued is left behind, and everything drains once nobody calls, with the exceptions of section 6 |
| `norflash_sync_order` | 1 module, a coprocessor user | violation: section 7 |
| `nv_crash` | the record alone, 2 updates, 2 crashes, sectors of 2 pages | no finished save is lost through two power failures at any steps |
| `nv_shared` | a second module on the service, no crash | `NORFLASH_API_BUFFER_FULL` in the hook and in synchronous saves; the last update is saved |
| `nv_zero_bak` | the record, crashes | violation: section 7 |
| `mailbox_wakeup` | three threads of two priorities, and the norflash thread | the mailbox loses no message, and refuses a wake-up only with one queued or with a counter that wrapped after a race |
| `mailbox_alloc` | the same | violation: section 7 |
| `protection_areas` | every chip size the service accepts, operations on both sides of every border, suspended, resumed and overtaken | the chosen area, while it is chosen and as long as it has to last |
| `hwtimer` | 3 timers, an interrupt up to 2 ticks late | lists and states agree, the hardware timer is armed, others keep their time, every timer is called in time |
| `mcu2cp` | 3 records, 2 messages | one core at a time has the list, records are neither leaked nor reused, the channel implements a live FIFO |
| `cp_accel` | 2 tasks, 2 records, room for 2 waiting events | the counter agrees with the channel and closed tasks do not work, through boots and switch-offs; in sessions that begin with no interrupt left over, events are neither lost nor overwritten nor slept over |

**Why these bounds.** Two modules are needed for a suspended operation of one
to meet a synchronous call of the other and for the round robin to have
something to choose; with one sector per module every merge rule applies, since
operations of different sectors never touch each other's nodes (the record's
run has two sectors, main and bak). Two pages are the smallest sector in which
a program can be half done and three the smallest in which two writes leave a
gap. Three nodes and one buffer are exhausted within three calls. `norflash_hook` is
about who flushes and when: one node for each module and a page per sector are
enough for a suspended operation of one, a queued one of the other and a call
that is refused. One bit per
page is enough to tell an erased page, a programmed one and a stale one apart
because a client that only clears bits can write a bit once. Two crashes are
needed because the second one hits the repair of the first. The mailbox has its
real size, 2. The protection run has the real sizes, codes and arithmetic; the
operations are aligned pages, sectors, half blocks and blocks, writes that end
where an area may begin or begin where one may end, writes of the last byte of an
area, and erases of blocks that lie across such a border. Three
timers are needed for a list whose middle is stopped while
its ends keep their time, and for a callback, a fired timer that waits and a
running one at once; a duration longer than the lateness and one shorter make
both an overrun that reaches the next timer and one that does not. Three
records are the number of the build, enough for one in the list, one whose
callback sends and one that waits; two messages tell a reordering from a
repetition. `CpAccel` never has more than two messages in the channel, the event
on its way and the one its sent callback sends, so two records are enough; two
waiting events are enough for the queue to shift, and two tasks for one to stay
open while the other closes.

`CHECK_DEADLOCK FALSE` is set in the runs of `NorflashThread` only: there the
ASSERT stops the system.

## 4. Fairness

`norflash_hook` runs under `HookLiveSpec`: weak fairness of the norflash thread
(it takes a message that waits, a round repeats until the hooks answer 0, then it
frees the message) and of the steps of a synchronous call (it holds the mutex),
and strong fairness of a flush of a round that completes an operation, because a
chip that is suspended makes progress each time it is resumed and interrupts
leave gaps. Once a round has ended nothing flushes but for a message: the model has no
fairness of `norflash_api_flush` by itself, of the clients or of the
coprocessor. `DrainsWhenQuiet` asks for a point after which nobody calls, and
names three things that keep a queue from draining then: the thread's last flush
was not allowed, its last wake-up was refused by a wrapped counter, or a
synchronous call spins for ever, with interrupts masked, on a window that stays
closed.

`nv_shared` runs under `NvLiveSpec`: the threads of the record run (boot, an
unfinished setter, a synchronous save, the hook), the debounce timer fires, and
flushes complete as above. A wake-up of the hook always gets through here; the
wrapped counter, which refuses it, is not in this module. No fairness is assumed
of setters, of other modules or of their hooks.

`hwtimer` runs under `LiveSpec`: time passes, the interrupt is taken, callbacks
return. `TimersFire` asks that the callers stop stopping timers at some point: each
stop of the first timer loads the hardware timer again, which takes a tick, so
that a client that stops and starts in every tick puts the interrupt off for as
long as it does.

`mcu2cp` runs under `LiveSpec`: interrupts that are enabled are taken (strongly
fair for the receiver, whose client stops and starts it), callbacks return, a
client that has stopped starts again, and one that takes parts takes a whole
message now and then. Without the last a channel with flow control may stand
still for ever, and so it may in the code.

`cp_accel` runs under `CpLiveSpec`: interrupts are taken, the coprocessor boots,
its loop runs and its work ends. The loop and its receive interrupt are strongly
fair since each disables the other: the MCU sends at most some events per audio
frame, so an event does not interrupt the loop in every turn. Nothing is assumed
of the clients: `EventsWorked` holds however they open, close and send, of every
event that is owed in a session that began without an interrupt left over.

What the code does *not* guarantee, and no run assumes: progress of one module
while another one keeps queueing (the round robin stays with a module until its
list is empty), progress of a save while other modules wake the hook more often
than the debounce time, and a wake-up after `norflash_api_flush_enable`
(`NorflashHook` has none).

## 5. Proofs

`NorflashApiProofs` proves, for any number of modules, sectors, pages, nodes
and buffers, with and without `FLASH_SUSPEND`, with and without a coprocessor
user (`ConstAssumption`: the counts are naturals, modules, sectors and pages at
least one):

| theorem | states |
|---|---|
| `Invariance` | `Spec => []IInv` |
| `TypeCorrect` | `Spec => []TypeOK` |
| `ListsAreChains` | `Spec => []Chains` |
| `NoLeak` | `Spec => []PoolsExact` |
| `SuspendAgreement` | `Spec => []OneSuspended` |
| `AssertsHold` | `Spec => []NoAssert` |

The argument. None of the properties is inductive alone. `PoolsExact` needs
that a list is in one order (`Chains`), since completing an operation removes
every node *behind* the tail too (`_opera_del`, and the model's `before`), and
would leak one if a node could be incomparable. `OneSuspended` needs that the
locked node is the tail of its list, which needs `Chains` again, and that pools
are disjoint. `NoAssert` follows from `OneSuspended`: a module other than
`cur_mod` has nothing suspended, so the driver's state and the module's fit.
`Chains` needs that a node is in one list only (`PoolsExact`) and that an
unregistered module has no nodes (`UnregisteredEmpty`, which serves the
registration step). Together they are `IInv`, and each action preserves it:
`DropKeeps`, `PushKeeps` and the lemmas after them say what taking nodes out of
a list and putting one at its head does to lists and pools, once for all
actions; the step lemmas add what the action does to the rest.

`Tail` and `FirstOf` are CHOOSEs; that they find a node is `ChainHasLast` and
`ChainHasFirst`: a finite chain has a last and a first element (by the
well-foundedness of strict inclusion on finite sets). This is where the proofs
use that nodes come from a finite pool.

`NorflashDataProofs` goes on from `IInv` to the data. These theorems assume
`ProductBuild`, one sector buffer at most and no user of the window (`Users = {}`),
and nothing else of the constants:

| theorem | states |
|---|---|
| `DataInvariance` | `Spec => []DataInv` |
| `ReadsSeeWrites` | `Spec => []ReadYourWrites` |
| `FlashIsUpToDate` | `Spec => []DrainedIsContents` |
| `ImplementsFlashStore` | `Spec => StoreSpec`, the refinement of `FlashStore` |

What a module has queued for a sector and what the chip holds must together make
up what was asked for, at every step of a suspended program. `SectorFits` says
how: the newest node of a sector is what the calls amount to; the oldest one, if
it is a write, agrees with flash outside its range and clears bits only inside
it; and a write that is not the oldest follows an erase, so that its sector is
empty outside its range. With these an operation that is done, in part or
wholly, leaves what a reader sees alone. A sector cannot have two writes with
one buffer (`OneWrite`), and this is where the proof needs `BufferNum <= 1`:
with two buffers `ReadYourWrites` is false (section 6). The other half of
`ProductBuild` is needed too: that a synchronous operation finds its module's
queue empty is what a user of the window breaks (`norflash_sync_order`). The
refinement follows since every action either keeps `Visible` or changes one
sector of it as the call says.

Two more are about `NorflashHook`, for any constants and any users:

| theorem | states |
|---|---|
| `HookImplementsService` | `HookSpec => Spec`, so that the theorems above hold of it too |
| `NothingIsLeft` | `HookSpec => []NothingLeftBehind` |

Outside a round what is queued is awaited by a message, or missed (`Awaited`). A call
that queues something puts a message or finds the mailbox full, and then there
is one, or the thread is still at its round (`PutIsAwaited`). A round ends only
on a 0 of `norflash_api_flush`, which without a closed window means that the
round robin has found no module, and its search leaves none out
(`SearchIsComplete`); a call that another thread's flush answers queues nothing
(`FlushQueuesNothing`).

`NvRecordProofs` proves, for any number of updates and crashes, any modules
beside the record's, any pages, nodes and buffers:

| theorem | states |
|---|---|
| `RecordInvariance` | `NvSpec => []NvInv` |
| `ServiceSurvives` | lists, pools and the suspend state of the service survive crashes and boots |
| `NvTypeCorrect` | `NvSpec => []NvTypeOK` |
| `SectorsOneByOne` | `NvSpec => []OneSectorAtATime` |
| `CrashCostsNoSave` | `NvSpec => []SavedSurvives` |
| `NothingForgotten` | `NvSpec => []CleanIsSaved` |

Every call the record makes of the service is one `NorflashApi` is proved for
(`StepOfService`), so `IInv` carries over, and a crash resets it. The rest of `NvInv`
reads the save's state: `QueueFits` says for each `nv_state` what the queue of the
record and its sector may hold (`Erasing`: the erase is queued or done; `Writing`: one
or two nodes that write the whole of `burn_buf`, perhaps after the erase);
`OtherValid` says that the sector which is not being written is valid, but before
the first save and in the boot that repairs bak; `Fresh` that no valid sector is
older than the last finished save, so that whichever the next boot takes will
do; `UpdateTold` that a record newer than what is saved or being saved is marked
by `is_update`, which a setter sets in a step of its own.

`NorflashThreadProofs` proves, for any threads with priorities above the one of
the norflash thread (`ThreadAssumption`):

| theorem | states |
|---|---|
| `Invariance` | `Spec => []IInv` |
| `TypesHold` | `Spec => []ThreadTypeOK` |
| `NoMessageLost` | `Spec => []PoolIsMessages` |
| `RefusedIsQueued` | `Spec => []RefusedMeansQueued` |

Here `IInv` is the two together, and each needs the other: the queue stays
within its size because every message has an entry of the pool, and the step
that queues one never finds the queue full because the thread that queues it
holds an entry that is not a message yet. Nothing in this uses the counter,
which may have any value. `PuttingChanges` says what a step of a put does to the
number of threads that hold an entry.

`RefusedIsQueued` is about the counter, whose increments are not locked. Two
threads that increment at once lose one, but the decrement of the norflash
thread, which has the lowest priority, is never lost: the counter is never above
the messages that are there (`CountsLess`), so that a mailbox that refuses has
one in the queue. A lost increment, which `raced` remembers, in the end takes
the counter below 0; from then on it stays near 255, and the mailbox refuses
everything with nothing in it (`Wrapped`). The property names this state as its
one exception, and the theorem says that only a race leads there.

`HwtimerListProofs` proves, for any timers, durations and lateness of the
interrupt:

| theorem | states |
|---|---|
| `Invariance` | `Spec => []IInv` |
| `StatesMatch` | `Spec => []ListsMatchStates` |
| `TimeInvariance` | `Spec => [](IInv /\ TimeInv)` |
| `TypesHold` | `Spec => []HwTypeOK` |
| `NeverCollapses` | `Spec => []NoCollapse` |
| `InterruptComes` | `Spec => []InterruptArmed` |
| `TimeKept` | `Spec => OthersKeepTime` |
| `InTime` | `Spec => CalledInTime` |

`IInv` says that both lists are free of duplicates, that a timer's state names the
list it is in, and that fired timers wait only while the handler is in a
callback. A list that was walked, cut or shifted in time has the timers it had
(`MovedList`, `Inserted` and the lemmas beside them). Times are of no account in
it.

`TimeInv` adds them. Its core is `HwInv`: the hardware timer is enabled exactly
while the list has a timer, `value` is what it was loaded with for the first of
them, `left` what remains of that, and when nothing remains the interrupt is
pending or being handled. Every step either leaves the hardware timer alone,
loads it for a new first timer or stops it with the list empty, and a step that
loads it must leave a list whose first time is the load: this is what the three
ASSERTs of the code ask for, and the branches of `StopFirst` and `StartBefore`
are checked against it one by one. `HwTypeOK` says that no difference of unsigned
numbers wraps, so it is not a matter of types alone.

The two action properties are about sums: a timer is due after the times of all
timers up to its own (`At`). An overrun that is spread over a list (`Spent`)
takes the same from every sum, down to 0, and inserting or removing a timer
leaves the sums of the others. A statement about a sum holds for every index by
a minimal counterexample (`LeastNumber`), since an induction rule with an
operator for a parameter cannot be given to the provers; `At` is a recursive
function, whose existence is shown in the same way (`SumExists`). What of the time
an interrupt is late goes into `CalledInTime` as the code has it: a timer
started while it is late is early by as much.

`Mcu2CpProofs` proves, for any number of records and any messages:

| theorem | states |
|---|---|
| `Invariance` | `Spec => []IInv` |
| `ChannelTypes` | `Spec => []ChannelTypeOK` |
| `NoRecordLeaks` | `Spec => []RecordsExact` |
| `OneCoreAtATime` | `Spec => []OneHolder` |
| `ChannelImplemented` | `Spec => Channel!Spec`, the refinement of `MsgChannel` |

`OneHolder` carries the argument: whoever acts is the one holder of the list
(`HolderCases` splits it into five cases, and each action begins with the case
it needs), hands the list on to exactly one other, and so no index is ever
used on a list that another core has changed. `RecordsExact` needs it for the
sent callbacks, `PendingBehind` says that nothing waits behind an empty list. For the
refinement, `Place(i)` is the record of the i-th message that is still to be
received, and every step either leaves all places alone (`QueueKept`), appends
one (`SendAccepts`) or drops the first (`RxWholeReceives`).

`CpAccelProofs` proves, for any tasks, any length of `tx_pending` and any number
of records from two (`CpAccelAssumption`; the code has 3 or 16):

| theorem | states |
|---|---|
| `NoWorkAfterClose` | `CpSpec => []ClosedNotWorked` |
| `PendingFits` | no event is written beyond `tx_pending`, none is taken when it is empty |
| `AccelInvariance` | `CpSpec => []AccelInv` |
| `CpTypeCorrect` | `CpSpec => []CpTypeOK` |
| `OneEventInChannel` | `CpSpec => []TxCountExact` |
| `EventsNotLost` | `CpSpec => []NoEventLost` |

The first two have small invariants of their own. The others rest on what the
discipline of one event at a time makes of the sender's lists: while the
coprocessor is on they have one of five shapes (`Idle`, `OnItsWay`, `Returned`,
`IsLast`, `Follows`), each with at most one record in either list and the
counter that goes with it (`Shape`). The shapes hold whatever interrupts were
left over, and so does `TxCountExact`: an early DONE runs the sent callback
early, and the counter follows. What the interrupts say does need a clean start:
`OneSignal` has the list announced, in the coprocessor's receive interrupt or
given back, one of the three, in a session without `stale`. With it `Unread` is
the one record, if any, the coprocessor still has to receive, and `EventsKept`
says that an event that was sent waits, is in such a record, is flagged or
taken. `ReadsTasks` says that every record in use holds an event of a task, also
when it is read late. That only open tasks have events makes the last close
safe: nothing is on its way that anybody waits for. One record would not do: the
sent callback sends while its own record is in use.

`FlashProtectionProofs` proves, for every chip the service knows and every set of
operations:

| theorem | states |
|---|---|
| `Invariance` | `Spec => []IInv` |
| `TableHasRoom` | `Spec => []FitsMap` |
| `AreaFound` | `Spec => []AreaDefined` |
| `TargetFree` | `Spec => []TargetUnprotected` |
| `HalfProtected` | `Spec => []HalfStaysProtected` |
| `CodesApart` | `Spec => []CodesDistinct` |

`ProtectionAssumption` only says that the chips are among `KnownChips` and that an
operation is a range of addresses; what the service refuses, `Start` refuses. Four
properties leave something out, and say so. `TargetUnprotected` and `AreaDefined`
speak of an operation from its start to its end over all its suspensions, but for
one that a synchronous call has overtaken meanwhile, which resumes with the whole
flash protected (section 6). `TargetUnprotected` does not
speak of writes that begin with the last byte of a sector: where an area ends
there, `_protection_part` takes it for free (section 6). `AreaDefined` leaves out the
last byte of the flash, for which even the area of all of it is taken.
`HalfStaysProtected` is about operations within one half of the flash, since a block
erase may lie across the middle. `CodesDistinct` leaves out the chip whose codes
do repeat.

The argument. A chip `Fits`: its half is a number of blocks, and each of the two
loops of its table, from `Block(c)` up to the half and from `Small(c)` up to
32 KB, reaches its limit exactly, after so many turns (`EveryChipFits`, by the
sizes there are). What a loop adds is then a part of the table with one code per
turn, in a range of its own, and areas that begin and end with sectors
(`LoopIsPart` and the lemma for each kind of loop); a table grows by parts whose
ranges follow each other, so that it has room and its codes differ
(`TableGrows`, `EveryTableSuits`). The last turn of the first two loops gives the
two halves of the flash, the first turn the smallest area from its beginning, up
to `Low(c)`. An operation within one half leaves the other free (`HalfIsFree`). A
write never lies across the middle, which is a border of sectors (`WriteWithin`). An
erase that does so begins so near to the middle that the smallest area is
free (`EraseBehind`). So some area is free (`SomeIsFree`), and the first of the
largest free ones, which exists by `LeastNumber`, is no smaller (`PartChosen`). It is
not the empty area, nor that of all but for the last byte of the flash, and since it
ends with a sector an operation that does not begin with a last byte is free
of it. `IInv` says this of the area in the status register, where it stays until
the operation ends or is overtaken.

Model-checked only: liveness and what is `ENABLED`, which are out of TLAPS' reach
here: `DrainsWhenQuiet`, the saving of the last update, `TimersFire`, the liveness
of the channel and `EventsWorked`, with the fairness of section 4. Every other
property of a passing run is a theorem, under the assumptions named above.
With a user of the window nothing is claimed of what a reader sees: a synchronous
operation may overtake the queue (section 7).

## 6. What the models leave out

*NorflashApi.* Asynchronous erases longer than a sector, which only
`app_flash_erase` makes;
the completion callbacks `cb_func`; `FLASH_API_SIMPLE` (all
calls synchronous) and `FLASH_REMAP` (0 in the product's build); a second flash
chip; the CANCEL states of the driver, which appear under
`FLASH_MEM_READ_BUS_LOCK` and are folded into SUSPEND. A page is programmed as
a whole. `norflash_api_flush_all` is `flush_enable` and repeated flushes.

*NorflashHook.* The steps of a put, which are `NorflashThread`'s: a wake-up that a
wrapped counter refuses is a choice at every put, at any time. What the other
users' hooks do; that they may ask for another iteration is a choice too.

*NvRecord.* `nv_record_sector_clear` followed by a restart; the rebuild of a
record that is not loaded. A wake-up that is refused: here each one gets through, so
that `SavedWhenQuiet` says nothing of a system whose mailbox counter has
wrapped. An erase or a write that meets
`NORFLASH_API_BUFFER_FULL` and the flush after it are one step. A timer that
cannot be started is a nondeterministic outcome of the check. The contents of
the record.

*NorflashThread.* What the hooks do besides waking the thread, which is in the
other modules. No thread but the norflash thread has `osPriorityLow`.

*FlashProtection.* The writes of the status register, which take effect at once
here, also on a chip that holds a suspended operation; `FLASH_REMAP`,
`FLASH_PROTECTION_BOOT_SECTION_FIRST` (0). What a chip does that resumes an
operation in a range protected meanwhile.

*HwtimerList.* The callback pointers and their arguments, `hwtimer_update`, which
changes nothing else, the callout API on top, the order of the free list. The
other timers of `hal_timer.c`, and the wrap-around of the 32 bit counter.

*Mcu2Cp.* One direction of one of the two channels; the directions share no
state. Flow control by the client (`hal_mcu2cp_rx_done`), which no client
of the tree asks for, `hal_mcu2cp_force_flush_pending`, which is for crash dumps,
and the vote against sleep. Senders do not preempt the handlers: a sender above
`IRQ_PRIORITY_NORMAL` could take a record between the two statements
`hal_mcu2cp.c:360` and 361.

*CpAccel.* Events from the coprocessor to the MCU, the second channel
(crash and trace), `cp_accel_busy`, the CPU usage, `cp_evt_hdlr`, which no client
of the tree sets. One thread sends at a time, and a client sends between its
open and its close only; both are what the callers in the tree do.

### Observations no property is stated for

- A boot that finds both sectors valid keeps whichever is in main and does not
  repair an older bak; a crash during the next erase of main then goes back by
  one save (`nvrecord_extension.c:836`).
- A lost increment of the mailbox counter lets it wrap to 255, after which every
  wake-up is refused (`norflash_api.cpp:1821`): the exception of
  `RefusedMeansQueued`, and one of those of `NothingLeftBehind`. The save of the
  last update then waits for a synchronous one.
- `norflash_api_get_free_buffer_count` compares writes with the number of nodes
  and erases with the number of buffers (`norflash_api.cpp:3231` and 3246).
- `norflash_api_flush` answers 0, 'all pending flash op flushed' (3109), while
  flushing is not allowed, the round ends on it and `norflash_api_flush_enable`
  starts no new one (`norflash_api.cpp:2463`, 3283): what is queued stays until
  some module calls. Without `missed` this violates both properties
  of `norflash_hook` that name it, also when no wake-up is refused.
- A synchronous call flushes in loops with interrupts masked: while the window is
  closed and another module's operation is suspended, or the call has flushed one
  of its own module's already, it goes round without end (`norflash_api.cpp:2919`,
  2934), until the other core opens the window.
- A suspended operation is resumed without `_protection_part`
  (`norflash_api.cpp:2279`). A synchronous call of its module that comes while
  the window is closed goes on without resuming it first; it ends with
  `_protection_all`, and the operation is resumed with its range protected:
  the exception of `TargetUnprotected`.
- `hal_mcu2cp_open` and `hal_mcu2cp_close` leave a DONE pending that the NVIC has
  latched (`hal_mcu2cp.c:411`, 455): after the last close it fires in the next
  session, at the first send (514), gives the record back before the coprocessor
  has read it, and an event may be lost. Where a handler clears the source it
  clears the NVIC too (375). It is the exception of `NoEventLost` and
  `EventsWorked`.
- `_norflash_api_protection_bp_init` builds the table of GD25D20/40 and then
  another one over it (`norflash_api.cpp:1556`).
- `_protection_part` takes an area as free when the operation starts at its
  last byte (`norflash_api.cpp:1655`): a write that begins with the last byte of an
  area finds it protected, and for one of the last byte of the flash alone the area
  of all is chosen and the ASSERT fails.
- `norflash_api_erase` accepts a block at any sector (`norflash_api.cpp:2861`); across
  the middle of the flash such an erase leaves less than half protected.
- With more than one sector buffer (not the product's build) a second write of
  a sector, made while the first one is suspended, starts from flash: until the
  first is done, reads lack its pages (`norflash_api.cpp:2117`). `NorflashApi` with
  `BufferNum = 2` and one module violates `ReadYourWrites`; `DrainedIsContents` holds.
- The loops of `_bp_init_256m` exceed the bounds of their comments, `max bp = 0x6`
  and `0xe` (`norflash_api.cpp:1045`, 1071): on the 32 MB chip without CMP they make
  nine turns, and one code stands for two areas. `CodesDistinct` leaves this
  chip out.
- `app_flash_erase` takes `flashOffset` modulo the block size for the length up
  to the next block (`app_flash_api.cpp:201`): from an offset that is not half a
  block the block erases that follow are not aligned to blocks.
- `hwtimer_start` while the interrupt is overdue counts from the hardware's 0, and
  the new timer is early by as much as the interrupt is late
  (`hwtimer_list.c:369`); `CalledInTime` grants it.
- `hwtimer_free` refuses a timer whose callback runs; `hal_usbhost.c:353` does not
  look at the answer.
- `cp_accel_send_event_mcu2cp` compares the counter before it masks interrupts
  (`cp_accel.c:534`): two threads that send at once may both pass with one place left,
  and the second writes beyond `mcu2cp_tx_pending`.
- `cp_accel_busy` reads the sleep flag and the interrupt one after the other
  (`cp_accel.c:573`): a coprocessor that wakes, takes its event and clears the
  interrupt in between is taken for idle. Nothing in the tree calls it.
- `app_bt_sync.cpp`: the thread reads `statusInfo->twsCmdSendDone` after the array
  behind the pointer has been shifted (271), a slave may index
  `locTriggerInfo` with 0xff (296), the timer's handler reads
  `statusInstance[0]` without the mutex (291), and a trigger channel is not given
  back when `tws_ctrl_send_cmd` fails (500).

## 7. Disagreements found

| run | the source says | the code does |
|---|---|---|
| `norflash_sync_order` | `norflash_api.cpp:2929` 'flush all of cur module opera.' | `continue` in the do-while tests `bresult`, which is 0: while the coprocessor window is closed a synchronous operation overtakes the queue |
| `nv_zero_bak` | `nvrecord_extension.c:1070` the record written is valid | after a crash that left bak invalid, the boot writes a zeroed buffer to it, then erases main |
| `mailbox_alloc` | `norflash_api.cpp:1801` allocation succeeds | two threads pass the test of the counter and the second finds the pool empty |

## 8. Not modelled

`PROJECT.json` lists the parts left out, with the reason for each. In short:

- *Decisions in prebuilt libraries.* Earbud connection and UX, the Bluetooth
  host, LE audio, trigger synchronisation, the media manager: what is in the
  tree are callbacks whose order and whose state are the library's, and a model
  would be an invention.
- *Sequential code.* Queues, lists, the device list of the record, keys,
  battery: one thread, or always under a caller's lock. Unit tests reach it.
- *Switched off in the product.* RPC, the log and dump sections, most voice
  assistants and diagnostic protocols.
- *Signal processing and register sequences.* Codecs, noise cancellation,
  sensors, drivers.
- *Third-party code and data.* RTOS, CMSIS, graphics, compression,
  cryptography, allocators; tone and calibration tables, which are most of the lines
  of the repository.

What could be proved next: that each step of `CpAccel` between a boot and the next
switch-off is one of `Mcu2Cp`'s, so that the theorems about the channel hold of it
as they stand.
