------------------------------ MODULE CpAccel ------------------------------
(***************************************************************************)
(* The coprocessor's work queue, platform/drivers/cp_accel/cp_accel.c, on  *)
(* the channel from the MCU to the coprocessor (Mcu2Cp).                   *)
(*                                                                         *)
(* A task of the coprocessor is opened and closed by its client on the     *)
(* MCU, which sends it events to make it work.  The first open boots the   *)
(* coprocessor and the last close switches it off.  One event at a time is *)
(* in the channel; the others wait in tx_pending until the sent callback   *)
(* sends them.  On the coprocessor the receive callback sets a flag per    *)
(* event, and a loop takes the flags, works or sleeps.                     *)
(*                                                                         *)
(* Each task has one event, which stands for the task.                     *)
(*                                                                         *)
(* Opening a channel clears IND and DONE in the clock unit they come from, *)
(* and opening and closing disable them, but what the NVIC of the MCU has  *)
(* latched stays pending: it fires when the first send enables it.         *)
(***************************************************************************)
EXTENDS Mcu2Cp, SequencesExt

CONSTANTS
    Tasks,              \* enum CP_TASK_TYPE
    MAX_CP_MSG_NUM      \* the length of tx_pending

ASSUME CpAccelAssumption ==
    /\ Msgs = {"req_event", "pending_event"}
    /\ MAX_CP_MSG_NUM \in Nat \ {0}
    /\ MAX_SEND_RECORD_COUNT >= 2    \* 16, or 3 on a chip with little memory

NoTask == "none"
NoRecord == 0

VARIABLES
    \* The MCU.
    cp_accel_state,     \* which tasks are open
    chan_opened,        \* the MCU has opened the channel
    tx_count,           \* mcu2cp_tx_count
    tx_pending,         \* mcu2cp_tx_pending
    event,              \* the contents of req_event and pending_event
    sending,            \* the event a thread is about to send
    notified,           \* the sent callback has run for the message tx
    tx_enabled,         \* NVIC_EnableIRQ(tx_irq_id) on the MCU
    \* The coprocessor.
    cp_accel_inited,    \* it is ready
    cp,                 \* "off", "boot", "ready", "loop", "sleep" or "work"
    cp_msg, cp_msg_recv,    \* the flags the receive callback sets
    taken,              \* the flags the loop has taken
    working,            \* the task that works, and holds LOCK_CP_PROCESS
    msg_ptr,            \* the record its receive interrupt looks at, if any
    stale,              \* history: it became ready with an interrupt pending
                        \* that an earlier session had left over
    owed                \* history: the events sent and not yet worked on

mcu_vars == <<cp_accel_state, chan_opened, sending>>
tx_vars == <<tx_count, tx_pending, event, notified>>
cp_vars == <<cp_accel_inited, cp, cp_msg, cp_msg_recv, taken, working>>
irq_vars == <<tx_enabled, msg_ptr, stale>>
cpVars == <<vars, mcu_vars, tx_vars, cp_vars, irq_vars, owed>>

\* No record has been sent: what they hold does not matter.
CpInit ==
    /\ Init /\ msg \in [Records -> {"req_event"}]
    /\ cp_accel_state = [t \in Tasks |-> "CLOSED"]
    /\ chan_opened = FALSE /\ sending = NoTask
    /\ tx_count = 0 /\ tx_pending = <<>> /\ notified = FALSE
    /\ event = [m \in Msgs |-> NoTask]
    /\ cp_accel_inited = FALSE /\ cp = "off"
    /\ cp_msg = {} /\ cp_msg_recv = FALSE
    /\ taken = {} /\ working = NoTask
    /\ tx_enabled = FALSE /\ msg_ptr = NoRecord /\ stale = FALSE
    /\ owed = {}

-----------------------------------------------------------------------------
(* Opening and closing.                                                    *)

\* No interrupt of the channel runs on the MCU.
McuThread == tx = 0

\* hal_mcu2cp_open_mcu leaves a channel alone that is open.  It does not
\* clear a DONE that is pending in the NVIC.
OpenChannel ==
    IF chan_opened THEN UNCHANGED <<vars, chan_opened, tx_enabled>>
    ELSE /\ chan_opened' = TRUE
         /\ tx_enabled' = FALSE
         /\ in_use' = {}
         /\ send_msg_list' = <<>> /\ send_pending_list' = <<>>
         /\ UNCHANGED <<msg, tx, DATA_IND, DATA_DONE, rx, recv_pending,
                        rx_enabled, received>>

cp_accel_open(t) ==
    /\ McuThread
    /\ cp_accel_state[t] = "CLOSED"
    /\ cp_accel_state' = [cp_accel_state EXCEPT ![t] = "OPENED"]
    /\ IF cp_accel_inited THEN UNCHANGED <<vars, chan_opened, tx_enabled, cp>>
       ELSE /\ cp' = IF cp = "off" THEN "boot" ELSE cp
            /\ OpenChannel
    /\ UNCHANGED <<sending, tx_vars, cp_accel_inited, cp_msg, cp_msg_recv,
                   taken, working, msg_ptr, stale, owed>>

\* The receive interrupt may still answer between the close of the MCU's side
\* and hal_cmu_cp_disable.
LateAnswer ==
    /\ rx # 0 \/ (DATA_IND /\ rx_enabled)
    /\ DATA_IND' = FALSE /\ DATA_DONE' = TRUE

\* The channel is closed on both sides and the coprocessor switched off.
SwitchOff ==
    /\ cp_accel_inited' = FALSE /\ cp' = "off"
    /\ taken' = {}
    /\ chan_opened' = FALSE /\ tx_enabled' = FALSE
    /\ send_msg_list' = <<>> /\ send_pending_list' = <<>>
    /\ LateAnswer \/ UNCHANGED <<DATA_IND, DATA_DONE>>
    /\ rx' = 0 /\ recv_pending' = 0 /\ rx_enabled' = FALSE
    /\ msg_ptr' = NoRecord /\ stale' = FALSE
    /\ UNCHANGED <<in_use, msg, tx, received>>

MutClose(t) ==
    /\ McuThread /\ sending # t
    /\ cp_accel_state[t] = "OPENED"
    /\ cp_accel_state' = [cp_accel_state EXCEPT ![t] = "CLOSED"]
    /\ IF /\ cp_accel_inited
          /\ \A u \in Tasks \ {t} : cp_accel_state[u] = "CLOSED"
       THEN SwitchOff
       ELSE UNCHANGED <<vars, chan_opened, cp_accel_inited, cp, taken,
                        irq_vars>>
    /\ owed' = owed \ {t}
    /\ UNCHANGED <<sending, tx_vars, cp_msg, cp_msg_recv, working>>

\* The client of t sends no more; the lock waits for the end of its work.
cp_accel_close(t) ==
    /\ McuThread /\ sending # t
    /\ cp_accel_state[t] = "OPENED"
    /\ working = NoTask
    /\ cp_accel_state' = [cp_accel_state EXCEPT ![t] = "CLOSED"]
    /\ IF /\ cp_accel_inited
          /\ \A u \in Tasks \ {t} : cp_accel_state[u] = "CLOSED"
       THEN SwitchOff
       ELSE UNCHANGED <<vars, chan_opened, cp_accel_inited, cp, taken,
                        irq_vars>>
    /\ owed' = owed \ {t}
    /\ UNCHANGED <<sending, tx_vars, cp_msg, cp_msg_recv, working>>

MutBoot ==
    /\ cp = "boot"
    /\ cp_msg' = {} /\ cp_msg_recv' = FALSE
    /\ DATA_IND' \in {FALSE, DATA_IND} /\ recv_pending' = 0
    /\ rx_enabled' = TRUE
    /\ cp' = "ready"
    /\ UNCHANGED <<sender, tx, DATA_DONE, rx, received, mcu_vars, tx_vars,
                   cp_accel_inited, taken, working, irq_vars, owed>>

\* accel_main clears cp_env, opens its side of the channel and receives.  An
\* IND of the last session that is still raised when the core leaves its
\* reset may be latched there before it is cleared at the source.
Boot ==
    /\ cp = "boot"
    /\ tx_count' = 0 /\ tx_pending' = <<>>
    /\ cp_msg' = {} /\ cp_msg_recv' = FALSE
    /\ DATA_IND' \in {FALSE, DATA_IND} /\ recv_pending' = 0
    /\ rx_enabled' = TRUE
    /\ cp' = "ready"
    /\ UNCHANGED <<sender, tx, DATA_DONE, rx, received, mcu_vars, event,
                   notified, cp_accel_inited, taken, working, irq_vars, owed>>

\* Nothing has been sent yet: an interrupt that is pending is left over.
BootDone ==
    /\ cp = "ready" /\ rx = 0
    /\ cp_accel_inited' = TRUE
    /\ cp' = "loop"
    /\ stale' = (DATA_IND \/ DATA_DONE)
    /\ UNCHANGED <<vars, mcu_vars, tx_vars, cp_msg, cp_msg_recv, taken,
                   working, tx_enabled, msg_ptr, owed>>

-----------------------------------------------------------------------------
(* Sending.                                                                *)

\* The callers do not look at what hal_mcu2cp_send answers.
SendOrLose(m) ==
    /\ tx_enabled' = (tx_enabled \/ chan_opened)
    /\ IF chan_opened /\ in_use # Records THEN Send(m) ELSE UNCHANGED vars

MutSendCheck(t) ==
    /\ McuThread /\ sending = NoTask
    /\ cp_accel_state[t] = "OPENED"
    /\ cp_accel_inited /\ tx_count <= MAX_CP_MSG_NUM + 1
    /\ sending' = t
    /\ UNCHANGED <<vars, cp_accel_state, chan_opened, tx_vars, cp_vars,
                   irq_vars, owed>>

\* cp_accel_send_event_mcu2cp looks for room before it masks interrupts.
SendCheck(t) ==
    /\ McuThread /\ sending = NoTask
    /\ cp_accel_state[t] = "OPENED"
    /\ cp_accel_inited /\ tx_count <= MAX_CP_MSG_NUM
    /\ sending' = t
    /\ UNCHANGED <<vars, cp_accel_state, chan_opened, tx_vars, cp_vars,
                   irq_vars, owed>>

MutSendEvent ==
    /\ McuThread /\ sending # NoTask
    /\ sending' = NoTask
    /\ owed' = owed \cup {sending}
    /\ tx_count' = tx_count + 1
    /\ event' = [event EXCEPT !["req_event"] = sending]
    /\ \/ /\ tx_count > 0
          /\ tx_pending' = Append(tx_pending, sending)
          /\ UNCHANGED <<vars, tx_enabled>>
       \/ /\ tx_count = 0
          /\ SendOrLose("req_event")
          /\ UNCHANGED tx_pending
    /\ UNCHANGED <<cp_accel_state, chan_opened, notified, cp_vars, msg_ptr,
                   stale>>

cp_accel_send_event_mcu2cp ==
    /\ McuThread /\ sending # NoTask
    /\ sending' = NoTask
    /\ owed' = owed \cup {sending}
    /\ tx_count' = tx_count + 1
    /\ \/ /\ tx_count > 0
          /\ tx_pending' = Append(tx_pending, sending)
          /\ UNCHANGED <<vars, event, tx_enabled>>
       \/ /\ tx_count = 0
          /\ event' = [event EXCEPT !["req_event"] = sending]
          /\ SendOrLose("req_event")
          /\ UNCHANGED tx_pending
    /\ UNCHANGED <<cp_accel_state, chan_opened, notified, cp_vars, msg_ptr,
                   stale>>

\* The sent callback sends the next event.
mcu2cp_msg_sent ==
    /\ tx # 0 /\ ~notified
    /\ notified' = TRUE
    /\ \/ /\ tx_count > 1
          /\ tx_count' = tx_count - 1
          /\ event' = [event EXCEPT !["pending_event"] = Head(tx_pending)]
          /\ tx_pending' = Tail(tx_pending)
          /\ SendOrLose("pending_event")
       \/ /\ tx_count <= 1
          /\ tx_count' = 0
          /\ UNCHANGED <<vars, event, tx_pending, tx_enabled>>
    /\ UNCHANGED <<mcu_vars, cp_vars, msg_ptr, stale, owed>>

\* A DONE that is left over finds no list, or one nobody has read.
McuTxIrq ==
    /\ tx_enabled
    /\ \/ send_msg_list # <<>> /\ TxIrq
       \/ /\ send_msg_list = <<>> /\ DATA_DONE
          /\ DATA_DONE' = FALSE
          /\ UNCHANGED <<sender, tx, DATA_IND, rx, recv_pending, rx_enabled,
                         received>>
    /\ UNCHANGED <<mcu_vars, tx_vars, cp_vars, irq_vars, owed>>

McuTxNext ==
    /\ notified /\ TxNext
    /\ notified' = FALSE
    /\ UNCHANGED <<mcu_vars, tx_count, tx_pending, event, cp_vars, irq_vars,
                   owed>>

-----------------------------------------------------------------------------
(* The coprocessor.                                                        *)

\* hal_mcu2cp_rx_irq; without a list it answers at once.
ReadList ==
    /\ DATA_IND /\ rx_enabled /\ rx = 0
    /\ DATA_IND' = FALSE
    /\ \/ /\ send_msg_list # <<>>
          /\ rx' = 1 /\ msg_ptr' = Head(send_msg_list)
          /\ UNCHANGED DATA_DONE
       \/ /\ send_msg_list = <<>>
          /\ DATA_DONE' = TRUE
          /\ UNCHANGED <<rx, msg_ptr>>
    /\ UNCHANGED <<sender, tx, recv_pending, rx_enabled, received>>

MutCpRxIrq ==
    /\ cp \in {"ready", "loop", "work", "sleep"}
    /\ ReadList
    /\ UNCHANGED <<mcu_vars, tx_vars, cp_vars, tx_enabled, stale, owed>>

\* Interrupts are masked from where the loop takes the flags until it wakes.
CpRxIrq ==
    /\ cp \in {"ready", "loop", "work"}
    /\ ReadList
    /\ UNCHANGED <<mcu_vars, tx_vars, cp_vars, tx_enabled, stale, owed>>

\* The callback reads the event where the message points, and takes it whole.
\* No message has a next one (see TxCountExact), so the list goes back.
mcu2cp_msg_arrived ==
    /\ rx # 0
    /\ cp_msg' = cp_msg \cup {event[msg[msg_ptr]]}
    /\ cp_msg_recv' = TRUE
    /\ rx' = 0 /\ msg_ptr' = NoRecord /\ DATA_DONE' = TRUE
    /\ UNCHANGED <<sender, tx, DATA_IND, recv_pending, rx_enabled, received,
                   mcu_vars, tx_vars, cp_accel_inited, cp, taken, working,
                   tx_enabled, stale, owed>>

\* The loop takes the flags, and sleeps when there was no message.
AccelTake ==
    /\ cp = "loop" /\ rx = 0
    /\ taken' = cp_msg /\ cp_msg' = {}
    /\ cp_msg_recv' = FALSE
    /\ cp' = IF cp_msg_recv THEN "work" ELSE "sleep"
    /\ UNCHANGED <<vars, mcu_vars, tx_vars, cp_accel_inited, working,
                   irq_vars, owed>>

\* An interrupt that is pending ends __WFI, whether it is masked or not.
AccelWake ==
    /\ cp = "sleep"
    /\ cp' = "loop"
    /\ UNCHANGED <<vars, mcu_vars, tx_vars, cp_accel_inited, cp_msg,
                   cp_msg_recv, taken, working, irq_vars, owed>>

\* The loop works on a flag unless the task was closed.
AccelWork(t) ==
    /\ cp = "work" /\ rx = 0 /\ working = NoTask
    /\ t \in taken
    /\ taken' = taken \ {t}
    /\ IF cp_accel_state[t] = "OPENED"
       THEN working' = t /\ owed' = owed \ {t}
       ELSE UNCHANGED <<working, owed>>
    /\ UNCHANGED <<vars, mcu_vars, tx_vars, cp_accel_inited, cp, cp_msg,
                   cp_msg_recv, irq_vars>>

\* cp_work_main returns.
AccelWorked ==
    /\ cp = "work" /\ rx = 0 /\ working # NoTask
    /\ working' = NoTask
    /\ UNCHANGED <<vars, mcu_vars, tx_vars, cp_accel_inited, cp, cp_msg,
                   cp_msg_recv, taken, irq_vars, owed>>

AccelLoop ==
    /\ cp = "work" /\ rx = 0 /\ working = NoTask
    /\ taken = {}
    /\ cp' = "loop"
    /\ UNCHANGED <<vars, mcu_vars, tx_vars, cp_accel_inited, cp_msg,
                   cp_msg_recv, taken, working, irq_vars, owed>>

accel_loop ==
    \/ AccelTake \/ AccelWorked \/ AccelLoop
    \/ \E t \in Tasks : AccelWork(t)

CpNext ==
    \/ \E t \in Tasks : cp_accel_open(t) \/ cp_accel_close(t) \/ SendCheck(t)
    \/ Boot \/ BootDone
    \/ cp_accel_send_event_mcu2cp
    \/ mcu2cp_msg_sent \/ McuTxIrq \/ McuTxNext
    \/ CpRxIrq \/ mcu2cp_msg_arrived
    \/ accel_loop \/ AccelWake

CpSpec == CpInit /\ [][CpNext]_cpVars

\* Interrupts are taken, handlers return, the coprocessor runs, and work ends.
CpLiveSpec ==
    /\ CpSpec
    /\ WF_cpVars(McuTxIrq) /\ WF_cpVars(mcu2cp_msg_sent)
    /\ WF_cpVars(McuTxNext)
    /\ SF_cpVars(CpRxIrq) /\ WF_cpVars(mcu2cp_msg_arrived)
    /\ WF_cpVars(Boot) /\ WF_cpVars(BootDone) /\ SF_cpVars(accel_loop)
    /\ WF_cpVars(DATA_IND /\ AccelWake)

-----------------------------------------------------------------------------
(* Properties.                                                             *)

\* tx_pending is never written beyond its end while one thread sends.
CpTypeOK ==
    /\ cp_accel_state \in [Tasks -> {"CLOSED", "OPENED"}]
    /\ chan_opened \in BOOLEAN /\ cp_accel_inited \in BOOLEAN
    /\ tx_count \in 0 .. MAX_CP_MSG_NUM + 1
    /\ tx_pending \in Seq(Tasks) /\ Len(tx_pending) <= MAX_CP_MSG_NUM
    /\ event \in [Msgs -> Tasks \cup {NoTask}]
    /\ sending \in Tasks \cup {NoTask} /\ notified \in BOOLEAN
    /\ cp \in {"off", "boot", "ready", "loop", "sleep", "work"}
    /\ cp_msg \subseteq Tasks /\ cp_msg_recv \in BOOLEAN
    /\ taken \subseteq Tasks /\ working \in Tasks \cup {NoTask}
    /\ tx_enabled \in BOOLEAN /\ msg_ptr \in Records \cup {NoRecord}
    /\ stale \in BOOLEAN
    /\ owed \subseteq Tasks

\* The messages in the channel the sent callback has not run for.
InChannel ==
    Len(send_msg_list) + Len(send_pending_list)
        - (IF tx = 0 THEN 0 ELSE IF notified THEN tx ELSE tx - 1)

\* The counter the MCU decides by agrees with the channel: at most one event
\* is in it, in a list of its own, and a later one waits in tx_pending, however
\* early the sent callbacks come.
TxCountExact ==
    cp_accel_inited =>
        /\ InChannel <= 1
        /\ Len(send_msg_list) <= 1 /\ Len(send_pending_list) <= 1
        /\ tx_count = InChannel + Len(tx_pending)

\* The events in the records the coprocessor has still to receive: the one its
\* interrupt looks at or the list has, and the one behind the list.
Unread ==
    {r \in Records :
        \/ rx # 0 /\ r = msg_ptr
        \/ send_msg_list = <<r>> /\ tx = 0 /\ DATA_IND
        \/ send_pending_list = <<r>>}

\* An event that was sent and not worked on is somewhere on its way: waiting,
\* in a record still to be received, flagged, or taken by the loop.  An
\* interrupt left over from an earlier session gives the record back unread,
\* so this is about sessions that begin without one.
NoEventLost ==
    /\ ~stale => owed \subseteq
           Range(tx_pending) \cup {event[msg[r]] : r \in Unread}
           \cup cp_msg \cup (IF cp = "work" THEN taken ELSE {})
    /\ cp_msg # {} => cp_msg_recv

\* Once cp_accel_close returns the coprocessor does not work for the task.
ClosedNotWorked ==
    working # NoTask => cp_accel_state[working] = "OPENED" /\ cp = "work"

\* An event that was sent is worked on, unless its task is closed: the
\* coprocessor does not sleep over it and the channel does not stop, in a
\* session that begins without a left-over interrupt.
EventsWorked == \A t \in Tasks : t \in owed /\ ~stale ~> t \notin owed

=============================================================================
