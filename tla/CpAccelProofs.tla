--------------------------- MODULE CpAccelProofs ---------------------------
(***************************************************************************)
(* Proofs about CpAccel for any tasks, any length of tx_pending and any    *)
(* number of records of the channel from two: the coprocessor does not     *)
(* work for a task that is closed, no event is written beyond tx_pending,  *)
(* one event is in the channel at a time, and none is lost unless an       *)
(* interrupt is left over from an earlier session.                         *)
(***************************************************************************)
EXTENDS CpAccel, SequenceTheorems, TLAPS

\* tx_count counts the event that is in the channel and those that wait
\* behind it, and a thread that has found room still has it.
PendingCounted ==
    /\ tx_count \in Nat /\ tx_pending \in Seq(Tasks)
    /\ Len(tx_pending) = IF tx_count = 0 THEN 0 ELSE tx_count - 1
    /\ sending \in Tasks \cup {NoTask}
    /\ tx_count <= MAX_CP_MSG_NUM + 1
    /\ sending # NoTask => tx_count <= MAX_CP_MSG_NUM

WorkAllowed ==
    /\ cp_accel_state \in [Tasks -> {"CLOSED", "OPENED"}]
    /\ ClosedNotWorked

USE CpAccelAssumption

-----------------------------------------------------------------------------
(* The work of a task and its close.                                       *)

LEMMA InitWork == CpInit => WorkAllowed
BY DEF CpInit, WorkAllowed, ClosedNotWorked

\* A step that leaves the tasks' states alone, and either the work as well or
\* begins none.
LEMMA WorkStays ==
    ASSUME WorkAllowed, cp_accel_state' = cp_accel_state,
           \/ working' = working /\ (working = NoTask \/ cp' = cp)
           \/ working' = NoTask
    PROVE  WorkAllowed'
BY DEF WorkAllowed, ClosedNotWorked

LEMMA NextWork == WorkAllowed /\ [CpNext]_cpVars => WorkAllowed'
<1> SUFFICES ASSUME WorkAllowed, [CpNext]_cpVars PROVE WorkAllowed'
  OBVIOUS
<1>1. ASSUME NEW t \in Tasks, cp_accel_open(t) PROVE WorkAllowed'
  <2>1. /\ cp_accel_state' = [cp_accel_state EXCEPT ![t] = "OPENED"]
        /\ working' = working /\ (cp = "work" => cp' = cp)
    BY <1>1 DEF cp_accel_open
  <2>2. \A u \in Tasks :
            cp_accel_state[u] = "OPENED" => cp_accel_state'[u] = "OPENED"
    BY <2>1 DEF WorkAllowed
  <2>3. cp_accel_state' \in [Tasks -> {"CLOSED", "OPENED"}]
    BY <2>1 DEF WorkAllowed
  <2>4. working' # NoTask => cp_accel_state'[working'] = "OPENED"
    <3>1. CASE working \in Tasks
      BY <2>1, <2>2, <3>1 DEF WorkAllowed, ClosedNotWorked
    <3>2. CASE working \notin Tasks
      BY <2>1, <3>2 DEF WorkAllowed, ClosedNotWorked
    <3> QED BY <3>1, <3>2
  <2> QED BY <2>1, <2>3, <2>4 DEF WorkAllowed, ClosedNotWorked
<1>2. ASSUME NEW t \in Tasks, cp_accel_close(t) PROVE WorkAllowed'
  <2>1. /\ cp_accel_state' = [cp_accel_state EXCEPT ![t] = "CLOSED"]
        /\ working = NoTask /\ working' = working
    BY <1>2 DEF cp_accel_close
  <2> QED BY <2>1 DEF WorkAllowed, ClosedNotWorked
<1>3. ASSUME NEW t \in Tasks, AccelWork(t) PROVE WorkAllowed'
  BY <1>3 DEF AccelWork, mcu_vars, WorkAllowed, ClosedNotWorked
<1>4. CASE AccelTake \/ AccelWorked \/ AccelLoop \/ AccelWake
  <2>1. cp_accel_state' = cp_accel_state
    BY <1>4 DEF AccelTake, AccelWorked, AccelLoop, AccelWake, mcu_vars
  <2>2. CASE AccelTake \/ AccelWake
    BY <2>1, <2>2 DEF AccelTake, AccelWake, WorkAllowed, ClosedNotWorked
  <2>3. CASE AccelWorked
    BY <2>1, <2>3, WorkStays DEF AccelWorked
  <2>4. CASE AccelLoop
    BY <2>1, <2>4, WorkStays DEF AccelLoop
  <2> QED BY <1>4, <2>2, <2>3, <2>4
<1>5. CASE Boot \/ BootDone
  <2>1. cp_accel_state' = cp_accel_state /\ working' = working /\ cp # "work"
    BY <1>5 DEF Boot, BootDone, mcu_vars
  <2> QED BY <2>1 DEF WorkAllowed, ClosedNotWorked
<1>6. CASE \/ \E t \in Tasks : SendCheck(t)
           \/ cp_accel_send_event_mcu2cp \/ mcu2cp_msg_sent
           \/ McuTxIrq \/ McuTxNext \/ CpRxIrq \/ mcu2cp_msg_arrived
  <2>1. cp_accel_state' = cp_accel_state /\ working' = working /\ cp' = cp
    BY <1>6 DEF SendCheck, cp_accel_send_event_mcu2cp, mcu2cp_msg_sent,
                McuTxIrq, McuTxNext, CpRxIrq, mcu2cp_msg_arrived,
                mcu_vars, cp_vars
  <2> QED BY <2>1, WorkStays
<1>7. CASE UNCHANGED cpVars
  <2>1. cp_accel_state' = cp_accel_state /\ working' = working /\ cp' = cp
    BY <1>7 DEF cpVars, mcu_vars, cp_vars
  <2> QED BY <2>1, WorkStays
<1> QED BY <1>1, <1>2, <1>3, <1>4, <1>5, <1>6, <1>7 DEF CpNext, accel_loop

\* However open, close, events and the coprocessor's loop interleave, the
\* coprocessor does not work for a task once its cp_accel_close has returned,
\* and is not switched off while it works.
THEOREM NoWorkAfterClose == CpSpec => []ClosedNotWorked
<1>1. WorkAllowed => ClosedNotWorked
  BY DEF WorkAllowed
<1> QED BY <1>1, InitWork, NextWork, PTL DEF CpSpec

-----------------------------------------------------------------------------
(* The events that wait.                                                   *)

LEMMA InitPending == CpInit => PendingCounted
<1> SUFFICES ASSUME CpInit PROVE PendingCounted
  OBVIOUS
<1>1. tx_count = 0 /\ tx_pending = <<>> /\ sending = NoTask
  BY DEF CpInit
<1>2. tx_pending \in Seq(Tasks) /\ Len(tx_pending) = 0
  BY <1>1, EmptySeq
<1> QED BY <1>1, <1>2 DEF PendingCounted

LEMMA NextPending == PendingCounted /\ [CpNext]_cpVars => PendingCounted'
<1> SUFFICES ASSUME PendingCounted, [CpNext]_cpVars PROVE PendingCounted'
  OBVIOUS
<1>1. ASSUME NEW t \in Tasks, SendCheck(t) PROVE PendingCounted'
  <2>1. /\ sending' = t /\ tx_count <= MAX_CP_MSG_NUM
        /\ UNCHANGED <<tx_count, tx_pending>>
    BY <1>1 DEF SendCheck, tx_vars
  <2> QED BY <2>1 DEF PendingCounted
<1>2. CASE cp_accel_send_event_mcu2cp
  <2>1. /\ sending \in Tasks /\ sending' = NoTask /\ tx_count' = tx_count + 1
        /\ \/ tx_count > 0 /\ tx_pending' = Append(tx_pending, sending)
           \/ tx_count = 0 /\ tx_pending' = tx_pending
    BY <1>2 DEF cp_accel_send_event_mcu2cp, PendingCounted
  <2>2. tx_count \in Nat /\ tx_count <= MAX_CP_MSG_NUM
    BY <1>2 DEF cp_accel_send_event_mcu2cp, PendingCounted
  <2>3. /\ tx_pending' \in Seq(Tasks)
        /\ Len(tx_pending') = tx_count
    <3>1. CASE tx_count > 0 /\ tx_pending' = Append(tx_pending, sending)
      <4>1. /\ Append(tx_pending, sending) \in Seq(Tasks)
            /\ Len(Append(tx_pending, sending)) = Len(tx_pending) + 1
        BY <2>1, AppendProperties DEF PendingCounted
      <4> QED BY <2>2, <3>1, <4>1 DEF PendingCounted
    <3>2. CASE tx_count = 0 /\ tx_pending' = tx_pending
      BY <3>2 DEF PendingCounted
    <3> QED BY <2>1, <3>1, <3>2
  <2> QED BY <2>1, <2>2, <2>3 DEF PendingCounted
<1>3. CASE mcu2cp_msg_sent
  <2>1. sending' = sending
    BY <1>3 DEF mcu2cp_msg_sent, mcu_vars
  <2>2. CASE tx_count > 1
    <3>1. tx_count' = tx_count - 1 /\ tx_pending' = Tail(tx_pending)
      BY <1>3, <2>2 DEF mcu2cp_msg_sent, PendingCounted
    <3>2. tx_pending \in Seq(Tasks) /\ Len(tx_pending) = tx_count - 1
      BY <2>2 DEF PendingCounted
    <3>3. tx_pending # <<>>
      BY <2>2, <3>2, EmptySeq DEF PendingCounted
    <3>4. /\ Tail(tx_pending) \in Seq(Tasks)
          /\ Len(Tail(tx_pending)) = Len(tx_pending) - 1
      BY <3>2, <3>3, HeadTailProperties
    <3>5. tx_pending' \in Seq(Tasks) /\ Len(tx_pending') = tx_count - 2
      BY <2>2, <3>1, <3>2, <3>4 DEF PendingCounted
    <3> QED BY <2>1, <2>2, <3>1, <3>5 DEF PendingCounted
  <2>3. CASE ~(tx_count > 1)
    <3>1. tx_count' = 0 /\ tx_pending' = tx_pending /\ Len(tx_pending) = 0
      BY <1>3, <2>3 DEF mcu2cp_msg_sent, PendingCounted
    <3> QED BY <2>1, <3>1 DEF PendingCounted
  <2> QED BY <2>2, <2>3
<1>4. CASE Boot
  <2>1. tx_count' = 0 /\ tx_pending' = <<>> /\ sending' = sending
    BY <1>4 DEF Boot, mcu_vars
  <2>2. tx_pending' \in Seq(Tasks) /\ Len(tx_pending') = 0
    BY <2>1, EmptySeq
  <2> QED BY <2>1, <2>2 DEF PendingCounted
<1>5. CASE \/ \E t \in Tasks : cp_accel_open(t) \/ cp_accel_close(t)
           \/ BootDone \/ McuTxIrq \/ McuTxNext \/ CpRxIrq
           \/ mcu2cp_msg_arrived \/ accel_loop \/ AccelWake
           \/ UNCHANGED cpVars
  <2>1. UNCHANGED <<tx_count, tx_pending, sending>>
    BY <1>5 DEF cp_accel_open, cp_accel_close, BootDone, McuTxIrq, McuTxNext,
                CpRxIrq, mcu2cp_msg_arrived, accel_loop, AccelTake,
                AccelWorked, AccelLoop, AccelWork, AccelWake, cpVars,
                mcu_vars, tx_vars
  <2> QED BY <2>1 DEF PendingCounted
<1> QED BY <1>1, <1>2, <1>3, <1>4, <1>5 DEF CpNext

\* The check of tx_count before interrupts are masked is enough while one
\* thread sends at a time: no event is written beyond mcu2cp_tx_pending, and
\* the sent callback never takes one from an empty array.
THEOREM PendingFits ==
    CpSpec => []( /\ Len(tx_pending) <= MAX_CP_MSG_NUM
                  /\ tx_count > 1 => tx_pending # <<>> )
<1>1. PendingCounted => /\ Len(tx_pending) <= MAX_CP_MSG_NUM
                        /\ tx_count > 1 => tx_pending # <<>>
  BY EmptySeq DEF PendingCounted
<1> QED BY <1>1, InitPending, NextPending, PTL DEF CpSpec

-----------------------------------------------------------------------------
(* The lists as the one event at a time leaves them.                       *)

\* Nothing is in the channel.
Idle ==
    /\ tx = 0 /\ ~notified
    /\ in_use = {} /\ send_msg_list = <<>> /\ send_pending_list = <<>>
    /\ tx_count = 0

\* An event is on its way to the coprocessor or back.
OnItsWay(r) ==
    /\ tx = 0 /\ ~notified
    /\ in_use = {r} /\ send_msg_list = <<r>> /\ send_pending_list = <<>>
    /\ tx_count > 0

\* The sent callback is about to run for it...
Returned(r) ==
    /\ tx = 1 /\ ~notified
    /\ in_use = {r} /\ send_msg_list = <<r>> /\ send_pending_list = <<>>
    /\ tx_count > 0

\* ... or has run, and has sent no other one...
IsLast(r) ==
    /\ tx = 1 /\ notified
    /\ in_use = {r} /\ send_msg_list = <<r>> /\ send_pending_list = <<>>
    /\ tx_count = 0

\* ... or the next one.
Follows(r, q) ==
    /\ tx = 1 /\ notified
    /\ r # q /\ in_use = {r, q}
    /\ send_msg_list = <<r>> /\ send_pending_list = <<q>>
    /\ tx_count > 0

\* The coprocessor has not reported ready.
Off ==
    /\ ~cp_accel_inited /\ cp \in {"off", "boot", "ready"}
    /\ chan_opened <=> cp # "off"
    /\ tx = 0 /\ rx = 0 /\ recv_pending = 0 /\ ~notified /\ ~tx_enabled
    /\ send_msg_list = <<>> /\ send_pending_list = <<>>
    /\ sending = NoTask /\ owed = {} /\ working = NoTask
    /\ cp # "off" => in_use = {}
    /\ cp = "ready" => tx_count = 0

On ==
    /\ cp_accel_inited /\ cp \in {"loop", "sleep", "work"}
    /\ chan_opened
    /\ rx # 0 => cp # "sleep"
    /\ \/ Idle
       \/ \E r \in Records : OnItsWay(r) \/ Returned(r) \/ IsLast(r)
       \/ \E r, q \in Records : Follows(r, q)

Shape == Off \/ On

-----------------------------------------------------------------------------
(* The interrupts of a session that began without one left over.           *)

\* Nobody has the list.
Quiet == ~DATA_IND /\ ~DATA_DONE /\ rx = 0

\* The list is announced, received or given back.
Handed ==
    \/ DATA_IND /\ ~DATA_DONE /\ rx = 0
    \/ ~DATA_IND /\ ~DATA_DONE /\ rx # 0 /\ send_msg_list = <<msg_ptr>>
    \/ ~DATA_IND /\ DATA_DONE /\ rx = 0

OneSignal ==
    cp_accel_inited /\ ~stale =>
        IF tx = 0 /\ send_msg_list # <<>> THEN Handed ELSE Quiet

EventsUnread == {event[msg[r]] : r \in Unread}

\* What is sent is on its way, and only open tasks send.
EventsKept ==
    /\ ~stale => owed \subseteq
           Range(tx_pending) \cup EventsUnread
           \cup cp_msg \cup (IF cp = "work" THEN taken ELSE {})
    /\ cp_msg # {} => cp_msg_recv
    /\ \A t \in owed : cp_accel_state[t] = "OPENED"
    /\ sending # NoTask => cp_accel_state[sending] = "OPENED"

\* The coprocessor reads events of tasks only, whatever record it looks at.
ReadsTasks ==
    /\ in_use \subseteq Records
    /\ \A r \in in_use : event[msg[r]] \in Tasks
    /\ rx # 0 => msg_ptr \in Records /\ event[msg[msg_ptr]] \in Tasks

AccelTypes ==
    /\ msg \in [Records -> Msgs]
    /\ cp_accel_state \in [Tasks -> {"CLOSED", "OPENED"}]
    /\ chan_opened \in BOOLEAN /\ cp_accel_inited \in BOOLEAN
    /\ event \in [Msgs -> Tasks \cup {NoTask}]
    /\ notified \in BOOLEAN
    /\ tx_enabled \in BOOLEAN /\ stale \in BOOLEAN
    /\ msg_ptr \in Records \cup {NoRecord}
    /\ cp_msg \subseteq Tasks /\ cp_msg_recv \in BOOLEAN
    /\ taken \subseteq Tasks /\ working \in Tasks \cup {NoTask}
    /\ owed \subseteq Tasks

AccelInv ==
    /\ AccelTypes /\ ReadsTasks /\ PendingCounted
    /\ Shape /\ OneSignal /\ EventsKept

-----------------------------------------------------------------------------
(* The lists.                                                              *)

\* What of the state the shapes are made of.
lists == <<in_use, send_msg_list, send_pending_list, tx, notified, tx_count>>

LEMMA InitShape == CpInit => Shape
BY DEF CpInit, Init, Shape, Off

LEMMA OpenShape ==
    ASSUME AccelInv, NEW t \in Tasks, cp_accel_open(t)  PROVE Shape'
<1>1. CASE cp_accel_inited
  BY <1>1 DEF cp_accel_open, AccelInv, Shape, Off, On, Idle, OnItsWay,
     Returned, IsLast, Follows, vars, sender, tx_vars
<1>2. CASE ~cp_accel_inited
  <2>1. CASE chan_opened
    BY <1>2, <2>1 DEF cp_accel_open, OpenChannel, AccelInv, AccelTypes, Shape,
       Off, On, vars, sender, tx_vars
  <2>2. CASE ~chan_opened
    BY <1>2, <2>2 DEF cp_accel_open, OpenChannel, AccelInv, AccelTypes, Shape,
       Off, On, tx_vars
  <2> QED BY <2>1, <2>2
<1> QED BY <1>1, <1>2

\* The client that closes is the last one when the coprocessor is switched off.
LEMMA CloseShape ==
    ASSUME AccelInv, NEW t \in Tasks, cp_accel_close(t)  PROVE Shape'
<1>1. CASE cp_accel_inited
           /\ \A u \in Tasks \ {t} : cp_accel_state[u] = "CLOSED"
  <2>1. \A u \in Tasks : cp_accel_state[u] = "OPENED" => u = t
    BY <1>1
  <2>2. owed \subseteq {t}
    BY <2>1 DEF AccelInv, AccelTypes, EventsKept
  <2>3. owed' = {} /\ sending = NoTask
    <3>1. owed' = {}
      BY <2>2 DEF cp_accel_close
    <3>2. sending # NoTask => FALSE
      BY <2>1 DEF cp_accel_close, AccelInv, PendingCounted, EventsKept
    <3> QED BY <3>1, <3>2
  <2>4. tx = 0 /\ ~notified
    BY <1>1 DEF cp_accel_close, McuThread, AccelInv, Shape, Off, On, Idle,
       OnItsWay, Returned, IsLast, Follows
  <2> QED BY <1>1, <2>3, <2>4
          DEF cp_accel_close, SwitchOff, tx_vars, Shape, Off
<1>2. CASE ~ ( cp_accel_inited
               /\ \A u \in Tasks \ {t} : cp_accel_state[u] = "CLOSED" )
  <2>1. UNCHANGED <<lists, rx, recv_pending, tx_enabled, chan_opened,
                    cp_accel_inited, cp, sending, working>>
    BY <1>2 DEF cp_accel_close, vars, sender, tx_vars, irq_vars, lists
  <2>2. owed = {} => owed' = {}
    BY DEF cp_accel_close
  <2> QED BY <2>1, <2>2 DEF AccelInv, Shape, Off, On, Idle, OnItsWay, Returned,
          IsLast, Follows, lists
<1> QED BY <1>1, <1>2

LEMMA BootShape ==
    ASSUME AccelInv, Boot \/ BootDone  PROVE Shape'
<1>1. CASE Boot
  BY <1>1 DEF Boot, AccelInv, Shape, Off, On, sender, mcu_vars, irq_vars
<1>2. CASE BootDone
  BY <1>2 DEF BootDone, AccelInv, Shape, Off, On, vars, sender, mcu_vars,
     tx_vars, Idle
<1> QED BY <1>1, <1>2

LEMMA CheckShape ==
    ASSUME AccelInv, NEW t \in Tasks, SendCheck(t)  PROVE Shape'
BY DEF SendCheck, AccelInv, Shape, Off, On, Idle, OnItsWay, Returned, IsLast,
   Follows, vars, sender, tx_vars, cp_vars

\* A record is free for the one event that is sent.
LEMMA SendTakes ==
    ASSUME NEW m, in_use = {} \/ \E r \in Records : in_use = {r},
           chan_opened, SendOrLose(m)
    PROVE  Send(m)
<1>1. 1 \in Records /\ 2 \in Records
  BY Mcu2CpAssumption DEF Records
<1>2. in_use # Records
  BY <1>1
<1> QED BY <1>2 DEF SendOrLose

\* An event is sent through an idle channel, or waits for the one in it.
LEMMA SendEventCases ==
    ASSUME AccelInv, cp_accel_send_event_mcu2cp
    PROVE  \/ /\ tx_pending' = Append(tx_pending, sending)
              /\ On /\ \E r \in Records : OnItsWay(r) /\ OnItsWay(r)'
              /\ UNCHANGED <<vars, event, tx_enabled>>
           \/ /\ On /\ Idle /\ tx_pending' = tx_pending
              /\ event' = [event EXCEPT !["req_event"] = sending]
              /\ \E r \in Records :
                    OnItsWay(r)' /\ msg' = [msg EXCEPT ![r] = "req_event"]
              /\ DATA_IND'
              /\ UNCHANGED <<DATA_DONE, rx, recv_pending, rx_enabled>>
<1>1. On /\ tx = 0 /\ (Idle \/ \E r \in Records : OnItsWay(r))
  BY DEF cp_accel_send_event_mcu2cp, McuThread, AccelInv, Shape, Off, On,
     Returned, IsLast, Follows
<1>2. CASE tx_count > 0
  <2>1. /\ UNCHANGED <<vars, notified, event, tx_enabled>>
        /\ tx_count' = tx_count + 1
        /\ tx_pending' = Append(tx_pending, sending)
    BY <1>2 DEF cp_accel_send_event_mcu2cp, AccelInv, PendingCounted
  <2>2. PICK r \in Records : OnItsWay(r)
    BY <1>1, <1>2 DEF Idle
  <2>3. OnItsWay(r)'
    BY <1>2, <2>1, <2>2 DEF OnItsWay, vars, sender, AccelInv, PendingCounted
  <2> QED BY <1>1, <2>1, <2>2, <2>3
<1>3. CASE tx_count = 0
  <2>1. Idle
    BY <1>1, <1>3 DEF OnItsWay
  <2>2. /\ SendOrLose("req_event") /\ tx_count' = 1
        /\ UNCHANGED <<notified, tx_pending>>
        /\ event' = [event EXCEPT !["req_event"] = sending]
    BY <1>3 DEF cp_accel_send_event_mcu2cp
  <2>3. Send("req_event")
    BY <1>1, <2>1, <2>2, SendTakes DEF Idle, On
  <2>4. PICK r \in Records :
          /\ in_use' = in_use \cup {r}
          /\ msg' = [msg EXCEPT ![r] = "req_event"]
          /\ send_msg_list' = <<r>> /\ DATA_IND'
          /\ UNCHANGED <<send_pending_list, tx, DATA_DONE, rx, recv_pending,
                         rx_enabled>>
    BY <2>1, <2>3 DEF Send, Idle
  <2>5. OnItsWay(r)'
    BY <2>1, <2>2, <2>4 DEF Idle, OnItsWay
  <2> QED BY <1>1, <2>1, <2>2, <2>4, <2>5
<1> QED BY <1>2, <1>3 DEF AccelInv, PendingCounted

LEMMA SendEventShape ==
    ASSUME AccelInv, cp_accel_send_event_mcu2cp  PROVE Shape'
<1>1. UNCHANGED <<cp_vars, chan_opened>>
  BY DEF cp_accel_send_event_mcu2cp
<1>2. On /\ rx' = rx /\ \E r \in Records : OnItsWay(r)'
  BY SendEventCases DEF vars
<1> QED BY <1>1, <1>2 DEF On, Shape, cp_vars

\* The sent callback moves the next event into the channel, behind its own.
LEMMA SentCases ==
    ASSUME AccelInv, mcu2cp_msg_sent
    PROVE  /\ On
           /\ \E r \in Records :
                 /\ Returned(r)
                 /\ \/ /\ tx_pending # <<>>
                       /\ tx_pending' = Tail(tx_pending)
                       /\ event' = [event EXCEPT !["pending_event"] =
                                        Head(tx_pending)]
                       /\ \E q \in Records :
                             /\ Follows(r, q)'
                             /\ msg' = [msg EXCEPT ![q] = "pending_event"]
                       /\ UNCHANGED <<DATA_IND, DATA_DONE, rx, recv_pending,
                                      rx_enabled>>
                    \/ /\ IsLast(r)'
                       /\ UNCHANGED <<vars, event, tx_pending, tx_enabled>>
<1>1. On /\ \E r \in Records : Returned(r)
  BY DEF mcu2cp_msg_sent, AccelInv, Shape, Off, On, Idle, OnItsWay, IsLast,
     Follows
<1>2. PICK r \in Records : Returned(r)
  BY <1>1
<1>3. notified' = TRUE
  BY DEF mcu2cp_msg_sent
<1>4. CASE tx_count > 1
  <2>1. /\ SendOrLose("pending_event") /\ tx_count' = tx_count - 1
        /\ tx_pending' = Tail(tx_pending)
        /\ event' = [event EXCEPT !["pending_event"] = Head(tx_pending)]
    BY <1>4 DEF mcu2cp_msg_sent, AccelInv, PendingCounted
  <2>2. Send("pending_event")
    BY <1>1, <1>2, <2>1, SendTakes DEF Returned, On
  <2>3. send_msg_list # <<>>
    BY <1>2 DEF Returned
  <2>4. PICK q \in Records \ in_use :
          /\ in_use' = in_use \cup {q}
          /\ msg' = [msg EXCEPT ![q] = "pending_event"]
          /\ send_pending_list' = Append(send_pending_list, q)
          /\ UNCHANGED <<send_msg_list, DATA_IND, tx, DATA_DONE, rx,
                         recv_pending, rx_enabled>>
    BY <2>2, <2>3 DEF Send
  <2>5. Append(<<>>, q) = <<q>> /\ q \in Records
    OBVIOUS
  <2>6. Follows(r, q)'
    BY <1>2, <1>3, <1>4, <2>1, <2>4, <2>5
    DEF Returned, Follows, AccelInv, PendingCounted
  <2>7. tx_pending # <<>>
    BY <1>4, EmptySeq DEF AccelInv, PendingCounted
  <2> QED BY <1>1, <1>2, <2>1, <2>4, <2>5, <2>6, <2>7
<1>5. CASE ~(tx_count > 1)
  <2>1. tx_count' = 0 /\ UNCHANGED <<vars, event, tx_pending, tx_enabled>>
    BY <1>5 DEF mcu2cp_msg_sent, AccelInv, PendingCounted
  <2>2. IsLast(r)'
    BY <1>2, <1>3, <2>1 DEF Returned, IsLast, vars, sender
  <2> QED BY <1>1, <1>2, <2>1, <2>2
<1> QED BY <1>4, <1>5

LEMMA SentShape ==
    ASSUME AccelInv, mcu2cp_msg_sent  PROVE Shape'
<1>1. UNCHANGED <<mcu_vars, cp_vars>>
  BY DEF mcu2cp_msg_sent
<1>2. PICK r \in Records :
        On /\ rx' = rx /\ (IsLast(r)' \/ \E q \in Records : Follows(r, q)')
  BY SentCases DEF vars
<1> QED BY <1>1, <1>2 DEF On, Shape, mcu_vars, cp_vars

\* The transmit interrupt finds the event, or nothing.
LEMMA TxIrqCases ==
    ASSUME AccelInv, McuTxIrq
    PROVE  /\ On /\ DATA_DONE /\ ~DATA_DONE'
           /\ \/ \E r \in Records : OnItsWay(r) /\ Returned(r)'
              \/ Idle /\ Idle'
           /\ UNCHANGED <<sender, DATA_IND, rx, recv_pending, rx_enabled,
                          mcu_vars, tx_vars, cp_vars, irq_vars, owed>>
<1>1. On
  BY DEF McuTxIrq, AccelInv, Shape, Off
<1>2. /\ DATA_DONE /\ ~DATA_DONE'
      /\ UNCHANGED <<sender, DATA_IND, rx, recv_pending, rx_enabled,
                     mcu_vars, tx_vars, cp_vars, irq_vars, owed>>
  BY DEF McuTxIrq, TxIrq
<1>3. CASE send_msg_list # <<>>
  <2>1. tx = 0 /\ tx' = 1
    BY <1>3 DEF McuTxIrq, TxIrq
  <2>2. PICK r \in Records : OnItsWay(r)
    BY <1>1, <1>3, <2>1 DEF On, Idle, Returned, IsLast, Follows
  <2>3. Returned(r)'
    BY <1>2, <2>1, <2>2 DEF OnItsWay, Returned, sender, tx_vars
  <2> QED BY <1>1, <1>2, <2>2, <2>3
<1>4. CASE send_msg_list = <<>>
  <2>0. \A r : <<r>> # <<>>
    OBVIOUS
  <2>1. tx' = tx /\ Idle
    BY <1>1, <1>4, <2>0 DEF McuTxIrq, On, OnItsWay, Returned, IsLast, Follows
  <2>2. Idle'
    BY <1>2, <2>1 DEF Idle, sender, tx_vars
  <2> QED BY <1>1, <1>2, <2>1, <2>2
<1> QED BY <1>3, <1>4

\* After the callback the list is freed, and the next one is announced.
LEMMA TxNextCases ==
    ASSUME AccelInv, McuTxNext
    PROVE  /\ On /\ UNCHANGED <<msg, DATA_DONE, rx, recv_pending, rx_enabled,
                                mcu_vars, tx_count, tx_pending, event,
                                cp_vars, irq_vars, owed>>
           /\ \/ /\ \E r \in Records : IsLast(r)
                 /\ Idle' /\ (DATA_IND' <=> DATA_IND)
              \/ /\ \E r, q \in Records : Follows(r, q) /\ OnItsWay(q)'
                 /\ DATA_IND'
<1>1. On /\ ( \/ \E r \in Records : IsLast(r)
              \/ \E r, q \in Records : Follows(r, q) )
  BY DEF McuTxNext, TxNext, AccelInv, Shape, Off, On, Idle, Returned,
     OnItsWay
<1>2. /\ UNCHANGED <<msg, DATA_DONE, rx, recv_pending, rx_enabled, mcu_vars,
                     tx_count, tx_pending, event, cp_vars, irq_vars, owed>>
      /\ notified' = FALSE
  BY DEF McuTxNext, TxNext
<1>3. CASE \E r \in Records : IsLast(r)
  <2>1. PICK r \in Records : IsLast(r)
    BY <1>3
  <2>2. tx = 1 /\ send_msg_list = <<r>> /\ Len(<<r>>) = 1 /\ <<r>>[1] = r
    BY <2>1 DEF IsLast
  <2>3. /\ in_use' = in_use \ {r} /\ tx' = 0
        /\ send_msg_list' = send_pending_list /\ send_pending_list' = <<>>
        /\ DATA_IND' = (DATA_IND \/ send_pending_list # <<>>)
    BY <2>2 DEF McuTxNext, TxNext
  <2>4. Idle'
    BY <1>2, <2>1, <2>3 DEF IsLast, Idle
  <2>5. send_pending_list = <<>>
    BY <2>1 DEF IsLast
  <2>6. DATA_IND' <=> DATA_IND
    BY <2>3, <2>5
  <2> QED BY <1>1, <1>2, <2>1, <2>4, <2>6
<1>4. CASE \E r, q \in Records : Follows(r, q)
  <2>1. PICK r, q \in Records : Follows(r, q)
    BY <1>4
  <2>2. tx = 1 /\ send_msg_list = <<r>> /\ Len(<<r>>) = 1 /\ <<r>>[1] = r
    BY <2>1 DEF Follows
  <2>3. /\ in_use' = in_use \ {r} /\ tx' = 0
        /\ send_msg_list' = send_pending_list /\ send_pending_list' = <<>>
        /\ DATA_IND' = (DATA_IND \/ send_pending_list # <<>>)
    BY <2>2 DEF McuTxNext, TxNext
  <2>4. <<q>> # <<>> /\ send_pending_list = <<q>>
    BY <2>1 DEF Follows
  <2>5. DATA_IND'
    BY <2>3, <2>4
  <2>6. OnItsWay(q)'
    BY <1>2, <2>1, <2>3 DEF Follows, OnItsWay
  <2> QED BY <1>1, <1>2, <2>1, <2>5, <2>6
<1> QED BY <1>1, <1>3, <1>4

LEMMA TxShape ==
    ASSUME AccelInv, McuTxIrq \/ McuTxNext  PROVE Shape'
<1>1. /\ On /\ rx' = rx /\ UNCHANGED <<mcu_vars, cp_vars>>
      /\ Idle' \/ \E r \in Records : Returned(r)' \/ OnItsWay(r)'
  BY TxIrqCases, TxNextCases
<1> QED BY <1>1 DEF On, Shape, mcu_vars, cp_vars

LEMMA RxShape ==
    ASSUME AccelInv, CpRxIrq \/ mcu2cp_msg_arrived  PROVE Shape'
<1>1. UNCHANGED <<lists, recv_pending, tx_enabled, chan_opened,
                  cp_accel_inited, cp, sending, working, owed>>
  BY DEF CpRxIrq, ReadList, mcu2cp_msg_arrived, lists, sender, mcu_vars,
     tx_vars, cp_vars, irq_vars
<1>2. CASE On
  <2>1. rx' # 0 => cp # "sleep"
    BY <1>2 DEF CpRxIrq, mcu2cp_msg_arrived, On
  <2> QED BY <1>1, <1>2, <2>1 DEF On, Shape, Idle, OnItsWay, Returned, IsLast,
          Follows, lists
<1>3. CASE Off
  <2>1. rx' = 0
    BY <1>3 DEF CpRxIrq, ReadList, mcu2cp_msg_arrived, Off
  <2> QED BY <1>1, <1>3, <2>1 DEF Off, Shape, lists
<1> QED BY <1>2, <1>3 DEF AccelInv, Shape

LEMMA LoopShape ==
    ASSUME AccelInv, accel_loop \/ AccelWake \/ UNCHANGED cpVars  PROVE Shape'
<1>1. UNCHANGED <<lists, rx, recv_pending, tx_enabled, chan_opened,
                  cp_accel_inited, sending>>
  BY DEF accel_loop, AccelTake, AccelWorked, AccelLoop, AccelWork, AccelWake,
     cpVars, cp_vars, vars, sender, mcu_vars, tx_vars, irq_vars, lists
<1>2. CASE UNCHANGED cpVars
  BY <1>1, <1>2 DEF AccelInv, Shape, Off, On, Idle, OnItsWay, Returned, IsLast,
     Follows, lists, cpVars, cp_vars
<1>3. CASE accel_loop \/ AccelWake
  <2>1. On /\ cp' \in {"loop", "sleep", "work"} /\ (rx # 0 => cp' # "sleep")
    BY <1>3 DEF accel_loop, AccelTake, AccelWorked, AccelLoop, AccelWork,
       AccelWake, AccelInv, Shape, Off, On
  <2> QED BY <1>1, <2>1 DEF Shape, On, Idle, OnItsWay, Returned, IsLast,
          Follows, lists
<1> QED BY <1>2, <1>3

LEMMA NextShape == AccelInv /\ [CpNext]_cpVars => Shape'
BY OpenShape, CloseShape, BootShape, CheckShape, SendEventShape, SentShape,
   TxShape, RxShape, LoopShape DEF CpNext

-----------------------------------------------------------------------------
(* The interrupts.                                                         *)

signals == <<tx, send_msg_list, DATA_IND, DATA_DONE, rx, msg_ptr, stale,
             cp_accel_inited>>

LEMMA InitSignal == CpInit => OneSignal
BY DEF CpInit, OneSignal

LEMMA SignalStays ==
    ASSUME OneSignal, UNCHANGED signals  PROVE OneSignal'
BY DEF OneSignal, Handed, Quiet, signals

\* While the sender has the list, or there is none, no interrupt is about.
LEMMA SignalCases ==
    ASSUME AccelInv, On, ~stale
    PROVE  /\ Idle => Quiet
           /\ \A r \in Records :
                 /\ OnItsWay(r) => Handed
                 /\ Returned(r) \/ IsLast(r) => Quiet
                 /\ \A q \in Records : Follows(r, q) => Quiet
<1>1. \A r : <<r>> # <<>>
  OBVIOUS
<1>2. IF tx = 0 /\ send_msg_list # <<>> THEN Handed ELSE Quiet
  BY DEF AccelInv, OneSignal, On
<1> QED BY <1>1, <1>2 DEF Idle, OnItsWay, Returned, IsLast, Follows

LEMMA SwitchSignal ==
    ASSUME AccelInv,
           \/ \E t \in Tasks : cp_accel_open(t) \/ cp_accel_close(t)
           \/ Boot \/ BootDone
    PROVE  OneSignal'
<1>1. ASSUME NEW t \in Tasks, cp_accel_open(t)  PROVE OneSignal'
  <2>1. CASE cp_accel_inited
    BY <1>1, <2>1, SignalStays DEF cp_accel_open, AccelInv, vars, sender,
       signals
  <2>2. CASE ~cp_accel_inited
    BY <1>1, <2>2 DEF cp_accel_open, OneSignal
  <2> QED BY <2>1, <2>2
<1>2. ASSUME NEW t \in Tasks, cp_accel_close(t)  PROVE OneSignal'
  <2>1. CASE SwitchOff
    BY <2>1 DEF SwitchOff, OneSignal
  <2>2. CASE UNCHANGED <<vars, cp_accel_inited, irq_vars>>
    BY <2>2, SignalStays DEF AccelInv, vars, sender, irq_vars, signals
  <2> QED BY <1>2, <2>1, <2>2 DEF cp_accel_close
<1>3. CASE Boot
  BY <1>3 DEF Boot, AccelInv, Shape, Off, On, OneSignal
<1>4. CASE BootDone
  <2>1. /\ rx' = 0 /\ send_msg_list' = <<>>
        /\ ~stale' => ~DATA_IND' /\ ~DATA_DONE'
    BY <1>4 DEF BootDone, AccelInv, Shape, Off, On, vars, sender
  <2> QED BY <2>1 DEF OneSignal, Quiet
<1> QED BY <1>1, <1>2, <1>3, <1>4

LEMMA SendSignal ==
    ASSUME AccelInv, cp_accel_send_event_mcu2cp \/ mcu2cp_msg_sent
    PROVE  OneSignal'
<1>0. UNCHANGED <<msg_ptr, stale, cp_accel_inited>>
  BY DEF cp_accel_send_event_mcu2cp, mcu2cp_msg_sent, cp_vars
<1>1. CASE UNCHANGED vars
  BY <1>0, <1>1, SignalStays DEF AccelInv, vars, sender, signals
<1>2. CASE cp_accel_send_event_mcu2cp /\ ~UNCHANGED vars
  <2>1. PICK r \in Records :
          /\ On /\ Idle /\ OnItsWay(r)'
          /\ DATA_IND' /\ DATA_DONE' = DATA_DONE /\ rx' = rx
    BY <1>2, SendEventCases
  <2>2. ASSUME ~stale'  PROVE Handed'
    BY <1>0, <2>1, <2>2, SignalCases DEF Quiet, Handed
  <2>3. tx' = 0 /\ send_msg_list' # <<>>
    BY <2>1 DEF OnItsWay
  <2> QED BY <2>2, <2>3 DEF OneSignal
<1>3. CASE mcu2cp_msg_sent /\ ~UNCHANGED vars
  <2>1. PICK r \in Records, q \in Records :
          /\ On /\ Returned(r) /\ Follows(r, q)'
          /\ UNCHANGED <<DATA_IND, DATA_DONE, rx>>
    BY <1>3, SentCases
  <2>2. ASSUME ~stale'  PROVE Quiet'
    BY <1>0, <2>1, <2>2, SignalCases DEF Quiet
  <2>3. tx' # 0
    BY <2>1 DEF Follows
  <2> QED BY <2>2, <2>3 DEF OneSignal
<1> QED BY <1>1, <1>2, <1>3

LEMMA TxSignal ==
    ASSUME AccelInv, McuTxIrq \/ McuTxNext  PROVE OneSignal'
<1>1. CASE McuTxIrq
  <2>1. /\ On /\ DATA_DONE /\ ~DATA_DONE'
        /\ \/ \E r \in Records : OnItsWay(r) /\ Returned(r)'
           \/ Idle
        /\ UNCHANGED <<DATA_IND, rx, stale>>
    BY <1>1, TxIrqCases DEF irq_vars
  <2> SUFFICES ASSUME ~stale  PROVE tx' # 0 /\ Quiet'
    BY <2>1 DEF OneSignal
  <2>2. ~Idle
    BY <2>1, SignalCases DEF Quiet
  <2>3. PICK r \in Records : OnItsWay(r) /\ Returned(r)'
    BY <2>1, <2>2
  <2>4. Handed
    BY <2>1, <2>3, SignalCases
  <2> QED BY <2>1, <2>3, <2>4 DEF Handed, Quiet, Returned
<1>2. CASE McuTxNext
  <2>1. /\ On /\ UNCHANGED <<DATA_DONE, rx, stale>>
        /\ \/ /\ \E r \in Records : IsLast(r)
              /\ Idle' /\ (DATA_IND' <=> DATA_IND)
           \/ /\ \E r, q \in Records : Follows(r, q) /\ OnItsWay(q)'
              /\ DATA_IND'
    BY <1>2, TxNextCases DEF irq_vars
  <2> SUFFICES ASSUME ~stale
               PROVE  IF tx' = 0 /\ send_msg_list' # <<>> THEN Handed'
                      ELSE Quiet'
    BY <2>1 DEF OneSignal
  <2>2. CASE /\ \E r \in Records : IsLast(r)
             /\ Idle' /\ (DATA_IND' <=> DATA_IND)
    BY <2>1, <2>2, SignalCases DEF Quiet, Idle
  <2>3. CASE DATA_IND' /\ \E r, q \in Records : Follows(r, q) /\ OnItsWay(q)'
    <3>1. PICK r \in Records, q \in Records : Follows(r, q) /\ OnItsWay(q)'
      BY <2>3
    <3>2. Quiet
      BY <2>1, <3>1, SignalCases
    <3>3. tx' = 0 /\ send_msg_list' # <<>>
      BY <3>1 DEF OnItsWay
    <3> QED BY <2>1, <2>3, <3>2, <3>3 DEF Quiet, Handed
  <2> QED BY <2>1, <2>2, <2>3
<1> QED BY <1>1, <1>2

\* In a session without a left-over interrupt the coprocessor receives the
\* event that is on its way.
LEMMA RxCases ==
    ASSUME AccelInv, ~stale, cp_accel_inited, CpRxIrq \/ mcu2cp_msg_arrived
    PROVE  \E r \in Records :
               /\ OnItsWay(r) /\ Handed /\ Handed'
               /\ UNCHANGED <<sender, tx>>
               /\ \/ /\ CpRxIrq /\ DATA_IND /\ ~DATA_IND'
                     /\ rx = 0 /\ rx' = 1 /\ msg_ptr' = r
                  \/ /\ mcu2cp_msg_arrived
                     /\ rx # 0 /\ msg_ptr = r /\ rx' = 0 /\ ~DATA_IND'
<1>1. On
  BY DEF AccelInv, Shape, Off
<1>2. ~Quiet /\ UNCHANGED <<sender, tx>>
  BY DEF CpRxIrq, ReadList, mcu2cp_msg_arrived, Quiet
<1>3. PICK r \in Records : OnItsWay(r) /\ Handed
  BY <1>1, <1>2, SignalCases DEF On
<1>4. send_msg_list = <<r>> /\ <<r>> # <<>> /\ Head(<<r>>) = r
  BY <1>3 DEF OnItsWay
<1>5. CASE CpRxIrq
  <2>1. DATA_IND /\ ~DATA_IND' /\ rx = 0
    BY <1>5 DEF CpRxIrq, ReadList
  <2>2. rx' = 1 /\ msg_ptr' = r /\ DATA_DONE' = DATA_DONE
    BY <1>4, <1>5 DEF CpRxIrq, ReadList
  <2>3. send_msg_list' = <<r>> /\ ~DATA_DONE
    BY <1>2, <1>3, <1>4, <2>1 DEF Handed, sender
  <2> QED BY <1>2, <1>3, <1>5, <2>1, <2>2, <2>3 DEF Handed
<1>6. CASE mcu2cp_msg_arrived
  <2>1. rx # 0 /\ rx' = 0 /\ DATA_DONE' /\ DATA_IND' = DATA_IND
    BY <1>6 DEF mcu2cp_msg_arrived
  <2>2. ~DATA_IND /\ <<msg_ptr>> = <<r>>
    BY <1>3, <1>4, <2>1 DEF Handed
  <2>3. msg_ptr = r
    BY <2>2
  <2> QED BY <1>2, <1>3, <1>6, <2>1, <2>2, <2>3 DEF Handed
<1> QED BY <1>5, <1>6

LEMMA RxSignal ==
    ASSUME AccelInv, CpRxIrq \/ mcu2cp_msg_arrived  PROVE OneSignal'
<1>1. UNCHANGED <<stale, cp_accel_inited>>
  BY DEF CpRxIrq, mcu2cp_msg_arrived, cp_vars
<1> SUFFICES ASSUME ~stale, cp_accel_inited
             PROVE  tx' = 0 /\ send_msg_list' # <<>> /\ Handed'
  BY <1>1 DEF OneSignal
<1>2. PICK r \in Records : OnItsWay(r) /\ Handed' /\ UNCHANGED <<sender, tx>>
  BY RxCases
<1> QED BY <1>2 DEF OnItsWay, sender

LEMMA NextSignal == AccelInv /\ [CpNext]_cpVars => OneSignal'
<1> SUFFICES ASSUME AccelInv, [CpNext]_cpVars  PROVE OneSignal'
  OBVIOUS
<1>1. CASE \/ \E t \in Tasks : SendCheck(t)
           \/ accel_loop \/ AccelWake \/ UNCHANGED cpVars
  <2>1. UNCHANGED signals
    BY <1>1 DEF SendCheck, accel_loop, AccelTake, AccelWorked, AccelLoop,
       AccelWork, AccelWake, cpVars, vars, sender, cp_vars, irq_vars, signals
  <2> QED BY <2>1, SignalStays DEF AccelInv
<1> QED BY <1>1, SwitchSignal, SendSignal, TxSignal, RxSignal DEF CpNext

-----------------------------------------------------------------------------
(* The events that are still to be received.                               *)

\* Which records are unread, by the lists and the interrupts.
NoneUnread ==
    send_msg_list = <<>> /\ send_pending_list = <<>> /\ rx = 0 => Unread = {}
OneUnread(r) ==
    ( /\ send_msg_list = <<r>> /\ send_pending_list = <<>>
      /\ IF rx = 0 THEN tx = 0 /\ DATA_IND ELSE msg_ptr = r )
    => Unread = {r}
OneRead(r) ==
    ( /\ send_msg_list = <<r>> /\ send_pending_list = <<>>
      /\ rx = 0 /\ (tx # 0 \/ ~DATA_IND) )
    => Unread = {}
NextUnread(r, q) ==
    ( /\ send_msg_list = <<r>> /\ send_pending_list = <<q>>
      /\ rx = 0 /\ tx # 0 )
    => Unread = {q}

LEMMA UnreadNow ==
    /\ NoneUnread
    /\ \A r \in Records : OneUnread(r) /\ OneRead(r)
    /\ \A r, q \in Records : NextUnread(r, q)
<1>1. \A r, q \in Records : <<>> # <<q>> /\ (<<r>> = <<q>> <=> q = r)
  OBVIOUS
<1>2. NoneUnread
  BY <1>1 DEF NoneUnread, Unread
<1>0. /\ Unread \subseteq Records
      /\ \A p \in Records :
            p \in Unread <=>
                \/ rx # 0 /\ p = msg_ptr
                \/ send_msg_list = <<p>> /\ tx = 0 /\ DATA_IND
                \/ send_pending_list = <<p>>
  BY DEF Unread
<1>3. ASSUME NEW r \in Records  PROVE OneUnread(r)
  <2> SUFFICES ASSUME send_msg_list = <<r>>, send_pending_list = <<>>,
                      IF rx = 0 THEN tx = 0 /\ DATA_IND ELSE msg_ptr = r
               PROVE  Unread = {r}
    BY DEF OneUnread
  <2>1. \A p \in Records : p \in Unread <=> p = r
    BY <1>0, <1>1
  <2> QED BY <1>0, <2>1
<1>4. ASSUME NEW r \in Records  PROVE OneRead(r)
  <2> SUFFICES ASSUME send_msg_list = <<r>>, send_pending_list = <<>>,
                      rx = 0, tx # 0 \/ ~DATA_IND
               PROVE  Unread = {}
    BY DEF OneRead
  <2>1. \A p \in Records : p \notin Unread
    BY <1>0, <1>1
  <2> QED BY <1>0, <2>1
<1>5. ASSUME NEW r \in Records, NEW q \in Records  PROVE NextUnread(r, q)
  <2> SUFFICES ASSUME send_msg_list = <<r>>, send_pending_list = <<q>>,
                      rx = 0, tx # 0
               PROVE  Unread = {q}
    BY DEF NextUnread
  <2>1. \A p \in Records : p \in Unread <=> p = q
    BY <1>0, <1>1
  <2> QED BY <1>0, <2>1
<1> QED BY <1>2, <1>3, <1>4, <1>5

\* The same in the next state.
LEMMA UnreadThen ==
    /\ NoneUnread'
    /\ \A r \in Records : OneUnread(r)' /\ OneRead(r)'
    /\ \A r, q \in Records : NextUnread(r, q)'
<1>1. NoneUnread'
  BY UnreadNow, PTL
<1>2. ASSUME NEW r \in Records  PROVE OneUnread(r)' /\ OneRead(r)'
  <2>1. OneUnread(r) /\ OneRead(r)
    BY UnreadNow
  <2> QED BY <2>1, PTL
<1>3. ASSUME NEW r \in Records, NEW q \in Records  PROVE NextUnread(r, q)'
  <2>1. NextUnread(r, q)
    BY UnreadNow
  <2> QED BY <2>1, PTL
<1> QED BY <1>1, <1>2, <1>3

\* A step that sends, receives and frees nothing.
LEMMA UnreadStays ==
    ASSUME UNCHANGED <<send_msg_list, send_pending_list, tx, DATA_IND, rx,
                       msg_ptr, msg, event>>
    PROVE  EventsUnread' = EventsUnread
<1>1. Unread' = Unread
  BY DEF Unread
<1> QED BY <1>1 DEF EventsUnread

\* The event that is sent when nothing is on its way, in the one case, or
\* behind another, in the other.
LEMMA SendEventUnread ==
    ASSUME AccelInv, ~stale, cp_accel_send_event_mcu2cp
    PROVE  \/ /\ tx_pending' = Append(tx_pending, sending)
              /\ EventsUnread' = EventsUnread
           \/ /\ tx_pending' = tx_pending
              /\ EventsUnread = {} /\ EventsUnread' = {sending}
<1>0. msg_ptr' = msg_ptr
  BY DEF cp_accel_send_event_mcu2cp
<1>1. CASE /\ UNCHANGED <<vars, event>>
           /\ tx_pending' = Append(tx_pending, sending)
  BY <1>0, <1>1, UnreadStays DEF vars, sender
<1>2. CASE /\ On /\ Idle /\ tx_pending' = tx_pending
           /\ event' = [event EXCEPT !["req_event"] = sending]
           /\ \E r \in Records :
                 OnItsWay(r)' /\ msg' = [msg EXCEPT ![r] = "req_event"]
           /\ DATA_IND' /\ rx' = rx
  <2>1. PICK r \in Records :
          OnItsWay(r)' /\ msg' = [msg EXCEPT ![r] = "req_event"]
    BY <1>2
  <2>2. rx = 0
    BY <1>2, SignalCases DEF Quiet
  <2>3. EventsUnread = {}
    BY <1>2, <2>2, UnreadNow DEF NoneUnread, Idle, EventsUnread
  <2>4. Unread' = {r}
    BY <1>2, <2>1, <2>2, UnreadThen DEF OneUnread, OnItsWay
  <2>5. msg'[r] = "req_event" /\ event'["req_event"] = sending
    BY <1>2, <2>1 DEF AccelInv, AccelTypes
  <2>6. EventsUnread' = {sending}
    BY <2>4, <2>5 DEF EventsUnread
  <2> QED BY <1>2, <2>3, <2>6
<1> QED BY <1>1, <1>2, SendEventCases

\* The sent callback moves the next event into the channel.
LEMMA SentUnread ==
    ASSUME AccelInv, ~stale, mcu2cp_msg_sent
    PROVE  /\ EventsUnread = {}
           /\ \/ /\ tx_pending # <<>> /\ tx_pending' = Tail(tx_pending)
                 /\ EventsUnread' = {Head(tx_pending)}
              \/ tx_pending' = tx_pending /\ EventsUnread' = {}
<1>1. PICK r \in Records :
        /\ On /\ Returned(r)
        /\ \/ /\ tx_pending # <<>>
              /\ tx_pending' = Tail(tx_pending)
              /\ event' = [event EXCEPT !["pending_event"] = Head(tx_pending)]
              /\ \E q \in Records :
                    /\ Follows(r, q)'
                    /\ msg' = [msg EXCEPT ![q] = "pending_event"]
              /\ rx' = rx
           \/ UNCHANGED <<vars, event, tx_pending>>
  BY SentCases
<1>2. rx = 0 /\ msg_ptr' = msg_ptr
  BY <1>1, SignalCases DEF Quiet, mcu2cp_msg_sent
<1>3. EventsUnread = {}
  BY <1>1, <1>2, UnreadNow DEF OneRead, Returned, EventsUnread
<1>4. CASE UNCHANGED <<vars, event, tx_pending>>
  BY <1>2, <1>3, <1>4, UnreadStays DEF vars, sender
<1>5. CASE ~UNCHANGED <<vars, event, tx_pending>>
  <2>1. PICK q \in Records :
          Follows(r, q)' /\ msg' = [msg EXCEPT ![q] = "pending_event"]
    BY <1>1, <1>5
  <2>2. /\ tx_pending # <<>> /\ tx_pending' = Tail(tx_pending) /\ rx' = rx
        /\ event' = [event EXCEPT !["pending_event"] = Head(tx_pending)]
    BY <1>1, <1>5
  <2>3. Unread' = {q}
    BY <1>2, <2>1, <2>2, UnreadThen DEF NextUnread, Follows
  <2>4. msg'[q] = "pending_event" /\ event'["pending_event"] = Head(tx_pending)
    BY <2>1, <2>2 DEF AccelInv, AccelTypes
  <2>5. EventsUnread' = {Head(tx_pending)}
    BY <2>3, <2>4 DEF EventsUnread
  <2> QED BY <1>3, <2>2, <2>5
<1> QED BY <1>4, <1>5

\* The receiver has given the list back: the sender frees it.
LEMMA TxUnread ==
    ASSUME AccelInv, ~stale, McuTxIrq \/ McuTxNext
    PROVE  EventsUnread' = EventsUnread
<1>1. CASE McuTxIrq
  <2>1. /\ On /\ DATA_DONE /\ UNCHANGED <<DATA_IND, rx>>
        /\ \/ \E r \in Records : OnItsWay(r) /\ Returned(r)'
           \/ Idle
    BY <1>1, TxIrqCases
  <2>2. ~Idle
    BY <2>1, SignalCases DEF Quiet
  <2>3. PICK r \in Records : OnItsWay(r) /\ Returned(r)'
    BY <2>1, <2>2
  <2>4. ~DATA_IND /\ rx = 0 /\ rx' = 0
    BY <2>1, <2>3, SignalCases DEF Handed
  <2>5. Unread = {}
    BY <2>3, <2>4, UnreadNow DEF OneRead, OnItsWay
  <2>6. Unread' = {}
    BY <2>3, <2>4, UnreadThen DEF OneRead, Returned
  <2> QED BY <2>5, <2>6 DEF EventsUnread
<1>2. CASE McuTxNext
  <2>1. /\ On /\ UNCHANGED <<msg, event, rx>>
        /\ \/ (\E r \in Records : IsLast(r)) /\ Idle'
           \/ /\ \E r, q \in Records : Follows(r, q) /\ OnItsWay(q)'
              /\ DATA_IND'
    BY <1>2, TxNextCases
  <2>2. CASE (\E r \in Records : IsLast(r)) /\ Idle'
    <3>1. PICK r \in Records : IsLast(r)
      BY <2>2
    <3>2. rx = 0 /\ rx' = 0
      BY <2>1, <3>1, SignalCases DEF Quiet
    <3>3. Unread = {}
      BY <3>1, <3>2, UnreadNow DEF OneRead, IsLast
    <3>4. Unread' = {}
      BY <2>2, <3>2, UnreadThen DEF NoneUnread, Idle
    <3> QED BY <3>3, <3>4 DEF EventsUnread
  <2>3. CASE DATA_IND' /\ \E r, q \in Records : Follows(r, q) /\ OnItsWay(q)'
    <3>1. PICK r \in Records, q \in Records : Follows(r, q) /\ OnItsWay(q)'
      BY <2>3
    <3>2. rx = 0 /\ rx' = 0
      BY <2>1, <3>1, SignalCases DEF Quiet
    <3>3. Unread = {q}
      BY <3>1, <3>2, UnreadNow DEF NextUnread, Follows
    <3>4. Unread' = {q}
      BY <2>3, <3>1, <3>2, UnreadThen DEF OneUnread, OnItsWay
    <3> QED BY <2>1, <3>3, <3>4 DEF EventsUnread
  <2> QED BY <2>1, <2>2, <2>3
<1> QED BY <1>1, <1>2

\* The message that arrives is the one that was to come.
LEMMA RxUnread ==
    ASSUME AccelInv, ~stale, cp_accel_inited, CpRxIrq \/ mcu2cp_msg_arrived
    PROVE  \/ CpRxIrq /\ EventsUnread' = EventsUnread
           \/ /\ mcu2cp_msg_arrived /\ EventsUnread' = {}
              /\ EventsUnread = {event[msg[msg_ptr]]}
<1>1. PICK r \in Records :
        /\ OnItsWay(r) /\ UNCHANGED <<sender, tx>>
        /\ \/ /\ CpRxIrq /\ DATA_IND /\ ~DATA_IND'
              /\ rx = 0 /\ rx' = 1 /\ msg_ptr' = r
           \/ /\ mcu2cp_msg_arrived
              /\ rx # 0 /\ msg_ptr = r /\ rx' = 0 /\ ~DATA_IND'
  BY RxCases
<1>2. event' = event
  BY DEF CpRxIrq, mcu2cp_msg_arrived, tx_vars
<1>3. Unread = {r}
  BY <1>1, UnreadNow DEF OneUnread, OnItsWay
<1>4. CASE CpRxIrq /\ rx' = 1 /\ msg_ptr' = r
  <2>1. Unread' = {r}
    BY <1>1, <1>4, UnreadThen DEF OneUnread, OnItsWay, sender
  <2> QED BY <1>1, <1>2, <1>3, <1>4, <2>1 DEF EventsUnread, sender
<1>5. CASE mcu2cp_msg_arrived /\ msg_ptr = r /\ rx' = 0 /\ ~DATA_IND'
  <2>1. Unread' = {}
    BY <1>1, <1>5, UnreadThen DEF OneRead, OnItsWay, sender
  <2> QED BY <1>3, <1>5, <2>1 DEF EventsUnread
<1> QED BY <1>1, <1>4, <1>5

LEMMA OtherUnread ==
    ASSUME \/ \E t \in Tasks : SendCheck(t)
           \/ accel_loop \/ AccelWake \/ UNCHANGED cpVars
    PROVE  EventsUnread' = EventsUnread
<1>1. UNCHANGED <<send_msg_list, send_pending_list, tx, DATA_IND, rx, msg_ptr,
                  msg, event>>
  BY DEF SendCheck, accel_loop, AccelTake, AccelWorked, AccelLoop, AccelWork,
     AccelWake, cpVars, vars, sender, tx_vars, irq_vars
<1> QED BY <1>1, UnreadStays

-----------------------------------------------------------------------------
(* The types.                                                              *)

LEMMA InitTypes == CpInit => AccelTypes /\ ReadsTasks
<1> SUFFICES ASSUME CpInit  PROVE AccelTypes /\ ReadsTasks
  OBVIOUS
<1>1. msg \in [Records -> Msgs]
  BY DEF CpInit
<1>2. event \in [Msgs -> Tasks \cup {NoTask}]
  BY DEF CpInit
<1>3. cp_accel_state \in [Tasks -> {"CLOSED", "OPENED"}]
  BY DEF CpInit
<1> QED BY <1>1, <1>2, <1>3 DEF CpInit, Init, AccelTypes, ReadsTasks

\* The record that is sent holds the event of a task.
LEMMA SendReads ==
    ASSUME AccelInv, NEW m \in Msgs, NEW e \in Tasks,
           event' = [event EXCEPT ![m] = e],
           \/ Send(m) \/ UNCHANGED vars
    PROVE  /\ msg' \in [Records -> Msgs]
           /\ event' \in [Msgs -> Tasks \cup {NoTask}]
           /\ in_use' \subseteq Records
           /\ \A r \in in_use' : event'[msg'[r]] \in Tasks
           /\ rx' = rx
           /\ \A r \in Records :
                 event[msg[r]] \in Tasks => event'[msg'[r]] \in Tasks
<1>0. /\ msg \in [Records -> Msgs] /\ event \in [Msgs -> Tasks \cup {NoTask}]
      /\ in_use \subseteq Records /\ \A r \in in_use : event[msg[r]] \in Tasks
  BY DEF AccelInv, AccelTypes, ReadsTasks
<1>1. event' \in [Msgs -> Tasks \cup {NoTask}]
  BY <1>0
<1>2. /\ event'[m] \in Tasks
      /\ \A n \in Msgs : event[n] \in Tasks => event'[n] \in Tasks
  BY <1>0
<1>3. CASE UNCHANGED vars
  BY <1>0, <1>1, <1>2, <1>3 DEF vars, sender
<1>4. CASE Send(m)
  <2>1. PICK r \in Records \ in_use :
          /\ in_use' = in_use \cup {r} /\ msg' = [msg EXCEPT ![r] = m]
          /\ rx' = rx
    BY <1>4 DEF Send
  <2>2. msg' \in [Records -> Msgs]
    BY <1>0, <2>1
  <2>3. msg'[r] = m /\ \A q \in Records \ {r} : msg'[q] = msg[q]
    BY <1>0, <2>1
  <2>4. \A q \in Records :
            event[msg[q]] \in Tasks => event'[msg'[q]] \in Tasks
    BY <1>0, <1>2, <2>3
  <2>5. \A q \in in_use' : event'[msg'[q]] \in Tasks
    BY <1>0, <1>2, <2>1, <2>3, <2>4
  <2> QED BY <1>0, <1>1, <2>1, <2>2, <2>4, <2>5
<1> QED BY <1>3, <1>4

\* A step that sends nothing and receives nothing.
LEMMA ReadsStay ==
    ASSUME ReadsTasks, UNCHANGED <<msg, event>>, in_use' \subseteq in_use,
           rx' = 0 \/ (rx' = rx /\ msg_ptr' = msg_ptr)
    PROVE  ReadsTasks'
BY DEF ReadsTasks

LEMMA NextTypes == AccelInv /\ [CpNext]_cpVars => AccelTypes' /\ ReadsTasks'
<1> SUFFICES ASSUME AccelInv, [CpNext]_cpVars PROVE AccelTypes' /\ ReadsTasks'
  OBVIOUS
<1> USE DEF AccelTypes
<1>0. /\ AccelTypes /\ ReadsTasks
      /\ sending \in Tasks \cup {NoTask} /\ tx_pending \in Seq(Tasks)
  BY DEF AccelInv, PendingCounted
<1>1. ASSUME NEW t \in Tasks, cp_accel_open(t)
      PROVE AccelTypes' /\ ReadsTasks'
  <2>1. /\ UNCHANGED <<msg, event, rx, msg_ptr>> /\ in_use' \subseteq in_use
    BY <1>1 DEF cp_accel_open, OpenChannel, vars, sender, tx_vars
  <2>2. AccelTypes'
    BY <1>0, <1>1 DEF cp_accel_open, OpenChannel, vars, sender, tx_vars
  <2> QED BY <1>0, <2>1, <2>2, ReadsStay
<1>2. ASSUME NEW t \in Tasks, cp_accel_close(t)
      PROVE AccelTypes' /\ ReadsTasks'
  <2>1. /\ UNCHANGED <<msg, event, in_use>>
        /\ rx' = 0 \/ (rx' = rx /\ msg_ptr' = msg_ptr)
    BY <1>2 DEF cp_accel_close, SwitchOff, vars, sender, tx_vars, irq_vars
  <2>2. AccelTypes'
    BY <1>0, <1>2 DEF cp_accel_close, SwitchOff, vars, sender, tx_vars,
       irq_vars
  <2> QED BY <1>0, <2>1, <2>2, ReadsStay
<1>3. CASE Boot \/ BootDone \/ (\E t \in Tasks : SendCheck(t)) \/ AccelWake
           \/ accel_loop \/ UNCHANGED cpVars
  <2>1. UNCHANGED <<msg, event, rx, msg_ptr, in_use>>
    BY <1>3 DEF Boot, BootDone, SendCheck, AccelWake, accel_loop, AccelTake,
       AccelWorked, AccelLoop, AccelWork, cpVars, vars, sender, mcu_vars,
       tx_vars, irq_vars
  <2>2. ReadsTasks'
    BY <1>0, <2>1, ReadsStay
  <2>3. UNCHANGED <<msg, cp_accel_state, chan_opened, event, notified,
                    tx_enabled, msg_ptr>>
    BY <1>3 DEF Boot, BootDone, SendCheck, AccelWake, accel_loop, AccelTake,
       AccelWorked, AccelLoop, AccelWork, cpVars, vars, sender, mcu_vars,
       tx_vars, irq_vars
  <2>4. stale' \in BOOLEAN /\ cp_accel_inited' \in BOOLEAN
    BY <1>0, <1>3 DEF Boot, BootDone, SendCheck, AccelWake, accel_loop,
       AccelTake, AccelWorked, AccelLoop, AccelWork, cpVars, cp_vars, irq_vars
  <2>5. cp_msg' \subseteq Tasks /\ cp_msg_recv' \in BOOLEAN
        /\ taken' \subseteq Tasks
    BY <1>0, <1>3 DEF Boot, BootDone, SendCheck, AccelWake, accel_loop,
       AccelTake, AccelWorked, AccelLoop, AccelWork, cpVars, cp_vars
  <2>6. working' \in Tasks \cup {NoTask} /\ owed' \subseteq Tasks
    BY <1>0, <1>3 DEF Boot, BootDone, SendCheck, AccelWake, accel_loop,
       AccelTake, AccelWorked, AccelLoop, AccelWork, cpVars, cp_vars
  <2> HIDE DEF AccelTypes
  <2>7. AccelTypes'
    BY <1>0, <2>3, <2>4, <2>5, <2>6 DEF AccelTypes
  <2> QED BY <2>2, <2>7
<1>4. CASE cp_accel_send_event_mcu2cp
  <2>1. /\ UNCHANGED <<cp_accel_state, chan_opened, notified, cp_vars, msg_ptr,
                       stale>>
        /\ sending \in Tasks /\ owed' = owed \cup {sending}
        /\ tx_enabled' \in BOOLEAN
    BY <1>0, <1>4 DEF cp_accel_send_event_mcu2cp, SendOrLose
  <2>2. CASE UNCHANGED <<vars, event>>
    <3>1. ReadsTasks'
      BY <1>0, <2>1, <2>2, ReadsStay DEF vars, sender
    <3> QED BY <1>0, <2>1, <2>2, <3>1 DEF vars, sender, cp_vars
  <2>3. CASE ~UNCHANGED <<vars, event>>
    <3>1. /\ event' = [event EXCEPT !["req_event"] = sending]
          /\ Send("req_event") \/ UNCHANGED vars
      BY <1>4, <2>3 DEF cp_accel_send_event_mcu2cp, SendOrLose
    <3>2. /\ msg' \in [Records -> Msgs]
          /\ event' \in [Msgs -> Tasks \cup {NoTask}]
          /\ in_use' \subseteq Records
          /\ \A r \in in_use' : event'[msg'[r]] \in Tasks
          /\ rx' = rx
          /\ \A r \in Records :
                event[msg[r]] \in Tasks => event'[msg'[r]] \in Tasks
      BY <2>1, <3>1, SendReads
    <3>3. ReadsTasks'
      BY <1>0, <2>1, <3>2 DEF ReadsTasks
    <3> QED BY <1>0, <2>1, <3>2, <3>3 DEF cp_vars
  <2> QED BY <2>2, <2>3
<1>5. CASE mcu2cp_msg_sent
  <2>1. /\ UNCHANGED <<mcu_vars, cp_vars, msg_ptr, stale, owed>>
        /\ notified' = TRUE /\ tx_enabled' \in BOOLEAN
    BY <1>0, <1>5 DEF mcu2cp_msg_sent, SendOrLose
  <2>2. CASE UNCHANGED <<vars, event>>
    <3>1. ReadsTasks'
      BY <1>0, <2>1, <2>2, ReadsStay DEF vars, sender
    <3> QED BY <1>0, <2>1, <2>2, <3>1 DEF vars, sender, mcu_vars, cp_vars
  <2>3. CASE ~UNCHANGED <<vars, event>>
    <3>1. /\ event' = [event EXCEPT !["pending_event"] = Head(tx_pending)]
          /\ Send("pending_event") \/ UNCHANGED vars
          /\ tx_count > 1
      BY <1>5, <2>3 DEF mcu2cp_msg_sent, SendOrLose
    <3>2. Head(tx_pending) \in Tasks
      <4>1. tx_pending # <<>>
        BY <3>1, EmptySeq DEF AccelInv, PendingCounted
      <4> QED BY <1>0, <4>1, HeadTailProperties
    <3>3. /\ msg' \in [Records -> Msgs]
          /\ event' \in [Msgs -> Tasks \cup {NoTask}]
          /\ in_use' \subseteq Records
          /\ \A r \in in_use' : event'[msg'[r]] \in Tasks
          /\ rx' = rx
          /\ \A r \in Records :
                event[msg[r]] \in Tasks => event'[msg'[r]] \in Tasks
      BY <3>1, <3>2, SendReads
    <3>4. ReadsTasks'
      BY <1>0, <2>1, <3>3 DEF ReadsTasks
    <3> QED BY <1>0, <2>1, <3>3, <3>4 DEF mcu_vars, cp_vars
  <2> QED BY <2>2, <2>3
<1>6. CASE McuTxIrq \/ McuTxNext
  <2>1. /\ UNCHANGED <<msg, mcu_vars, event, cp_vars, irq_vars, owed, rx>>
        /\ (notified' = notified \/ notified' = FALSE)
        /\ in_use' \subseteq in_use
    BY <1>6 DEF McuTxIrq, TxIrq, McuTxNext, TxNext, sender, tx_vars
  <2>2. ReadsTasks'
    BY <1>0, <2>1, ReadsStay DEF irq_vars
  <2> QED BY <1>0, <2>1, <2>2 DEF mcu_vars, cp_vars, irq_vars
<1>7. CASE CpRxIrq
  <2>1. UNCHANGED <<sender, mcu_vars, tx_vars, cp_vars, tx_enabled, stale,
                    owed>>
    BY <1>7 DEF CpRxIrq, ReadList
  <2>2. \/ UNCHANGED <<rx, msg_ptr>>
        \/ send_msg_list # <<>> /\ msg_ptr' = Head(send_msg_list)
    BY <1>7 DEF CpRxIrq, ReadList
  <2>3. send_msg_list # <<>> => Head(send_msg_list) \in in_use
    <3>1. \A r : Head(<<r>>) = r
      OBVIOUS
    <3> QED BY <3>1 DEF AccelInv, Shape, Off, On, Idle, OnItsWay, Returned,
            IsLast, Follows
  <2>4. ReadsTasks'
    BY <1>0, <2>1, <2>2, <2>3 DEF ReadsTasks, sender, tx_vars
  <2>5. msg_ptr' \in Records \cup {NoRecord}
    BY <1>0, <2>2, <2>3 DEF ReadsTasks
  <2> QED BY <1>0, <2>1, <2>4, <2>5 DEF sender, mcu_vars, tx_vars, cp_vars
<1>8. CASE mcu2cp_msg_arrived
  <2>1. /\ UNCHANGED <<sender, mcu_vars, tx_vars, cp_accel_inited, taken,
                       working, tx_enabled, stale, owed>>
        /\ cp_msg' = cp_msg \cup {event[msg[msg_ptr]]} /\ cp_msg_recv' = TRUE
        /\ rx # 0 /\ rx' = 0 /\ msg_ptr' = NoRecord
    BY <1>8 DEF mcu2cp_msg_arrived
  <2>2. event[msg[msg_ptr]] \in Tasks
    BY <1>0, <2>1 DEF ReadsTasks
  <2>3. ReadsTasks'
    BY <1>0, <2>1, ReadsStay DEF sender, tx_vars
  <2> QED BY <1>0, <2>1, <2>2, <2>3 DEF sender, mcu_vars, tx_vars
<1> QED BY <1>1, <1>2, <1>3, <1>4, <1>5, <1>6, <1>7, <1>8 DEF CpNext

-----------------------------------------------------------------------------
(* The events that were sent.                                              *)

LEMMA AppendRange ==
    ASSUME NEW s \in Seq(Tasks), NEW t \in Tasks
    PROVE  Range(Append(s, t)) = Range(s) \cup {t}
<1>1. /\ DOMAIN s = 1 .. Len(s) /\ Len(s) \in Nat
      /\ Append(s, t) \in Seq(Tasks)
      /\ Len(Append(s, t)) = Len(s) + 1
      /\ \A i \in 1 .. Len(s) : Append(s, t)[i] = s[i]
      /\ Append(s, t)[Len(s) + 1] = t
  BY AppendProperties
<1>2. DOMAIN Append(s, t) = 1 .. Len(s) + 1
  BY <1>1
<1>3. ASSUME NEW i \in 1 .. Len(s) + 1
      PROVE  Append(s, t)[i] \in Range(s) \cup {t}
  <2>1. i \in 1 .. Len(s) \/ i = Len(s) + 1
    BY <1>1
  <2> QED BY <1>1, <2>1 DEF Range
<1>4. ASSUME NEW i \in 1 .. Len(s)  PROVE s[i] \in Range(Append(s, t))
  <2>1. i \in 1 .. Len(s) + 1
    BY <1>1
  <2> QED BY <1>1, <1>2, <2>1 DEF Range
<1>5. t \in Range(Append(s, t))
  <2>1. Len(s) + 1 \in 1 .. Len(s) + 1
    BY <1>1
  <2> QED BY <1>1, <1>2, <2>1 DEF Range
<1> QED BY <1>1, <1>2, <1>3, <1>4, <1>5 DEF Range

LEMMA TailRange ==
    ASSUME NEW s \in Seq(Tasks), s # <<>>
    PROVE  Range(s) \subseteq Range(Tail(s)) \cup {Head(s)}
<1>1. /\ Tail(s) \in Seq(Tasks) /\ Len(Tail(s)) = Len(s) - 1
      /\ \A i \in 1 .. Len(Tail(s)) : Tail(s)[i] = s[i + 1]
      /\ Len(s) \in Nat /\ Len(s) >= 1 /\ Head(s) = s[1]
      /\ DOMAIN s = 1 .. Len(s)
  BY HeadTailProperties, LenProperties, EmptySeq
<1>2. DOMAIN Tail(s) = 1 .. Len(s) - 1
  BY <1>1
<1>3. ASSUME NEW i \in 1 .. Len(s)
      PROVE  s[i] \in Range(Tail(s)) \cup {Head(s)}
  <2>1. i = 1 \/ i - 1 \in 1 .. Len(s) - 1
    BY <1>1
  <2>2. ASSUME i - 1 \in 1 .. Len(s) - 1  PROVE s[i] = Tail(s)[i - 1]
    BY <1>1, <2>2
  <2> QED BY <1>1, <1>2, <2>1, <2>2 DEF Range
<1> QED BY <1>1, <1>3 DEF Range
LEMMA NextKept == AccelInv /\ [CpNext]_cpVars => EventsKept'
<1> SUFFICES ASSUME AccelInv, [CpNext]_cpVars PROVE EventsKept'
  OBVIOUS
<1>0. /\ AccelTypes /\ EventsKept /\ tx_pending \in Seq(Tasks)
      /\ sending \in Tasks \cup {NoTask}
  BY DEF AccelInv, PendingCounted
<1>off. ~cp_accel_inited => owed = {} /\ sending = NoTask
  BY DEF AccelInv, Shape, Off, On
<1>1. ASSUME NEW t \in Tasks, cp_accel_open(t) PROVE EventsKept'
  <2>1. UNCHANGED <<tx_pending, cp_msg, cp_msg_recv, taken, owed, sending,
                    stale>>
    BY <1>1 DEF cp_accel_open, tx_vars
  <2>2. cp_accel_state' = [cp_accel_state EXCEPT ![t] = "OPENED"]
    BY <1>1 DEF cp_accel_open
  <2>3. CASE cp_accel_inited
    <3>1. cp' = cp /\ UNCHANGED <<vars, event, msg_ptr>>
      BY <1>1, <2>3 DEF cp_accel_open, tx_vars
    <3>2. EventsUnread' = EventsUnread
      BY <3>1, UnreadStays DEF vars, sender
    <3> QED BY <1>0, <2>1, <2>2, <3>1, <3>2 DEF EventsKept, AccelTypes
  <2>4. CASE ~cp_accel_inited
    BY <1>0, <1>off, <2>1, <2>4 DEF EventsKept
  <2> QED BY <2>3, <2>4
<1>2. ASSUME NEW t \in Tasks, cp_accel_close(t) PROVE EventsKept'
  <2>1. /\ UNCHANGED <<tx_pending, cp_msg, cp_msg_recv, sending>>
        /\ owed' = owed \ {t} /\ sending # t
        /\ cp_accel_state' = [cp_accel_state EXCEPT ![t] = "CLOSED"]
    BY <1>2 DEF cp_accel_close, tx_vars
  <2>2. \A u \in Tasks \ {t} : cp_accel_state'[u] = cp_accel_state[u]
    BY <1>0, <2>1 DEF AccelTypes
  <2>3. /\ \A u \in owed' : cp_accel_state'[u] = "OPENED"
        /\ sending' # NoTask => cp_accel_state'[sending'] = "OPENED"
    BY <1>0, <2>1, <2>2 DEF EventsKept, AccelTypes
  <2>4. CASE /\ cp_accel_inited
             /\ \A u \in Tasks \ {t} : cp_accel_state[u] = "CLOSED"
    <3>1. owed' = {}
      BY <1>0, <2>1, <2>4 DEF EventsKept, AccelTypes
    <3> QED BY <1>0, <2>1, <2>3, <3>1 DEF EventsKept
  <2>5. CASE ~ ( /\ cp_accel_inited
                 /\ \A u \in Tasks \ {t} : cp_accel_state[u] = "CLOSED" )
    <3>1. UNCHANGED <<vars, event, cp, taken, irq_vars>>
      BY <1>2, <2>5 DEF cp_accel_close, tx_vars
    <3>2. EventsUnread' = EventsUnread /\ stale' = stale
      BY <3>1, UnreadStays DEF vars, sender, irq_vars
    <3> QED BY <1>0, <2>1, <2>3, <3>1, <3>2 DEF EventsKept
  <2> QED BY <2>4, <2>5
<1>3. CASE Boot \/ BootDone
  <2>1. UNCHANGED <<cp_accel_state, sending, owed>> /\ owed = {}
        /\ (UNCHANGED <<cp_msg, cp_msg_recv>> \/ cp_msg' = {})
        /\ sending = NoTask
    BY <1>3 DEF Boot, BootDone, mcu_vars, AccelInv, Shape, Off, On
  <2> QED BY <1>0, <2>1 DEF EventsKept
<1>4. ASSUME NEW t \in Tasks, SendCheck(t) PROVE EventsKept'
  <2>1. /\ UNCHANGED <<cp_accel_state, tx_pending, cp_msg, cp_msg_recv, cp,
                       taken, owed, stale>>
        /\ sending' = t /\ cp_accel_state[t] = "OPENED"
        /\ EventsUnread' = EventsUnread
    BY <1>4, OtherUnread DEF SendCheck, tx_vars, cp_vars, irq_vars
  <2> QED BY <1>0, <2>1 DEF EventsKept
<1>5. CASE cp_accel_send_event_mcu2cp
  <2>1. /\ sending \in Tasks /\ sending' = NoTask
        /\ owed' = owed \cup {sending}
        /\ UNCHANGED <<cp_accel_state, cp_msg, cp_msg_recv, cp, taken, stale>>
    BY <1>0, <1>5 DEF cp_accel_send_event_mcu2cp, cp_vars
  <2>2. ASSUME ~stale
        PROVE  Range(tx_pending) \cup EventsUnread \cup {sending}
                   \subseteq Range(tx_pending') \cup EventsUnread'
    <3>1. CASE /\ tx_pending' = Append(tx_pending, sending)
               /\ EventsUnread' = EventsUnread
      <4>1. Range(Append(tx_pending, sending))
                = Range(tx_pending) \cup {sending}
        BY <1>0, <2>1, AppendRange
      <4> QED BY <3>1, <4>1
    <3>2. CASE /\ tx_pending' = tx_pending
               /\ EventsUnread = {} /\ EventsUnread' = {sending}
      BY <3>2
    <3> QED BY <1>5, <2>2, <3>1, <3>2, SendEventUnread
  <2>3. cp_accel_state[sending] = "OPENED"
    BY <1>0, <1>5 DEF EventsKept, cp_accel_send_event_mcu2cp
  <2> QED BY <1>0, <2>1, <2>2, <2>3 DEF EventsKept
<1>6. CASE mcu2cp_msg_sent
  <2>1. UNCHANGED <<cp_accel_state, sending, cp_msg, cp_msg_recv, cp, taken,
                    owed, stale>>
    BY <1>6 DEF mcu2cp_msg_sent, mcu_vars, cp_vars
  <2>2. ASSUME ~stale
        PROVE  Range(tx_pending) \cup EventsUnread
                   \subseteq Range(tx_pending') \cup EventsUnread'
    <3>0. EventsUnread = {}
      BY <1>6, <2>2, SentUnread
    <3>1. CASE /\ tx_pending # <<>> /\ tx_pending' = Tail(tx_pending)
               /\ EventsUnread' = {Head(tx_pending)}
      <4>1. Range(tx_pending)
                \subseteq Range(Tail(tx_pending)) \cup {Head(tx_pending)}
        BY <1>0, <3>1, TailRange
      <4> QED BY <3>0, <3>1, <4>1
    <3>2. CASE tx_pending' = tx_pending
      BY <3>0, <3>2
    <3> QED BY <1>6, <2>2, <3>1, <3>2, SentUnread
  <2> QED BY <1>0, <2>1, <2>2 DEF EventsKept
<1>7. CASE McuTxIrq \/ McuTxNext
  <2>1. UNCHANGED <<cp_accel_state, sending, tx_pending, cp_msg, cp_msg_recv,
                    cp, taken, owed, stale>>
    BY <1>7 DEF McuTxIrq, McuTxNext, mcu_vars, tx_vars, cp_vars, irq_vars
  <2>2. ~stale => EventsUnread' = EventsUnread
    BY <1>7, TxUnread
  <2> QED BY <1>0, <2>1, <2>2 DEF EventsKept
<1>8. CASE CpRxIrq \/ mcu2cp_msg_arrived
  <2>1. /\ UNCHANGED <<cp_accel_state, sending, tx_pending, cp, taken, owed,
                       stale>>
        /\ \/ CpRxIrq /\ UNCHANGED <<cp_msg, cp_msg_recv>>
           \/ /\ mcu2cp_msg_arrived
              /\ cp_msg' = cp_msg \cup {event[msg[msg_ptr]]}
              /\ cp_msg_recv' = TRUE
    BY <1>8 DEF CpRxIrq, mcu2cp_msg_arrived, mcu_vars, tx_vars, cp_vars
  <2>2. cp_msg \subseteq cp_msg' /\ (cp_msg' # {} => cp_msg_recv')
    BY <1>0, <2>1 DEF EventsKept
  <2>3. ASSUME ~stale, cp_accel_inited
        PROVE  EventsUnread \subseteq EventsUnread' \cup cp_msg'
    <3>1. \/ CpRxIrq /\ EventsUnread' = EventsUnread
          \/ mcu2cp_msg_arrived /\ EventsUnread = {event[msg[msg_ptr]]}
      BY <1>8, <2>3, RxUnread
    <3>2. mcu2cp_msg_arrived => event[msg[msg_ptr]] \in cp_msg'
      BY DEF mcu2cp_msg_arrived
    <3> QED BY <3>1, <3>2
  <2>4. cp_msg' # {} => cp_msg_recv'
    BY <2>2
  <2>5. CASE cp_accel_inited
    BY <1>0, <2>1, <2>2, <2>3, <2>5 DEF EventsKept
  <2>6. CASE ~cp_accel_inited
    BY <1>0, <1>off, <2>1, <2>2, <2>6 DEF EventsKept
  <2> QED BY <2>5, <2>6
<1>9. CASE AccelWake \/ UNCHANGED cpVars
  <2>1. /\ UNCHANGED <<cp_accel_state, sending, tx_pending, cp_msg,
                       cp_msg_recv, taken, owed, stale>>
        /\ (cp = "work" => cp' = "work")
        /\ EventsUnread' = EventsUnread
    BY <1>9, OtherUnread DEF AccelWake, cpVars, mcu_vars, tx_vars, cp_vars,
       irq_vars
  <2> QED BY <1>0, <2>1 DEF EventsKept
<1>10. CASE accel_loop
  <2>0. /\ UNCHANGED <<cp_accel_state, sending, tx_pending, stale>>
        /\ EventsUnread' = EventsUnread
    BY <1>10, OtherUnread DEF accel_loop, AccelTake, AccelWorked, AccelLoop,
       AccelWork, mcu_vars, tx_vars, irq_vars
  <2>1. CASE AccelTake
    BY <1>0, <2>0, <2>1 DEF AccelTake, EventsKept
  <2>2. CASE AccelWorked \/ AccelLoop
    BY <1>0, <2>0, <2>2 DEF AccelWorked, AccelLoop, EventsKept
  <2>3. ASSUME NEW t \in Tasks, AccelWork(t) PROVE EventsKept'
    <3>1. /\ taken' = taken \ {t} /\ owed' \subseteq owed
          /\ cp = "work" /\ UNCHANGED <<cp, cp_msg, cp_msg_recv>>
      BY <2>3 DEF AccelWork
    <3>2. t \notin owed'
      BY <1>0, <2>3 DEF AccelWork, EventsKept
    <3> QED BY <1>0, <2>0, <3>1, <3>2 DEF EventsKept
  <2> QED BY <1>10, <2>1, <2>2, <2>3 DEF accel_loop
<1> QED BY <1>1, <1>2, <1>3, <1>4, <1>5, <1>6, <1>7, <1>8, <1>9, <1>10
    DEF CpNext

LEMMA InitKept == CpInit => EventsKept
BY DEF CpInit, EventsKept

\* One event is in the lists at a time, which have one of five shapes, and in
\* a session that began without an interrupt left over what was sent is on its
\* way.
THEOREM AccelInvariance == CpSpec => []AccelInv
<1>1. CpInit => AccelInv
  BY InitTypes, InitPending, InitShape, InitSignal, InitKept DEF AccelInv
<1>2. AccelInv /\ [CpNext]_cpVars => AccelInv'
  <2>1. AccelInv => PendingCounted
    BY DEF AccelInv
  <2> QED BY <2>1, NextTypes, NextPending, NextShape, NextSignal, NextKept
          DEF AccelInv
<1> QED BY <1>1, <1>2, PTL DEF CpSpec

-----------------------------------------------------------------------------
(* What follows from the invariant.                                        *)

LEMMA InvTypes == AccelInv => CpTypeOK
<1> SUFFICES ASSUME AccelInv PROVE CpTypeOK
  OBVIOUS
<1>1. tx_count \in 0 .. MAX_CP_MSG_NUM + 1 /\ Len(tx_pending) <= MAX_CP_MSG_NUM
  BY DEF AccelInv, PendingCounted
<1>2. cp \in {"off", "boot", "ready", "loop", "sleep", "work"}
  BY DEF AccelInv, Shape, Off, On
<1> QED BY <1>1, <1>2 DEF AccelInv, AccelTypes, PendingCounted, CpTypeOK

LEMMA InvExact == AccelInv => TxCountExact
<1> DEFINE Exact == /\ InChannel = IF tx_count = 0 THEN 0 ELSE 1
                    /\ Len(send_msg_list) <= 1 /\ Len(send_pending_list) <= 1
<1> SUFFICES ASSUME AccelInv, cp_accel_inited  PROVE Exact
  BY DEF TxCountExact, AccelInv, PendingCounted
<1>1. On
  BY DEF AccelInv, Shape, Off
<1>2. Len(<<>>) = 0 /\ \A r \in Records : Len(<<r>>) = 1
  OBVIOUS
<1>3. CASE Idle
  BY <1>2, <1>3 DEF Idle, InChannel
<1>4. ASSUME NEW r \in Records, OnItsWay(r) \/ Returned(r) \/ IsLast(r)
      PROVE  Exact
  <2>1. CASE OnItsWay(r)
    BY <1>2, <2>1 DEF OnItsWay, InChannel, AccelInv, PendingCounted
  <2>2. CASE Returned(r)
    BY <1>2, <2>2 DEF Returned, InChannel, AccelInv, PendingCounted
  <2>3. CASE IsLast(r)
    BY <1>2, <2>3 DEF IsLast, InChannel, AccelInv, PendingCounted
  <2> QED BY <1>4, <2>1, <2>2, <2>3
<1>5. ASSUME NEW r \in Records, NEW q \in Records, Follows(r, q)  PROVE Exact
  BY <1>2, <1>5 DEF Follows, InChannel, AccelInv, PendingCounted
<1> QED BY <1>1, <1>3, <1>4, <1>5 DEF On

LEMMA InvLost == AccelInv => NoEventLost
BY DEF AccelInv, EventsKept, EventsUnread, NoEventLost

\* The state of the queue keeps its types, for any tasks and lengths.
THEOREM CpTypeCorrect == CpSpec => []CpTypeOK
BY AccelInvariance, InvTypes, PTL

\* The MCU's counter agrees with the channel whenever the coprocessor is on,
\* and one event is in the channel at most, in a list of its own, whatever
\* interrupts an earlier session has left over.
THEOREM OneEventInChannel == CpSpec => []TxCountExact
BY AccelInvariance, InvExact, PTL

\* In a session that begins without an interrupt left over, an event that was
\* sent to a task that is still open waits, is in a record the coprocessor has
\* still to receive, is flagged or has been taken by the loop.
THEOREM EventsNotLost == CpSpec => []NoEventLost
BY AccelInvariance, InvLost, PTL

=============================================================================
