------------------------------- MODULE Mcu2Cp -------------------------------
(***************************************************************************)
(* One direction of a channel between two cores of                         *)
(* platform/hal/hal_mcu2cp.c.                                              *)
(*                                                                         *)
(* The sender links its messages into a list that the receiver reads in    *)
(* the sender's memory.  It raises IND when the list is complete, the      *)
(* receiver walks the list and raises DONE, and only then the sender       *)
(* touches the list again: it frees the records and makes the messages     *)
(* that came meanwhile the next list.  There is no lock between the cores. *)
(*                                                                         *)
(* On each core a function masks interrupts and an interrupt handler is    *)
(* not preempted by another one of the channel: a handler's state changes  *)
(* between two of its callbacks are one step, and it is seen by the other  *)
(* core at each callback.                                                  *)
(***************************************************************************)
EXTENDS Sequences, Naturals

CONSTANTS
    MAX_SEND_RECORD_COUNT,
    Msgs                    \* what the callers send

ASSUME Mcu2CpAssumption ==
    /\ MAX_SEND_RECORD_COUNT \in Nat
    /\ Msgs # {}

Records == 1 .. MAX_SEND_RECORD_COUNT       \* send_msgs[id]

VARIABLES
    \* The sender's core.
    in_use,         \* the records that are in use
    msg,            \* the message of each record
    send_msg_list,          \* the list the receiver may read
    send_pending_list,      \* the messages for the next list
    tx,             \* the message the sent callback runs for, or 0
    \* The interrupts between the cores.
    DATA_IND, DATA_DONE,
    \* The receiver's core.
    rx,             \* the message the receive callback runs for, or 0
    recv_pending,   \* the message that was received in part, or 0
    rx_enabled,     \* the receive interrupt is enabled
    received        \* history: the last message received, and its parity

sender == <<in_use, msg, send_msg_list, send_pending_list>>
vars == <<sender, tx, DATA_IND, DATA_DONE, rx, recv_pending, rx_enabled,
          received>>

Init ==
    /\ in_use = {}
    /\ send_msg_list = <<>> /\ send_pending_list = <<>>
    /\ DATA_IND = FALSE /\ DATA_DONE = FALSE
    /\ tx = 0 /\ rx = 0
    /\ recv_pending = 0 /\ rx_enabled = FALSE
    /\ \E m \in Msgs :
        /\ msg = [r \in Records |-> m]
        /\ received = [msg |-> m, turn |-> 0]

-----------------------------------------------------------------------------
(* The sender.                                                             *)

\* hal_mcu2cp_send, from a thread or from the sent callback, takes the first
\* free record; without one it refuses the message.
Send(m) ==
    \E r \in Records \ in_use :
        /\ \A q \in Records \ in_use : r <= q
        /\ in_use' = in_use \cup {r}
        /\ msg' = [msg EXCEPT ![r] = m]
        /\ \/ /\ send_msg_list = <<>>
              /\ send_msg_list' = <<r>>
              /\ DATA_IND' = TRUE
              /\ UNCHANGED send_pending_list
           \/ /\ send_msg_list # <<>>
              /\ send_pending_list' = Append(send_pending_list, r)
              /\ UNCHANGED <<send_msg_list, DATA_IND>>
        /\ UNCHANGED <<tx, DATA_DONE, rx, recv_pending, rx_enabled, received>>

MutTxIrq ==
    /\ DATA_DONE /\ tx = 0
    /\ DATA_DONE' = FALSE
    /\ tx' = 1
    /\ in_use' = in_use \ {send_msg_list[i] : i \in DOMAIN send_msg_list}
    /\ UNCHANGED <<msg, send_msg_list, send_pending_list, DATA_IND, rx,
                   recv_pending, rx_enabled, received>>

\* hal_mcu2cp_tx_irq begins and calls back for the first message.
TxIrq ==
    /\ DATA_DONE /\ tx = 0
    /\ DATA_DONE' = FALSE
    /\ tx' = 1
    /\ UNCHANGED <<sender, DATA_IND, rx, recv_pending, rx_enabled, received>>

\* The sent callback has returned: the next message, or the next list.
TxNext ==
    /\ tx # 0
    /\ in_use' = in_use \ {send_msg_list[tx]}
    /\ IF tx < Len(send_msg_list)
       THEN /\ tx' = tx + 1
            /\ UNCHANGED <<send_msg_list, send_pending_list, DATA_IND>>
       ELSE /\ tx' = 0
            /\ send_msg_list' = send_pending_list
            /\ send_pending_list' = <<>>
            /\ DATA_IND' = (DATA_IND \/ send_pending_list # <<>>)
    /\ UNCHANGED <<msg, DATA_DONE, rx, recv_pending, rx_enabled, received>>

-----------------------------------------------------------------------------
(* The receiver.                                                           *)

MutRxIrq ==
    /\ DATA_IND /\ rx_enabled /\ rx = 0
    /\ rx' = IF recv_pending # 0 THEN recv_pending ELSE 1
    /\ UNCHANGED <<sender, tx, DATA_IND, DATA_DONE, recv_pending, rx_enabled,
                   received>>

MutRxIrqRestarts ==
    /\ DATA_IND /\ rx_enabled /\ rx = 0
    /\ DATA_IND' = FALSE
    /\ rx' = 1
    /\ UNCHANGED <<sender, tx, DATA_DONE, recv_pending, rx_enabled, received>>

\* hal_mcu2cp_rx_irq begins, with the first message or where it left off.
RxIrq ==
    /\ DATA_IND /\ rx_enabled /\ rx = 0
    /\ DATA_IND' = FALSE
    /\ rx' = IF recv_pending # 0 THEN recv_pending ELSE 1
    /\ UNCHANGED <<sender, tx, DATA_DONE, recv_pending, rx_enabled, received>>

MutRxWhole ==
    /\ rx # 0
    /\ received' = [msg |-> msg[send_msg_list[rx]],
                    turn |-> 1 - received.turn]
    /\ rx' = IF rx < Len(send_msg_list) THEN rx + 1 ELSE 0
    /\ DATA_DONE' = (rx = Len(send_msg_list))
    /\ UNCHANGED <<sender, tx, DATA_IND, recv_pending, rx_enabled>>

\* The receive callback has taken the whole message: the next one, or the
\* list goes back to the sender.
RxWhole ==
    /\ rx # 0
    /\ received' = [msg |-> msg[send_msg_list[rx]],
                    turn |-> 1 - received.turn]
    /\ IF rx < Len(send_msg_list)
       THEN /\ rx' = rx + 1
            /\ UNCHANGED <<recv_pending, DATA_DONE>>
       ELSE /\ rx' = 0
            /\ recv_pending' = 0
            /\ DATA_DONE' = TRUE
    /\ UNCHANGED <<sender, tx, DATA_IND, rx_enabled>>

\* The receive callback has left a part of the message for later.
RxPart ==
    /\ rx # 0
    /\ recv_pending' = rx
    /\ rx' = 0
    /\ UNCHANGED <<sender, tx, DATA_IND, DATA_DONE, rx_enabled, received>>

MutStartRecv ==
    /\ rx = 0
    /\ rx_enabled' = TRUE
    /\ UNCHANGED <<sender, tx, DATA_IND, DATA_DONE, rx, recv_pending,
                   received>>

\* hal_mcu2cp_start_recv, from a thread.
start_recv ==
    /\ rx = 0
    /\ rx_enabled' = TRUE
    /\ DATA_IND' = (DATA_IND \/ recv_pending # 0)
    /\ UNCHANGED <<sender, tx, DATA_DONE, rx, recv_pending, received>>

\* hal_mcu2cp_stop_recv
stop_recv ==
    /\ rx_enabled' = FALSE
    /\ UNCHANGED <<sender, tx, DATA_IND, DATA_DONE, rx, recv_pending, received>>

Next ==
    \/ \E m \in Msgs : Send(m)
    \/ TxIrq \/ TxNext
    \/ RxIrq \/ RxWhole \/ RxPart
    \/ start_recv \/ stop_recv

Spec == Init /\ [][Next]_vars

\* Interrupts are taken when they are enabled, callbacks return, a client that
\* stopped starts again, and takes a whole message now and then.
LiveSpec ==
    /\ Spec
    /\ WF_vars(TxIrq) /\ WF_vars(TxNext) /\ SF_vars(RxIrq)
    /\ WF_vars(RxWhole \/ RxPart) /\ SF_vars(RxWhole)
    /\ WF_vars(start_recv)

-----------------------------------------------------------------------------
(* Properties.                                                             *)

ChannelTypeOK ==
    /\ in_use \subseteq Records /\ msg \in [Records -> Msgs]
    /\ send_msg_list \in Seq(Records) /\ send_pending_list \in Seq(Records)
    /\ DATA_IND \in BOOLEAN /\ DATA_DONE \in BOOLEAN
    /\ tx \in 0 .. Len(send_msg_list) /\ rx \in 0 .. Len(send_msg_list)
    /\ recv_pending \in 0 .. Len(send_msg_list)
    /\ rx_enabled \in BOOLEAN
    /\ received \in [msg : Msgs, turn : 0 .. 1]

\* The first message of the list whose record has not been given back.
Oldest == IF tx = 0 THEN 1 ELSE tx

\* The records that are waiting to be sent, received or given back.
Waiting(r) ==
    \/ \E i \in Oldest .. Len(send_msg_list) : send_msg_list[i] = r
    \/ \E i \in 1 .. Len(send_pending_list) : send_pending_list[i] = r

\* A record is in use exactly while its message waits in a list, and it waits
\* once: none is leaked, and none is taken for a new message before its old
\* one was received, also when the sent callback sends.
RecordsExact ==
    /\ \A r \in Records : r \in in_use <=> Waiting(r)
    /\ \A i, j \in Oldest .. Len(send_msg_list) :
        send_msg_list[i] = send_msg_list[j] => i = j
    /\ \A i, j \in 1 .. Len(send_pending_list) :
        send_pending_list[i] = send_pending_list[j] => i = j
    /\ \A i \in Oldest .. Len(send_msg_list),
          j \in 1 .. Len(send_pending_list) :
        send_msg_list[i] # send_pending_list[j]

\* Who has the list: one of the interrupts, one of the handlers, or the client
\* that has received a part of a message.
Holders ==
    {h \in {"ind", "rx", "client", "done", "tx"} :
        \/ h = "ind"    /\ DATA_IND
        \/ h = "rx"     /\ rx # 0
        \/ h = "client" /\ recv_pending # 0 /\ rx = 0 /\ ~DATA_IND
        \/ h = "done"   /\ DATA_DONE
        \/ h = "tx"     /\ tx # 0}

\* A list has one holder at a time, and an empty one none: the two cores never
\* work on it at once, no interrupt is lost and none is left over.
OneHolder ==
    IF send_msg_list = <<>> THEN Holders = {}
    ELSE \E h \in Holders : Holders = {h}

\* The first message of the list that the receiver still has to take.
Unreceived ==
    IF DATA_DONE \/ tx # 0 THEN Len(send_msg_list) + 1
    ELSE IF rx # 0 THEN rx
    ELSE IF recv_pending # 0 THEN recv_pending ELSE 1

\* The messages accepted and not yet received.
Undelivered ==
    [i \in 1 .. Len(send_msg_list) + 1 - Unreceived + Len(send_pending_list) |->
        LET n == Len(send_msg_list) + 1 - Unreceived
        IN  msg[IF i <= n THEN send_msg_list[Unreceived + i - 1]
                ELSE send_pending_list[i - n]]]

\* A message waits behind a list only.
PendingBehind == send_msg_list = <<>> => send_pending_list = <<>>

Channel == INSTANCE MsgChannel WITH queue <- Undelivered

\* The channel delivers every accepted message once and in order, however the
\* two cores interleave, and delivers it in the end.
Delivers == Channel!LiveSpec

\* A record that was taken is given back.
RecordsReturn == \A r \in Records : r \in in_use ~> r \notin in_use

=============================================================================
