---------------------------- MODULE Mcu2CpProofs ----------------------------
(***************************************************************************)
(* Proofs about Mcu2Cp for any number of records and any messages: the two *)
(* cores never work on a list at once, no record is leaked, and the        *)
(* channel implements MsgChannel.                                          *)
(***************************************************************************)
EXTENDS Mcu2Cp, SequenceTheorems, TLAPS

IInv == ChannelTypeOK /\ OneHolder /\ PendingBehind /\ RecordsExact

\* Nobody has the list, or exactly one has.
NoHolder ==
    /\ ~DATA_IND /\ ~DATA_DONE
    /\ tx = 0 /\ rx = 0 /\ recv_pending = 0

IndHolds == DATA_IND /\ ~DATA_DONE /\ tx = 0 /\ rx = 0
RxHolds == ~DATA_IND /\ ~DATA_DONE /\ tx = 0 /\ rx # 0
ClientHolds ==
    ~DATA_IND /\ ~DATA_DONE /\ tx = 0 /\ rx = 0 /\ recv_pending # 0
DoneHolds == ~DATA_IND /\ DATA_DONE /\ tx = 0 /\ rx = 0 /\ recv_pending = 0
TxHolds == ~DATA_IND /\ ~DATA_DONE /\ tx # 0 /\ rx = 0 /\ recv_pending = 0

Holder ==
    IF send_msg_list = <<>> THEN NoHolder
    ELSE IndHolds \/ RxHolds \/ ClientHolds \/ DoneHolds \/ TxHolds

\* OneHolder as the five cases.
LEMMA HolderCases == OneHolder <=> Holder
<1> DEFINE client == recv_pending # 0 /\ rx = 0 /\ ~DATA_IND
<1>1. /\ "ind" \in Holders <=> DATA_IND
      /\ "rx" \in Holders <=> rx # 0
      /\ "client" \in Holders <=> client
      /\ "done" \in Holders <=> DATA_DONE
      /\ "tx" \in Holders <=> tx # 0
  BY DEF Holders
<1>2. \A h \in Holders : h \in {"ind", "rx", "client", "done", "tx"}
  BY DEF Holders
<1>3. Holders = {} <=> NoHolder
  BY <1>1, <1>2 DEF NoHolder
<1>4. Holders = {"ind"} <=> IndHolds
  BY <1>1, <1>2 DEF IndHolds
<1>5. Holders = {"rx"} <=> RxHolds
  BY <1>1, <1>2 DEF RxHolds
<1>6. Holders = {"client"} <=> ClientHolds
  BY <1>1, <1>2 DEF ClientHolds
<1>7. Holders = {"done"} <=> DoneHolds
  BY <1>1, <1>2 DEF DoneHolds
<1>8. Holders = {"tx"} <=> TxHolds
  BY <1>1, <1>2 DEF TxHolds
<1>9. (\E h \in Holders : Holders = {h}) <=>
          \E h \in {"ind", "rx", "client", "done", "tx"} : Holders = {h}
  BY <1>2
<1> QED BY <1>3, <1>4, <1>5, <1>6, <1>7, <1>8, <1>9 DEF OneHolder, Holder

\* The same after a step.
LEMMA HolderCasesNext == OneHolder' <=> Holder'
<1> QED BY HolderCases, PTL

\* The channel begins with nothing in it.
THEOREM InitIInv == Init => IInv
<1> SUFFICES ASSUME Init PROVE IInv
  OBVIOUS
<1>1. ChannelTypeOK
  <2>1. PICK m \in Msgs : /\ msg = [r \in Records |-> m]
                          /\ received = [msg |-> m, turn |-> 0]
    BY DEF Init
  <2>2. msg \in [Records -> Msgs] /\ received \in [msg : Msgs, turn : 0 .. 1]
    BY <2>1
  <2>3. /\ send_msg_list \in Seq(Records) /\ send_pending_list \in Seq(Records)
        /\ Len(send_msg_list) = 0
    BY DEF Init
  <2>4. /\ in_use = {} /\ DATA_IND = FALSE /\ DATA_DONE = FALSE
        /\ tx = 0 /\ rx = 0 /\ recv_pending = 0 /\ rx_enabled = FALSE
    BY DEF Init
  <2>5. 0 \in 0 .. Len(send_msg_list)
    BY <2>3
  <2>6. in_use \subseteq Records
    BY <2>4
  <2> QED BY <2>2, <2>3, <2>4, <2>5, <2>6 DEF ChannelTypeOK
<1>2. OneHolder
  BY HolderCases DEF Init, Holder, NoHolder
<1>3. PendingBehind /\ RecordsExact
  BY DEF Init, PendingBehind, RecordsExact, Waiting, Oldest
<1> QED BY <1>1, <1>2, <1>3 DEF IInv

-----------------------------------------------------------------------------
(* The steps of the sender.                                                *)

LEMMA SendKeeps == ASSUME IInv, NEW m \in Msgs, Send(m) PROVE IInv'
<1> DEFINE s == send_msg_list
           p == send_pending_list
<1>1. PICK r \in Records \ in_use :
          /\ in_use' = in_use \cup {r}
          /\ msg' = [msg EXCEPT ![r] = m]
          /\ \/ /\ s = <<>>
                /\ s' = <<r>>
                /\ DATA_IND' = TRUE
                /\ UNCHANGED p
             \/ /\ s # <<>>
                /\ p' = Append(p, r)
                /\ UNCHANGED <<s, DATA_IND>>
          /\ UNCHANGED <<tx, DATA_DONE, rx, recv_pending, rx_enabled, received>>
  BY DEF Send
<1>2. /\ ChannelTypeOK /\ PendingBehind /\ RecordsExact
      /\ s \in Seq(Records) /\ p \in Seq(Records) /\ tx \in 0 .. Len(s)
      /\ ~Waiting(r)
  BY <1>1 DEF IInv, ChannelTypeOK, RecordsExact
<1>3. CASE s = <<>>
  <2>1. /\ NoHolder /\ p = <<>>
        /\ s' = <<r>> /\ p' = <<>> /\ DATA_IND'
    BY <1>1, <1>2, <1>3, HolderCases DEF IInv, PendingBehind, Holder
  <2>2. /\ Len(s') = 1 /\ s'[1] = r /\ s' \in Seq(Records) /\ s' # <<>>
        /\ Len(p') = 0 /\ p' \in Seq(Records)
        /\ Len(s) = 0 /\ Len(p) = 0
    BY <2>1, <1>3
  <2>3. ChannelTypeOK'
    BY <1>1, <1>2, <2>1, <2>2 DEF ChannelTypeOK, NoHolder
  <2>4. OneHolder'
    BY <1>1, <2>1, <2>2, HolderCasesNext DEF Holder, NoHolder, IndHolds
  <2>5. in_use = {}
    BY <1>2, <2>2 DEF RecordsExact, Waiting, ChannelTypeOK, Oldest
  <2>6. RecordsExact'
    BY <1>1, <2>1, <2>2, <2>5 DEF RecordsExact, Waiting, Oldest, NoHolder
  <2> QED BY <2>2, <2>3, <2>4, <2>6 DEF IInv, PendingBehind
<1>4. CASE s # <<>>
  <2>0. p' = Append(p, r) /\ UNCHANGED <<s, DATA_IND>>
    BY <1>1, <1>4
  <2>1. /\ p' \in Seq(Records) /\ Len(p') = Len(p) + 1 /\ Len(p) \in Nat
        /\ \A i \in 1 .. Len(p) : p'[i] = p[i]
        /\ p'[Len(p) + 1] = r
    BY <1>2, <2>0
  <2>2. ChannelTypeOK'
    BY <1>1, <1>2, <2>0, <2>1 DEF ChannelTypeOK
  <2>3. OneHolder'
    BY <1>1, <2>0 DEF IInv, OneHolder, Holders
  <2>4. RecordsExact'
    <3> DEFINE o == Oldest
    <3>1. Oldest' = o /\ s' = s
      BY <1>1, <2>0 DEF Oldest
    <3>2. \A i \in 1 .. Len(p') : i \in 1 .. Len(p) \/ i = Len(p) + 1
      BY <2>1
    <3>3. \A i \in o .. Len(s) : s[i] # r
      BY <1>2 DEF Waiting
    <3>4. \A i \in 1 .. Len(p) : p[i] # r
      BY <1>2 DEF Waiting
    <3>5. \A q \in Records : Waiting(q)' <=> Waiting(q) \/ q = r
      <4>1. \A q : (\E i \in 1 .. Len(p') : p'[i] = q)
                      <=> (\E i \in 1 .. Len(p) : p[i] = q) \/ q = r
        BY <2>1, <3>2
      <4> QED BY <3>1, <4>1 DEF Waiting
    <3>6. \A q \in Records : q \in in_use' <=> Waiting(q)'
      BY <1>1, <1>2, <3>5 DEF RecordsExact
    <3>7. \A i, j \in o .. Len(s) : s[i] = s[j] => i = j
      BY <1>2 DEF RecordsExact
    <3>8. \A i, j \in 1 .. Len(p') : p'[i] = p'[j] => i = j
      BY <1>2, <2>1, <3>2, <3>4 DEF RecordsExact
    <3>9. \A i \in o .. Len(s), j \in 1 .. Len(p') : s[i] # p'[j]
      BY <1>2, <2>1, <3>2, <3>3 DEF RecordsExact
    <3> QED BY <3>1, <3>6, <3>7, <3>8, <3>9 DEF RecordsExact
  <2> QED BY <1>4, <2>0, <2>2, <2>3, <2>4 DEF IInv, PendingBehind
<1> QED BY <1>3, <1>4

LEMMA TxIrqKeeps == IInv /\ TxIrq => IInv'
<1> SUFFICES ASSUME IInv, TxIrq PROVE IInv'
  OBVIOUS
<1>1. DoneHolds /\ send_msg_list # <<>>
  BY HolderCases
     DEF IInv, Holder, TxIrq, NoHolder, IndHolds, RxHolds, ClientHolds, TxHolds
<1>2. /\ tx' = 1 /\ ~DATA_DONE'
      /\ UNCHANGED <<sender, DATA_IND, rx, recv_pending, rx_enabled, received>>
  BY DEF TxIrq
<1>3. 1 \in 0 .. Len(send_msg_list)
  BY <1>1 DEF IInv, ChannelTypeOK
<1>4. ChannelTypeOK'
  <2>1. /\ UNCHANGED <<in_use, msg, send_msg_list, send_pending_list>>
        /\ UNCHANGED <<DATA_IND, rx, recv_pending, rx_enabled, received>>
        /\ DATA_DONE' = FALSE
    BY <1>2 DEF sender, TxIrq
  <2> QED BY <1>2, <1>3, <2>1 DEF IInv, ChannelTypeOK
<1>5. OneHolder'
  BY <1>1, <1>2, HolderCasesNext DEF Holder, DoneHolds, TxHolds, sender
<1>6. RecordsExact'
  BY <1>1, <1>2 DEF IInv, RecordsExact, Waiting, Oldest, DoneHolds, sender
<1> QED BY <1>2, <1>4, <1>5, <1>6 DEF IInv, PendingBehind, sender

LEMMA TxNextKeeps == IInv /\ TxNext => IInv'
<1> SUFFICES ASSUME IInv, TxNext PROVE IInv'
  OBVIOUS
<1> DEFINE s == send_msg_list
           p == send_pending_list
<1>1. TxHolds /\ s # <<>>
  BY HolderCases
     DEF IInv, Holder, TxNext, NoHolder, IndHolds, RxHolds, ClientHolds, DoneHolds
<1>2. /\ in_use' = in_use \ {s[tx]}
      /\ UNCHANGED <<msg, DATA_DONE, rx, recv_pending, rx_enabled, received>>
  BY DEF TxNext
<1>3. /\ s \in Seq(Records) /\ p \in Seq(Records)
      /\ tx \in 1 .. Len(s) /\ Len(p) \in Nat /\ Len(s) \in Nat
      /\ ChannelTypeOK /\ RecordsExact /\ PendingBehind
  BY <1>1 DEF IInv, ChannelTypeOK, TxHolds
<1>4. CASE tx < Len(s)
  <2>1. tx' = tx + 1 /\ UNCHANGED <<s, p, DATA_IND>>
    BY <1>4 DEF TxNext
  <2>2. ChannelTypeOK'
    BY <1>2, <1>3, <1>4, <2>1 DEF ChannelTypeOK
  <2>3. OneHolder'
    BY <1>1, <1>2, <1>3, <2>1, HolderCasesNext DEF Holder, TxHolds
  <2>4. Oldest = tx /\ Oldest' = tx + 1
    BY <1>3, <2>1 DEF Oldest
  <2>5. RecordsExact'
    <3>1. \A i \in tx + 1 .. Len(s) : i \in tx .. Len(s) /\ s[i] # s[tx]
      BY <1>3, <2>4 DEF RecordsExact
    <3>2. \A i \in tx .. Len(s) : i \in tx + 1 .. Len(s) \/ i = tx
      BY <1>3
    <3>3. tx \in tx .. Len(s) /\ s[tx] \in Records
      BY <1>3
    <3>4. \A j \in 1 .. Len(p) : p[j] # s[tx]
      BY <1>3, <2>4, <3>3 DEF RecordsExact
    <3>5. \A q \in Records : Waiting(q)' <=> Waiting(q) /\ q # s[tx]
      BY <2>1, <2>4, <3>1, <3>2, <3>4 DEF Waiting
    <3>6. \A q \in Records : q \in in_use' <=> Waiting(q)'
      BY <1>2, <1>3, <3>5 DEF RecordsExact
    <3> QED BY <1>3, <2>1, <2>4, <3>1, <3>6 DEF RecordsExact
  <2> QED BY <1>3, <2>1, <2>2, <2>3, <2>5 DEF IInv, PendingBehind
<1>5. CASE ~(tx < Len(s))
  <2>1. /\ tx' = 0 /\ s' = p /\ p' = <<>>
        /\ DATA_IND' = (DATA_IND \/ p # <<>>)
    BY <1>5 DEF TxNext
  <2>2. Len(p') = 0 /\ p' \in Seq(Records)
    BY <2>1
  <2>3. ChannelTypeOK'
    BY <1>1, <1>2, <1>3, <2>1, <2>2 DEF ChannelTypeOK, TxHolds
  <2>4. OneHolder'
    <3>1. CASE p = <<>>
      BY <1>1, <1>2, <2>1, <3>1, HolderCasesNext DEF Holder, TxHolds, NoHolder
    <3>2. CASE p # <<>>
      BY <1>1, <1>2, <2>1, <3>2, HolderCasesNext DEF Holder, TxHolds, IndHolds
    <3> QED BY <3>1, <3>2
  <2>5. Oldest = tx /\ Oldest' = 1 /\ tx = Len(s)
    BY <1>3, <1>5, <2>1 DEF Oldest
  <2>6. RecordsExact'
    <3>1. \A i \in tx .. Len(s) : i = tx
      BY <1>3, <2>5
    <3>2. tx \in tx .. Len(s)
      BY <1>3
    <3>3. \A j \in 1 .. Len(p) : p[j] # s[tx]
      BY <1>3, <2>5, <3>2 DEF RecordsExact
    <3>4. \A q \in Records :
              q \in in_use' <=> \E j \in 1 .. Len(p) : p[j] = q
      BY <1>2, <1>3, <2>5, <3>1, <3>2, <3>3 DEF RecordsExact, Waiting
    <3>5. \A q \in Records : q \in in_use' <=> Waiting(q)'
      BY <2>1, <2>2, <2>5, <3>4 DEF Waiting
    <3> QED BY <1>3, <2>1, <2>2, <2>5, <3>5 DEF RecordsExact
  <2> QED BY <2>1, <2>3, <2>4, <2>6 DEF IInv, PendingBehind
<1> QED BY <1>4, <1>5

-----------------------------------------------------------------------------
(* The steps of the receiver leave the records alone.                      *)

LEMMA RecordsKept ==
    ASSUME RecordsExact, UNCHANGED sender, UNCHANGED tx
    PROVE  RecordsExact'
BY DEF RecordsExact, Waiting, Oldest, sender

LEMMA RxIrqKeeps == IInv /\ RxIrq => IInv'
<1> SUFFICES ASSUME IInv, RxIrq PROVE IInv'
  OBVIOUS
<1>1. IndHolds /\ send_msg_list # <<>>
  BY HolderCases
     DEF IInv, Holder, RxIrq, NoHolder, RxHolds, ClientHolds, DoneHolds, TxHolds
<1>2. /\ DATA_IND' = FALSE
      /\ rx' = IF recv_pending # 0 THEN recv_pending ELSE 1
      /\ UNCHANGED <<in_use, msg, send_msg_list, send_pending_list>>
      /\ UNCHANGED <<tx, DATA_DONE, recv_pending, rx_enabled, received>>
  BY DEF RxIrq, sender
<1>3. rx' \in 0 .. Len(send_msg_list) /\ rx' # 0
  BY <1>1, <1>2 DEF IInv, ChannelTypeOK
<1>4. ChannelTypeOK'
  BY <1>2, <1>3 DEF IInv, ChannelTypeOK
<1>5. OneHolder'
  BY <1>1, <1>2, <1>3, HolderCasesNext DEF Holder, IndHolds, RxHolds
<1>6. RecordsExact'
  BY <1>2, RecordsKept DEF IInv, sender
<1> QED BY <1>2, <1>4, <1>5, <1>6 DEF IInv, PendingBehind

\* The list has a receiver, who has it alone.
LEMMA ReceiverHolds ==
    ASSUME IInv, rx # 0 PROVE RxHolds /\ send_msg_list # <<>>
BY HolderCases
   DEF IInv, Holder, NoHolder, IndHolds, RxHolds, ClientHolds, DoneHolds, TxHolds

LEMMA RxWholeKeeps == IInv /\ RxWhole => IInv'
<1> SUFFICES ASSUME IInv, RxWhole PROVE IInv'
  OBVIOUS
<1>1. RxHolds /\ send_msg_list # <<>>
  BY ReceiverHolds DEF RxWhole
<1>2. /\ received' = [msg |-> msg[send_msg_list[rx]],
                      turn |-> 1 - received.turn]
      /\ UNCHANGED <<in_use, msg, send_msg_list, send_pending_list>>
      /\ UNCHANGED <<tx, DATA_IND, rx_enabled>>
  BY DEF RxWhole, sender
<1>3. /\ rx \in 1 .. Len(send_msg_list) /\ Len(send_msg_list) \in Nat
      /\ send_msg_list[rx] \in Records
  BY <1>1 DEF IInv, ChannelTypeOK, RxHolds
<1>4. received' \in [msg : Msgs, turn : 0 .. 1]
  BY <1>2, <1>3 DEF IInv, ChannelTypeOK
<1>5. \/ rx' = rx + 1 /\ rx < Len(send_msg_list)
         /\ UNCHANGED <<recv_pending, DATA_DONE>>
      \/ rx' = 0 /\ recv_pending' = 0 /\ DATA_DONE' = TRUE
  BY DEF RxWhole
<1>6. rx' \in 0 .. Len(send_msg_list) /\ recv_pending' \in 0 .. Len(send_msg_list)
  BY <1>3, <1>5 DEF IInv, ChannelTypeOK
<1>7. ChannelTypeOK'
  BY <1>2, <1>4, <1>5, <1>6 DEF IInv, ChannelTypeOK
<1>8. OneHolder'
  BY <1>1, <1>2, <1>3, <1>5, HolderCasesNext DEF Holder, RxHolds, DoneHolds
<1>9. RecordsExact'
  BY <1>2, RecordsKept DEF IInv, sender
<1> QED BY <1>2, <1>7, <1>8, <1>9 DEF IInv, PendingBehind

LEMMA RxPartKeeps == IInv /\ RxPart => IInv'
<1> SUFFICES ASSUME IInv, RxPart PROVE IInv'
  OBVIOUS
<1>1. RxHolds /\ send_msg_list # <<>>
  BY ReceiverHolds DEF RxPart
<1>2. /\ recv_pending' = rx /\ rx' = 0
      /\ UNCHANGED <<in_use, msg, send_msg_list, send_pending_list>>
      /\ UNCHANGED <<tx, DATA_IND, DATA_DONE, rx_enabled, received>>
  BY DEF RxPart, sender
<1>3. ChannelTypeOK'
  BY <1>2 DEF IInv, ChannelTypeOK
<1>4. OneHolder'
  BY <1>1, <1>2, HolderCasesNext DEF Holder, RxHolds, ClientHolds
<1>5. RecordsExact'
  BY <1>2, RecordsKept DEF IInv, sender
<1> QED BY <1>2, <1>3, <1>4, <1>5 DEF IInv, PendingBehind

LEMMA StartRecvKeeps == IInv /\ start_recv => IInv'
<1> SUFFICES ASSUME IInv, start_recv PROVE IInv'
  OBVIOUS
<1>1. /\ rx = 0 /\ rx_enabled' = TRUE
      /\ DATA_IND' = (DATA_IND \/ recv_pending # 0)
      /\ UNCHANGED <<in_use, msg, send_msg_list, send_pending_list>>
      /\ UNCHANGED <<tx, DATA_DONE, rx, recv_pending, received>>
  BY DEF start_recv, sender
<1>2. ChannelTypeOK'
  BY <1>1 DEF IInv, ChannelTypeOK
<1>3. OneHolder'
  BY <1>1, HolderCases, HolderCasesNext
     DEF IInv, Holder, NoHolder, IndHolds, RxHolds, ClientHolds, DoneHolds,
         TxHolds
<1>4. RecordsExact'
  BY <1>1, RecordsKept DEF IInv, sender
<1> QED BY <1>1, <1>2, <1>3, <1>4 DEF IInv, PendingBehind

LEMMA StopRecvKeeps == IInv /\ stop_recv => IInv'
<1> SUFFICES ASSUME IInv, stop_recv PROVE IInv'
  OBVIOUS
<1>1. /\ rx_enabled' = FALSE
      /\ UNCHANGED <<in_use, msg, send_msg_list, send_pending_list>>
      /\ UNCHANGED <<tx, DATA_IND, DATA_DONE, rx, recv_pending, received>>
  BY DEF stop_recv, sender
<1>2. ChannelTypeOK' /\ OneHolder'
  BY <1>1 DEF IInv, ChannelTypeOK, OneHolder, Holders
<1>3. RecordsExact'
  BY <1>1, RecordsKept DEF IInv, sender
<1> QED BY <1>1, <1>2, <1>3 DEF IInv, PendingBehind

-----------------------------------------------------------------------------
(* The invariant and what it says.                                         *)

LEMMA NextIInv == IInv /\ [Next]_vars => IInv'
<1> SUFFICES ASSUME IInv, [Next]_vars PROVE IInv'
  OBVIOUS
<1>1. CASE \E m \in Msgs : Send(m)
  BY <1>1, SendKeeps
<1>2. CASE TxIrq
  BY <1>2, TxIrqKeeps
<1>3. CASE TxNext
  BY <1>3, TxNextKeeps
<1>4. CASE RxIrq
  BY <1>4, RxIrqKeeps
<1>5. CASE RxWhole
  BY <1>5, RxWholeKeeps
<1>6. CASE RxPart
  BY <1>6, RxPartKeeps
<1>7. CASE start_recv
  BY <1>7, StartRecvKeeps
<1>8. CASE stop_recv
  BY <1>8, StopRecvKeeps
<1>9. CASE UNCHANGED vars
  <2>1. /\ UNCHANGED <<in_use, msg, send_msg_list, send_pending_list>>
        /\ UNCHANGED <<tx, DATA_IND, DATA_DONE, rx, recv_pending, rx_enabled>>
        /\ UNCHANGED received
    BY <1>9 DEF vars, sender
  <2>2. ChannelTypeOK' /\ OneHolder'
    BY <2>1 DEF IInv, ChannelTypeOK, OneHolder, Holders
  <2>3. RecordsExact'
    BY <2>1, RecordsKept DEF IInv, sender
  <2> QED BY <2>1, <2>2, <2>3 DEF IInv, PendingBehind
<1> QED BY <1>1, <1>2, <1>3, <1>4, <1>5, <1>6, <1>7, <1>8, <1>9 DEF Next

\* The invariant holds of every behaviour of the two cores.
THEOREM Invariance == Spec => []IInv
<1> QED BY InitIInv, NextIInv, PTL DEF Spec

\* The lists, the records and the positions in them are well formed: no core
\* reads a list beyond its end.
THEOREM ChannelTypes == Spec => []ChannelTypeOK
<1>1. IInv => ChannelTypeOK
  BY DEF IInv
<1> QED BY <1>1, Invariance, PTL

\* hal_mcu2cp_send and hal_mcu2cp_tx_irq neither leak a record nor give one
\* away that is still waiting.
THEOREM NoRecordLeaks == Spec => []RecordsExact
<1>1. IInv => RecordsExact
  BY DEF IInv
<1> QED BY <1>1, Invariance, PTL

\* The handshake of IND and DONE alone, without a lock, keeps the two cores
\* from working on a list at once and loses no interrupt.
THEOREM OneCoreAtATime == Spec => []OneHolder
<1>1. IInv => OneHolder
  BY DEF IInv
<1> QED BY <1>1, Invariance, PTL

-----------------------------------------------------------------------------
(* The channel implements MsgChannel.                                      *)

\* The record of the message that is received as the i-th from now.
Place(i) ==
    LET n == Len(send_msg_list) + 1 - Unreceived
    IN  IF i <= n THEN send_msg_list[Unreceived + i - 1]
        ELSE send_pending_list[i - n]

Count == Len(send_msg_list) + 1 - Unreceived + Len(send_pending_list)

UndeliveredFacts ==
    /\ Len(send_msg_list) \in Nat /\ Len(send_pending_list) \in Nat
    /\ Unreceived \in Oldest .. Len(send_msg_list) + 1
    /\ Oldest \in Nat \ {0}
    /\ Count \in Nat
    /\ Undelivered \in Seq(Msgs) /\ Len(Undelivered) = Count
    /\ \A i \in 1 .. Count : Undelivered[i] = msg[Place(i)] /\ Waiting(Place(i))

LEMMA SeqOfFunction ==
    ASSUME NEW S, NEW n \in Nat, NEW f \in [1 .. n -> S]
    PROVE  f \in Seq(S) /\ Len(f) = n
<1>1. f \in Seq(S)
  BY SeqDef
<1> QED BY <1>1, LenProperties

LEMMA UndeliveredIsQueue == IInv => UndeliveredFacts
<1> SUFFICES ASSUME IInv PROVE UndeliveredFacts
  OBVIOUS
<1> DEFINE s == send_msg_list
           p == send_pending_list
<1>1. /\ s \in Seq(Records) /\ p \in Seq(Records)
      /\ Len(s) \in Nat /\ Len(p) \in Nat
      /\ tx \in 0 .. Len(s) /\ rx \in 0 .. Len(s)
      /\ recv_pending \in 0 .. Len(s)
      /\ msg \in [Records -> Msgs]
  BY DEF IInv, ChannelTypeOK
<1>2. Oldest \in Nat \ {0} /\ Unreceived \in Oldest .. Len(s) + 1
  BY <1>1 DEF Oldest, Unreceived
<1>3. Count \in Nat
  BY <1>1, <1>2 DEF Count
<1>4. ASSUME NEW i \in 1 .. Count
      PROVE  Place(i) \in Records /\ Waiting(Place(i))
  <2> DEFINE n == Len(s) + 1 - Unreceived
  <2>1. CASE i <= n
    <3>1. Unreceived + i - 1 \in Oldest .. Len(s)
      BY <1>1, <1>2, <2>1
    <3>2. Place(i) = s[Unreceived + i - 1]
      BY <2>1 DEF Place
    <3> QED BY <1>1, <1>2, <3>1, <3>2 DEF Waiting
  <2>2. CASE ~(i <= n)
    <3>1. i - n \in 1 .. Len(p)
      BY <1>1, <1>2, <2>2 DEF Count
    <3>2. Place(i) = p[i - n]
      BY <2>2 DEF Place
    <3> QED BY <1>1, <3>1, <3>2 DEF Waiting
  <2> QED BY <2>1, <2>2
<1>5. Undelivered = [i \in 1 .. Count |-> msg[Place(i)]]
  BY DEF Undelivered, Count, Place
<1>6. Undelivered \in [1 .. Count -> Msgs]
  BY <1>1, <1>4, <1>5
<1>7. Undelivered \in Seq(Msgs) /\ Len(Undelivered) = Count
  BY <1>3, <1>6, SeqOfFunction
<1>8. \A i \in 1 .. Count : Undelivered[i] = msg[Place(i)]
  BY <1>5
<1> QED BY <1>1, <1>2, <1>3, <1>4, <1>7, <1>8 DEF UndeliveredFacts

\* The same after a step.
LEMMA UndeliveredIsQueueNext == IInv' => UndeliveredFacts'
<1> QED BY UndeliveredIsQueue, PTL

\* A step that leaves the waiting messages in their places leaves the queue.
LEMMA QueueKept ==
    ASSUME UndeliveredFacts, UndeliveredFacts', Count' = Count,
           msg' = msg, \A i \in 1 .. Count : Place(i)' = Place(i)
    PROVE  Undelivered' = Undelivered
<1>1. /\ Undelivered \in Seq(Msgs) /\ Undelivered' \in Seq(Msgs)
      /\ Len(Undelivered) = Count /\ Len(Undelivered') = Count
  BY DEF UndeliveredFacts
<1>2. \A i \in 1 .. Len(Undelivered) : Undelivered[i] = Undelivered'[i]
  BY <1>1 DEF UndeliveredFacts
<1> QED BY <1>1, <1>2, SeqEqual

\* So does one that keeps the lists and the receiver's position in them.
LEMMA PositionKept ==
    ASSUME UndeliveredFacts, UndeliveredFacts', Unreceived' = Unreceived,
           UNCHANGED <<msg, send_msg_list, send_pending_list>>
    PROVE  Undelivered' = Undelivered
<1>1. Count' = Count /\ \A i \in 1 .. Count : Place(i)' = Place(i)
  BY DEF Count, Place
<1> QED BY <1>1, QueueKept

LEMMA ChannelInit == Init => Channel!Init
<1> SUFFICES ASSUME Init PROVE Channel!Init
  OBVIOUS
<1>1. IInv
  BY InitIInv
<1>2. UndeliveredFacts /\ Unreceived = 1
  BY <1>1, UndeliveredIsQueue DEF Init, Unreceived
<1>3. Count = 0
  BY <1>2 DEF Init, Count
<1>4. Undelivered = <<>>
  BY <1>2, <1>3, EmptySeq DEF UndeliveredFacts
<1> QED BY <1>4 DEF Init, Channel!Init

\* hal_mcu2cp_send accepts a message.
LEMMA SendAccepts ==
    ASSUME IInv, IInv', NEW m \in Msgs, Send(m) PROVE Channel!Accept(m)
<1> DEFINE s == send_msg_list
           p == send_pending_list
<1>1. PICK r \in Records \ in_use :
          /\ msg' = [msg EXCEPT ![r] = m]
          /\ \/ /\ s = <<>>
                /\ s' = <<r>>
                /\ UNCHANGED p
             \/ /\ s # <<>>
                /\ p' = Append(p, r)
                /\ UNCHANGED s
          /\ UNCHANGED <<tx, DATA_DONE, rx, recv_pending, received>>
  BY DEF Send
<1>2. UndeliveredFacts /\ UndeliveredFacts'
  BY UndeliveredIsQueue, UndeliveredIsQueueNext
<1>3. /\ s \in Seq(Records) /\ p \in Seq(Records)
      /\ msg \in [Records -> Msgs] /\ ~Waiting(r)
  BY <1>1 DEF IInv, ChannelTypeOK, RecordsExact
<1>4. msg'[r] = m /\ \A q \in Records : q # r => msg'[q] = msg[q]
  BY <1>1, <1>3
<1>5. /\ Count' = Count + 1
      /\ \A i : i = Count + 1 => Place(i)' = r
      /\ \A i \in 1 .. Count : Place(i)' = Place(i)
  <2>1. CASE s = <<>>
    <3>1. /\ NoHolder /\ p = <<>>
          /\ s' = <<r>> /\ p' = <<>>
      BY <1>1, <2>1, HolderCases DEF IInv, Holder, PendingBehind
    <3>2. /\ Len(s) = 0 /\ Len(p) = 0 /\ Len(s') = 1 /\ Len(p') = 0
          /\ s'[1] = r
      BY <2>1, <3>1
    <3>3. Unreceived = 1 /\ Unreceived' = 1
      BY <1>1, <3>1, <3>2 DEF Unreceived, NoHolder
    <3>4. Count = 0 /\ Count' = 1
      BY <3>2, <3>3 DEF Count
    <3> QED BY <3>2, <3>3, <3>4 DEF Place
  <2>2. CASE s # <<>>
    <3>1. p' = Append(p, r) /\ s' = s
      BY <1>1, <2>2
    <3>2. /\ Len(p') = Len(p) + 1 /\ p'[Len(p) + 1] = r
          /\ \A i \in 1 .. Len(p) : p'[i] = p[i]
      BY <1>3, <3>1
    <3>3. Unreceived' = Unreceived
      BY <1>1, <3>1 DEF Unreceived
    <3>4. Count' = Count + 1
      BY <1>2, <3>1, <3>2, <3>3 DEF Count, UndeliveredFacts
    <3> DEFINE n == Len(s) + 1 - Unreceived
    <3>5. /\ Count = n + Len(p) /\ n \in Nat /\ Len(p) \in Nat
      BY <1>2 DEF Count, UndeliveredFacts
    <3>6. ASSUME NEW i \in 1 .. Count PROVE Place(i)' = Place(i)
      <4>1. ~(i <= n) => i - n \in 1 .. Len(p)
        BY <3>5
      <4> QED BY <3>1, <3>2, <3>3, <4>1 DEF Place
    <3>7. ASSUME NEW i, i = Count + 1 PROVE Place(i)' = r
      <4>1. ~(i <= n) /\ i - n = Len(p) + 1
        BY <3>5, <3>7
      <4> QED BY <3>1, <3>2, <3>3, <4>1 DEF Place
    <3> QED BY <3>4, <3>6, <3>7
  <2> QED BY <2>1, <2>2
<1> DEFINE u == Undelivered
<1>6. /\ u \in Seq(Msgs) /\ Len(u) = Count /\ Count \in Nat
      /\ u' \in Seq(Msgs) /\ Len(u') = Count + 1
  BY <1>2, <1>5 DEF UndeliveredFacts
<1>7. \A i \in 1 .. Count : u'[i] = u[i]
  <2> SUFFICES ASSUME NEW i \in 1 .. Count PROVE u'[i] = u[i]
    OBVIOUS
  <2>1. u[i] = msg[Place(i)] /\ Waiting(Place(i))
    BY <1>2 DEF UndeliveredFacts
  <2>2. Place(i) \in Records /\ Place(i) # r
    BY <1>3, <2>1 DEF IInv, ChannelTypeOK, Waiting, Oldest
  <2>3. u'[i] = msg'[Place(i)]
    BY <1>2, <1>5, <1>6 DEF UndeliveredFacts
  <2> QED BY <1>4, <2>1, <2>2, <2>3
<1>8. u'[Count + 1] = m
  <2>1. \A i \in 1 .. Count + 1 : u'[i] = msg'[Place(i)']
    BY <1>2, <1>5 DEF UndeliveredFacts
  <2> QED BY <1>4, <1>5, <1>6, <2>1
<1>9. /\ Append(u, m) \in Seq(Msgs) /\ Len(Append(u, m)) = Count + 1
      /\ \A i \in 1 .. Count : Append(u, m)[i] = u[i]
      /\ Append(u, m)[Count + 1] = m
  BY <1>6
<1>10. \A i \in 1 .. Len(u') : u'[i] = Append(u, m)[i]
  <2>1. \A i \in 1 .. Len(u') : i \in 1 .. Count \/ i = Count + 1
    BY <1>6
  <2> QED BY <1>7, <1>8, <1>9, <2>1
<1>11. u' = Append(u, m)
  BY <1>6, <1>9, <1>10, SeqEqual
<1> QED BY <1>1, <1>11 DEF Channel!Accept

\* The receive callback takes the first message of the queue.
LEMMA RxWholeReceives ==
    ASSUME IInv, IInv', RxWhole PROVE Channel!Receive
<1> DEFINE s == send_msg_list
           p == send_pending_list
           u == Undelivered
<1>1. RxHolds /\ s # <<>>
  BY ReceiverHolds DEF RxWhole
<1>2. /\ received' = [msg |-> msg[s[rx]], turn |-> 1 - received.turn]
      /\ UNCHANGED <<msg, send_msg_list, send_pending_list, tx>>
      /\ rx \in 1 .. Len(s) /\ Len(s) \in Nat
  BY <1>1 DEF RxWhole, sender, RxHolds, IInv, ChannelTypeOK
<1>3. UndeliveredFacts /\ UndeliveredFacts'
  BY UndeliveredIsQueue, UndeliveredIsQueueNext
<1>4. Unreceived = rx
  BY <1>1 DEF Unreceived, RxHolds
<1>5. Unreceived' = rx + 1
  <2>1. CASE rx < Len(s)
    <3>1. rx' = rx + 1 /\ rx' # 0 /\ DATA_DONE' = DATA_DONE
      BY <1>2, <2>1 DEF RxWhole
    <3> QED BY <1>1, <1>2, <3>1 DEF Unreceived, RxHolds
  <2>2. CASE ~(rx < Len(s))
    BY <1>1, <1>2, <2>2 DEF RxWhole, Unreceived, RxHolds
  <2> QED BY <2>1, <2>2
<1>6. Count' = Count - 1 /\ Count >= 1
  BY <1>2, <1>3, <1>4, <1>5 DEF Count, UndeliveredFacts
<1>7. \A i \in 1 .. Count - 1 : Place(i)' = Place(i + 1)
  BY <1>2, <1>3, <1>4, <1>5 DEF Place, Count, UndeliveredFacts
<1>8. Place(1) = s[rx]
  BY <1>2, <1>4 DEF Place
<1>9. /\ u \in Seq(Msgs) /\ Len(u) = Count /\ Count \in Nat
      /\ u' \in Seq(Msgs) /\ Len(u') = Count - 1
  BY <1>3, <1>6 DEF UndeliveredFacts
<1>10. u # <<>> /\ Head(u) = u[1]
  BY <1>6, <1>9
<1>11. u[1] = msg[s[rx]]
  BY <1>3, <1>6, <1>8, <1>9 DEF UndeliveredFacts
<1>12. /\ Tail(u) \in Seq(Msgs) /\ Len(Tail(u)) = Count - 1
       /\ \A i \in 1 .. Count - 1 : Tail(u)[i] = u[i + 1]
  BY <1>9, <1>10, HeadTailProperties
<1>13. \A i \in 1 .. Len(u') : u'[i] = Tail(u)[i]
  <2> SUFFICES ASSUME NEW i \in 1 .. Count - 1 PROVE u'[i] = Tail(u)[i]
    BY <1>9
  <2>1. u'[i] = msg'[Place(i)']
    BY <1>3, <1>6 DEF UndeliveredFacts
  <2>2. i + 1 \in 1 .. Count
    BY <1>9
  <2>3. u[i + 1] = msg[Place(i + 1)]
    BY <1>3, <2>2 DEF UndeliveredFacts
  <2> QED BY <1>2, <1>7, <1>12, <2>1, <2>3
<1>14. u' = Tail(u)
  BY <1>9, <1>12, <1>13, SeqEqual
<1> QED BY <1>2, <1>10, <1>11, <1>14 DEF Channel!Receive

\* The end of a list gives its place to the messages that waited behind it.
LEMMA TxNextKeepsQueue ==
    ASSUME IInv, IInv', TxNext PROVE Undelivered' = Undelivered
<1> DEFINE s == send_msg_list
           p == send_pending_list
<1>1. TxHolds
  BY HolderCases
     DEF IInv, TxNext, Holder, NoHolder, IndHolds, RxHolds, ClientHolds,
         DoneHolds
<1>2. UNCHANGED <<msg, DATA_DONE, rx, recv_pending>>
  BY DEF TxNext
<1>3. UndeliveredFacts /\ UndeliveredFacts'
  BY UndeliveredIsQueue, UndeliveredIsQueueNext
<1>4. Unreceived = Len(s) + 1
  BY <1>1 DEF Unreceived, TxHolds
<1>5. CASE tx < Len(s)
  <2>1. tx' = tx + 1 /\ UNCHANGED <<send_msg_list, send_pending_list>>
    BY <1>5 DEF TxNext
  <2>2. Unreceived' = Unreceived
    BY <1>1, <1>4, <2>1 DEF Unreceived, TxHolds, IInv, ChannelTypeOK
  <2> QED BY <1>2, <1>3, <2>1, <2>2, PositionKept
<1>6. CASE ~(tx < Len(s))
  <2>1. tx' = 0 /\ s' = p /\ p' = <<>>
    BY <1>6 DEF TxNext
  <2>2. Unreceived' = 1
    BY <1>1, <1>2, <2>1 DEF Unreceived, TxHolds
  <2>3. Count = Len(p) /\ Count' = Len(p) /\ Len(p) \in Nat
    BY <1>3, <1>4, <2>1, <2>2 DEF Count, UndeliveredFacts
  <2>4. ASSUME NEW i \in 1 .. Count PROVE Place(i)' = Place(i)
    <3>1. Place(i) = p[i]
      BY <1>3, <1>4, <2>3 DEF Place, UndeliveredFacts
    <3>2. Place(i)' = p[i]
      BY <2>1, <2>2, <2>3 DEF Place
    <3> QED BY <3>1, <3>2
  <2> QED BY <1>2, <1>3, <2>3, <2>4, QueueKept
<1> QED BY <1>5, <1>6

LEMMA OthersKeepQueue ==
    ASSUME IInv, IInv',
           TxIrq \/ RxIrq \/ RxPart \/ start_recv \/ stop_recv
             \/ UNCHANGED vars
    PROVE  Undelivered' = Undelivered /\ UNCHANGED received
<1>1. UNCHANGED <<msg, send_msg_list, send_pending_list>> /\ UNCHANGED received
  BY DEF TxIrq, RxIrq, RxPart, start_recv, stop_recv, vars, sender
<1>2. Unreceived' = Unreceived
  <2>1. CASE TxIrq
    BY <1>1, <2>1 DEF TxIrq, Unreceived
  <2>2. CASE RxIrq
    BY <1>1, <2>2 DEF RxIrq, Unreceived
  <2>3. CASE RxPart
    BY <1>1, <2>3 DEF RxPart, Unreceived
  <2>4. CASE start_recv \/ stop_recv \/ UNCHANGED vars
    BY <1>1, <2>4 DEF start_recv, stop_recv, vars, Unreceived
  <2> QED BY <2>1, <2>2, <2>3, <2>4
<1> QED BY <1>1, <1>2, UndeliveredIsQueue, UndeliveredIsQueueNext, PositionKept

\* Every step of the two cores is one of the channel, or none.
LEMMA ChannelStep ==
    ASSUME IInv, IInv', [Next]_vars PROVE [Channel!Next]_Channel!vars
<1>1. CASE \E m \in Msgs : Send(m)
  BY <1>1, SendAccepts DEF Channel!Next
<1>2. CASE RxWhole
  BY <1>2, RxWholeReceives DEF Channel!Next
<1>3. CASE TxNext
  BY <1>3, TxNextKeepsQueue DEF TxNext, Channel!vars
<1>4. CASE TxIrq \/ RxIrq \/ RxPart \/ start_recv \/ stop_recv
             \/ UNCHANGED vars
  BY <1>4, OthersKeepQueue DEF Channel!vars
<1> QED BY <1>1, <1>2, <1>3, <1>4 DEF Next

\* Every message hal_mcu2cp_send accepts is received at most once and in the
\* order of the calls, whatever the cores' interleaving and the number of
\* records.
THEOREM ChannelImplemented == Spec => Channel!Spec
<1>1. IInv /\ IInv' /\ [Next]_vars => [Channel!Next]_Channel!vars
  BY ChannelStep
<1> QED BY <1>1, ChannelInit, Invariance, PTL DEF Spec, Channel!Spec

=============================================================================
