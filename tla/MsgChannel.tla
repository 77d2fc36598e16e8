----------------------------- MODULE MsgChannel -----------------------------
(***************************************************************************)
(* What platform/hal/hal_mcu2cp.c promises the two cores about one         *)
(* direction of a channel: every message that was accepted is received     *)
(* once, in the order in which they were accepted, and not forgotten.      *)
(***************************************************************************)
EXTENDS Sequences, Naturals

CONSTANT Msgs       \* what can be sent

VARIABLES
    queue,          \* the messages accepted and not yet received
    received        \* the last one received; turn tells two equal ones apart

vars == <<queue, received>>

Init ==
    /\ queue = <<>>
    /\ \E m \in Msgs : received = [msg |-> m, turn |-> 0]

Accept(m) ==
    /\ queue' = Append(queue, m)
    /\ UNCHANGED received

Receive ==
    /\ queue # <<>>
    /\ received' = [msg |-> Head(queue), turn |-> 1 - received.turn]
    /\ queue' = Tail(queue)

Next == Receive \/ \E m \in Msgs : Accept(m)

Spec == Init /\ [][Next]_vars

LiveSpec == Spec /\ WF_vars(Receive)

=============================================================================
