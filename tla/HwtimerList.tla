---------------------------- MODULE HwtimerList ----------------------------
(***************************************************************************)
(* The software timers of utils/hwtimer_list/hwtimer_list.c on the one     *)
(* hardware timer of platform/hal/hal_timer.c.                             *)
(*                                                                         *)
(* Running timers are in a list in the order they are due, each with the   *)
(* time from the one before it; the hardware timer runs for the first.     *)
(* Its interrupt moves those that are due to a second list and calls them  *)
(* one after the other with interrupts enabled.  Every function masks      *)
(* interrupts, and may be called by threads, by the callbacks and by       *)
(* interrupts that preempt the handler.                                    *)
(*                                                                         *)
(* Time is relative: elapsed counts the ticks since the hardware timer was *)
(* last loaded.  A masked section takes no time.                           *)
(***************************************************************************)
EXTENDS Integers, SequencesExt, FiniteSets

CONSTANTS
    Timers,         \* hwtimer_list.timer
    Ticks,          \* the durations timers are started with
    MaxLate         \* bound: for how long the interrupt is held off

ASSUME HwtimerAssumption ==
    /\ IsFiniteSet(Timers)
    /\ Ticks \subseteq Nat
    /\ MaxLate \in Nat

HAL_TIMER_LOAD_DELTA == 1
None == "none"

VARIABLES
    state,          \* the state of each timer
    active,         \* the running timers, each with its time
    fired,          \* the timers that wait for their callback
    enabled,        \* the hardware timer counts
    value,          \* what it was loaded with
    left,           \* ticks until it interrupts
    elapsed,        \* ticks since it was loaded
    pending,        \* its interrupt is pending
    handler,        \* "idle", "entered" or "callback"
    current         \* the timer whose callback runs

hw == <<enabled, value, left, elapsed, pending>>
vars == <<state, active, fired, hw, handler, current>>

-----------------------------------------------------------------------------
(* The list of running timers.                                             *)

Larger(a, b) == IF a >= b THEN a ELSE b
Less(a, b) == IF a > b THEN a - b ELSE 0

Entry(t, ticks) == [timer |-> t, time |-> ticks]

\* The time from the start of list s to its i-th timer.
At(s, i) ==
    LET sum[k \in 0 .. Len(s)] ==
            IF k = 0 THEN 0 ELSE sum[k - 1] + s[k].time
    IN  sum[i]

\* How many timers of s are due within el ticks.
Due(s, el) == Cardinality({i \in DOMAIN s : At(s, i) <= el})

MutSpent(s, el) ==
    [i \in DOMAIN s |-> [s[i] EXCEPT !.time = @ - Less(el, At(s, i - 1))]]

\* List s when el ticks have passed.
Spent(s, el) ==
    [i \in DOMAIN s |->
        [s[i] EXCEPT !.time = Less(@, Less(el, At(s, i - 1)))]]

\* List s with its first timer d ticks further away.
Moved(s, d) == IF s = <<>> THEN s ELSE [s EXCEPT ![1].time = @ + d]

From(s, i) == SubSeq(s, i, Len(s))

-----------------------------------------------------------------------------
(* The hardware timer.                                                     *)

\* hal_timer_start; the timer needs a tick to take the value it is loaded
\* with.
hal_timer_start(load) ==
    LET v == Larger(Less(load, HAL_TIMER_LOAD_DELTA), HAL_TIMER_LOAD_DELTA)
    IN  /\ enabled' = TRUE
        /\ value' = v /\ left' = v + 1
        /\ elapsed' = 0

hal_timer_stop == pending' = FALSE

\* hal_timer_get_raw_value
raw_value == IF left > value THEN value ELSE left

-----------------------------------------------------------------------------
(* The functions of the module.                                            *)

Init ==
    /\ state = [t \in Timers |-> "FREE"]
    /\ active = <<>> /\ fired = <<>>
    /\ enabled = FALSE /\ value = 0 /\ left = 0 /\ elapsed = 0
    /\ pending = FALSE
    /\ handler = "idle" /\ current = None

hwtimer_alloc(t) ==
    /\ state[t] = "FREE"
    /\ state' = [state EXCEPT ![t] = "ALLOC"]
    /\ UNCHANGED <<active, fired, hw, handler, current>>

hwtimer_free(t) ==
    /\ state[t] = "ALLOC"
    /\ state' = [state EXCEPT ![t] = "FREE"]
    /\ UNCHANGED <<active, fired, hw, handler, current>>

\* The first timer of an empty list.
StartFirst(t, ticks) ==
    /\ active = <<>>
    /\ active' = <<Entry(t, ticks)>>
    /\ hal_timer_start(ticks)
    /\ UNCHANGED pending

MutStartBefore(t, ticks) ==
    /\ active # <<>> /\ raw_value > ticks
    /\ active' = <<Entry(t, ticks),
                   [Head(active) EXCEPT !.time = raw_value - ticks]>>
                 \o Tail(active)
    /\ UNCHANGED hw

\* Before the first one, which keeps what the hardware has left.
StartBefore(t, ticks) ==
    /\ active # <<>> /\ raw_value > ticks
    /\ active' = <<Entry(t, ticks),
                   [Head(active) EXCEPT !.time = raw_value - ticks]>>
                 \o Tail(active)
    /\ hal_timer_stop
    /\ hal_timer_start(ticks)

MutStartBehind(t, ticks) ==
    /\ active # <<>> /\ raw_value <= ticks
    /\ LET s == Tail(active)
           rest == ticks - raw_value
           n == Due(s, rest - 1)
           dist == rest - At(s, n)
       IN  active' = <<Head(active)>> \o SubSeq(s, 1, n) \o <<Entry(t, dist)>>
                     \o From(s, n + 1)
    /\ UNCHANGED hw

\* Behind the first one and all those that are due earlier.
StartBehind(t, ticks) ==
    /\ active # <<>> /\ raw_value <= ticks
    /\ LET s == Tail(active)
           rest == ticks - raw_value
           n == Due(s, rest - 1)
           dist == rest - At(s, n)
       IN  active' = <<Head(active)>> \o SubSeq(s, 1, n) \o <<Entry(t, dist)>>
                     \o Moved(From(s, n + 1), -dist)
    /\ UNCHANGED hw

\* __hwtimer_start_int
hwtimer_start(t, d) ==
    LET ticks == Larger(d, HAL_TIMER_LOAD_DELTA)
    IN  /\ state[t] \in {"ALLOC", "CALLBACK"}
        /\ state' = [state EXCEPT ![t] = "ACTIVE"]
        /\ \/ StartFirst(t, ticks)
           \/ StartBefore(t, ticks)
           \/ StartBehind(t, ticks)
        /\ UNCHANGED <<fired, handler, current>>

MutStopFirst(t) ==
    /\ active # <<>> /\ Head(active).timer = t
    /\ hal_timer_stop
    /\ active' = Moved(Tail(active), raw_value)
    /\ enabled' = FALSE
    /\ UNCHANGED <<value, left, elapsed>>

\* The first timer: the next one gets what the hardware has left, or pays
\* for the ticks by which the interrupt is late.
StopFirst(t) ==
    /\ active # <<>> /\ Head(active).timer = t
    /\ hal_timer_stop
    /\ LET s == Tail(active)
       IN  IF s = <<>>
           THEN /\ active' = s
                /\ enabled' = FALSE
                /\ UNCHANGED <<value, left, elapsed>>
           ELSE /\ active' = IF raw_value = 0
                             THEN Spent(s, Less(elapsed, Head(active).time))
                             ELSE Moved(s, raw_value)
                /\ hal_timer_start(Head(active').time)

StopBehind(t) ==
    \E i \in 2 .. Len(active) :
        /\ active[i].timer = t
        /\ active' = SubSeq(active, 1, i - 1)
                     \o Moved(From(active, i + 1), active[i].time)
        /\ UNCHANGED hw

\* hwtimer_stop; it refuses a timer whose callback runs.
hwtimer_stop(t) ==
    /\ \/ /\ state[t] = "ACTIVE"
          /\ StopFirst(t) \/ StopBehind(t)
          /\ UNCHANGED fired
       \/ /\ state[t] = "FIRED"
          /\ \E i \in DOMAIN fired :
              fired[i] = t /\ fired' = RemoveAt(fired, i)
          /\ UNCHANGED <<active, hw>>
    /\ state' = [state EXCEPT ![t] = "ALLOC"]
    /\ UNCHANGED <<handler, current>>

-----------------------------------------------------------------------------
(* The interrupt.                                                          *)

\* The hardware counts; its interrupt is held off for a while at most.
Tick ==
    /\ enabled /\ active # <<>>
    /\ left > 0 \/ elapsed < Head(active).time + MaxLate
    /\ left' = Less(left, 1)
    /\ elapsed' = elapsed + 1
    /\ pending' = (pending \/ left = 1)
    /\ UNCHANGED <<state, active, fired, enabled, value, handler, current>>

\* hal_timer_common_irq_handler clears the interrupt.
Interrupt ==
    /\ pending /\ handler = "idle"
    /\ pending' = FALSE
    /\ handler' = "entered"
    /\ UNCHANGED <<state, active, fired, enabled, value, left, elapsed,
                   current>>

\* The callback of the first of the timers fd begins, or the handler returns.
CallNext(fd, st) ==
    IF fd = <<>>
    THEN /\ fired' = fd /\ state' = st
         /\ handler' = "idle" /\ current' = None
    ELSE /\ fired' = Tail(fd)
         /\ state' = [st EXCEPT ![Head(fd)] = "CALLBACK"]
         /\ handler' = "callback" /\ current' = Head(fd)

MutNothingDue == active = <<>>

NothingDue ==
    IF active = <<>> THEN TRUE
    ELSE Head(active).time > elapsed + HAL_TIMER_LOAD_DELTA

\* The timer the interrupt was for has been stopped.
HandlerReturns ==
    /\ handler = "entered" /\ NothingDue
    /\ handler' = "idle"
    /\ UNCHANGED <<state, active, fired, hw, current>>

HandlerFires ==
    /\ handler = "entered" /\ ~NothingDue
    /\ LET el == Less(elapsed, Head(active).time)
           s == Spent(Tail(active), el)
           n == Due(Tail(active), el)
           first == [i \in 1 .. n + 1 |-> active[i].timer]
       IN  /\ active' = From(s, n + 1)
           /\ IF n < Len(s)
              THEN hal_timer_start(s[n + 1].time) /\ UNCHANGED pending
              ELSE /\ hal_timer_stop
                   /\ enabled' = FALSE
                   /\ UNCHANGED <<value, left, elapsed>>
           /\ CallNext(first, [t \in Timers |->
                  IF Contains(first, t) THEN "FIRED" ELSE state[t]])

MutCallbackReturns ==
    /\ handler = "callback"
    /\ CallNext(fired, [state EXCEPT ![current] = "ALLOC"])
    /\ UNCHANGED <<active, hw>>

\* The callback is over; it may have started its timer again.
CallbackReturns ==
    /\ handler = "callback"
    /\ CallNext(fired, IF state[current] = "CALLBACK"
                       THEN [state EXCEPT ![current] = "ALLOC"] ELSE state)
    /\ UNCHANGED <<active, hw>>

hwtimer_handler == HandlerReturns \/ HandlerFires \/ CallbackReturns

Client(t) ==
    \/ hwtimer_alloc(t)
    \/ hwtimer_free(t)
    \/ \E d \in Ticks : hwtimer_start(t, d)
    \/ hwtimer_stop(t)

Next == Tick \/ Interrupt \/ hwtimer_handler \/ \E t \in Timers : Client(t)

Spec == Init /\ [][Next]_vars

\* Time passes, interrupts are taken and callbacks return.
LiveSpec ==
    Spec /\ WF_vars(Tick) /\ WF_vars(Interrupt) /\ WF_vars(hwtimer_handler)

-----------------------------------------------------------------------------
(* Properties.                                                             *)

Running == {active[i].timer : i \in DOMAIN active}

HwTypeOK ==
    /\ state \in [Timers -> {"FREE", "ALLOC", "ACTIVE", "FIRED", "CALLBACK"}]
    /\ \A i \in DOMAIN active :
        active[i].timer \in Timers /\ active[i].time \in Nat
    /\ fired \in Seq(Timers)
    /\ enabled \in BOOLEAN /\ pending \in BOOLEAN
    /\ value \in Nat /\ left \in Nat /\ elapsed \in Nat
    /\ handler \in {"idle", "entered", "callback"}
    /\ current \in Timers \cup {None}

\* What a timer's state says and the list it is in agree, whoever preempted
\* whom: no timer is in a list twice or in two lists, none is lost from its
\* list, and none is in a callback but the one that is called.
ListsMatchStates ==
    /\ Len(active) = Cardinality(Running) /\ IsInjective(fired)
    /\ \A t \in Timers :
        /\ state[t] = "ACTIVE" <=> t \in Running
        /\ state[t] = "FIRED" <=> Contains(fired, t)
        /\ state[t] = "CALLBACK" => handler = "callback" /\ current = t

\* The ASSERTs "HWTIMER collapsed", "HWTIMER-START collapsed" and
\* "HWTIMER-STOP collapsed": the list and the hardware timer agree whenever a
\* function is called or the interrupt is taken.
NoCollapse ==
    /\ active # <<>> =>
        /\ raw_value <= Head(active).time \/ raw_value <= HAL_TIMER_LOAD_DELTA
        /\ raw_value = 0 => elapsed + HAL_TIMER_LOAD_DELTA >= Head(active).time
    /\ handler = "entered" /\ NothingDue => enabled = (active # <<>>)

\* While timers run an interrupt is on its way, and it comes when the first
\* of them is due or a tick or two later.
InterruptArmed ==
    active # <<>> =>
        /\ enabled
        /\ left = 0 => pending \/ handler = "entered"
        /\ left <= Larger(Less(Head(active).time, elapsed),
                          HAL_TIMER_LOAD_DELTA + 1)

\* In how many ticks a running timer is due; a late interrupt makes it
\* negative.
Remaining(t) ==
    At(active, CHOOSE i \in DOMAIN active : active[i].timer = t) - elapsed

\* Starting, stopping and firing one timer moves the others by a tick or two,
\* for the hardware to load, and all of them alike, but for those that are due
\* anyhow.
OthersKeepTime ==
    [][ ~Tick =>
        \E d \in -1 .. 2 : \A t \in Running \cap Running' :
            \/ Remaining(t)' = Remaining(t) + d
            \/ Remaining(t) <= 1 /\ Remaining(t)' <= 1 ]_vars

\* By how many ticks the interrupt is late.
Late == IF active = <<>> THEN 0 ELSE Less(elapsed, Head(active).time)

\* A timer is due as many ticks after its start as it was started with, within
\* a tick and early by no more than the interrupt is late, and it is called
\* when it is due.
CalledInTime ==
    [][ /\ \A t \in Timers, d \in Ticks :
            hwtimer_start(t, d) =>
                Remaining(t)' \in d - 1 - Late .. Larger(d, 1) + 1
        /\ \A t \in Running \ Running' :
            state'[t] \in {"FIRED", "CALLBACK"} => Remaining(t) <= 1 ]_vars

\* Every timer that was started is called or stopped, however often others
\* are started before it, when the callers leave off stopping timers: a stop
\* may put the interrupt off by the tick the hardware takes to load.
TimersFire ==
    <>[][ ~\E t \in Timers : hwtimer_stop(t) ]_vars =>
    \A t \in Timers :
        state[t] \in {"ACTIVE", "FIRED"} ~> state[t] \notin {"ACTIVE", "FIRED"}

=============================================================================
