------------------------- MODULE HwtimerListProofs -------------------------
(***************************************************************************)
(* Proofs about HwtimerList for any timers, durations and lateness of the  *)
(* interrupt.  The lists and the timers' states agree, whatever preempts   *)
(* whom; the hardware timer runs for the first timer of the list; and the  *)
(* timers keep their times while others are started, stopped and fired.    *)
(*                                                                         *)
(* The times in the list are differences.  What their sums are is shown by *)
(* minimal counterexamples: an operator cannot be given to the provers, so *)
(* that each induction names the set of the numbers it would fail for.     *)
(***************************************************************************)
EXTENDS HwtimerList, SequenceTheorems, FiniteSetTheorems,
        FunctionTheorems, WellFoundedInduction, TLAPS

States == {"FREE", "ALLOC", "ACTIVE", "FIRED", "CALLBACK"}

\* s is a list of timers with times of some kind.
Entries(X) == [timer : Timers, time : X]
IsList(s) == \E X : s \in Seq(Entries(X))

\* The timers of list s, and that each is in it once.
In(s) == {s[i].timer : i \in 1 .. Len(s)}
Once(s) == \A i, j \in 1 .. Len(s) : s[i].timer = s[j].timer => i = j

IInv ==
    /\ state \in [Timers -> States]
    /\ IsList(active) /\ Once(active)
    /\ fired \in Seq(Timers) /\ IsInjective(fired)
    /\ handler \in {"idle", "entered", "callback"}
    /\ handler = "callback" => current \in Timers
    /\ handler # "callback" => fired = <<>>
    /\ \A t \in Timers :
        /\ state[t] = "ACTIVE" <=> t \in In(active)
        /\ state[t] = "FIRED" <=> Contains(fired, t)
        /\ state[t] = "CALLBACK" => handler = "callback" /\ current = t

-----------------------------------------------------------------------------
(* Lists.                                                                  *)

LEMMA ListFacts ==
    ASSUME NEW s, IsList(s)
    PROVE  /\ Len(s) \in Nat /\ DOMAIN s = 1 .. Len(s)
           /\ \A i \in 1 .. Len(s) : s[i].timer \in Timers
<1>1. PICK X : s \in Seq(Entries(X))
  BY DEF IsList
<1>2. /\ Len(s) \in Nat /\ DOMAIN s = 1 .. Len(s)
      /\ \A i \in 1 .. Len(s) : s[i] \in Entries(X)
  BY <1>1, LenProperties, ElementOfSeq
<1> QED BY <1>2 DEF Entries

LEMMA EmptyList == IsList(<<>>)
<1>1. <<>> \in Seq(Entries({}))
  BY EmptySeq
<1> QED BY <1>1 DEF IsList

LEMMA OneList ==
    ASSUME NEW t \in Timers, NEW x
    PROVE  LET s == <<Entry(t, x)>>
           IN  IsList(s) /\ Len(s) = 1 /\ s[1].timer = t /\ s[1].time = x
<1>1. Entry(t, x) \in Entries({x})
  BY DEF Entry, Entries
<1>2. <<Entry(t, x)>> \in Seq(Entries({x}))
  BY <1>1
<1> QED BY <1>2 DEF IsList, Entry

\* Changing the time of an entry leaves an entry of the same timer.
LEMMA EntryExcept ==
    ASSUME NEW X, NEW e \in Entries(X), NEW x
    PROVE  /\ [e EXCEPT !.time = x] \in Entries({x})
           /\ [e EXCEPT !.time = x].timer = e.timer
           /\ [e EXCEPT !.time = x].time = x
BY DEF Entries

LEMMA ConcatList ==
    ASSUME NEW s, IsList(s), NEW u, IsList(u)
    PROVE  /\ IsList(s \o u) /\ Len(s \o u) = Len(s) + Len(u)
           /\ \A i \in 1 .. Len(s) + Len(u) :
                (s \o u)[i] = IF i <= Len(s) THEN s[i] ELSE u[i - Len(s)]
<1>1. PICK X : s \in Seq(Entries(X))
  BY DEF IsList
<1>2. PICK Y : u \in Seq(Entries(Y))
  BY DEF IsList
<1> DEFINE Z == Entries(X \cup Y)
<1>3. Entries(X) \subseteq Z /\ Entries(Y) \subseteq Z
  BY DEF Entries
<1>4. s \in Seq(Z) /\ u \in Seq(Z)
  BY <1>1, <1>2, <1>3, SeqMonotonic
<1> HIDE DEF Z
<1>5. /\ s \o u \in Seq(Z) /\ Len(s \o u) = Len(s) + Len(u)
      /\ \A i \in 1 .. Len(s) + Len(u) :
           (s \o u)[i] = IF i <= Len(s) THEN s[i] ELSE u[i - Len(s)]
  BY <1>4, ConcatProperties
<1> QED BY <1>5 DEF IsList, Z

LEMMA SubList ==
    ASSUME NEW s, IsList(s), NEW m \in Nat \ {0}, NEW n \in Nat, n <= Len(s)
    PROVE  /\ IsList(SubSeq(s, m, n))
           /\ Len(SubSeq(s, m, n)) = IF m <= n THEN n - m + 1 ELSE 0
           /\ \A i \in 1 .. n - m + 1 : SubSeq(s, m, n)[i] = s[m + i - 1]
<1>1. PICK X : s \in Seq(Entries(X))
  BY DEF IsList
<1> DEFINE E == Entries(X)
<1>2. \A i \in m .. n : s[i] \in E
  BY <1>1, ElementOfSeq, LenProperties
<1> HIDE DEF E
<1>3. /\ SubSeq(s, m, n) \in Seq(E)
      /\ Len(SubSeq(s, m, n)) = IF m <= n THEN n - m + 1 ELSE 0
      /\ \A i \in 1 .. n - m + 1 : SubSeq(s, m, n)[i] = s[m + i - 1]
  BY <1>2, SubSeqProperties
<1> QED BY <1>3 DEF IsList, E

LEMMA UpToList ==
    ASSUME NEW s, IsList(s), NEW n \in Nat, n <= Len(s)
    PROVE  /\ IsList(SubSeq(s, 1, n)) /\ Len(SubSeq(s, 1, n)) = n
           /\ \A i \in 1 .. n : SubSeq(s, 1, n)[i] = s[i]
<1> DEFINE u == SubSeq(s, 1, n)
<1>1. 1 \in Nat \ {0}
  OBVIOUS
<1>2. /\ IsList(u) /\ Len(u) = IF 1 <= n THEN n - 1 + 1 ELSE 0
      /\ \A i \in 1 .. n - 1 + 1 : u[i] = s[1 + i - 1]
  BY <1>1, SubList
<1> HIDE DEF u
<1>3. Len(u) = n
  BY <1>2
<1>4. \A i \in 1 .. n : u[i] = s[i]
  BY <1>2
<1> QED BY <1>2, <1>3, <1>4 DEF u

LEMMA FromList ==
    ASSUME NEW s, IsList(s), NEW n \in Nat, n <= Len(s)
    PROVE  /\ IsList(From(s, n + 1)) /\ Len(From(s, n + 1)) = Len(s) - n
           /\ \A i \in 1 .. Len(s) - n : From(s, n + 1)[i] = s[n + i]
<1> DEFINE k == n + 1
<1>1. k \in Nat \ {0} /\ Len(s) \in Nat /\ Len(s) <= Len(s)
  BY ListFacts
<1> HIDE DEF k
<1>2. /\ IsList(SubSeq(s, k, Len(s)))
      /\ Len(SubSeq(s, k, Len(s))) = IF k <= Len(s) THEN Len(s) - k + 1 ELSE 0
      /\ \A i \in 1 .. Len(s) - k + 1 : SubSeq(s, k, Len(s))[i] = s[k + i - 1]
  BY <1>1, SubList
<1>3. From(s, n + 1) = SubSeq(s, k, Len(s))
  BY DEF From, k
<1>4. \A i \in 1 .. Len(s) - n : i \in 1 .. Len(s) - k + 1 /\ k + i - 1 = n + i
  BY <1>1 DEF k
<1>5. (IF k <= Len(s) THEN Len(s) - k + 1 ELSE 0) = Len(s) - n
  BY <1>1 DEF k
<1> QED BY <1>2, <1>3, <1>4, <1>5

LEMMA TailList ==
    ASSUME NEW s, IsList(s), s # <<>>
    PROVE  /\ IsList(Tail(s)) /\ Len(Tail(s)) = Len(s) - 1 /\ Len(s) >= 1
           /\ \A i \in 1 .. Len(s) - 1 : Tail(s)[i] = s[i + 1]
           /\ Head(s) = s[1]
<1>1. PICK X : s \in Seq(Entries(X))
  BY DEF IsList
<1> DEFINE E == Entries(X)
<1> HIDE DEF E
<1>2. s \in Seq(E)
  BY <1>1 DEF E
<1>3. /\ Tail(s) \in Seq(E) /\ Len(Tail(s)) = Len(s) - 1
      /\ \A i \in 1 .. Len(Tail(s)) : Tail(s)[i] = s[i + 1]
      /\ Len(s) \in Nat \ {0}
  BY <1>2, HeadTailProperties, EmptySeq
<1> QED BY <1>3 DEF IsList, E

SameTimers(s, u) ==
    Len(u) = Len(s) /\ \A i \in 1 .. Len(s) : u[i].timer = s[i].timer

\* Every entry of a list changed in its time only.
LEMMA TimesChanged ==
    ASSUME NEW s, IsList(s), NEW x, NEW u,
           u = [i \in 1 .. Len(s) |-> [s[i] EXCEPT !.time = x[i]]]
    PROVE  /\ IsList(u) /\ SameTimers(s, u)
           /\ \A i \in 1 .. Len(s) : u[i].time = x[i]
<1>1. PICK X : s \in Seq(Entries(X))
  BY DEF IsList
<1>2. Len(s) \in Nat /\ \A i \in 1 .. Len(s) : s[i] \in Entries(X)
  BY <1>1, LenProperties, ElementOfSeq
<1> DEFINE Y == {x[i] : i \in 1 .. Len(s)}
<1>3. \A i \in 1 .. Len(s) :
          /\ u[i] \in Entries({x[i]})
          /\ u[i].timer = s[i].timer /\ u[i].time = x[i]
  <2> SUFFICES ASSUME NEW i \in 1 .. Len(s)
               PROVE  /\ u[i] \in Entries({x[i]})
                      /\ u[i].timer = s[i].timer /\ u[i].time = x[i]
    OBVIOUS
  <2>1. s[i] \in Entries(X)
    BY <1>2
  <2>2. u[i] = [s[i] EXCEPT !.time = x[i]]
    OBVIOUS
  <2>3. /\ [s[i] EXCEPT !.time = x[i]] \in Entries({x[i]})
        /\ [s[i] EXCEPT !.time = x[i]].timer = s[i].timer
        /\ [s[i] EXCEPT !.time = x[i]].time = x[i]
    BY <2>1, EntryExcept
  <2> QED BY <2>2, <2>3
<1>4. \A i \in 1 .. Len(s) : u[i] \in Entries(Y)
  BY <1>3 DEF Entries
<1>5. u \in [1 .. Len(s) -> Entries(Y)]
  BY <1>4
<1> HIDE DEF Y
<1>6. u \in Seq(Entries(Y))
  BY <1>2, <1>5, SeqDef
<1>7. Len(u) = Len(s)
  BY <1>2, <1>5, <1>6, LenProperties
<1> QED BY <1>3, <1>6, <1>7 DEF IsList, SameTimers

LEMMA MovedList ==
    ASSUME NEW s, IsList(s), NEW d
    PROVE  /\ IsList(Moved(s, d)) /\ SameTimers(s, Moved(s, d))
           /\ \A i \in 1 .. Len(s) :
                Moved(s, d)[i].time = IF i = 1 THEN s[1].time + d
                                      ELSE s[i].time
<1>1. CASE s = <<>>
  <2>1. Len(s) = 0 /\ Moved(s, d) = s
    BY <1>1, EmptySeq DEF Moved
  <2> QED BY <2>1 DEF SameTimers
<1>2. CASE s # <<>>
  <2>1. PICK X : s \in Seq(Entries(X))
    BY DEF IsList
  <2>2. /\ Len(s) \in Nat /\ 1 \in 1 .. Len(s)
        /\ \A i \in 1 .. Len(s) : s[i] \in Entries(X)
    BY <1>2, <2>1, EmptySeq, LenProperties, ElementOfSeq
  <2> DEFINE e == [s[1] EXCEPT !.time = @ + d]
             x == s[1].time + d
             E == Entries(X \cup {x})
             u == [s EXCEPT ![1] = e]
  <2>3. e \in E /\ e.timer = s[1].timer /\ e.time = x
    <3>1. e = [s[1] EXCEPT !.time = x]
      OBVIOUS
    <3>2. /\ [s[1] EXCEPT !.time = x] \in Entries({x})
          /\ [s[1] EXCEPT !.time = x].timer = s[1].timer
          /\ [s[1] EXCEPT !.time = x].time = x
      BY <2>2, EntryExcept
    <3> QED BY <3>1, <3>2 DEF Entries
  <2>4. s \in Seq(E)
    <3>1. Entries(X) \subseteq E
      BY DEF Entries
    <3> QED BY <2>1, <3>1, SeqMonotonic
  <2> HIDE DEF E, e
  <2>5. /\ u \in Seq(E) /\ Len(u) = Len(s)
        /\ \A j \in 1 .. Len(s) : u[j] = IF j = 1 THEN e ELSE s[j]
    BY <2>2, <2>3, <2>4, ExceptSeq
  <2>6. Moved(s, d) = u
    BY <1>2 DEF Moved, e
  <2>7. IsList(u)
    BY <2>5 DEF IsList, E
  <2>8. SameTimers(s, u)
    BY <2>3, <2>5 DEF SameTimers
  <2>9. \A i \in 1 .. Len(s) :
            u[i].time = IF i = 1 THEN s[1].time + d ELSE s[i].time
    BY <2>3, <2>5
  <2> QED BY <2>6, <2>7, <2>8, <2>9
<1> QED BY <1>1, <1>2

LEMMA SpentList ==
    ASSUME NEW s, IsList(s), NEW el
    PROVE  /\ IsList(Spent(s, el)) /\ SameTimers(s, Spent(s, el))
           /\ \A i \in 1 .. Len(s) :
                Spent(s, el)[i].time = Less(s[i].time, Less(el, At(s, i - 1)))
<1> DEFINE x == [i \in 1 .. Len(s) |->
                    Less(s[i].time, Less(el, At(s, i - 1)))]
<1>1. DOMAIN s = 1 .. Len(s)
  BY ListFacts
<1>2. Spent(s, el) = [i \in 1 .. Len(s) |-> [s[i] EXCEPT !.time = x[i]]]
  BY <1>1 DEF Spent
<1>3. \A i \in 1 .. Len(s) : x[i] = Less(s[i].time, Less(el, At(s, i - 1)))
  OBVIOUS
<1> DEFINE u == Spent(s, el)
<1> HIDE DEF x, u
<1>4. u = [i \in 1 .. Len(s) |-> [s[i] EXCEPT !.time = x[i]]]
  BY <1>2 DEF u
<1>5. IsList(u) /\ SameTimers(s, u)
  BY <1>4, TimesChanged
<1>6. \A i \in 1 .. Len(s) : u[i].time = x[i]
  BY <1>4, TimesChanged
<1> QED BY <1>3, <1>5, <1>6 DEF u

LEMMA DueInList ==
    ASSUME NEW s, IsList(s), NEW el PROVE Due(s, el) \in 0 .. Len(s)
<1> DEFINE d == {i \in DOMAIN s : At(s, i) <= el}
<1>1. Len(s) \in Nat /\ DOMAIN s = 1 .. Len(s)
  BY ListFacts
<1>2. /\ IsFiniteSet(1 .. Len(s))
      /\ Cardinality(1 .. Len(s)) = Len(s)
  <2>1. 1 \in Int /\ Len(s) \in Int
    BY <1>1
  <2>2. /\ IsFiniteSet(1 .. Len(s))
        /\ Cardinality(1 .. Len(s)) = IF 1 <= Len(s) THEN Len(s) - 1 + 1 ELSE 0
    BY ONLY <2>1, FS_Interval
  <2>3. (IF 1 <= Len(s) THEN Len(s) - 1 + 1 ELSE 0) = Len(s)
    BY <1>1
  <2> QED BY <2>2, <2>3
<1>3. d \subseteq 1 .. Len(s)
  BY <1>1
<1> HIDE DEF d
<1>4. Cardinality(d) <= Len(s) /\ IsFiniteSet(d)
  BY <1>2, <1>3, FS_Subset
<1>5. Cardinality(d) \in Nat
  BY <1>4, FS_CardinalityType
<1>6. Due(s, el) = Cardinality(d)
  BY DEF Due, d
<1> QED BY <1>1, <1>4, <1>5, <1>6

-----------------------------------------------------------------------------
(* Putting a timer into a list and taking one out.                         *)

\* List u is list s with timer t before its k-th.
Inserted(s, u, k, t) ==
    /\ Len(u) = Len(s) + 1 /\ k \in 1 .. Len(s) + 1
    /\ \A i \in 1 .. Len(u) :
        u[i].timer = IF i < k THEN s[i].timer
                     ELSE IF i = k THEN t ELSE s[i - 1].timer

\* List u is list s without its k-th timer.
Removed(s, u, k) ==
    /\ Len(u) = Len(s) - 1 /\ k \in 1 .. Len(s)
    /\ \A i \in 1 .. Len(u) :
        u[i].timer = IF i < k THEN s[i].timer ELSE s[i + 1].timer

LEMMA InsertOnce ==
    ASSUME NEW s, IsList(s), Once(s), NEW u, NEW k, NEW t,
           Inserted(s, u, k, t), t \notin In(s)
    PROVE  Once(u) /\ In(u) = In(s) \cup {t}
<1>1. Len(s) \in Nat
  BY ListFacts
<1> DEFINE n == Len(s)
<1>2. /\ Len(u) = n + 1 /\ k \in 1 .. n + 1
      /\ \A i \in 1 .. n + 1 :
          u[i].timer = IF i < k THEN s[i].timer
                       ELSE IF i = k THEN t ELSE s[i - 1].timer
  BY DEF Inserted
<1>3. \A i \in 1 .. n : s[i].timer # t
  BY DEF In
<1>4. \A i \in 1 .. n + 1 : i # k => IF i < k THEN i \in 1 .. n
                                     ELSE i - 1 \in 1 .. n
  BY <1>1, <1>2
<1>5. Once(u)
  <2> SUFFICES ASSUME NEW i \in 1 .. n + 1, NEW j \in 1 .. n + 1,
                      u[i].timer = u[j].timer
               PROVE  i = j
    BY <1>2 DEF Once
  <2>1. CASE i = k \/ j = k
    BY <1>2, <1>3, <1>4, <2>1
  <2>2. CASE i # k /\ j # k
    <3> DEFINE a == IF i < k THEN i ELSE i - 1
               b == IF j < k THEN j ELSE j - 1
    <3>1. a \in 1 .. n /\ b \in 1 .. n
      BY <1>4, <2>2
    <3>2. s[a].timer = s[b].timer
      BY <1>2, <2>2
    <3>3. a = b
      BY <3>1, <3>2 DEF Once
    <3> QED BY <1>1, <1>2, <2>2, <3>3
  <2> QED BY <2>1, <2>2
<1>6. \A q \in In(s) : q \in In(u)
  <2> SUFFICES ASSUME NEW j \in 1 .. n PROVE s[j].timer \in In(u)
    BY DEF In
  <2>1. CASE j < k
    <3>1. j \in 1 .. n + 1 /\ u[j].timer = s[j].timer
      BY <1>1, <1>2, <2>1
    <3> QED BY <1>2, <3>1 DEF In
  <2>2. CASE ~(j < k)
    <3>1. j + 1 \in 1 .. n + 1 /\ ~(j + 1 < k) /\ j + 1 # k /\ j + 1 - 1 = j
      BY <1>1, <1>2, <2>2
    <3>2. u[j + 1].timer = s[j].timer
      BY <1>2, <3>1
    <3> QED BY <1>2, <3>1, <3>2 DEF In
  <2> QED BY <2>1, <2>2
<1>7. t \in In(u)
  BY <1>1, <1>2 DEF In
<1>8. \A q \in In(u) : q \in In(s) \cup {t}
  BY <1>1, <1>2, <1>4 DEF In
<1> QED BY <1>5, <1>6, <1>7, <1>8

LEMMA RemoveOnce ==
    ASSUME NEW s, IsList(s), Once(s), NEW u, NEW k, Removed(s, u, k)
    PROVE  Once(u) /\ In(u) = In(s) \ {s[k].timer}
<1>1. Len(s) \in Nat
  BY ListFacts
<1> DEFINE n == Len(s)
<1>2. /\ Len(u) = n - 1 /\ k \in 1 .. n
      /\ \A i \in 1 .. n - 1 :
          u[i].timer = IF i < k THEN s[i].timer ELSE s[i + 1].timer
  BY DEF Removed
<1>3. \A i, j \in 1 .. n : s[i].timer = s[j].timer => i = j
  BY DEF Once
<1>4. Once(u)
  <2> SUFFICES ASSUME NEW i \in 1 .. n - 1, NEW j \in 1 .. n - 1,
                      u[i].timer = u[j].timer
               PROVE  i = j
    BY <1>2 DEF Once
  <2> DEFINE a == IF i < k THEN i ELSE i + 1
             b == IF j < k THEN j ELSE j + 1
  <2>1. a \in 1 .. n /\ b \in 1 .. n
    BY <1>1, <1>2
  <2>2. s[a].timer = s[b].timer
    BY <1>2
  <2>3. a = b
    BY <1>3, <2>1, <2>2
  <2> QED BY <1>1, <1>2, <2>3
<1>5. \A q \in In(u) : q \in In(s) \ {s[k].timer}
  <2> SUFFICES ASSUME NEW i \in 1 .. n - 1
               PROVE  u[i].timer \in In(s) \ {s[k].timer}
    BY <1>2 DEF In
  <2> DEFINE a == IF i < k THEN i ELSE i + 1
  <2>1. a \in 1 .. n /\ a # k
    BY <1>1, <1>2
  <2>2. u[i].timer = s[a].timer
    BY <1>2
  <2> QED BY <1>2, <1>3, <2>1, <2>2 DEF In
<1>6. \A q \in In(s) \ {s[k].timer} : q \in In(u)
  <2> SUFFICES ASSUME NEW j \in 1 .. n, j # k PROVE s[j].timer \in In(u)
    BY DEF In
  <2> DEFINE i == IF j < k THEN j ELSE j - 1
  <2>1. /\ i \in 1 .. n - 1
        /\ (IF i < k THEN i ELSE i + 1) = j
    BY <1>1, <1>2
  <2>2. u[i].timer = s[j].timer
    BY <1>2, <2>1
  <2> QED BY <1>2, <2>1, <2>2 DEF In
<1> QED BY <1>4, <1>5, <1>6

\* Wherever hwtimer_start puts the timer, the others stay in their order.
LEMMA BeforeInserts ==
    ASSUME IsList(active), NEW t \in Timers, NEW ticks, StartBefore(t, ticks)
    PROVE  /\ IsList(active') /\ Inserted(active, active', 1, t)
           /\ active'[1].time = ticks
           /\ active'[2].time = raw_value - ticks
           /\ \A i \in 2 .. Len(active) : active'[i + 1] = active[i]
<1> DEFINE s == active
           x == raw_value - ticks
           a == Entry(t, ticks)
           b == [Head(s) EXCEPT !.time = x]
           front == <<a, b>>
<1>0. Len(s) \in Nat
  BY ListFacts
<1>1. s # <<>> /\ s' = front \o Tail(s)
  BY DEF StartBefore
<1>2. /\ IsList(Tail(s)) /\ Len(Tail(s)) = Len(s) - 1 /\ Len(s) >= 1
      /\ \A i \in 1 .. Len(s) - 1 : Tail(s)[i] = s[i + 1]
      /\ Head(s) = s[1]
  BY <1>1, TailList
<1>3. PICK X : s \in Seq(Entries(X))
  BY DEF IsList
<1>4. Head(s) \in Entries(X)
  BY <1>0, <1>2, <1>3, ElementOfSeq
<1>5. b \in Entries({x}) /\ b.timer = s[1].timer /\ b.time = x
  <2>1. /\ b \in Entries({x}) /\ b.timer = Head(s).timer
        /\ b.time = x
    <3> HIDE DEF x
    <3> QED BY <1>4, EntryExcept
  <2> QED BY <1>2, <2>1
<1>6. /\ a \in Entries({ticks, x}) /\ b \in Entries({ticks, x})
      /\ a.timer = t /\ a.time = ticks
  BY <1>5 DEF Entries, Entry
<1> HIDE DEF a, b
<1>7. front \in Seq(Entries({ticks, x})) /\ Len(front) = 2
      /\ front[1] = a /\ front[2] = b
  BY <1>6
<1>8. IsList(front)
  BY <1>7 DEF IsList
<1> HIDE DEF front
<1>9. /\ IsList(s') /\ Len(s') = 2 + (Len(s) - 1)
      /\ \A i \in 1 .. 2 + (Len(s) - 1) :
           s'[i] = IF i <= 2 THEN front[i] ELSE Tail(s)[i - 2]
  <2> DEFINE r == Tail(s)
  <2> HIDE DEF r
  <2>1. IsList(r)
    BY <1>2 DEF r
  <2>2. /\ IsList(front \o r) /\ Len(front \o r) = Len(front) + Len(r)
        /\ \A i \in 1 .. Len(front) + Len(r) :
             (front \o r)[i] = IF i <= Len(front) THEN front[i]
                               ELSE r[i - Len(front)]
    BY ONLY <1>8, <2>1, ConcatList
  <2>3. s' = front \o r
    BY <1>1 DEF r
  <2>4. Len(front) = 2 /\ Len(r) = Len(s) - 1
    BY <1>2, <1>7 DEF r
  <2> QED BY <2>2, <2>3, <2>4 DEF r
<1>10. \A i \in 1 .. Len(s) + 1 :
           s'[i].timer = IF i = 1 THEN t ELSE s[i - 1].timer
  <2> SUFFICES ASSUME NEW i \in 1 .. Len(s) + 1
               PROVE  s'[i].timer = IF i = 1 THEN t ELSE s[i - 1].timer
    OBVIOUS
  <2>1. CASE i <= 2
    <3>1. i = 1 \/ i = 2
      BY <2>1
    <3>2. s'[i] = front[i]
      BY <1>0, <1>9, <2>1
    <3> QED BY <1>5, <1>6, <1>7, <3>1, <3>2
  <2>2. CASE ~(i <= 2)
    <3>1. i - 2 \in 1 .. Len(s) - 1 /\ i - 2 + 1 = i - 1
      BY <1>0, <2>2
    <3>2. s'[i] = Tail(s)[i - 2]
      BY <1>0, <1>9, <2>2
    <3> QED BY <1>2, <2>2, <3>1, <3>2
  <2> QED BY <2>1, <2>2
<1>11. Inserted(s, s', 1, t)
  BY <1>0, <1>2, <1>9, <1>10 DEF Inserted
<1>12. s'[1] = a /\ s'[2] = b
  BY <1>0, <1>2, <1>7, <1>9
<1>13. \A i \in 2 .. Len(s) : s'[i + 1] = s[i]
  <2> SUFFICES ASSUME NEW i \in 2 .. Len(s) PROVE s'[i + 1] = s[i]
    OBVIOUS
  <2>1. /\ i - 1 \in 1 .. Len(s) - 1 /\ i - 1 + 1 = i /\ i + 1 - 2 = i - 1
        /\ i + 1 \in 1 .. 2 + (Len(s) - 1) /\ ~(i + 1 <= 2)
    BY <1>0
  <2>2. s'[i + 1] = Tail(s)[i - 1]
    BY <1>9, <2>1
  <2> QED BY <1>2, <2>1, <2>2
<1> QED BY <1>5, <1>6, <1>9, <1>11, <1>12, <1>13

LEMMA BehindInserts ==
    ASSUME IsList(active), NEW t \in Timers, NEW ticks, StartBehind(t, ticks)
    PROVE  LET r == Tail(active)
               rest == ticks - raw_value
               n == Due(r, rest - 1)
               dist == rest - At(r, n)
           IN  /\ IsList(active') /\ Inserted(active, active', n + 2, t)
               /\ \A i \in 1 .. n + 1 : active'[i] = active[i]
               /\ active'[n + 2].time = dist
               /\ \A i \in n + 2 .. Len(active) :
                    active'[i + 1].time = IF i = n + 2
                                          THEN active[i].time - dist
                                          ELSE active[i].time
<1> DEFINE s == active
           r == Tail(s)
           rest == ticks - raw_value
           n == Due(r, rest - 1)
           dist == rest - At(r, n)
           h == <<Head(s)>>
           e == <<Entry(t, dist)>>
           f == SubSeq(r, 1, n)
           g == From(r, n + 1)
           m == Moved(g, -dist)
<1>0. Len(s) \in Nat
  BY ListFacts
<1>1. s # <<>> /\ s' = h \o f \o e \o m
  BY DEF StartBehind
<1>7. IsList(h) /\ Len(h) = 1 /\ h[1] = s[1]
  <2>1. PICK X : s \in Seq(Entries(X))
    BY DEF IsList
  <2>2. Len(s) >= 1 /\ Head(s) = s[1]
    BY <1>1, TailList
  <2>3. Head(s) \in Entries(X)
    BY <1>0, <2>1, <2>2, ElementOfSeq
  <2> QED BY <2>2, <2>3 DEF IsList
<1>8. IsList(e) /\ Len(e) = 1 /\ e[1].timer = t /\ e[1].time = dist
  BY OneList
<1> HIDE DEF h, e
<1>2. /\ IsList(r) /\ Len(r) = Len(s) - 1 /\ Len(s) >= 1
      /\ \A i \in 1 .. Len(s) - 1 : r[i] = s[i + 1]
  BY <1>1, TailList
<1> HIDE DEF r, rest
<1>3. n \in Nat /\ n <= Len(r) /\ Len(r) \in Nat
  <2>1. n \in 0 .. Len(r)
    BY <1>2, DueInList
  <2> QED BY <1>0, <1>2, <2>1
<1>6. IsList(g) =>
          /\ IsList(m) /\ SameTimers(g, m)
          /\ \A i \in 1 .. Len(g) :
               m[i].time = IF i = 1 THEN g[1].time - dist ELSE g[i].time
  BY MovedList
<1> HIDE DEF n, dist, m
<1>4. /\ IsList(f) /\ Len(f) = n
      /\ \A i \in 1 .. n : f[i] = r[i]
  BY <1>2, <1>3, UpToList
<1>5. /\ IsList(g) /\ Len(g) = Len(r) - n
      /\ \A i \in 1 .. Len(r) - n : g[i] = r[n + i]
  <2>1. IsList(r) /\ n \in Nat /\ n <= Len(r)
    BY <1>2, <1>3
  <2> HIDE DEF f, e
  <2> QED BY <2>1, FromList
<1> HIDE DEF f, g
<1> DEFINE hf == h \o f
<1>9. /\ IsList(hf) /\ Len(hf) = 1 + n
      /\ \A i \in 1 .. 1 + n : hf[i] = IF i <= 1 THEN h[i] ELSE f[i - 1]
  <2>1. /\ IsList(hf) /\ Len(hf) = Len(h) + Len(f)
        /\ \A i \in 1 .. Len(h) + Len(f) :
             hf[i] = IF i <= Len(h) THEN h[i] ELSE f[i - Len(h)]
    BY <1>4, <1>7, ConcatList
  <2> QED BY <1>4, <1>7, <2>1
<1> DEFINE hfe == hf \o e
<1> HIDE DEF hf
<1>10. /\ IsList(hfe) /\ Len(hfe) = n + 2
       /\ \A i \in 1 .. n + 2 :
            hfe[i] = IF i <= n + 1 THEN hf[i] ELSE e[i - (n + 1)]
  <2>1. /\ IsList(hfe) /\ Len(hfe) = Len(hf) + Len(e)
        /\ \A i \in 1 .. Len(hf) + Len(e) :
             hfe[i] = IF i <= Len(hf) THEN hf[i] ELSE e[i - Len(hf)]
    BY <1>8, <1>9, ConcatList
  <2>2. Len(hf) = n + 1 /\ Len(hf) + Len(e) = n + 2
    BY <1>3, <1>8, <1>9
  <2> QED BY <2>1, <2>2
<1> DEFINE hfem == hfe \o m
<1> HIDE DEF hfe
<1>11. /\ IsList(s') /\ Len(s') = n + 2 + (Len(r) - n)
       /\ \A i \in 1 .. n + 2 + (Len(r) - n) :
            s'[i] = IF i <= n + 2 THEN hfe[i] ELSE m[i - (n + 2)]
  <2>1. IsList(m) /\ Len(m) = Len(r) - n
    BY <1>5, <1>6 DEF SameTimers
  <2>2. /\ IsList(hfem) /\ Len(hfem) = Len(hfe) + Len(m)
        /\ \A i \in 1 .. Len(hfe) + Len(m) :
             hfem[i] = IF i <= Len(hfe) THEN hfe[i] ELSE m[i - Len(hfe)]
    BY <1>10, <2>1, ConcatList
  <2>3. s' = hfem
    BY <1>1 DEF hf, hfe
  <2>4. Len(hfe) = n + 2 /\ Len(hfe) + Len(m) = n + 2 + (Len(r) - n)
    BY <1>10, <2>1
  <2> HIDE DEF hfem
  <2> QED BY <2>2, <2>3, <2>4
<1>12. Len(s') = Len(s) + 1 /\ n + 2 \in 1 .. Len(s) + 1
  BY <1>0, <1>2, <1>3, <1>11
<1>13. \A i \in 1 .. n + 1 : s'[i] = s[i]
  <2> SUFFICES ASSUME NEW i \in 1 .. n + 1 PROVE s'[i] = s[i]
    OBVIOUS
  <2>1. CASE i = 1
    <3>1. s'[i] = h[1]
      BY <1>3, <1>9, <1>10, <1>11, <2>1
    <3> QED BY <1>7, <2>1, <3>1
  <2>2. CASE i > 1
    <3>1. i - 1 \in 1 .. n /\ i - 1 \in 1 .. Len(s) - 1 /\ i - 1 + 1 = i
      BY <1>2, <1>3, <2>2
    <3>2. s'[i] = hfe[i] /\ hfe[i] = hf[i] /\ hf[i] = f[i - 1]
      <4>1. /\ i \in 1 .. 1 + n /\ i \in 1 .. n + 2 /\ ~(i <= 1)
            /\ i <= n + 1 /\ i <= n + 2
            /\ i \in 1 .. n + 2 + (Len(r) - n)
        BY <1>3, <2>2
      <4>2. s'[i] = hfe[i]
        BY <1>11, <4>1
      <4> QED BY <1>9, <1>10, <4>1, <4>2
    <3>3. f[i - 1] = s[i]
      BY <1>2, <1>4, <3>1
    <3> QED BY <3>2, <3>3
  <2> QED BY <1>3, <2>1, <2>2
<1>14. s'[n + 2] = e[1]
  BY <1>3, <1>10, <1>11
<1>15. \A i \in n + 2 .. Len(s) :
          /\ s'[i + 1].timer = s[i].timer
          /\ s'[i + 1].time = IF i = n + 2 THEN s[i].time - dist ELSE s[i].time
  <2> SUFFICES ASSUME NEW i \in n + 2 .. Len(s)
               PROVE  /\ s'[i + 1].timer = s[i].timer
                      /\ s'[i + 1].time = IF i = n + 2 THEN s[i].time - dist
                                          ELSE s[i].time
    OBVIOUS
  <2> DEFINE j == i - (n + 1)
  <2>1. /\ j \in 1 .. Len(r) - n /\ n + j \in 1 .. Len(s) - 1
        /\ n + j + 1 = i /\ i + 1 - (n + 2) = j /\ (j = 1 <=> i = n + 2)
        /\ i + 1 \in 1 .. n + 2 + (Len(r) - n) /\ ~(i + 1 <= n + 2)
    BY <1>0, <1>2, <1>3
  <2> HIDE DEF j
  <2>2. s'[i + 1] = m[j]
    <3> DEFINE k == i + 1
    <3>1. /\ k \in 1 .. n + 2 + (Len(r) - n)
          /\ ~(k <= n + 2) /\ k - (n + 2) = j
      BY <1>3, <2>1
    <3> HIDE DEF k
    <3>2. s'[k] = IF k <= n + 2 THEN hfe[k] ELSE m[k - (n + 2)]
      BY <1>11, <3>1
    <3>3. s'[k] = m[j]
      BY <3>1, <3>2
    <3> QED BY <3>3 DEF k
  <2>3. /\ m[j].timer = g[j].timer
        /\ m[j].time = IF j = 1 THEN g[1].time - dist ELSE g[j].time
    BY <1>5, <1>6, <2>1 DEF SameTimers
  <2>4. g[j] = s[i]
    BY <1>2, <1>5, <2>1
  <2> QED BY <2>1, <2>2, <2>3, <2>4
<1>16. Inserted(s, s', n + 2, t)
  <2>1. \A i \in 1 .. Len(s') :
            s'[i].timer = IF i < n + 2 THEN s[i].timer
                          ELSE IF i = n + 2 THEN t ELSE s[i - 1].timer
    <3> SUFFICES ASSUME NEW i \in 1 .. Len(s')
                 PROVE  s'[i].timer = IF i < n + 2 THEN s[i].timer
                                      ELSE IF i = n + 2 THEN t
                                           ELSE s[i - 1].timer
      OBVIOUS
    <3>1. CASE i < n + 2
      BY <1>3, <1>13, <3>1
    <3>2. CASE i = n + 2
      BY <1>3, <1>8, <1>14, <3>2
    <3>3. CASE i > n + 2
      <4>1. i - 1 \in n + 2 .. Len(s) /\ i - 1 + 1 = i
        BY <1>0, <1>3, <1>12, <3>3
      <4> QED BY <1>3, <1>15, <3>3, <4>1
    <3> QED BY <1>3, <3>1, <3>2, <3>3
  <2> QED BY <1>12, <2>1 DEF Inserted
<1> QED BY <1>3, <1>8, <1>11, <1>13, <1>14, <1>15, <1>16 DEF n, dist, rest, r

LEMMA StartInserts ==
    ASSUME IsList(active), NEW t \in Timers, NEW ticks,
           \/ StartFirst(t, ticks) \/ StartBefore(t, ticks)
           \/ StartBehind(t, ticks)
    PROVE  IsList(active') /\ \E k : Inserted(active, active', k, t)
<1> DEFINE s == active
<1>0. Len(s) \in Nat
  BY ListFacts
<1>1. CASE StartFirst(t, ticks)
  <2>1. s = <<>> /\ s' = <<Entry(t, ticks)>>
    BY <1>1 DEF StartFirst
  <2>2. IsList(s') /\ Len(s') = 1 /\ s'[1].timer = t
    BY <2>1, OneList
  <2>3. Len(s) = 0
    BY <2>1, EmptySeq
  <2>4. Inserted(s, s', 1, t)
    BY <2>2, <2>3 DEF Inserted
  <2> QED BY <2>2, <2>4
<1>2. CASE StartBefore(t, ticks)
  BY <1>2, BeforeInserts
<1>3. CASE StartBehind(t, ticks)
  BY <1>3, BehindInserts
<1> QED BY <1>1, <1>2, <1>3

LEMMA SameTimersItself ==
    ASSUME NEW s PROVE SameTimers(s, s)
BY DEF SameTimers

LEMMA BehindRemoves ==
    ASSUME IsList(active), NEW t, StopBehind(t)
    PROVE  /\ IsList(active')
           /\ \E k \in 2 .. Len(active) :
               /\ active[k].timer = t /\ Removed(active, active', k)
               /\ \A i \in 1 .. k - 1 : active'[i] = active[i]
               /\ \A i \in k .. Len(active) - 1 :
                    active'[i].time = IF i = k
                                      THEN active[k + 1].time + active[k].time
                                      ELSE active[i + 1].time
<1> DEFINE s == active
<1>0. Len(s) \in Nat
  BY ListFacts
<1>1. PICK k \in 2 .. Len(s) :
          /\ s[k].timer = t
          /\ s' = SubSeq(s, 1, k - 1) \o Moved(From(s, k + 1), s[k].time)
  BY DEF StopBehind
<1> DEFINE f == SubSeq(s, 1, k - 1)
           g == From(s, k + 1)
           m == Moved(g, s[k].time)
<1>2. k \in Nat /\ k >= 2 /\ k <= Len(s)
  BY <1>0
<1>3. IsList(f) /\ Len(f) = k - 1 /\ \A i \in 1 .. k - 1 : f[i] = s[i]
  <2> DEFINE n == k - 1
  <2>1. n \in Nat /\ n <= Len(s)
    BY <1>0, <1>2
  <2> HIDE DEF n
  <2>2. /\ IsList(SubSeq(s, 1, n)) /\ Len(SubSeq(s, 1, n)) = n
        /\ \A i \in 1 .. n : SubSeq(s, 1, n)[i] = s[i]
    BY <2>1, UpToList
  <2> QED BY <2>2 DEF n
<1>4. /\ IsList(g) /\ Len(g) = Len(s) - k
      /\ \A i \in 1 .. Len(s) - k : g[i] = s[k + i]
  BY <1>0, <1>2, FromList
<1>5. /\ IsList(m) /\ SameTimers(g, m)
      /\ \A i \in 1 .. Len(g) :
           m[i].time = IF i = 1 THEN g[1].time + s[k].time ELSE g[i].time
  <2> HIDE DEF g
  <2> QED BY <1>4, MovedList
<1> HIDE DEF f, g, m
<1>6. s' = f \o m /\ Len(m) = Len(s) - k
  BY <1>1, <1>4, <1>5 DEF f, g, m, SameTimers
<1>7. /\ IsList(f \o m) /\ Len(f \o m) = Len(f) + Len(m)
      /\ \A i \in 1 .. Len(f) + Len(m) :
           (f \o m)[i] = IF i <= Len(f) THEN f[i] ELSE m[i - Len(f)]
  BY <1>3, <1>5, ConcatList
<1>8. /\ IsList(s') /\ Len(s') = Len(s) - 1
      /\ \A i \in 1 .. Len(s) - 1 :
           s'[i] = IF i <= k - 1 THEN f[i] ELSE m[i - (k - 1)]
  <2>1. Len(f) + Len(m) = Len(s) - 1
    BY <1>0, <1>2, <1>3, <1>6
  <2> QED BY <1>3, <1>6, <1>7, <2>1
<1>9. \A i \in 1 .. k - 1 : s'[i] = s[i]
  <2> SUFFICES ASSUME NEW i \in 1 .. k - 1 PROVE s'[i] = s[i]
    OBVIOUS
  <2>1. i \in 1 .. Len(s) - 1 /\ i <= k - 1
    BY <1>0, <1>2
  <2> QED BY <1>3, <1>8, <2>1
<1>10. \A i \in k .. Len(s) - 1 :
          /\ s'[i].timer = s[i + 1].timer
          /\ s'[i].time = IF i = k THEN s[k + 1].time + s[k].time
                          ELSE s[i + 1].time
  <2> SUFFICES ASSUME NEW i \in k .. Len(s) - 1
               PROVE  /\ s'[i].timer = s[i + 1].timer
                      /\ s'[i].time = IF i = k THEN s[k + 1].time + s[k].time
                                      ELSE s[i + 1].time
    OBVIOUS
  <2> DEFINE j == i - (k - 1)
  <2>1. /\ j \in 1 .. Len(s) - k /\ 1 \in 1 .. Len(s) - k /\ k + j = i + 1
        /\ ~(i <= k - 1) /\ i \in 1 .. Len(s) - 1 /\ (j = 1 <=> i = k)
    BY <1>0, <1>2
  <2>2. s'[i] = m[j]
    BY <1>8, <2>1
  <2> HIDE DEF j
  <2>3. /\ m[j].timer = g[j].timer
        /\ m[j].time = IF j = 1 THEN g[1].time + s[k].time ELSE g[j].time
    BY <1>4, <1>5, <2>1 DEF SameTimers
  <2>4. g[j] = s[i + 1] /\ g[1] = s[k + 1]
    BY <1>4, <2>1
  <2> QED BY <2>1, <2>2, <2>3, <2>4
<1>11. Removed(s, s', k)
  <2>1. k \in 1 .. Len(s) /\ Len(s') = Len(s) - 1
    BY <1>0, <1>2, <1>8
  <2>2. \A i \in 1 .. Len(s) - 1 :
            s'[i].timer = IF i < k THEN s[i].timer ELSE s[i + 1].timer
    <3> SUFFICES ASSUME NEW i \in 1 .. Len(s) - 1
                 PROVE  s'[i].timer = IF i < k THEN s[i].timer
                                      ELSE s[i + 1].timer
      OBVIOUS
    <3>1. IF i < k THEN i \in 1 .. k - 1 ELSE i \in k .. Len(s) - 1
      BY <1>0, <1>2
    <3> QED BY <1>9, <1>10, <3>1
  <2> QED BY <2>1, <2>2 DEF Removed
<1> QED BY <1>1, <1>8, <1>9, <1>10, <1>11

\* Whatever hwtimer_stop does to the times, it takes out one timer and leaves
\* the others in their order.
LEMMA StopRemoves ==
    ASSUME IsList(active), NEW t, StopFirst(t) \/ StopBehind(t)
    PROVE  /\ IsList(active')
           /\ \E k : Removed(active, active', k) /\ active[k].timer = t
<1> DEFINE s == active
<1>0. Len(s) \in Nat
  BY ListFacts
<1>1. CASE StopFirst(t)
  <2> DEFINE r == Tail(s)
             el == Less(elapsed, Head(s).time)
  <2>1. s # <<>> /\ Head(s).timer = t
    BY <1>1 DEF StopFirst
  <2>2. /\ IsList(r) /\ Len(r) = Len(s) - 1 /\ Len(s) >= 1
        /\ \A i \in 1 .. Len(s) - 1 : r[i] = s[i + 1]
        /\ Head(s) = s[1]
    BY <2>1, TailList
  <2>3. s' = r \/ s' = Spent(r, el) \/ s' = Moved(r, raw_value)
    BY <1>1 DEF StopFirst
  <2>4. IsList(s') /\ SameTimers(r, s')
    <3> HIDE DEF r, el
    <3>1. IsList(Spent(r, el)) /\ SameTimers(r, Spent(r, el))
      BY <2>2, SpentList
    <3>2. IsList(Moved(r, raw_value)) /\ SameTimers(r, Moved(r, raw_value))
      BY <2>2, MovedList
    <3>3. SameTimers(r, r)
      BY SameTimersItself
    <3> QED BY <2>2, <2>3, <3>1, <3>2, <3>3
  <2>5. Removed(s, s', 1)
    <3>1. Len(s') = Len(s) - 1 /\ 1 \in 1 .. Len(s)
      BY <1>0, <2>2, <2>4 DEF SameTimers
    <3>2. \A i \in 1 .. Len(s') : s'[i].timer = s[i + 1].timer /\ ~(i < 1)
      BY <1>0, <2>2, <2>4, <3>1 DEF SameTimers
    <3> QED BY <3>1, <3>2 DEF Removed
  <2> QED BY <2>1, <2>2, <2>4, <2>5
<1>2. CASE StopBehind(t)
  BY <1>2, BehindRemoves
<1> QED BY <1>1, <1>2

-----------------------------------------------------------------------------
(* The timers that wait for their callback.                                *)

\* Sequence u is sequence s without its k-th element.
LEMMA DropOne ==
    ASSUME NEW s \in Seq(Timers), IsInjective(s), NEW k \in 1 .. Len(s),
           NEW u \in Seq(Timers), Len(u) = Len(s) - 1,
           \A i \in 1 .. Len(s) - 1 : u[i] = IF i < k THEN s[i] ELSE s[i + 1]
    PROVE  /\ IsInjective(u)
           /\ \A q : Contains(u, q) <=> Contains(s, q) /\ q # s[k]
<1> DEFINE n == Len(s)
<1>1. n \in Nat /\ DOMAIN s = 1 .. n /\ DOMAIN u = 1 .. n - 1 /\ Len(u) = n - 1
  BY LenProperties
<1>2. \A i, j \in 1 .. n : s[i] = s[j] => i = j
  BY <1>1 DEF IsInjective
<1>3. \A i \in 1 .. n - 1 : u[i] = IF i < k THEN s[i] ELSE s[i + 1]
  OBVIOUS
<1> HIDE DEF n
<1>4. IsInjective(u)
  <2> SUFFICES ASSUME NEW i \in 1 .. n - 1, NEW j \in 1 .. n - 1, u[i] = u[j]
               PROVE  i = j
    BY <1>1 DEF IsInjective
  <2> DEFINE a == IF i < k THEN i ELSE i + 1
             b == IF j < k THEN j ELSE j + 1
  <2>1. a \in 1 .. n /\ b \in 1 .. n
    BY <1>1
  <2>2. s[a] = s[b]
    BY <1>3
  <2>3. a = b
    BY <1>2, <2>1, <2>2
  <2> QED BY <1>1, <2>3 DEF n
<1>5. \A q : Contains(u, q) => Contains(s, q) /\ q # s[k]
  <2> SUFFICES ASSUME NEW i \in 1 .. n - 1
               PROVE  Contains(s, u[i]) /\ u[i] # s[k]
    BY <1>1 DEF Contains
  <2> DEFINE a == IF i < k THEN i ELSE i + 1
  <2>1. a \in 1 .. n /\ k \in 1 .. n /\ a # k
    BY <1>1 DEF n
  <2>2. u[i] = s[a]
    BY <1>3
  <2> QED BY <1>2, <2>1, <2>2 DEF Contains, n
<1>6. \A q : Contains(s, q) /\ q # s[k] => Contains(u, q)
  <2> SUFFICES ASSUME NEW j \in 1 .. n, j # k
               PROVE  Contains(u, s[j])
    BY DEF Contains, n
  <2> DEFINE a == IF j < k THEN j ELSE j - 1
  <2>1. a \in 1 .. n - 1 /\ (IF a < k THEN a ELSE a + 1) = j
    BY <1>1 DEF n
  <2>2. u[a] = s[j]
    BY <1>3, <2>1
  <2> QED BY <1>1, <2>1, <2>2 DEF Contains
<1> QED BY <1>4, <1>5, <1>6

LEMMA RemoveAtDrops ==
    ASSUME NEW s \in Seq(Timers), IsInjective(s), NEW k \in 1 .. Len(s)
    PROVE  /\ RemoveAt(s, k) \in Seq(Timers) /\ IsInjective(RemoveAt(s, k))
           /\ \A q : Contains(RemoveAt(s, k), q) <=> Contains(s, q) /\ q # s[k]
<1> DEFINE a == k - 1
           b == k + 1
           n == Len(s)
           f == SubSeq(s, 1, a)
           g == SubSeq(s, b, n)
           u == f \o g
<1>1. n \in Nat /\ a \in Nat /\ b \in Nat /\ a < n /\ b > 1 /\ k \in Nat
  BY LenProperties
<1>2. \A i \in 1 .. a : s[i] \in Timers
  BY <1>1, ElementOfSeq
<1>3. \A i \in b .. n : s[i] \in Timers
  BY <1>1, ElementOfSeq
<1>4. a = k - 1 /\ b = k + 1 /\ k <= n
  BY <1>1
<1> HIDE DEF a, b, n
<1>5. /\ f \in Seq(Timers) /\ Len(f) = IF 1 <= a THEN a - 1 + 1 ELSE 0
      /\ \A i \in 1 .. a - 1 + 1 : f[i] = s[1 + i - 1]
  BY <1>1, <1>2, SubSeqProperties
<1>6. /\ g \in Seq(Timers) /\ Len(g) = IF b <= n THEN n - b + 1 ELSE 0
      /\ \A i \in 1 .. n - b + 1 : g[i] = s[b + i - 1]
  BY <1>1, <1>3, SubSeqProperties
<1>7. RemoveAt(s, k) = u
  BY DEF RemoveAt, a, b, n
<1> HIDE DEF f, g
<1>8. Len(f) = k - 1 /\ \A i \in 1 .. k - 1 : f[i] = s[i]
  BY <1>1, <1>4, <1>5
<1>9. Len(g) = n - k /\ \A i \in 1 .. n - k : g[i] = s[k + i]
  BY <1>1, <1>4, <1>6
<1>10. /\ u \in Seq(Timers) /\ Len(u) = Len(f) + Len(g)
       /\ \A i \in 1 .. Len(f) + Len(g) :
            u[i] = IF i <= Len(f) THEN f[i] ELSE g[i - Len(f)]
  BY <1>5, <1>6, ConcatProperties
<1> HIDE DEF u
<1>11. Len(u) = n - 1
  BY <1>1, <1>8, <1>9, <1>10
<1>12. \A i \in 1 .. n - 1 : u[i] = IF i < k THEN s[i] ELSE s[i + 1]
  <2> SUFFICES ASSUME NEW i \in 1 .. n - 1
               PROVE  u[i] = IF i < k THEN s[i] ELSE s[i + 1]
    OBVIOUS
  <2>1. u[i] = IF i <= k - 1 THEN f[i] ELSE g[i - (k - 1)]
    BY <1>1, <1>8, <1>9, <1>10
  <2>2. CASE i < k
    BY <1>1, <1>8, <2>1, <2>2
  <2>3. CASE ~(i < k)
    <3>1. i - (k - 1) \in 1 .. n - k /\ k + (i - (k - 1)) = i + 1
      BY <1>1, <2>3
    <3> QED BY <1>1, <1>9, <2>1, <2>3, <3>1
  <2> QED BY <2>2, <2>3
<1> QED BY <1>7, <1>10, <1>11, <1>12, DropOne DEF n

LEMMA TailDrops ==
    ASSUME NEW s \in Seq(Timers), IsInjective(s), s # <<>>
    PROVE  /\ Head(s) \in Timers /\ Contains(s, Head(s))
           /\ Tail(s) \in Seq(Timers) /\ IsInjective(Tail(s))
           /\ \A q : Contains(Tail(s), q) <=> Contains(s, q) /\ q # Head(s)
<1>1. /\ Tail(s) \in Seq(Timers) /\ Len(Tail(s)) = Len(s) - 1
      /\ \A i \in 1 .. Len(Tail(s)) : Tail(s)[i] = s[i + 1]
      /\ Len(s) \in Nat \ {0} /\ Head(s) = s[1]
  BY HeadTailProperties, EmptySeq
<1>2. 1 \in 1 .. Len(s)
  BY <1>1
<1>3. s[1] \in Timers /\ Contains(s, s[1])
  BY <1>2, ElementOfSeq DEF Contains
<1> DEFINE u == Tail(s)
<1>4. \A i \in 1 .. Len(s) - 1 : u[i] = IF i < 1 THEN s[i] ELSE s[i + 1]
  BY <1>1
<1> HIDE DEF u
<1>5. u \in Seq(Timers) /\ Len(u) = Len(s) - 1
  BY <1>1 DEF u
<1>6. /\ IsInjective(u)
      /\ \A q : Contains(u, q) <=> Contains(s, q) /\ q # s[1]
  BY <1>2, <1>4, <1>5, DropOne
<1> QED BY <1>1, <1>3, <1>6 DEF u

LEMMA NoneWaits ==
    /\ <<>> \in Seq(Timers) /\ IsInjective(<<>>)
    /\ \A q : ~Contains(<<>>, q)
BY DEF IsInjective, Contains

\* The first of the timers that wait is called, and the others go on waiting.
LEMMA CallNextCalls ==
    ASSUME NEW fd \in Seq(Timers), IsInjective(fd),
           NEW st \in [Timers -> States], CallNext(fd, st),
           \A t \in Timers : st[t] = "FIRED" <=> Contains(fd, t),
           \A t \in Timers : st[t] # "CALLBACK"
    PROVE  /\ state' \in [Timers -> States]
           /\ fired' \in Seq(Timers) /\ IsInjective(fired')
           /\ handler' \in {"idle", "entered", "callback"}
           /\ handler' = "callback" => current' \in Timers
           /\ handler' # "callback" => fired' = <<>>
           /\ \A t \in Timers :
               /\ state'[t] = "ACTIVE" <=> st[t] = "ACTIVE"
               /\ state'[t] = "FIRED" <=> Contains(fired', t)
               /\ state'[t] = "CALLBACK" =>
                      handler' = "callback" /\ current' = t
<1>1. CASE fd = <<>>
  <2>1. fired' = fd /\ state' = st /\ handler' = "idle"
    BY <1>1 DEF CallNext
  <2> QED BY <1>1, <2>1
<1>2. CASE fd # <<>>
  <2> DEFINE h == Head(fd)
             r == Tail(fd)
  <2>1. /\ fired' = r /\ state' = [st EXCEPT ![h] = "CALLBACK"]
        /\ handler' = "callback" /\ current' = h
    BY <1>2 DEF CallNext
  <2>2. /\ h \in Timers /\ Contains(fd, h)
        /\ r \in Seq(Timers) /\ IsInjective(r)
        /\ \A q : Contains(r, q) <=> Contains(fd, q) /\ q # h
    BY <1>2, TailDrops
  <2>3. st[h] = "FIRED"
    BY <2>2
  <2> HIDE DEF h, r
  <2>4. state' \in [Timers -> States] /\ state'[h] = "CALLBACK"
        /\ \A t \in Timers : t # h => state'[t] = st[t]
    BY <2>1, <2>2 DEF States
  <2>5. IsInjective(fired') /\ \A q : Contains(fired', q) <=> Contains(r, q)
    BY <2>1, <2>2
  <2>6. \A t \in Timers :
            /\ state'[t] = "ACTIVE" <=> st[t] = "ACTIVE"
            /\ state'[t] = "FIRED" <=> Contains(fired', t)
            /\ state'[t] = "CALLBACK" => current' = t
    BY <2>1, <2>2, <2>3, <2>4, <2>5
  <2> QED BY <2>1, <2>2, <2>4, <2>5, <2>6
<1> QED BY <1>1, <1>2

-----------------------------------------------------------------------------
(* The steps.                                                              *)

\* The handler takes the timers that are due from the front of the list, and
\* those it leaves stay in their order.
LEMMA FiresTakes ==
    ASSUME IsList(active), Once(active), HandlerFires
    PROVE  \E first \in Seq(Timers) :
            /\ IsInjective(first)
            /\ IsList(active') /\ Once(active')
            /\ \A q : Contains(first, q) <=> q \in In(active) \ In(active')
            /\ In(active') \subseteq In(active)
            /\ CallNext(first, [t \in Timers |->
                  IF Contains(first, t) THEN "FIRED" ELSE state[t]])
<1> DEFINE A == active
           L == Len(A)
           r == Tail(A)
           el == Less(elapsed, Head(A).time)
           s == Spent(r, el)
           n == Due(r, el)
           first == [i \in 1 .. n + 1 |-> A[i].timer]
<1>1. A # <<>>
  BY DEF HandlerFires, NothingDue
<1>2. /\ A' = From(s, n + 1)
      /\ CallNext(first, [t \in Timers |->
             IF Contains(first, t) THEN "FIRED" ELSE state[t]])
  BY DEF HandlerFires
<1>3. L \in Nat /\ \A i \in 1 .. L : A[i].timer \in Timers
  BY ListFacts
<1>4. /\ IsList(r) /\ Len(r) = L - 1 /\ L >= 1
      /\ \A i \in 1 .. L - 1 : r[i] = A[i + 1]
  BY <1>1, TailList
<1> HIDE DEF r
<1>5. n \in Nat /\ n <= L - 1
  <2>1. n \in 0 .. Len(r)
    BY <1>4, DueInList
  <2> QED BY <1>3, <1>4, <2>1
<1>6. IsList(s) /\ SameTimers(r, s)
  BY <1>4, SpentList
<1> HIDE DEF el, n, s
<1>7. Len(s) = L - 1 /\ \A i \in 1 .. L - 1 : s[i].timer = A[i + 1].timer
  BY <1>4, <1>6 DEF SameTimers
<1>8. /\ IsList(A') /\ Len(A') = L - 1 - n
      /\ \A i \in 1 .. L - 1 - n : A'[i].timer = A[n + 1 + i].timer
  <2> DEFINE u == From(s, n + 1)
  <2>1. /\ IsList(u) /\ Len(u) = Len(s) - n
        /\ \A i \in 1 .. Len(s) - n : u[i] = s[n + i]
    BY <1>5, <1>6, <1>7, FromList
  <2> HIDE DEF u
  <2>2. IsList(A') /\ Len(A') = L - 1 - n
    BY <1>2, <1>7, <2>1 DEF u
  <2>3. \A i \in 1 .. L - 1 - n : A'[i].timer = A[n + 1 + i].timer
    <3> SUFFICES ASSUME NEW i \in 1 .. L - 1 - n
                 PROVE  A'[i].timer = A[n + 1 + i].timer
      OBVIOUS
    <3>1. n + i \in 1 .. L - 1 /\ n + i + 1 = n + 1 + i
      BY <1>3, <1>5
    <3>2. A'[i] = s[n + i]
      BY <1>2, <1>7, <2>1 DEF u
    <3> QED BY <1>7, <3>1, <3>2
  <2> QED BY <2>2, <2>3
<1>9. \A i, j \in 1 .. L : A[i].timer = A[j].timer => i = j
  BY DEF Once
<1> HIDE DEF L
<1>10. Once(A')
  <2> SUFFICES ASSUME NEW i \in 1 .. L - 1 - n, NEW j \in 1 .. L - 1 - n,
                      A'[i].timer = A'[j].timer
               PROVE  i = j
    BY <1>8 DEF Once
  <2>1. n + 1 + i \in 1 .. L /\ n + 1 + j \in 1 .. L
    BY <1>3, <1>5
  <2>2. n + 1 + i = n + 1 + j
    BY <1>8, <1>9, <2>1
  <2> QED BY <1>5, <2>2
<1>11. /\ In(A) = {A[i].timer : i \in 1 .. L}
       /\ In(A') = {A[i].timer : i \in n + 2 .. L}
  <2>1. In(A) = {A[i].timer : i \in 1 .. L}
    BY DEF In, L
  <2>2. In(A') = {A'[i].timer : i \in 1 .. L - 1 - n}
    BY <1>8 DEF In
  <2>3. {A'[i].timer : i \in 1 .. L - 1 - n} = {A[i].timer : i \in n + 2 .. L}
    <3>1. \A i \in 1 .. L - 1 - n : n + 1 + i \in n + 2 .. L
      BY <1>3, <1>5
    <3>2. \A j \in n + 2 .. L : /\ j - (n + 1) \in 1 .. L - 1 - n
                                /\ n + 1 + (j - (n + 1)) = j
      BY <1>3, <1>5
    <3>3. \A j \in n + 2 .. L : A'[j - (n + 1)].timer = A[j].timer
      BY <1>8, <3>2
    <3> QED BY <1>8, <3>1, <3>2, <3>3
  <2> QED BY <2>1, <2>2, <2>3
<1>12. first \in [1 .. n + 1 -> Timers]
  BY <1>3, <1>5
<1>13. first \in Seq(Timers) /\ Len(first) = n + 1 /\ DOMAIN first = 1 .. n + 1
  <2>1. n + 1 \in Nat
    BY <1>5
  <2>2. first \in Seq(Timers)
    BY <1>12, <2>1, SeqDef
  <2> QED BY <1>12, <2>1, <2>2, LenProperties
<1>14. \A i \in 1 .. n + 1 : first[i] = A[i].timer /\ i \in 1 .. L
  BY <1>3, <1>5
<1> HIDE DEF first
<1>15. IsInjective(first)
  BY <1>9, <1>13, <1>14 DEF IsInjective
<1>16. In(A') \subseteq In(A)
  <2>1. \A i \in n + 2 .. L : i \in 1 .. L
    BY <1>3, <1>5
  <2> QED BY <1>11, <2>1
<1>17. \A q : Contains(first, q) <=> q \in In(A) \ In(A')
  <2>1. ASSUME NEW q, Contains(first, q) PROVE q \in In(A) \ In(A')
    <3>1. PICK i \in 1 .. n + 1 : q = A[i].timer
      BY <1>13, <1>14, <2>1 DEF Contains
    <3>2. i \in 1 .. L
      BY <1>14
    <3>3. \A j \in n + 2 .. L : j # i /\ j \in 1 .. L
      BY <1>3, <1>5
    <3>4. q \notin In(A')
      BY <1>9, <1>11, <3>1, <3>2, <3>3
    <3> QED BY <1>11, <3>1, <3>2, <3>4
  <2>2. ASSUME NEW q, q \in In(A) \ In(A') PROVE Contains(first, q)
    <3>1. PICK i \in 1 .. L : q = A[i].timer
      BY <1>11, <2>2
    <3>2. i \notin n + 2 .. L
      BY <1>11, <2>2, <3>1
    <3>3. i \in 1 .. n + 1
      BY <1>3, <1>5, <3>2
    <3> QED BY <1>13, <1>14, <3>1, <3>3 DEF Contains
  <2> QED BY <2>1, <2>2
<1> QED BY <1>2, <1>8, <1>10, <1>13, <1>15, <1>16, <1>17

LEMMA InitIInv == Init => IInv
<1> SUFFICES ASSUME Init PROVE IInv
  OBVIOUS
<1>1. /\ state = [t \in Timers |-> "FREE"] /\ active = <<>> /\ fired = <<>>
      /\ handler = "idle"
  BY DEF Init
<1>2. IsList(active)
  BY <1>1, EmptyList
<1>3. Len(active) = 0
  BY <1>1, EmptySeq
<1>4. Once(active) /\ In(active) = {}
  BY <1>3 DEF Once, In
<1>5. fired \in Seq(Timers) /\ IsInjective(fired) /\ \A q : ~Contains(fired, q)
  BY <1>1, NoneWaits
<1> QED BY <1>1, <1>2, <1>4, <1>5 DEF IInv, States

\* A step that leaves the lists alone, and no timer's state that they tell of.
LEMMA ListsStay ==
    ASSUME IInv, UNCHANGED <<active, fired>>, state' \in [Timers -> States],
           handler' \in {"idle", "entered", "callback"},
           handler' = "callback" <=> handler = "callback", current' = current,
           \A t \in Timers : \/ state'[t] = state[t]
                             \/ /\ state[t] \in {"FREE", "ALLOC"}
                                /\ state'[t] \in {"FREE", "ALLOC"}
    PROVE  IInv'
<1>1. /\ IsList(active') /\ Once(active') /\ In(active') = In(active)
      /\ fired' \in Seq(Timers) /\ IsInjective(fired')
      /\ \A q : Contains(fired', q) <=> Contains(fired, q)
  BY DEF IInv
<1>2. /\ handler' = "callback" => current' \in Timers
      /\ handler' # "callback" => fired' = <<>>
  BY DEF IInv
<1>3. \A t \in Timers :
        /\ state'[t] = "ACTIVE" <=> t \in In(active')
        /\ state'[t] = "FIRED" <=> Contains(fired', t)
        /\ state'[t] = "CALLBACK" => handler' = "callback" /\ current' = t
  BY <1>1 DEF IInv
<1> QED BY <1>1, <1>2, <1>3 DEF IInv

LEMMA StartIInv ==
    ASSUME IInv, NEW t \in Timers, NEW d \in Ticks, hwtimer_start(t, d)
    PROVE  IInv'
<1> DEFINE ticks == Larger(d, HAL_TIMER_LOAD_DELTA)
<1>1. /\ state[t] \in {"ALLOC", "CALLBACK"}
      /\ state' = [state EXCEPT ![t] = "ACTIVE"]
      /\ StartFirst(t, ticks) \/ StartBefore(t, ticks) \/ StartBehind(t, ticks)
      /\ fired' = fired /\ handler' = handler /\ current' = current
  BY DEF hwtimer_start
<1> HIDE DEF ticks
<1>2. IsList(active) /\ Once(active) /\ t \notin In(active)
  BY <1>1 DEF IInv
<1>3. IsList(active') /\ \E k : Inserted(active, active', k, t)
  BY <1>1, <1>2, StartInserts
<1>4. Once(active') /\ In(active') = In(active) \cup {t}
  BY <1>2, <1>3, InsertOnce
<1>5. /\ state' \in [Timers -> States] /\ state'[t] = "ACTIVE"
      /\ \A q \in Timers : q # t => state'[q] = state[q]
  BY <1>1 DEF IInv, States
<1>6. /\ fired' \in Seq(Timers) /\ IsInjective(fired')
      /\ \A q : Contains(fired', q) <=> Contains(fired, q)
  BY <1>1 DEF IInv
<1>7. \A q \in Timers :
        /\ state'[q] = "ACTIVE" <=> q \in In(active')
        /\ state'[q] = "FIRED" <=> Contains(fired', q)
        /\ state'[q] = "CALLBACK" => handler' = "callback" /\ current' = q
  BY <1>1, <1>4, <1>5, <1>6 DEF IInv
<1> QED BY <1>1, <1>3, <1>4, <1>5, <1>6, <1>7 DEF IInv

LEMMA StopIInv ==
    ASSUME IInv, NEW t \in Timers, hwtimer_stop(t)
    PROVE  IInv'
<1>1. /\ state' = [state EXCEPT ![t] = "ALLOC"]
      /\ handler' = handler /\ current' = current
  BY DEF hwtimer_stop
<1>2. /\ state' \in [Timers -> States] /\ state'[t] = "ALLOC"
      /\ \A q \in Timers : q # t => state'[q] = state[q]
  BY <1>1 DEF IInv, States
<1>3. CASE /\ state[t] = "ACTIVE" /\ fired' = fired
           /\ StopFirst(t) \/ StopBehind(t)
  <2>1. IsList(active) /\ Once(active)
    BY DEF IInv
  <2>2. PICK k : Removed(active, active', k) /\ active[k].timer = t
    BY <1>3, <2>1, StopRemoves
  <2>3. IsList(active') /\ Once(active') /\ In(active') = In(active) \ {t}
    BY <1>3, <2>1, <2>2, StopRemoves, RemoveOnce
  <2>4. /\ fired' \in Seq(Timers) /\ IsInjective(fired')
        /\ \A q : Contains(fired', q) <=> Contains(fired, q)
    BY <1>3 DEF IInv
  <2>5. \A q \in Timers :
          /\ state'[q] = "ACTIVE" <=> q \in In(active')
          /\ state'[q] = "FIRED" <=> Contains(fired', q)
          /\ state'[q] = "CALLBACK" => handler' = "callback" /\ current' = q
    BY <1>1, <1>2, <1>3, <2>3, <2>4 DEF IInv
  <2> QED BY <1>1, <1>2, <1>3, <2>3, <2>4, <2>5 DEF IInv
<1>4. CASE /\ state[t] = "FIRED" /\ active' = active
           /\ \E i \in DOMAIN fired :
               fired[i] = t /\ fired' = RemoveAt(fired, i)
  <2>1. /\ fired \in Seq(Timers) /\ IsInjective(fired)
        /\ DOMAIN fired = 1 .. Len(fired)
    BY LenProperties DEF IInv
  <2>2. PICK k \in 1 .. Len(fired) : fired[k] = t /\ fired' = RemoveAt(fired, k)
    BY <1>4, <2>1
  <2> DEFINE u == RemoveAt(fired, k)
  <2>3. /\ u \in Seq(Timers) /\ IsInjective(u)
        /\ \A q : Contains(u, q) <=> Contains(fired, q) /\ q # t
    BY <2>1, <2>2, RemoveAtDrops
  <2> HIDE DEF u
  <2>4. fired' = u
    BY <2>2 DEF u
  <2>5. /\ fired' \in Seq(Timers) /\ IsInjective(fired')
        /\ \A q : Contains(fired', q) <=> Contains(fired, q) /\ q # t
    BY <2>3, <2>4
  <2>6. IsList(active') /\ Once(active') /\ In(active') = In(active)
    BY <1>4 DEF IInv
  <2>7. handler' = "callback"
    <3>1. Contains(fired, t)
      BY <1>4 DEF IInv
    <3>2. fired # <<>>
      BY <3>1, NoneWaits
    <3> QED BY <1>1, <3>2 DEF IInv
  <2>8. \A q \in Timers :
          /\ state'[q] = "ACTIVE" <=> q \in In(active')
          /\ state'[q] = "FIRED" <=> Contains(fired', q)
          /\ state'[q] = "CALLBACK" => handler' = "callback" /\ current' = q
    BY <1>1, <1>2, <1>4, <2>5, <2>6 DEF IInv
  <2> QED BY <1>1, <1>2, <2>5, <2>6, <2>7, <2>8 DEF IInv
<1> QED BY <1>3, <1>4 DEF hwtimer_stop

LEMMA FiresIInv ==
    ASSUME IInv, HandlerFires
    PROVE  IInv'
<1>1. /\ handler = "entered" /\ fired = <<>> /\ IsList(active) /\ Once(active)
      /\ \A q : ~Contains(fired, q)
  BY NoneWaits DEF HandlerFires, IInv
<1>2. PICK first \in Seq(Timers) :
        /\ IsInjective(first)
        /\ IsList(active') /\ Once(active')
        /\ \A q : Contains(first, q) <=> q \in In(active) \ In(active')
        /\ In(active') \subseteq In(active)
        /\ CallNext(first, [t \in Timers |->
              IF Contains(first, t) THEN "FIRED" ELSE state[t]])
  BY <1>1, FiresTakes
<1> DEFINE st == [t \in Timers |->
                     IF Contains(first, t) THEN "FIRED" ELSE state[t]]
<1>3. st \in [Timers -> States]
  BY DEF IInv, States
<1>4. \A t \in Timers :
        /\ st[t] = "FIRED" <=> Contains(first, t)
        /\ st[t] = "ACTIVE" <=> t \in In(active')
        /\ st[t] # "CALLBACK"
  BY <1>1, <1>2 DEF IInv
<1>5. CallNext(first, st)
  BY <1>2
<1> HIDE DEF st
<1>6. /\ state' \in [Timers -> States]
      /\ fired' \in Seq(Timers) /\ IsInjective(fired')
      /\ handler' \in {"idle", "entered", "callback"}
      /\ handler' = "callback" => current' \in Timers
      /\ handler' # "callback" => fired' = <<>>
      /\ \A t \in Timers :
          /\ state'[t] = "ACTIVE" <=> st[t] = "ACTIVE"
          /\ state'[t] = "FIRED" <=> Contains(fired', t)
          /\ state'[t] = "CALLBACK" => handler' = "callback" /\ current' = t
  BY <1>2, <1>3, <1>4, <1>5, CallNextCalls
<1> QED BY <1>2, <1>4, <1>6 DEF IInv

LEMMA ReturnsIInv ==
    ASSUME IInv, CallbackReturns
    PROVE  IInv'
<1> DEFINE st == IF state[current] = "CALLBACK"
                 THEN [state EXCEPT ![current] = "ALLOC"] ELSE state
<1>1. handler = "callback" /\ CallNext(fired, st) /\ active' = active
  BY DEF CallbackReturns
<1>2. fired \in Seq(Timers) /\ IsInjective(fired) /\ current \in Timers
  BY <1>1 DEF IInv
<1>3. st \in [Timers -> States]
  BY DEF IInv, States
<1>4. \A t \in Timers :
        /\ st[t] = "FIRED" <=> Contains(fired, t)
        /\ st[t] = "ACTIVE" <=> t \in In(active)
        /\ st[t] # "CALLBACK"
  BY <1>2 DEF IInv
<1> HIDE DEF st
<1>5. /\ state' \in [Timers -> States]
      /\ fired' \in Seq(Timers) /\ IsInjective(fired')
      /\ handler' \in {"idle", "entered", "callback"}
      /\ handler' = "callback" => current' \in Timers
      /\ handler' # "callback" => fired' = <<>>
      /\ \A t \in Timers :
          /\ state'[t] = "ACTIVE" <=> st[t] = "ACTIVE"
          /\ state'[t] = "FIRED" <=> Contains(fired', t)
          /\ state'[t] = "CALLBACK" => handler' = "callback" /\ current' = t
  BY <1>1, <1>2, <1>3, <1>4, CallNextCalls
<1>6. IsList(active') /\ Once(active') /\ In(active') = In(active)
  BY <1>1 DEF IInv
<1> QED BY <1>4, <1>5, <1>6 DEF IInv

LEMMA NextIInv == IInv /\ [Next]_vars => IInv'
<1> SUFFICES ASSUME IInv, [Next]_vars PROVE IInv'
  OBVIOUS
<1>0. /\ state \in [Timers -> States]
      /\ handler \in {"idle", "entered", "callback"}
  BY DEF IInv
<1>1. CASE Tick
  <2>1. UNCHANGED <<state, active, fired, handler, current>>
    BY <1>1 DEF Tick
  <2> QED BY <1>0, <2>1, ListsStay
<1>2. CASE Interrupt
  <2>1. /\ UNCHANGED <<state, active, fired, current>>
        /\ handler = "idle" /\ handler' = "entered"
    BY <1>2 DEF Interrupt
  <2> QED BY <1>0, <2>1, ListsStay
<1>3. CASE HandlerReturns
  <2>1. /\ UNCHANGED <<state, active, fired, current>>
        /\ handler = "entered" /\ handler' = "idle"
    BY <1>3 DEF HandlerReturns
  <2> QED BY <1>0, <2>1, ListsStay
<1>4. CASE HandlerFires
  BY <1>4, FiresIInv
<1>5. CASE CallbackReturns
  BY <1>5, ReturnsIInv
<1>6. ASSUME NEW t \in Timers, Client(t) PROVE IInv'
  <2>1. CASE hwtimer_alloc(t) \/ hwtimer_free(t)
    <3>1. /\ UNCHANGED <<active, fired, handler, current>>
          /\ state[t] \in {"FREE", "ALLOC"}
          /\ \/ state' = [state EXCEPT ![t] = "ALLOC"]
             \/ state' = [state EXCEPT ![t] = "FREE"]
      BY <2>1 DEF hwtimer_alloc, hwtimer_free
    <3>2. /\ state' \in [Timers -> States] /\ state'[t] \in {"FREE", "ALLOC"}
          /\ \A q \in Timers : q # t => state'[q] = state[q]
      BY <1>0, <3>1 DEF States
    <3> QED BY <1>0, <3>1, <3>2, ListsStay
  <2>2. CASE \E d \in Ticks : hwtimer_start(t, d)
    BY <2>2, StartIInv
  <2>3. CASE hwtimer_stop(t)
    BY <2>3, StopIInv
  <2> QED BY <1>6, <2>1, <2>2, <2>3 DEF Client
<1>7. CASE UNCHANGED vars
  <2>1. UNCHANGED <<state, active, fired, handler, current>>
    BY <1>7 DEF vars
  <2> QED BY <1>0, <2>1, ListsStay
<1> QED BY <1>1, <1>2, <1>3, <1>4, <1>5, <1>6, <1>7
     DEF Next, hwtimer_handler

\* Whatever is started, stopped, freed or fired, and whatever preempts the
\* handler, the lists stay well formed and the states follow them.
THEOREM Invariance == Spec => []IInv
<1>1. Init => IInv
  BY InitIInv
<1>2. IInv /\ [Next]_vars => IInv'
  BY NextIInv
<1> QED BY <1>1, <1>2, PTL DEF Spec

-----------------------------------------------------------------------------
(* The invariant that the run checks.                                      *)

\* A list in which every timer is once is as long as there are timers in it.
LEMMA AsLongAsMany ==
    ASSUME NEW s, IsList(s), Once(s)
    PROVE  Len(s) = Cardinality(In(s))
<1> DEFINE n == Len(s)
           f == [i \in 1 .. n |-> s[i].timer]
<1>1. n \in Nat
  BY ListFacts
<1>2. IsFiniteSet(1 .. n) /\ Cardinality(1 .. n) = n
  <2>1. 1 \in Int /\ n \in Int
    BY <1>1
  <2> HIDE DEF n
  <2>2. /\ IsFiniteSet(1 .. n)
        /\ Cardinality(1 .. n) = IF 1 <= n THEN n - 1 + 1 ELSE 0
    BY ONLY <2>1, FS_Interval
  <2> QED BY <1>1, <2>2
<1>3. f \in Bijection(1 .. n, In(s))
  <2>1. f \in [1 .. n -> In(s)]
    BY DEF In
  <2>2. \A i, j \in 1 .. n : f[i] = f[j] => i = j
    BY DEF Once
  <2>3. \A q \in In(s) : \E i \in 1 .. n : f[i] = q
    BY DEF In
  <2> QED BY <2>1, <2>2, <2>3, Fun_IsBij
<1> HIDE DEF f, n
<1>4. Cardinality(In(s)) = Cardinality(1 .. n)
  <2>1. ExistsBijection(1 .. n, In(s))
    BY <1>3 DEF ExistsBijection
  <2> QED BY <1>2, <2>1, FS_Bijection
<1> QED BY <1>2, <1>4 DEF n

\* What a timer's state says and the list it is in agree: no timer is in a
\* list twice or in two lists, none is lost from its list, and none is in a
\* callback but the one that is called.
THEOREM StatesMatch == Spec => []ListsMatchStates
<1>1. IInv => ListsMatchStates
  <2> SUFFICES ASSUME IInv PROVE ListsMatchStates
    OBVIOUS
  <2>1. IsList(active) /\ Once(active)
    BY DEF IInv
  <2>2. Running = In(active)
    BY <2>1, ListFacts DEF Running, In
  <2>3. Len(active) = Cardinality(Running)
    BY <2>1, <2>2, AsLongAsMany
  <2> QED BY <2>2, <2>3 DEF IInv, ListsMatchStates
<1> QED BY <1>1, Invariance, PTL

-----------------------------------------------------------------------------
(* The times of a list.                                                    *)

LEMMA LeastNat ==
    ASSUME NEW T \in SUBSET Nat, T # {}
    PROVE  \E n \in T : \A m \in T : n <= m
<1>1. \E n \in T : \A m \in T : ~ (<<m, n>> \in OpToRel(<, Nat))
  BY NatLessThanWellFounded, WFMin
<1>2. PICK n \in T : \A m \in T : ~ (<<m, n>> \in OpToRel(<, Nat))
  BY <1>1
<1>3. \A m \in T : ~(m < n)
  BY <1>2 DEF OpToRel
<1> QED BY <1>3

SumTo(s, n, f) ==
    f = [k \in 0 .. n |-> IF k = 0 THEN 0 ELSE f[k - 1] + s[k].time]

LEMMA SumExists ==
    ASSUME NEW s, NEW L \in Nat
    PROVE  \E f : SumTo(s, L, f)
<1> DEFINE bad == {n \in Nat : ~\E f : SumTo(s, n, f)}
<1>1. SUFFICES bad = {}
  OBVIOUS
<1>2. SUFFICES ASSUME bad # {} PROVE FALSE
  OBVIOUS
<1>3. PICK n \in bad : \A m \in bad : n <= m
  <2>1. bad \in SUBSET Nat
    OBVIOUS
  <2> HIDE DEF bad
  <2> QED BY <1>2, <2>1, LeastNat
<1>4. CASE n = 0
  <2> DEFINE f == [k \in 0 .. 0 |-> 0]
  <2>1. f = [k \in 0 .. 0 |-> IF k = 0 THEN 0 ELSE f[k - 1] + s[k].time]
    OBVIOUS
  <2>2. SumTo(s, 0, f)
    BY <2>1 DEF SumTo
  <2> QED BY <1>4, <2>2
<1>5. CASE n # 0
  <2> DEFINE m == n - 1
  <2>1. n \in Nat /\ m \in Nat /\ m < n /\ n = m + 1
    BY <1>5
  <2>2. PICK g : SumTo(s, m, g)
    BY <1>3, <2>1
  <2> DEFINE f == [k \in 0 .. n |->
                      IF k = 0 THEN 0 ELSE g[k - 1] + s[k].time]
  <2> HIDE DEF m
  <2>3. \A k \in 0 .. m : f[k] = g[k]
    <3>1. \A k \in 0 .. m :
            g[k] = IF k = 0 THEN 0 ELSE g[k - 1] + s[k].time
      BY <2>2, ZenonT(30) DEF SumTo
    <3>2. \A k \in 0 .. m : k \in 0 .. n
      BY <2>1
    <3> QED BY <3>1, <3>2
  <2>4. \A k \in 0 .. n : k # 0 => k - 1 \in 0 .. m
    BY <2>1
  <2>5. f = [k \in 0 .. n |-> IF k = 0 THEN 0 ELSE f[k - 1] + s[k].time]
    BY <2>3, <2>4
  <2>6. SumTo(s, n, f)
    BY <2>5 DEF SumTo
  <2> QED BY <2>6
<1> QED BY <1>4, <1>5

LEMMA AtSteps ==
    ASSUME NEW s, Len(s) \in Nat
    PROVE  /\ At(s, 0) = 0
           /\ \A i \in 1 .. Len(s) : At(s, i) = At(s, i - 1) + s[i].time
<1> DEFINE f == CHOOSE f : SumTo(s, Len(s), f)
<1>1. SumTo(s, Len(s), f)
  BY SumExists
<1>2. \A i : At(s, i) = f[i]
  BY DEF At, SumTo
<1> HIDE DEF f
<1>3. \A k \in 0 .. Len(s) : f[k] = IF k = 0 THEN 0 ELSE f[k - 1] + s[k].time
  BY <1>1, ZenonT(30) DEF SumTo
<1>4. f[0] = 0
  BY <1>3
<1>5. \A i \in 1 .. Len(s) : f[i] = f[i - 1] + s[i].time
  BY <1>3
<1> QED BY <1>2, <1>4, <1>5

\* The times of list s are natural numbers.
Timed(s) == IsList(s) /\ \A i \in 1 .. Len(s) : s[i].time \in Nat

LEMMA AtTimed ==
    ASSUME NEW s, Timed(s)
    PROVE  /\ Len(s) \in Nat /\ At(s, 0) = 0
           /\ \A i \in 1 .. Len(s) : At(s, i) = At(s, i - 1) + s[i].time
           /\ \A i \in 0 .. Len(s) : At(s, i) \in Nat
           /\ \A i, j \in 0 .. Len(s) : i <= j => At(s, i) <= At(s, j)
<1>1. Len(s) \in Nat /\ \A i \in 1 .. Len(s) : s[i].time \in Nat
  BY ListFacts DEF Timed
<1>2. /\ At(s, 0) = 0
      /\ \A i \in 1 .. Len(s) : At(s, i) = At(s, i - 1) + s[i].time
  BY <1>1, AtSteps
<1> DEFINE Up(j) == At(s, j) \in Nat /\ \A i \in 0 .. j : At(s, i) <= At(s, j)
           bad == {j \in 0 .. Len(s) : ~Up(j)}
<1>3. ASSUME bad # {} PROVE FALSE
  <2>1. bad \in SUBSET Nat
    BY <1>1
  <2> HIDE DEF bad
  <2>2. PICK n \in bad : \A m \in bad : n <= m
    BY <1>3, <2>1, LeastNat
  <2> USE DEF bad
  <2>3. n \in 0 .. Len(s) /\ ~Up(n)
    BY <2>2
  <2>4. CASE n = 0
    BY <1>2, <2>3, <2>4
  <2>5. CASE n # 0
    <3>1. /\ n \in 1 .. Len(s) /\ n - 1 \in 0 .. Len(s) /\ ~(n <= n - 1)
          /\ n \in Nat
      BY <1>1, <2>3, <2>5
    <3>2. Up(n - 1)
      BY <2>2, <3>1
    <3>3. At(s, n) = At(s, n - 1) + s[n].time /\ s[n].time \in Nat
      BY <1>1, <1>2, <3>1
    <3>4. \A i \in 0 .. n : i = n \/ i \in 0 .. n - 1
      BY <3>1
    <3>5. At(s, n) \in Nat /\ At(s, n - 1) <= At(s, n) /\ At(s, n - 1) \in Nat
      BY <3>2, <3>3
    <3>6. \A i \in 0 .. n - 1 : At(s, i) <= At(s, n)
      <4> SUFFICES ASSUME NEW i \in 0 .. n - 1 PROVE At(s, i) <= At(s, n)
        OBVIOUS
      <4>1. i \in 0 .. Len(s) /\ i \notin bad
        BY <1>1, <2>2, <3>1
      <4>2. At(s, i) \in Nat /\ At(s, i) <= At(s, n - 1)
        BY <3>2, <4>1
      <4> QED BY <3>5, <4>2
    <3> QED BY <2>3, <3>4, <3>5, <3>6
  <2> QED BY <2>4, <2>5
<1>4. \A j \in 0 .. Len(s) : Up(j)
  BY <1>3
<1>5. \A i \in 0 .. Len(s) : At(s, i) \in Nat
  BY <1>4
<1>6. \A i, j \in 0 .. Len(s) : i <= j => At(s, i) <= At(s, j)
  <2> SUFFICES ASSUME NEW i \in 0 .. Len(s), NEW j \in 0 .. Len(s), i <= j
               PROVE  At(s, i) <= At(s, j)
    OBVIOUS
  <2>1. i \in 0 .. j
    BY <1>1
  <2> QED BY <1>4, <2>1
<1> QED BY <1>1, <1>2, <1>5, <1>6

\* The n times of list u from its b-th timer on are those of list s from its
\* a-th on.
SameTimes(s, a, u, b, n) ==
    /\ a + n <= Len(s) /\ b + n <= Len(u)
    /\ \A k \in 1 .. n : u[b + k].time = s[a + k].time

\* Where two lists have the same times, their timers are equally far apart.
LEMMA AtShift ==
    ASSUME NEW s, Timed(s), NEW u, Timed(u), NEW n \in Nat,
           NEW a \in Nat, NEW b \in Nat, NEW c \in Int,
           At(u, b) = At(s, a) + c, SameTimes(s, a, u, b, n)
    PROVE  \A k \in 0 .. n : At(u, b + k) = At(s, a + k) + c
<1>0. /\ a + n <= Len(s) /\ b + n <= Len(u)
      /\ \A k \in 1 .. n : u[b + k].time = s[a + k].time
  BY DEF SameTimes
<1>1. /\ Len(s) \in Nat
      /\ \A i \in 1 .. Len(s) : At(s, i) = At(s, i - 1) + s[i].time
      /\ \A i \in 0 .. Len(s) : At(s, i) \in Nat
  BY AtTimed
<1>2. /\ Len(u) \in Nat
      /\ \A i \in 1 .. Len(u) : At(u, i) = At(u, i - 1) + u[i].time
      /\ \A i \in 0 .. Len(u) : At(u, i) \in Nat
  BY AtTimed
<1>3. \A i \in 1 .. Len(s) : s[i].time \in Nat
  BY DEF Timed
<1> DEFINE bad == {k \in 0 .. n : At(u, b + k) # At(s, a + k) + c}
<1>4. ASSUME bad # {} PROVE FALSE
  <2>1. bad \in SUBSET Nat
    OBVIOUS
  <2> HIDE DEF bad
  <2>2. PICK k \in bad : \A m \in bad : k <= m
    BY <1>4, <2>1, LeastNat
  <2> USE DEF bad
  <2>3. k \in 0 .. n /\ At(u, b + k) # At(s, a + k) + c
    BY <2>2
  <2>4. k # 0
    BY <2>3
  <2> DEFINE j == k - 1
             p == b + k
             q == a + k
  <2>5. j \in 0 .. n /\ ~(k <= j) /\ k \in 1 .. n
    BY <2>3, <2>4
  <2>6. At(u, b + j) = At(s, a + j) + c
    BY <2>2, <2>5
  <2>7. /\ p \in 1 .. Len(u) /\ p - 1 = b + j
        /\ q \in 1 .. Len(s) /\ q - 1 = a + j /\ q - 1 \in 0 .. Len(s)
    BY <1>0, <1>1, <1>2, <2>5
  <2>8. u[p].time = s[q].time /\ s[q].time \in Nat
    BY <1>0, <1>3, <2>5, <2>7
  <2>9. At(u, p) # At(s, q) + c
    BY <2>3
  <2> HIDE DEF p, q, j
  <2>10. /\ At(u, p) = At(u, p - 1) + u[p].time
         /\ At(s, q) = At(s, q - 1) + s[q].time
         /\ At(s, q - 1) \in Nat
    BY <1>1, <1>2, <2>7
  <2>11. At(u, p - 1) = At(s, q - 1) + c
    BY <2>6, <2>7
  <2> QED BY <2>8, <2>9, <2>10, <2>11
<1> QED BY <1>4

\* Time that has passed is taken from the first timers on.
LEMMA AtSpent ==
    ASSUME NEW s, Timed(s), NEW el \in Nat
    PROVE  /\ Timed(Spent(s, el))
           /\ \A i \in 0 .. Len(s) : At(Spent(s, el), i) = Less(At(s, i), el)
<1> DEFINE u == Spent(s, el)
<1>1. /\ Len(s) \in Nat /\ At(s, 0) = 0
      /\ \A i \in 1 .. Len(s) : At(s, i) = At(s, i - 1) + s[i].time
      /\ \A i \in 0 .. Len(s) : At(s, i) \in Nat
  BY AtTimed
<1>2. IsList(s) /\ \A i \in 1 .. Len(s) : s[i].time \in Nat
  BY DEF Timed
<1>3. IsList(u) /\ SameTimers(s, u)
  BY <1>2, SpentList
<1>4. \A i \in 1 .. Len(s) :
          u[i].time = Less(s[i].time, Less(el, At(s, i - 1)))
  BY <1>2, SpentList
<1> HIDE DEF u
<1>5. \A i \in 1 .. Len(s) :
          /\ u[i].time \in Nat
          /\ Less(At(s, i), el) = Less(At(s, i - 1), el) + u[i].time
          /\ Less(At(s, i - 1), el) \in Nat
  <2> SUFFICES ASSUME NEW i \in 1 .. Len(s)
               PROVE  /\ u[i].time \in Nat
                      /\ Less(At(s, i), el) = Less(At(s, i - 1), el) + u[i].time
                      /\ Less(At(s, i - 1), el) \in Nat
    OBVIOUS
  <2> DEFINE x == At(s, i - 1)
             y == s[i].time
  <2>1. x \in Nat /\ y \in Nat /\ At(s, i) = x + y
    BY <1>1, <1>2
  <2>2. u[i].time = Less(y, Less(el, x))
    BY <1>4
  <2> HIDE DEF x, y
  <2>3. /\ Less(y, Less(el, x)) \in Nat
        /\ Less(x + y, el) = Less(x, el) + Less(y, Less(el, x))
        /\ Less(x, el) \in Nat
    BY <2>1 DEF Less
  <2> QED BY <2>1, <2>2, <2>3 DEF x
<1>6. Timed(u) /\ Len(u) = Len(s)
  BY <1>3, <1>5 DEF Timed, SameTimers
<1>7. /\ At(u, 0) = 0
      /\ \A i \in 1 .. Len(s) : At(u, i) = At(u, i - 1) + u[i].time
  BY <1>6, AtTimed
<1> DEFINE bad == {i \in 0 .. Len(s) : At(u, i) # Less(At(s, i), el)}
<1>8. ASSUME bad # {} PROVE FALSE
  <2>1. bad \in SUBSET Nat
    BY <1>1
  <2> HIDE DEF bad
  <2>2. PICK k \in bad : \A m \in bad : k <= m
    BY <1>8, <2>1, LeastNat
  <2> USE DEF bad
  <2>3. k \in 0 .. Len(s) /\ At(u, k) # Less(At(s, k), el)
    BY <2>2
  <2>4. k # 0
    BY <1>1, <1>7, <2>3 DEF Less
  <2>5. k \in 1 .. Len(s) /\ k - 1 \in 0 .. Len(s) /\ ~(k <= k - 1)
    BY <1>1, <2>3, <2>4
  <2>6. At(u, k - 1) = Less(At(s, k - 1), el)
    BY <2>2, <2>5
  <2> QED BY <1>5, <1>7, <2>3, <2>5, <2>6
<1> QED BY <1>6, <1>8 DEF u

\* The timers that are due are the first ones.
LEMMA DueFirst ==
    ASSUME NEW s, Timed(s), NEW el \in Int
    PROVE  /\ Due(s, el) \in 0 .. Len(s)
           /\ \A i \in 1 .. Due(s, el) : At(s, i) <= el
           /\ \A i \in Due(s, el) + 1 .. Len(s) : At(s, i) > el
<1> DEFINE L == Len(s)
           due == {i \in 1 .. L : At(s, i) <= el}
           later == {i \in 1 .. L : ~(At(s, i) <= el)}
<1>1. /\ L \in Nat
      /\ \A i \in 0 .. L : At(s, i) \in Nat
      /\ \A i, j \in 0 .. L : i <= j => At(s, i) <= At(s, j)
  BY AtTimed
<1>2. Due(s, el) = Cardinality(due)
  <2>1. DOMAIN s = 1 .. L
    BY ListFacts DEF Timed
  <2> QED BY <2>1 DEF Due
<1>3. \E n \in 0 .. L : due = 1 .. n /\ later = n + 1 .. L
  <2>1. CASE later = {}
    <3>1. due = 1 .. L /\ later = L + 1 .. L
      BY <1>1, <2>1
    <3> QED BY <1>1, <3>1
  <2>2. CASE later # {}
    <3>1. later \in SUBSET Nat
      BY <1>1
    <3> HIDE DEF later
    <3>2. PICK m \in later : \A k \in later : m <= k
      BY <2>2, <3>1, LeastNat
    <3> USE DEF later
    <3>3. m \in 1 .. L /\ ~(At(s, m) <= el)
      BY <3>2
    <3> HIDE DEF L
    <3>4. \A i \in 1 .. L : i < m => i \notin later
      BY <1>1, <3>2, <3>3
    <3>5. \A i \in 1 .. L : i >= m => i \in later
      <4> SUFFICES ASSUME NEW i \in 1 .. L, i >= m PROVE i \in later
        OBVIOUS
      <4>1. /\ i \in 0 .. L /\ m \in 0 .. L /\ m <= i
        BY <1>1, <3>3
      <4>2. At(s, m) <= At(s, i) /\ At(s, m) \in Nat /\ At(s, i) \in Nat
        BY <1>1, <4>1
      <4> QED BY <3>3, <4>2
    <3>6. m - 1 \in 0 .. L /\ due = 1 .. m - 1 /\ later = m - 1 + 1 .. L
      <4>1. \A i : i \in due <=> i \in 1 .. m - 1
        BY <1>1, <3>3, <3>4, <3>5
      <4>2. \A i : i \in later <=> i \in m - 1 + 1 .. L
        BY <1>1, <3>3, <3>4, <3>5
      <4>3. due = 1 .. m - 1
        BY <4>1
      <4>4. later = m - 1 + 1 .. L
        BY <4>2
      <4> QED BY <1>1, <3>3, <4>3, <4>4
    <3> QED BY <3>6
  <2> QED BY <2>1, <2>2
<1>4. PICK n \in 0 .. L : due = 1 .. n /\ later = n + 1 .. L
  BY <1>3
<1>5. Cardinality(due) = n
  <2>1. 1 \in Int /\ n \in Int
    BY <1>1
  <2>2. Cardinality(1 .. n) = IF 1 > n THEN 0 ELSE n - 1 + 1
    BY ONLY <2>1, FS_Interval
  <2>3. Cardinality(1 .. n) = n
    BY <1>1, <2>2
  <2> QED BY <1>4, <2>3
<1>6. \A i \in 1 .. n : At(s, i) <= el
  <2>1. \A i \in 1 .. n : i \in due
    BY <1>4
  <2> QED BY <2>1
<1>7. \A i \in n + 1 .. L : At(s, i) > el
  <2>1. \A i \in n + 1 .. L : i \in later /\ i \in 0 .. L
    BY <1>1, <1>4
  <2> QED BY <1>1, <2>1
<1> QED BY <1>2, <1>4, <1>5, <1>6, <1>7

LEMMA NotEmpty ==
    ASSUME NEW s, IsList(s)
    PROVE  Len(s) \in Nat /\ (s # <<>> <=> Len(s) >= 1)
<1>1. Len(s) \in Nat
  BY ListFacts
<1>2. s # <<>> => Len(s) >= 1
  BY TailList
<1>3. Len(<<>>) = 0
  BY EmptySeq
<1> QED BY <1>1, <1>2, <1>3

LEMMA HeadTime ==
    ASSUME NEW s, Timed(s), Len(s) >= 1
    PROVE  /\ Len(s) \in Nat /\ 1 \in 1 .. Len(s) /\ s # <<>>
           /\ At(s, 1) = s[1].time /\ s[1].time \in Nat
<1>1. Len(s) \in Nat /\ s # <<>>
  BY NotEmpty DEF Timed
<1>2. 1 \in 1 .. Len(s) /\ 1 - 1 = 0
  BY <1>1
<1>3. At(s, 0) = 0 /\ At(s, 1) = At(s, 1 - 1) + s[1].time
  BY <1>2, AtTimed
<1>4. s[1].time \in Nat
  BY <1>2 DEF Timed
<1> QED BY <1>1, <1>2, <1>3, <1>4

-----------------------------------------------------------------------------
(* The hardware timer.                                                     *)

\* The hardware timer runs exactly while timers do, and it was loaded for the
\* first of them.
HwInv ==
    /\ Timed(active)
    /\ value \in Nat /\ left \in Nat /\ elapsed \in Nat
    /\ enabled \in BOOLEAN /\ pending \in BOOLEAN
    /\ enabled <=> active # <<>>
    /\ active # <<>> =>
        /\ value = Larger(Less(active[1].time, HAL_TIMER_LOAD_DELTA),
                          HAL_TIMER_LOAD_DELTA)
        /\ left = Less(value + 1, elapsed)
        /\ left = 0 => pending \/ handler = "entered"

\* The three ways in which a step leaves the hardware timer.
LEMMA HwLoaded ==
    ASSUME Timed(active'), Len(active') >= 1, NEW load,
           active'[1].time = load, hal_timer_start(load), pending' \in BOOLEAN
    PROVE  HwInv' /\ elapsed' = 0
<1> DEFINE v == Larger(Less(load, HAL_TIMER_LOAD_DELTA),
                       HAL_TIMER_LOAD_DELTA)
<1>1. active' # <<>> /\ load \in Nat
  <2>1. IsList(active') /\ 1 \in 1 .. Len(active')
    BY ListFacts DEF Timed
  <2> QED BY <2>1, NotEmpty DEF Timed
<1>2. enabled' = TRUE /\ value' = v /\ left' = v + 1 /\ elapsed' = 0
  BY DEF hal_timer_start
<1>3. v \in Nat
  BY <1>1 DEF Larger, Less, HAL_TIMER_LOAD_DELTA
<1> HIDE DEF v
<1>4. left' = Less(value' + 1, elapsed') /\ left' # 0
  BY <1>2, <1>3 DEF Less
<1>5. value' \in Nat /\ left' \in Nat /\ elapsed' \in Nat
  BY <1>2, <1>3
<1> QED BY <1>1, <1>2, <1>4, <1>5 DEF HwInv, v

LEMMA HwStopped ==
    ASSUME HwInv, active' = <<>>, enabled' = FALSE, pending' \in BOOLEAN,
           UNCHANGED <<value, left, elapsed>>
    PROVE  HwInv'
<1>1. Timed(active')
  BY EmptyList, EmptySeq DEF Timed
<1> QED BY <1>1 DEF HwInv

LEMMA HwStays ==
    ASSUME HwInv, Timed(active'), UNCHANGED hw,
           active # <<>> <=> active' # <<>>,
           active # <<>> => active'[1].time = active[1].time,
           handler = "entered" => handler' = "entered" \/ left # 0
    PROVE  HwInv'
BY DEF HwInv, hw

\* What the functions read from the hardware timer, as the module's ASSERTs
\* expect it.
LEMMA RawValue ==
    ASSUME HwInv, active # <<>>
    PROVE  LET h == active[1].time
           IN  /\ h \in Nat /\ raw_value \in Nat /\ elapsed \in Nat
               /\ raw_value > 0 => raw_value - h + elapsed \in -1 .. 2
               /\ raw_value = 0 => elapsed >= h /\ left = 0
               /\ raw_value <= h \/ raw_value <= 1
               /\ h - raw_value - elapsed \in -1 - Less(elapsed, h) .. 1
<1> DEFINE h == active[1].time
<1>1. h \in Nat
  BY NotEmpty DEF HwInv, Timed
<1>2. elapsed \in Nat /\ value \in Nat /\ left \in Nat
  BY DEF HwInv
<1>3. /\ value = Larger(Less(h, HAL_TIMER_LOAD_DELTA), HAL_TIMER_LOAD_DELTA)
      /\ left = Less(value + 1, elapsed)
  BY DEF HwInv
<1> HIDE DEF h
<1>4. value = IF h >= 2 THEN h - 1 ELSE 1
  BY <1>1, <1>3 DEF Larger, Less, HAL_TIMER_LOAD_DELTA
<1>5. left = IF value + 1 > elapsed THEN value + 1 - elapsed ELSE 0
  BY <1>2, <1>3 DEF Less
<1>6. raw_value = IF elapsed = 0 THEN value
                  ELSE IF value + 1 > elapsed THEN value + 1 - elapsed ELSE 0
  BY <1>2, <1>4, <1>5 DEF raw_value
<1>7. raw_value \in Nat /\ (raw_value > 0 => raw_value - h + elapsed \in -1 .. 2)
  BY <1>1, <1>2, <1>4, <1>6
<1>8. raw_value = 0 => elapsed >= h /\ left = 0
  BY <1>1, <1>2, <1>4, <1>5, <1>6
<1>9. raw_value <= h \/ raw_value <= 1
  BY <1>1, <1>2, <1>4, <1>6
<1>10. h - raw_value - elapsed \in -1 - Less(elapsed, h) .. 1
  BY <1>1, <1>2, <1>4, <1>6 DEF Less
<1> QED BY <1>1, <1>2, <1>7, <1>8, <1>9, <1>10 DEF h

-----------------------------------------------------------------------------
(* What starting, stopping and firing do to the times.                     *)
\* A step leaves the timers that run on as they are, but for d ticks, and but
\* for those that are due.
KeepsTime(d) ==
    \A i \in 1 .. Len(active), j \in 1 .. Len(active') :
        active[i].timer = active'[j].timer =>
        \/ At(active', j) - elapsed' = At(active, i) - elapsed + d
        \/ /\ At(active, i) - elapsed <= 1
           /\ At(active', j) - elapsed' <= 1

LEMMA InsertedMatch ==
    ASSUME NEW s, IsList(s), Once(s), NEW u, NEW k, NEW t,
           Inserted(s, u, k, t), t \notin In(s),
           NEW i \in 1 .. Len(s), NEW j \in 1 .. Len(u),
           s[i].timer = u[j].timer
    PROVE  j = IF i < k THEN i ELSE i + 1
<1>1. Len(s) \in Nat /\ k \in 1 .. Len(s) + 1 /\ Len(u) = Len(s) + 1
  BY ListFacts DEF Inserted
<1>2. u[j].timer = IF j < k THEN s[j].timer
                   ELSE IF j = k THEN t ELSE s[j - 1].timer
  BY DEF Inserted
<1>3. j # k
  BY <1>1, <1>2 DEF In
<1> DEFINE p == IF j < k THEN j ELSE j - 1
<1>4. p \in 1 .. Len(s) /\ s[p].timer = s[i].timer
  BY <1>1, <1>2, <1>3
<1>5. p = i
  BY <1>4 DEF Once
<1> QED BY <1>1, <1>3, <1>5

LEMMA RemovedMatch ==
    ASSUME NEW s, IsList(s), Once(s), NEW u, NEW k, Removed(s, u, k),
           NEW i \in 1 .. Len(s), NEW j \in 1 .. Len(u),
           s[i].timer = u[j].timer
    PROVE  i = IF j < k THEN j ELSE j + 1
<1>1. Len(s) \in Nat /\ k \in 1 .. Len(s) /\ Len(u) = Len(s) - 1
  BY ListFacts DEF Removed
<1>2. u[j].timer = IF j < k THEN s[j].timer ELSE s[j + 1].timer
  BY DEF Removed
<1> DEFINE p == IF j < k THEN j ELSE j + 1
<1>4. p \in 1 .. Len(s) /\ s[p].timer = s[i].timer
  BY <1>1, <1>2
<1>5. p = i
  BY <1>4 DEF Once
<1> QED BY <1>5

\* The times of the list without its first timer.
LEMMA AtTail ==
    ASSUME NEW s, Timed(s), s # <<>>
    PROVE  /\ Timed(Tail(s)) /\ Len(Tail(s)) = Len(s) - 1 /\ Len(s) >= 1
           /\ \A i \in 0 .. Len(s) - 1 :
                At(Tail(s), i) = At(s, i + 1) - s[1].time
<1> DEFINE r == Tail(s)
           n == Len(s) - 1
           h == s[1].time
<1>1. /\ IsList(r) /\ Len(r) = n /\ Len(s) >= 1 /\ Len(s) \in Nat
      /\ \A i \in 1 .. n : r[i] = s[i + 1]
  BY TailList, ListFacts DEF Timed
<1>2. \A i \in 1 .. Len(s) : s[i].time \in Nat
  BY DEF Timed
<1> HIDE DEF r
<1>3. Timed(r)
  <2>1. \A i \in 1 .. n : i + 1 \in 1 .. Len(s)
    BY <1>1
  <2> QED BY <1>1, <1>2, <2>1 DEF Timed
<1>4. /\ At(s, 1) = h /\ h \in Nat
      /\ At(r, 0) = 0
  <2>1. 1 \in 1 .. Len(s) /\ 1 - 1 = 0
    BY <1>1
  <2>2. At(s, 0) = 0 /\ At(s, 1) = At(s, 1 - 1) + s[1].time
    BY <2>1, AtTimed
  <2>3. s[1].time \in Nat
    BY <1>2, <2>1
  <2>4. At(r, 0) = 0
    BY <1>3, AtTimed
  <2> QED BY <2>1, <2>2, <2>3, <2>4
<1> DEFINE c == -h
           a == 1
           b == 0
<1>5. /\ n \in Nat /\ c \in Int /\ At(r, b) = At(s, a) + c
      /\ SameTimes(s, a, r, b, n)
  <2>1. \A k \in 1 .. n : r[k] = s[k + 1] /\ 0 + k = k /\ 1 + k = k + 1
    BY <1>1
  <2> QED BY <1>1, <1>4, <2>1 DEF SameTimes
<1>6. \A k \in 0 .. n : At(r, b + k) = At(s, a + k) + c
  <2>1. a \in Nat /\ b \in Nat
    OBVIOUS
  <2> HIDE DEF n, a, b, c
  <2> QED BY <1>3, <1>5, <2>1, AtShift
<1>7. \A i \in 0 .. n : At(r, i) = At(s, i + 1) - h
  <2> SUFFICES ASSUME NEW i \in 0 .. n PROVE At(r, i) = At(s, i + 1) - h
    OBVIOUS
  <2>1. 0 + i = i /\ 1 + i = i + 1 /\ i + 1 \in 0 .. Len(s)
    BY <1>1
  <2>2. At(s, i + 1) \in Nat
    BY <2>1, AtTimed
  <2> QED BY <1>4, <1>6, <2>1, <2>2
<1> QED BY <1>1, <1>3, <1>7 DEF r

\* What a start does to the times: the others keep theirs, and the new timer
\* is due when it should be.
Starts(t, ticks) ==
    /\ HwInv'
    /\ \E d \in -1 .. 2 : KeepsTime(d)
    /\ \E p \in 1 .. Len(active') :
        /\ active'[p].timer = t
        /\ At(active', p) - elapsed' \in ticks - 1 - Late .. ticks + 1

LEMMA LateNat == HwInv => Late \in Nat
<1> SUFFICES ASSUME HwInv PROVE Late \in Nat
  OBVIOUS
<1>1. CASE active = <<>>
  BY <1>1 DEF Late
<1>2. CASE active # <<>>
  <2>1. /\ elapsed \in Nat /\ active[1].time \in Nat
        /\ Head(active) = active[1]
    BY <1>2, RawValue, TailList DEF HwInv, Timed
  <2> QED BY <1>2, <2>1 DEF Late, Less
<1> QED BY <1>1, <1>2

LEMMA FirstStarts ==
    ASSUME HwInv, NEW t \in Timers, NEW ticks \in Nat, StartFirst(t, ticks)
    PROVE  Starts(t, ticks)
<1>1. /\ active = <<>> /\ active' = <<Entry(t, ticks)>>
      /\ hal_timer_start(ticks) /\ pending' = pending
  BY DEF StartFirst
<1>2. IsList(active') /\ Len(active') = 1
      /\ active'[1].timer = t /\ active'[1].time = ticks
  BY <1>1, OneList
<1>3. Timed(active')
  BY <1>2 DEF Timed
<1>4. HwInv' /\ elapsed' = 0
  BY <1>1, <1>2, <1>3, HwLoaded DEF HwInv
<1>5. Len(active) = 0
  BY <1>1, EmptySeq
<1>6. KeepsTime(0)
  BY <1>5 DEF KeepsTime
<1>7. At(active', 1) = ticks
  BY <1>2, <1>3, HeadTime
<1>8. Late \in Nat
  BY LateNat
<1> QED BY <1>2, <1>4, <1>6, <1>7, <1>8 DEF Starts

LEMMA BeforeStarts ==
    ASSUME HwInv, Once(active), NEW t \in Timers, t \notin In(active),
           NEW ticks \in Nat, StartBefore(t, ticks)
    PROVE  Starts(t, ticks)
<1> DEFINE s == active
           L == Len(s)
           h == s[1].time
           d == raw_value - h + elapsed
<1>1. s # <<>> /\ raw_value > ticks /\ hal_timer_stop /\ hal_timer_start(ticks)
  BY DEF StartBefore
<1>2. Timed(s) /\ IsList(s)
  BY DEF HwInv, Timed
<1>3. L \in Nat /\ L >= 1 /\ At(s, 1) = h /\ h \in Nat
  BY <1>1, <1>2, NotEmpty, HeadTime
<1>4. raw_value \in Nat /\ elapsed \in Nat /\ d \in -1 .. 2
  BY <1>1, <1>3, RawValue
<1>5. PICK u : u = active'
  OBVIOUS
<1>6. /\ IsList(u) /\ Inserted(s, u, 1, t)
      /\ u[1].time = ticks /\ u[2].time = raw_value - ticks
      /\ \A i \in 2 .. L : u[i + 1] = s[i]
  BY <1>2, <1>5, BeforeInserts
<1>7. Len(u) = L + 1 /\ u[1].timer = t
  BY <1>3, <1>6 DEF Inserted
<1>8. Timed(u)
  <2> SUFFICES ASSUME NEW i \in 1 .. Len(u) PROVE u[i].time \in Nat
    BY <1>6 DEF Timed
  <2>1. CASE i = 1
    BY <1>6, <2>1
  <2>2. CASE i = 2
    BY <1>1, <1>4, <1>6, <2>2
  <2>3. CASE i > 2
    <3>1. i - 1 \in 2 .. L /\ i - 1 + 1 = i /\ i - 1 \in 1 .. L
      BY <1>3, <1>7, <2>3
    <3> QED BY <1>2, <1>6, <3>1 DEF Timed
  <2> QED BY <1>3, <1>7, <2>1, <2>2, <2>3
<1>9. HwInv' /\ elapsed' = 0
  <2>1. pending' = FALSE
    BY <1>1 DEF hal_timer_stop
  <2>2. Timed(active') /\ Len(active') >= 1 /\ active'[1].time = ticks
    BY <1>3, <1>5, <1>6, <1>7, <1>8
  <2> QED BY <1>1, <2>1, <2>2, HwLoaded
<1>10. At(u, 1) = ticks /\ At(u, 2) = raw_value
  <2>1. Len(u) >= 1 /\ 2 \in 1 .. Len(u) /\ 2 - 1 = 1
    BY <1>3, <1>7
  <2>2. At(u, 1) = u[1].time
    BY <1>8, <2>1, HeadTime
  <2>3. At(u, 2) = At(u, 2 - 1) + u[2].time
    BY <1>8, <2>1, AtTimed
  <2> QED BY <1>4, <1>6, <2>1, <2>2, <2>3
<1>11. \A i \in 1 .. L : At(u, i + 1) = At(s, i) + (raw_value - h)
  <2> DEFINE a == 1
             b == 2
             n == L - 1
             c == raw_value - h
  <2>1. a \in Nat /\ b \in Nat /\ n \in Nat /\ c \in Int
        /\ At(u, b) = At(s, a) + c
    BY <1>3, <1>4, <1>10
  <2>2. SameTimes(s, a, u, b, n)
    <3> SUFFICES ASSUME NEW k \in 1 .. n PROVE u[b + k].time = s[a + k].time
      BY <1>3, <1>7 DEF SameTimes
    <3>1. a + k \in 2 .. L /\ a + k + 1 = b + k
      BY <1>3
    <3> QED BY <1>6, <3>1
  <2>3. \A k \in 0 .. n : At(u, b + k) = At(s, a + k) + c
    <3> HIDE DEF a, b, n, c, s
    <3> QED BY <1>2, <1>8, <2>1, <2>2, AtShift DEF s
  <2> SUFFICES ASSUME NEW i \in 1 .. L PROVE At(u, i + 1) = At(s, i) + c
    OBVIOUS
  <2>4. i - 1 \in 0 .. n /\ b + (i - 1) = i + 1 /\ a + (i - 1) = i
    BY <1>3
  <2> HIDE DEF a, b, n, c
  <2> QED BY <2>3, <2>4
<1>12. KeepsTime(d)
  <2> SUFFICES ASSUME NEW i \in 1 .. L, NEW j \in 1 .. Len(u),
                      s[i].timer = u[j].timer
               PROVE  At(u, j) - 0 = At(s, i) - elapsed + d
    BY <1>5, <1>9 DEF KeepsTime
  <2>1. j = IF i < 1 THEN i ELSE i + 1
    BY <1>2, <1>6, InsertedMatch
  <2>2. j = i + 1 /\ i \in 0 .. L
    BY <1>3, <2>1
  <2>3. At(s, i) \in Nat
    BY <1>2, <2>2, AtTimed
  <2> QED BY <1>3, <1>4, <1>11, <2>2, <2>3
<1>13. Late \in Nat /\ 1 \in 1 .. Len(u)
  BY <1>3, <1>7, LateNat
<1>14. At(active', 1) - elapsed' \in ticks - 1 - Late .. ticks + 1
  BY <1>5, <1>9, <1>10, <1>13
<1> HIDE DEF d
<1> QED BY <1>4, <1>5, <1>7, <1>9, <1>12, <1>13, <1>14 DEF Starts

LEMMA BehindStarts ==
    ASSUME HwInv, Once(active), NEW t \in Timers, t \notin In(active),
           NEW ticks \in Nat, StartBehind(t, ticks), handler' = handler
    PROVE  Starts(t, ticks)
<1> DEFINE s == active
           L == Len(s)
           h == s[1].time
           r == Tail(s)
           rest == ticks - raw_value
           n == Due(r, rest - 1)
           dist == rest - At(r, n)
<1>1. s # <<>> /\ raw_value <= ticks /\ UNCHANGED hw
  BY DEF StartBehind
<1>2. Timed(s) /\ IsList(s)
  BY DEF HwInv, Timed
<1>3. L \in Nat /\ L >= 1 /\ At(s, 1) = h /\ h \in Nat
  BY <1>1, <1>2, NotEmpty, HeadTime
<1>4. /\ raw_value \in Nat /\ elapsed \in Nat /\ rest \in Nat
      /\ h - raw_value - elapsed \in -1 - Less(elapsed, h) .. 1
  BY <1>1, <1>3, RawValue
<1>5. /\ Timed(r) /\ Len(r) = L - 1
      /\ \A i \in 0 .. L - 1 : At(r, i) = At(s, i + 1) - h
  BY <1>1, <1>2, AtTail
<1>6. PICK u : u = active'
  OBVIOUS
<1>7. /\ IsList(u) /\ Inserted(s, u, n + 2, t)
      /\ \A i \in 1 .. n + 1 : u[i] = s[i]
      /\ u[n + 2].time = dist
      /\ \A i \in n + 2 .. L :
           u[i + 1].time = IF i = n + 2 THEN s[i].time - dist ELSE s[i].time
  BY <1>2, <1>6, BehindInserts
<1>8. /\ n \in 0 .. Len(r)
      /\ \A i \in 1 .. n : At(r, i) <= rest - 1
      /\ \A i \in n + 1 .. Len(r) : At(r, i) > rest - 1
  <2> HIDE DEF r, rest
  <2>1. rest - 1 \in Int
    BY <1>4
  <2> QED BY <1>5, <2>1, DueFirst
<1>9. At(r, 0) = 0 /\ \A i \in 0 .. Len(r) : At(r, i) \in Nat
  BY <1>5, AtTimed
<1> HIDE DEF n, r, rest
<1>10. n \in Nat /\ n <= L - 1 /\ At(r, n) \in Nat /\ At(r, n) <= rest
  <2>1. n \in Nat /\ n <= L - 1 /\ At(r, n) \in Nat
    BY <1>3, <1>5, <1>8, <1>9
  <2>2. At(r, n) <= rest
    <3>1. CASE n = 0
      BY <1>4, <1>9, <3>1
    <3>2. CASE n # 0
      BY <1>4, <1>8, <2>1, <3>2
    <3> QED BY <3>1, <3>2
  <2> QED BY <2>1, <2>2
<1>11. dist \in Nat
  BY <1>4, <1>10
<1>12. Len(u) = L + 1 /\ u[n + 2].timer = t /\ n + 2 \in 1 .. Len(u)
  BY <1>3, <1>7, <1>10 DEF Inserted
<1>13. /\ \A i \in 1 .. L : s[i].time \in Nat
       /\ \A i \in 1 .. L : At(s, i) = At(s, i - 1) + s[i].time
       /\ \A i \in 0 .. L : At(s, i) \in Nat
  BY <1>2, AtTimed DEF Timed
<1>14. n + 2 <= L => s[n + 2].time - dist \in Nat
  <2> SUFFICES ASSUME n + 2 <= L PROVE s[n + 2].time - dist \in Nat
    OBVIOUS
  <2>1. n + 1 \in n + 1 .. Len(r) /\ n + 1 \in 0 .. L - 1 /\ n \in 0 .. L - 1
        /\ n + 2 \in 1 .. L /\ n + 2 - 1 = n + 1 /\ n + 1 + 1 = n + 2
        /\ n + 1 \in 0 .. L
    BY <1>3, <1>5, <1>10
  <2>2. At(r, n + 1) > rest - 1
    BY <1>8, <2>1
  <2>3. At(r, n + 1) = At(s, n + 1 + 1) - h /\ At(r, n) = At(s, n + 1) - h
    BY <1>5, <2>1
  <2>4. At(s, n + 2) = At(s, n + 1) + s[n + 2].time
    BY <1>13, <2>1
  <2>5. s[n + 2].time \in Nat /\ At(s, n + 1) \in Nat
    BY <1>13, <2>1
  <2> DEFINE x == s[n + 2].time
             y == At(s, n + 1)
             z == At(r, n)
  <2>6. x \in Nat /\ y \in Nat /\ z \in Nat /\ y = z + h
    BY <1>3, <1>10, <2>3, <2>5
  <2>7. At(r, n + 1) = x + y - h
    BY <1>3, <2>1, <2>3, <2>4, <2>5
  <2>8. x + y - h > rest - 1
    BY <2>2, <2>7
  <2> HIDE DEF h, x, y, z
  <2>9. x - (rest - z) \in Nat
    BY <1>3, <1>4, <2>6, <2>8
  <2> QED BY <2>9 DEF x, z
<1>15. Timed(u)
  <2> SUFFICES ASSUME NEW i \in 1 .. Len(u) PROVE u[i].time \in Nat
    BY <1>7 DEF Timed
  <2>1. CASE i < n + 2
    <3>1. i \in 1 .. n + 1 /\ i \in 1 .. L
      BY <1>3, <1>10, <1>12, <2>1
    <3> QED BY <1>7, <1>13, <3>1
  <2>2. CASE i = n + 2
    BY <1>7, <1>11, <2>2
  <2>3. CASE i > n + 2
    <3>1. i - 1 \in n + 2 .. L /\ i - 1 + 1 = i /\ i - 1 \in 1 .. L
      BY <1>3, <1>10, <1>12, <2>3
    <3> HIDE DEF dist
    <3>2. u[i].time = IF i - 1 = n + 2 THEN s[i - 1].time - dist
                      ELSE s[i - 1].time
      BY <1>7, <3>1
    <3> QED BY <1>10, <1>13, <1>14, <3>1, <3>2
  <2> QED BY <1>10, <2>1, <2>2, <2>3
<1> HIDE DEF dist
<1>16. HwInv' /\ elapsed' = elapsed
  <2>1. 1 \in 1 .. n + 1 /\ Len(u) >= 1
    BY <1>3, <1>10, <1>12
  <2>2. u[1].time = s[1].time /\ u # <<>>
    BY <1>7, <2>1, NotEmpty
  <2>3. Timed(active') /\ active' # <<>> /\ active'[1].time = active[1].time
    BY <1>6, <1>15, <2>2
  <2> QED BY <1>1, <2>3, HwStays DEF hw
<1>17. \A i \in 0 .. n + 1 : At(u, i) = At(s, i)
  <2> DEFINE a == 0
             b == 0
             c == 0
             m == n + 1
  <2>1. /\ a \in Nat /\ b \in Nat /\ m \in Nat /\ c \in Int
        /\ At(u, b) = At(s, a) + c
    BY <1>2, <1>10, <1>15, AtTimed
  <2>2. SameTimes(s, a, u, b, m)
    BY <1>3, <1>7, <1>10, <1>12 DEF SameTimes
  <2>3. \A k \in 0 .. m : At(u, b + k) = At(s, a + k) + c
    <3> HIDE DEF a, b, c, m, s
    <3> QED BY <1>2, <1>15, <2>1, <2>2, AtShift DEF s
  <2> SUFFICES ASSUME NEW i \in 0 .. m PROVE At(u, i) = At(s, i)
    OBVIOUS
  <2>4. a + i = i /\ b + i = i /\ i \in 0 .. L
    BY <1>3, <1>10
  <2>5. At(s, i) \in Nat
    BY <1>13, <2>4
  <2> QED BY <2>3, <2>4, <2>5
<1>18. At(u, n + 2) = At(s, n + 1) + dist
  <2> DEFINE p == n + 2
  <2>1. p \in 1 .. Len(u) /\ p - 1 = n + 1 /\ n + 1 \in 0 .. n + 1
    BY <1>10, <1>12
  <2>2. u[p].time = dist
    BY <1>7
  <2> HIDE DEF p
  <2>3. At(u, p) = At(u, p - 1) + u[p].time
    BY <1>15, <2>1, AtTimed
  <2>4. At(u, p) = At(s, n + 1) + dist
    BY <1>17, <2>1, <2>2, <2>3
  <2> QED BY <2>4 DEF p
<1>19. \A i \in n + 2 .. L : At(u, i + 1) = At(s, i)
  <2> SUFFICES ASSUME n + 2 <= L
               PROVE  \A i \in n + 2 .. L : At(u, i + 1) = At(s, i)
    BY <1>3, <1>10
  <2> DEFINE a == n + 2
             b == n + 3
             m == L - a
             c == 0
  <2>1. a \in Nat /\ b \in Nat /\ m \in Nat /\ c \in Int
    BY <1>3, <1>10
  <2>2. At(u, b) = At(s, a) + c
    <3>1. /\ b \in 1 .. Len(u) /\ b - 1 = n + 2 /\ a \in 1 .. L
          /\ a - 1 = n + 1 /\ a - 1 \in 0 .. L /\ a + 1 = b
      <4>1. b \in 1 .. Len(u)
        BY <1>3, <1>10, <1>12
      <4>2. a \in 1 .. L /\ a - 1 \in 0 .. L
        BY <1>3, <1>10
      <4>3. b - 1 = n + 2 /\ a - 1 = n + 1 /\ a + 1 = b
        BY <1>10
      <4> QED BY <4>1, <4>2, <4>3
    <3>2. a \in n + 2 .. L /\ a = n + 2
      BY <1>3, <1>10
    <3>3. u[b].time = s[a].time - dist
      <4>1. u[a + 1].time = s[a].time - dist
        <5> HIDE DEF a
        <5> QED BY <1>7, <3>2
      <4> QED BY <3>1, <4>1
    <3>4. /\ At(s, a) = At(s, a - 1) + s[a].time
          /\ At(s, a - 1) \in Nat /\ s[a].time \in Nat
      BY <1>13, <3>1
    <3>5. At(u, a) = At(s, a - 1) + dist
      BY <1>18, <3>1
    <3> HIDE DEF a, b
    <3>6. At(u, b) = At(u, b - 1) + u[b].time
      BY <1>15, <3>1, AtTimed
    <3>7. b - 1 = a
      BY <3>1, <3>2, <1>10
    <3> QED BY <1>11, <3>3, <3>4, <3>5, <3>6, <3>7
  <2>3. SameTimes(s, a, u, b, m)
    <3> SUFFICES ASSUME NEW k \in 1 .. m PROVE u[b + k].time = s[a + k].time
      BY <1>3, <1>10, <1>12 DEF SameTimes
    <3> DEFINE p == a + k
    <3>1. p \in n + 2 .. L /\ p + 1 = b + k /\ p # n + 2
      <4>1. L \in Nat /\ n \in Nat /\ k \in Nat /\ 1 <= k /\ k <= m
        BY <1>3, <1>10
      <4> QED BY <4>1
    <3> HIDE DEF p
    <3>2. u[p + 1].time = s[p].time
      BY <1>7, <3>1
    <3> QED BY <3>1, <3>2 DEF p
  <2>4. \A k \in 0 .. m : At(u, b + k) = At(s, a + k) + c
    <3> HIDE DEF a, b, m, c, s
    <3> QED BY <1>2, <1>15, <2>1, <2>2, <2>3, AtShift DEF s
  <2> SUFFICES ASSUME NEW i \in n + 2 .. L PROVE At(u, i + 1) = At(s, i)
    OBVIOUS
  <2>5. i - a \in 0 .. m /\ b + (i - a) = i + 1 /\ a + (i - a) = i /\ i \in 0 .. L
    BY <1>3, <1>10
  <2>6. At(s, i) \in Nat
    BY <1>13, <2>5
  <2>7. At(u, i + 1) = At(s, i) + c
    <3> HIDE DEF a, b, m, c
    <3> QED BY <2>4, <2>5
  <2> QED BY <2>6, <2>7
<1>20. KeepsTime(0)
  <2> SUFFICES ASSUME NEW i \in 1 .. L, NEW j \in 1 .. Len(u),
                      s[i].timer = u[j].timer
               PROVE  At(u, j) - elapsed = At(s, i) - elapsed + 0
    BY <1>6, <1>16 DEF KeepsTime
  <2>1. j = IF i < n + 2 THEN i ELSE i + 1
    BY <1>2, <1>7, InsertedMatch
  <2>2. At(u, j) = At(s, i)
    <3>1. CASE i < n + 2
      <4>1. i \in 0 .. n + 1
        BY <1>10, <3>1
      <4> QED BY <1>17, <2>1, <3>1, <4>1
    <3>2. CASE ~(i < n + 2)
      <4>1. i \in n + 2 .. L
        BY <1>3, <1>10, <3>2
      <4> QED BY <1>19, <2>1, <3>2, <4>1
    <3> QED BY <3>1, <3>2
  <2>3. At(s, i) \in Nat
    BY <1>3, <1>13
  <2> QED BY <1>4, <2>2, <2>3
<1>21. At(u, n + 2) = h + ticks - raw_value
  <2>1. n \in 0 .. L - 1 /\ n + 1 \in 0 .. L
    BY <1>3, <1>10
  <2>2. At(r, n) = At(s, n + 1) - h /\ At(s, n + 1) \in Nat
    BY <1>5, <1>13, <2>1
  <2> DEFINE x == At(s, n + 1)
             y == At(r, n)
  <2>3. x \in Nat /\ y \in Nat /\ y = x - h /\ At(u, n + 2) = x + (rest - y)
    BY <1>10, <1>18, <2>2 DEF dist
  <2> HIDE DEF h, x, y
  <2>4. ticks \in Nat /\ raw_value \in Nat /\ h \in Nat
    BY <1>3, <1>4
  <2> QED BY <2>3, <2>4 DEF rest
<1>22. Late = Less(elapsed, h)
  BY <1>1, <1>2, TailList DEF Late
<1>23. Late \in Nat
  BY LateNat
<1>24. At(active', n + 2) - elapsed' \in ticks - 1 - Late .. ticks + 1
  <2>1. At(active', n + 2) - elapsed' = ticks + (h - raw_value - elapsed)
    BY <1>3, <1>4, <1>6, <1>16, <1>21
  <2> DEFINE x == h - raw_value - elapsed
  <2>2. x \in -1 - Late .. 1
    BY <1>4, <1>22
  <2> HIDE DEF x
  <2>3. ticks + x \in ticks - 1 - Late .. ticks + 1
    BY <1>23, <2>2
  <2> QED BY <2>1, <2>3 DEF x
<1> QED BY <1>6, <1>12, <1>16, <1>20, <1>24 DEF Starts

Stops == HwInv' /\ \E d \in -1 .. 2 : KeepsTime(d)

\* The first timer is taken off, and the others move by c.
LEMMA FirstTakenOff ==
    ASSUME NEW s, Timed(s), Once(s), NEW u, Timed(u), Removed(s, u, 1),
           NEW c \in Int,
           \A j \in 1 .. Len(u) :
               \/ At(u, j) = At(s, j + 1) + c
               \/ At(s, j + 1) <= elapsed /\ At(u, j) = 0,
           u = active', s = active, elapsed' = 0, elapsed \in Nat
    PROVE  KeepsTime(c + elapsed)
<1> SUFFICES ASSUME NEW i \in 1 .. Len(s), NEW j \in 1 .. Len(u),
                    s[i].timer = u[j].timer
             PROVE  \/ At(u, j) - 0 = At(s, i) - elapsed + (c + elapsed)
                    \/ At(s, i) - elapsed <= 1 /\ At(u, j) - 0 <= 1
  BY DEF KeepsTime
<1>1. IsList(s) /\ Len(s) \in Nat /\ Len(u) \in Nat
  BY AtTimed DEF Timed
<1>2. i = IF j < 1 THEN j ELSE j + 1
  BY <1>1, RemovedMatch
<1>3. i = j + 1 /\ i \in 0 .. Len(s)
  BY <1>1, <1>2
<1>4. At(s, i) \in Nat
  BY <1>3, AtTimed
<1>5. \/ At(u, j) = At(s, i) + c
      \/ At(s, i) <= elapsed /\ At(u, j) = 0
  BY <1>3
<1> HIDE DEF KeepsTime
<1> QED BY <1>4, <1>5

LEMMA FirstStops ==
    ASSUME HwInv, Once(active), NEW t, StopFirst(t)
    PROVE  Stops
<1> DEFINE s == active
           L == Len(s)
           h == s[1].time
           r == Tail(s)
           el == Less(elapsed, h)
<1>1. s # <<>> /\ pending' = FALSE
  BY DEF StopFirst, hal_timer_stop
<1>2. Timed(s) /\ IsList(s)
  BY DEF HwInv, Timed
<1>3. L \in Nat /\ L >= 1 /\ At(s, 1) = h /\ h \in Nat /\ Head(s) = s[1]
  BY <1>1, <1>2, NotEmpty, HeadTime, TailList
<1>4. /\ raw_value \in Nat /\ elapsed \in Nat
      /\ raw_value > 0 => raw_value - h + elapsed \in -1 .. 2
      /\ raw_value = 0 => elapsed >= h
  BY <1>1, <1>3, RawValue
<1>5. /\ Timed(r) /\ IsList(r) /\ Len(r) = L - 1
      /\ \A i \in 0 .. L - 1 : At(r, i) = At(s, i + 1) - h
      /\ \A i \in 1 .. L - 1 : r[i] = s[i + 1]
  BY <1>1, <1>2, AtTail, TailList DEF Timed
<1>6. PICK u : u = active'
  OBVIOUS
<1>7. CASE r = <<>>
  <2>1. u = <<>> /\ enabled' = FALSE /\ UNCHANGED <<value, left, elapsed>>
    BY <1>6, <1>7 DEF StopFirst
  <2>2. HwInv'
    BY <1>1, <1>6, <2>1, HwStopped
  <2>3. Len(u) = 0
    BY <2>1, EmptySeq
  <2>4. KeepsTime(0)
    BY <1>6, <2>3 DEF KeepsTime
  <2> QED BY <2>2, <2>4 DEF Stops
<1>8. CASE r # <<>>
  <2>1. /\ u = IF raw_value = 0 THEN Spent(r, el) ELSE Moved(r, raw_value)
        /\ hal_timer_start(Head(u).time)
    BY <1>3, <1>6, <1>8 DEF StopFirst
  <2> HIDE DEF r
  <2>2. \A i \in 1 .. L - 1 : At(r, i) = At(s, i + 1) - h /\ At(s, i + 1) \in Nat
    <3>1. \A i \in 1 .. L - 1 : i \in 0 .. L - 1 /\ i + 1 \in 0 .. L
      BY <1>3
    <3>2. \A i \in 0 .. L : At(s, i) \in Nat
      BY <1>2, AtTimed
    <3> QED BY <1>5, <3>1, <3>2
  <2>3. /\ Timed(u) /\ SameTimers(r, u)
        /\ IF raw_value = 0
           THEN \A j \in 1 .. L - 1 : At(u, j) = Less(At(r, j), el)
           ELSE \A j \in 1 .. L - 1 : At(u, j) = At(r, j) + raw_value
    <3>1. CASE raw_value = 0
      <4>1. u = Spent(r, el)
        BY <2>1, <3>1
      <4>2. el \in Nat
        BY <1>3, <1>4 DEF Less
      <4> HIDE DEF el
      <4>3. IsList(u) /\ SameTimers(r, u)
        BY <1>5, <4>1, SpentList
      <4>4. Timed(u) /\ \A i \in 0 .. Len(r) : At(u, i) = Less(At(r, i), el)
        BY <1>5, <4>1, <4>2, AtSpent
      <4>5. \A i \in 1 .. L - 1 : i \in 0 .. Len(r)
        BY <1>5
      <4> QED BY <3>1, <4>3, <4>4, <4>5
    <3>2. CASE raw_value # 0
      <4>1. u = Moved(r, raw_value)
        BY <2>1, <3>2
      <4>2. /\ IsList(u) /\ SameTimers(r, u)
            /\ \A i \in 1 .. Len(r) :
                 u[i].time = IF i = 1 THEN r[1].time + raw_value ELSE r[i].time
        BY <1>5, <4>1, MovedList
      <4>3. Len(u) = L - 1 /\ L - 1 >= 1
        BY <1>5, <1>8, <4>2, NotEmpty DEF SameTimers
      <4>4. \A i \in 1 .. L - 1 : r[i].time \in Nat
        BY <1>5 DEF Timed
      <4>5. Timed(u)
        BY <1>3, <1>4, <1>5, <4>2, <4>3, <4>4 DEF Timed
      <4>6. At(u, 1) = At(r, 1) + raw_value
        <5>1. At(u, 1) = u[1].time /\ At(r, 1) = r[1].time
          BY <1>5, <4>3, <4>5, HeadTime
        <5>2. 1 \in 1 .. Len(r)
          BY <1>3, <1>5, <4>3
        <5> QED BY <4>2, <5>1, <5>2
      <4> DEFINE a == 1
                 b == 1
                 n == L - 2
                 c == raw_value
      <4>7. /\ a \in Nat /\ b \in Nat /\ n \in Nat /\ c \in Int
            /\ At(u, b) = At(r, a) + c
        BY <1>3, <1>4, <4>3, <4>6
      <4>8. SameTimes(r, a, u, b, n)
        <5> SUFFICES ASSUME NEW k \in 1 .. n PROVE u[b + k].time = r[a + k].time
          BY <1>3, <1>5, <4>3 DEF SameTimes
        <5> DEFINE p == 1 + k
        <5>1. p \in 1 .. Len(r) /\ p # 1
          BY <1>3, <1>5
        <5> HIDE DEF p
        <5>2. u[p].time = r[p].time
          BY <4>2, <5>1
        <5> QED BY <5>2 DEF p
      <4>9. \A k \in 0 .. n : At(u, b + k) = At(r, a + k) + c
        <5>1. Timed(r) /\ Timed(u)
          BY <1>5, <4>5
        <5> HIDE DEF a, b, c, n
        <5> QED BY <4>7, <4>8, <5>1, AtShift
      <4>10. \A j \in 1 .. L - 1 : At(u, j) = At(r, j) + raw_value
        <5> SUFFICES ASSUME NEW j \in 1 .. L - 1
                     PROVE  At(u, j) = At(r, j) + c
          OBVIOUS
        <5>1. j - 1 \in 0 .. n /\ b + (j - 1) = j /\ a + (j - 1) = j
          BY <1>3
        <5> HIDE DEF a, b, c, n
        <5> QED BY <4>9, <5>1
      <4> QED BY <3>2, <4>2, <4>5, <4>10
    <3> QED BY <3>1, <3>2
  <2>4. Len(u) = L - 1 /\ L - 1 >= 1 /\ IsList(u)
    BY <1>5, <1>8, <2>3, NotEmpty DEF SameTimers, Timed
  <2>5. HwInv' /\ elapsed' = 0
    <3>1. Head(u) = u[1]
      BY <2>4, NotEmpty, TailList
    <3>2. Timed(active') /\ Len(active') >= 1 /\ active'[1].time = Head(u).time
      BY <1>6, <2>3, <2>4, <3>1
    <3> QED BY <1>1, <2>1, <3>2, HwLoaded
  <2>6. Removed(s, u, 1)
    <3>1. \A i \in 1 .. Len(u) : u[i].timer = s[i + 1].timer /\ ~(i < 1)
      BY <1>3, <1>5, <2>3, <2>4 DEF SameTimers
    <3> QED BY <1>3, <2>4, <3>1 DEF Removed
  <2>7. CASE raw_value = 0
    <3> DEFINE c == -elapsed
    <3>1. \A j \in 1 .. Len(u) :
              \/ At(u, j) = At(s, j + 1) + c
              \/ At(s, j + 1) <= elapsed /\ At(u, j) = 0
      <4> SUFFICES ASSUME NEW j \in 1 .. L - 1
                   PROVE  \/ At(u, j) = At(s, j + 1) + c
                          \/ At(s, j + 1) <= elapsed /\ At(u, j) = 0
        BY <2>4
      <4> DEFINE x == At(s, j + 1)
      <4>1. x \in Nat /\ At(u, j) = Less(x - h, el)
        BY <2>2, <2>3, <2>7
      <4>2. elapsed >= h
        BY <1>4, <2>7
      <4> HIDE DEF x, h
      <4>3. Less(x - h, el) = x + c \/ (x <= elapsed /\ Less(x - h, el) = 0)
        BY <1>3, <1>4, <4>1, <4>2 DEF Less
      <4> QED BY <4>1, <4>3 DEF x
    <3>2. c \in Int /\ c + elapsed = 0
      BY <1>4
    <3> HIDE DEF c
    <3>3. KeepsTime(c + elapsed)
      BY <1>2, <1>4, <1>6, <2>3, <2>5, <2>6, <3>1, <3>2, FirstTakenOff
    <3> QED BY <2>5, <3>2, <3>3 DEF Stops
  <2>8. CASE raw_value # 0
    <3> DEFINE c == raw_value - h
    <3>1. \A j \in 1 .. Len(u) : At(u, j) = At(s, j + 1) + c
      <4> SUFFICES ASSUME NEW j \in 1 .. L - 1 PROVE At(u, j) = At(s, j + 1) + c
        BY <2>4
      <4> DEFINE x == At(s, j + 1)
      <4>1. x \in Nat /\ At(u, j) = x - h + raw_value
        BY <2>2, <2>3, <2>8
      <4> HIDE DEF x, h
      <4> QED BY <1>3, <1>4, <4>1 DEF x
    <3>2. c \in Int /\ c + elapsed \in -1 .. 2
      BY <1>3, <1>4, <2>8
    <3> HIDE DEF c
    <3>3. KeepsTime(c + elapsed)
      BY <1>2, <1>4, <1>6, <2>3, <2>5, <2>6, <3>1, <3>2, FirstTakenOff
    <3> QED BY <2>5, <3>2, <3>3 DEF Stops
  <2> QED BY <2>7, <2>8
<1> QED BY <1>7, <1>8

LEMMA BehindStops ==
    ASSUME HwInv, Once(active), NEW t, StopBehind(t), handler' = handler
    PROVE  Stops
<1> DEFINE s == active
           L == Len(s)
<1>1. UNCHANGED hw
  BY DEF StopBehind
<1>2. Timed(s) /\ IsList(s) /\ elapsed \in Nat
  BY DEF HwInv, Timed
<1>3. PICK u : u = active'
  OBVIOUS
<1>4. PICK k \in 2 .. L :
        /\ Removed(s, u, k)
        /\ \A i \in 1 .. k - 1 : u[i] = s[i]
        /\ \A i \in k .. L - 1 :
             u[i].time = IF i = k THEN s[k + 1].time + s[k].time
                         ELSE s[i + 1].time
  BY <1>2, <1>3, BehindRemoves
<1>5. IsList(u)
  BY <1>2, <1>3, BehindRemoves
<1>6. /\ L \in Nat
      /\ \A i \in 1 .. L : At(s, i) = At(s, i - 1) + s[i].time
      /\ \A i \in 0 .. L : At(s, i) \in Nat
      /\ \A i \in 1 .. L : s[i].time \in Nat
  BY <1>2, AtTimed DEF Timed
<1>7. Len(u) = L - 1 /\ k \in Nat /\ k >= 2 /\ k <= L
  BY <1>4, <1>6 DEF Removed
<1>8. Timed(u)
  <2> SUFFICES ASSUME NEW i \in 1 .. Len(u) PROVE u[i].time \in Nat
    BY <1>5 DEF Timed
  <2>1. CASE i < k
    <3>1. i \in 1 .. k - 1 /\ i \in 1 .. L
      BY <1>6, <1>7, <2>1
    <3> QED BY <1>4, <1>6, <3>1
  <2>2. CASE ~(i < k)
    <3>1. /\ i \in k .. L - 1 /\ i + 1 \in 1 .. L /\ k \in 1 .. L
          /\ k + 1 \in 1 .. L
      BY <1>6, <1>7, <2>2
    <3>2. s[i + 1].time \in Nat /\ s[k + 1].time \in Nat /\ s[k].time \in Nat
      <4>1. \A j \in 1 .. L : s[j].time \in Nat
        BY <1>6
      <4> HIDE DEF L, s
      <4> QED BY <3>1, <4>1
    <3>3. u[i].time = IF i = k THEN s[k + 1].time + s[k].time
                      ELSE s[i + 1].time
      BY <1>4, <3>1
    <3> QED BY <3>2, <3>3
  <2> QED BY <2>1, <2>2
<1>9. HwInv' /\ elapsed' = elapsed
  <2>1. 1 \in 1 .. k - 1 /\ Len(u) >= 1 /\ L >= 1
    BY <1>6, <1>7
  <2>2. u[1].time = s[1].time /\ u # <<>> /\ s # <<>>
    BY <1>2, <1>4, <1>5, <2>1, NotEmpty
  <2>3. /\ Timed(active') /\ active' # <<>> /\ active # <<>>
        /\ active'[1].time = active[1].time
    BY <1>3, <1>8, <2>2
  <2> QED BY <1>1, <2>3, HwStays DEF hw
<1>10. \A i \in 0 .. k - 1 : At(u, i) = At(s, i)
  <2> DEFINE a == 0
             b == 0
             c == 0
             m == k - 1
  <2>1. /\ a \in Nat /\ b \in Nat /\ m \in Nat /\ c \in Int
        /\ At(u, b) = At(s, a) + c
    BY <1>2, <1>7, <1>8, AtTimed
  <2>2. SameTimes(s, a, u, b, m)
    BY <1>4, <1>6, <1>7 DEF SameTimes
  <2>3. \A j \in 0 .. m : At(u, b + j) = At(s, a + j) + c
    <3> HIDE DEF a, b, c, m, s
    <3> QED BY <1>2, <1>8, <2>1, <2>2, AtShift DEF s
  <2> SUFFICES ASSUME NEW i \in 0 .. m PROVE At(u, i) = At(s, i)
    OBVIOUS
  <2>4. a + i = i /\ b + i = i /\ i \in 0 .. L
    BY <1>6, <1>7
  <2>5. At(s, i) \in Nat
    BY <1>6, <2>4
  <2> QED BY <2>3, <2>4, <2>5
<1>11. \A i \in k .. L - 1 : At(u, i) = At(s, i + 1)
  <2> SUFFICES ASSUME k <= L - 1
               PROVE  \A i \in k .. L - 1 : At(u, i) = At(s, i + 1)
    BY <1>6, <1>7
  <2> DEFINE a == k + 1
             b == k
             m == L - a
             c == 0
  <2>1. a \in Nat /\ b \in Nat /\ m \in Nat /\ c \in Int
    BY <1>6, <1>7
  <2>2. At(u, b) = At(s, a) + c
    <3>1. /\ k \in 1 .. Len(u) /\ k \in 1 .. L /\ a \in 1 .. L
          /\ k - 1 \in 0 .. k - 1 /\ k - 1 \in 0 .. L /\ k \in k .. L - 1
      BY <1>6, <1>7
    <3>2. At(u, k) = At(u, k - 1) + u[k].time
      BY <1>8, <3>1, AtTimed
    <3>3. u[k].time = s[k + 1].time + s[k].time
      BY <1>4, <3>1
    <3>4. At(u, k - 1) = At(s, k - 1) /\ At(s, k - 1) \in Nat
      BY <1>6, <1>10, <3>1
    <3>5. /\ At(s, k) = At(s, k - 1) + s[k].time
          /\ s[k].time \in Nat /\ s[a].time \in Nat
      BY <1>6, <3>1
    <3>6. a - 1 = k /\ s[k + 1].time = s[a].time
      BY <1>7
    <3> HIDE DEF a
    <3>7. At(s, a) = At(s, a - 1) + s[a].time
      BY <1>6, <3>1
    <3> QED BY <3>2, <3>3, <3>4, <3>5, <3>6, <3>7
  <2>3. SameTimes(s, a, u, b, m)
    <3> SUFFICES ASSUME NEW j \in 1 .. m PROVE u[b + j].time = s[a + j].time
      BY <1>6, <1>7 DEF SameTimes
    <3> DEFINE p == b + j
    <3>1. p \in k .. L - 1 /\ p # k /\ p + 1 = a + j
      BY <1>6, <1>7
    <3> HIDE DEF p
    <3>2. u[p].time = s[p + 1].time
      BY <1>4, <3>1
    <3> QED BY <3>1, <3>2 DEF p
  <2>4. \A j \in 0 .. m : At(u, b + j) = At(s, a + j) + c
    <3> HIDE DEF a, b, c, m, s
    <3> QED BY <1>2, <1>8, <2>1, <2>2, <2>3, AtShift DEF s
  <2> SUFFICES ASSUME NEW i \in k .. L - 1 PROVE At(u, i) = At(s, i + 1)
    OBVIOUS
  <2>5. /\ i - k \in 0 .. m /\ b + (i - k) = i /\ a + (i - k) = i + 1
        /\ i + 1 \in 0 .. L
    BY <1>6, <1>7
  <2>6. At(s, i + 1) \in Nat
    BY <1>6, <2>5
  <2>7. At(u, i) = At(s, i + 1) + c
    <3> HIDE DEF a, b, c, m
    <3> QED BY <2>4, <2>5
  <2> QED BY <2>6, <2>7
<1>12. KeepsTime(0)
  <2> SUFFICES ASSUME NEW i \in 1 .. L, NEW j \in 1 .. Len(u),
                      s[i].timer = u[j].timer
               PROVE  At(u, j) - elapsed = At(s, i) - elapsed + 0
    BY <1>3, <1>9 DEF KeepsTime
  <2>1. i = IF j < k THEN j ELSE j + 1
    BY <1>2, <1>4, RemovedMatch
  <2>2. At(u, j) = At(s, i)
    <3>1. CASE j < k
      <4>1. j \in 0 .. k - 1
        BY <1>7, <3>1
      <4> QED BY <1>10, <2>1, <3>1, <4>1
    <3>2. CASE ~(j < k)
      <4>1. j \in k .. L - 1
        BY <1>6, <1>7, <3>2
      <4> QED BY <1>11, <2>1, <3>2, <4>1
    <3> QED BY <3>1, <3>2
  <2>3. At(s, i) \in Nat
    BY <1>6
  <2> QED BY <1>2, <2>2, <2>3
<1> QED BY <1>9, <1>12 DEF Stops

\* What the handler does to the times: those that run on keep theirs, and the
\* others were due.
Fires ==
    /\ Stops
    /\ \A i \in 1 .. Len(active) :
        active[i].timer \notin In(active') => At(active, i) - elapsed <= 1

LEMMA HandlerFiresTimes ==
    ASSUME HwInv, Once(active), HandlerFires
    PROVE  Fires
<1> DEFINE s == active
           L == Len(s)
           h == s[1].time
           r == Tail(s)
           el == Less(elapsed, h)
           v == Spent(r, el)
           n == Due(r, el)
<1>1. s # <<>> /\ elapsed + HAL_TIMER_LOAD_DELTA >= Head(s).time
  <2>1. s # <<>> /\ ~(Head(s).time > elapsed + HAL_TIMER_LOAD_DELTA)
    BY DEF HandlerFires, NothingDue
  <2>2. Head(s).time \in Nat /\ elapsed \in Nat
    BY <2>1, NotEmpty, TailList DEF HwInv, Timed
  <2> QED BY <2>1, <2>2 DEF HAL_TIMER_LOAD_DELTA
<1>2. Timed(s) /\ IsList(s) /\ elapsed \in Nat /\ pending \in BOOLEAN
  BY DEF HwInv, Timed
<1>3. L \in Nat /\ L >= 1 /\ At(s, 1) = h /\ h \in Nat /\ Head(s) = s[1]
  BY <1>1, <1>2, NotEmpty, HeadTime, TailList
<1>4. elapsed + 1 >= h /\ el \in Nat
  BY <1>1, <1>2, <1>3 DEF HAL_TIMER_LOAD_DELTA, Less
<1>5. PICK u : u = active'
  OBVIOUS
<1>6. /\ u = From(v, n + 1)
      /\ IF n < Len(v)
         THEN hal_timer_start(v[n + 1].time) /\ UNCHANGED pending
         ELSE /\ hal_timer_stop
              /\ enabled' = FALSE
              /\ UNCHANGED <<value, left, elapsed>>
  BY <1>3, <1>5 DEF HandlerFires
<1>7. /\ Timed(r) /\ IsList(r) /\ Len(r) = L - 1
      /\ \A i \in 0 .. L - 1 : At(r, i) = At(s, i + 1) - h
      /\ \A i \in 1 .. L - 1 : r[i] = s[i + 1]
  BY <1>1, <1>2, AtTail, TailList DEF Timed
<1> HIDE DEF r, el
<1>8. /\ n \in 0 .. Len(r)
      /\ \A i \in 1 .. n : At(r, i) <= el
      /\ \A i \in n + 1 .. Len(r) : At(r, i) > el
  <2>1. el \in Int
    BY <1>4
  <2> QED BY <1>7, <2>1, DueFirst
<1>9. IsList(v) /\ SameTimers(r, v)
  BY <1>7, SpentList
<1>10. Timed(v) /\ \A i \in 0 .. Len(r) : At(v, i) = Less(At(r, i), el)
  BY <1>4, <1>7, AtSpent
<1>11. At(r, 0) = 0 /\ \A i \in 0 .. Len(r) : At(r, i) \in Nat
  BY <1>7, AtTimed
<1> HIDE DEF n, v
<1>12. Len(v) = L - 1 /\ n \in Nat /\ n <= L - 1
  BY <1>3, <1>7, <1>8, <1>9 DEF SameTimers
<1>13. /\ IsList(u) /\ Len(u) = L - 1 - n
       /\ \A i \in 1 .. L - 1 - n : u[i] = v[n + i]
  <2>1. n <= Len(v)
    BY <1>12
  <2>2. /\ IsList(From(v, n + 1)) /\ Len(From(v, n + 1)) = Len(v) - n
        /\ \A i \in 1 .. Len(v) - n : From(v, n + 1)[i] = v[n + i]
    BY <1>9, <1>12, <2>1, FromList
  <2> QED BY <1>6, <1>12, <2>2
<1>14. Timed(u)
  <2> SUFFICES ASSUME NEW i \in 1 .. Len(u) PROVE u[i].time \in Nat
    BY <1>13 DEF Timed
  <2>1. n + i \in 1 .. Len(v)
    BY <1>3, <1>12, <1>13
  <2> QED BY <1>10, <1>13, <2>1 DEF Timed
<1>15. HwInv'
  <2>1. CASE n < Len(v)
    <3>1. hal_timer_start(v[n + 1].time) /\ pending' = pending
      BY <1>6, <2>1
    <3>2. Len(u) >= 1 /\ u[1].time = v[n + 1].time
      BY <1>3, <1>12, <1>13, <2>1
    <3>3. /\ Timed(active') /\ Len(active') >= 1
          /\ active'[1].time = v[n + 1].time
      BY <1>5, <1>14, <3>2
    <3> QED BY <1>2, <3>1, <3>3, HwLoaded
  <2>2. CASE ~(n < Len(v))
    <3>1. Len(u) = 0
      BY <1>3, <1>12, <1>13, <2>2
    <3>2. active' = <<>>
      BY <1>5, <1>13, <3>1, NotEmpty
    <3>3. pending' = FALSE /\ enabled' = FALSE /\ UNCHANGED <<value, left, elapsed>>
      BY <1>6, <2>2 DEF hal_timer_stop
    <3> QED BY <3>2, <3>3, HwStopped
  <2> QED BY <2>1, <2>2
<1>16. \A j \in 1 .. Len(u) : u[j].timer = s[n + 1 + j].timer
  <2> SUFFICES ASSUME NEW j \in 1 .. Len(u)
               PROVE  u[j].timer = s[n + 1 + j].timer
    OBVIOUS
  <2>1. /\ n + j \in 1 .. L - 1 /\ n + j + 1 = n + 1 + j
        /\ j \in 1 .. L - 1 - n
    BY <1>3, <1>12, <1>13
  <2>2. u[j] = v[n + j]
    BY <1>13, <2>1
  <2>3. v[n + j].timer = r[n + j].timer
    BY <1>7, <1>9, <2>1 DEF SameTimers
  <2> QED BY <1>7, <2>1, <2>2, <2>3
<1>17. \A j \in 0 .. Len(u) : At(u, j) = At(v, n + j) /\ At(v, n) = 0
  <2>1. At(v, n) = 0
    <3>1. At(r, n) <= el
      <4>1. CASE n = 0
        BY <1>4, <1>11, <4>1
      <4>2. CASE n # 0
        <5>1. n \in 1 .. n
          BY <1>12, <4>2
        <5> QED BY <1>8, <5>1
      <4> QED BY <4>1, <4>2
    <3>2. At(r, n) \in Nat /\ At(v, n) = Less(At(r, n), el)
      BY <1>8, <1>10, <1>11
    <3> QED BY <1>4, <3>1, <3>2 DEF Less
  <2> DEFINE b == 0
             c == 0
             m == L - 1 - n
  <2>2. /\ b \in Nat /\ m \in Nat /\ c \in Int /\ At(u, b) = At(v, n) + c
    <3>1. At(u, 0) = 0
      BY <1>14, AtTimed
    <3> QED BY <1>3, <1>12, <2>1, <3>1
  <2>3. SameTimes(v, n, u, b, m)
    BY <1>3, <1>12, <1>13 DEF SameTimes
  <2>4. \A k \in 0 .. m : At(u, b + k) = At(v, n + k) + c
    <3>1. Timed(v) /\ Timed(u)
      BY <1>10, <1>14
    <3>2. n \in Nat
      BY <1>12
    <3> HIDE DEF b, c, m
    <3> QED BY <2>2, <2>3, <3>1, <3>2, AtShift
  <2>5. \A i \in 0 .. Len(v) : At(v, i) \in Nat
    BY <1>10, AtTimed
  <2> SUFFICES ASSUME NEW j \in 0 .. m PROVE At(u, j) = At(v, n + j)
    BY <1>13, <2>1
  <2>6. b + j = j /\ n + j \in 0 .. Len(v)
    BY <1>3, <1>12
  <2>7. At(v, n + j) \in Nat
    BY <2>5, <2>6
  <2> QED BY <2>4, <2>6, <2>7
<1>18. \A i \in 1 .. L, j \in 1 .. Len(u) :
           s[i].timer = u[j].timer => i = n + 1 + j
  <2> SUFFICES ASSUME NEW i \in 1 .. L, NEW j \in 1 .. Len(u),
                      s[i].timer = u[j].timer
               PROVE  i = n + 1 + j
    OBVIOUS
  <2>1. n + 1 + j \in 1 .. L
    BY <1>3, <1>12, <1>13
  <2>2. s[i].timer = s[n + 1 + j].timer
    BY <1>16
  <2> QED BY <2>1, <2>2 DEF Once
<1>19. \A i \in 0 .. L : At(s, i) \in Nat
  BY <1>2, AtTimed
<1> DEFINE d == IF elapsed >= h THEN 0 ELSE -1
<1>20. KeepsTime(d)
  <2>1. CASE n < Len(v)
    <3>1. elapsed' = 0
      BY <1>6, <2>1 DEF hal_timer_start
    <3> SUFFICES ASSUME NEW i \in 1 .. L, NEW j \in 1 .. Len(u),
                        s[i].timer = u[j].timer
                 PROVE  At(u, j) - 0 = At(s, i) - elapsed + d
      BY <1>5, <3>1 DEF KeepsTime
    <3>2. /\ i = n + 1 + j /\ n + j \in 0 .. L - 1 /\ n + j + 1 = i
          /\ n + j \in n + 1 .. Len(r) /\ j \in 0 .. Len(u) /\ i \in 0 .. L
      BY <1>3, <1>7, <1>12, <1>13, <1>18
    <3> DEFINE x == At(s, i)
    <3>3. At(r, n + j) = x - h /\ x \in Nat
      BY <1>7, <1>19, <3>2
    <3>4. x - h > el
      BY <1>8, <3>2, <3>3
    <3>5. At(u, j) = Less(x - h, el)
      BY <1>7, <1>10, <1>17, <3>2, <3>3
    <3> HIDE DEF x, h
    <3>6. el = Less(elapsed, h)
      BY DEF el
    <3> QED BY <1>2, <1>3, <1>4, <3>3, <3>4, <3>5, <3>6 DEF Less, x
  <2>2. CASE ~(n < Len(v))
    <3>1. Len(u) = 0
      BY <1>3, <1>12, <1>13, <2>2
    <3> QED BY <1>5, <3>1 DEF KeepsTime
  <2> QED BY <2>1, <2>2
<1>21. ASSUME NEW i \in 1 .. L, s[i].timer \notin In(u)
       PROVE  At(s, i) - elapsed <= 1
  <2>1. i <= n + 1
    <3> SUFFICES ASSUME i > n + 1 PROVE FALSE
      BY <1>3, <1>12
    <3> DEFINE j == i - (n + 1)
    <3>1. j \in 1 .. Len(u) /\ n + 1 + j = i
      BY <1>3, <1>12, <1>13
    <3> HIDE DEF j
    <3>2. u[j].timer = s[i].timer
      BY <1>16, <3>1
    <3> QED BY <1>21, <3>1, <3>2 DEF In
  <2>2. CASE i = 1
    BY <1>2, <1>3, <1>4, <2>2
  <2>3. CASE i # 1
    <3> DEFINE j == i - 1
               x == At(s, i)
    <3>1. j \in 1 .. n /\ j \in 0 .. L - 1 /\ j + 1 = i /\ i \in 0 .. L
      BY <1>3, <1>12, <2>1, <2>3
    <3> HIDE DEF j
    <3>2. At(r, j) = x - h /\ x \in Nat /\ At(r, j) <= el
      BY <1>7, <1>8, <1>19, <3>1
    <3> HIDE DEF x, h
    <3>3. el = Less(elapsed, h)
      BY DEF el
    <3> QED BY <1>2, <1>3, <1>4, <3>2, <3>3 DEF Less, x
  <2> QED BY <2>2, <2>3
<1>22. d \in -1 .. 2
  OBVIOUS
<1> HIDE DEF d
<1> QED BY <1>5, <1>15, <1>20, <1>21, <1>22 DEF Fires, Stops

-----------------------------------------------------------------------------
(* The steps, and what they leave of the times.                            *)

\* A step that leaves the list and the hardware's time alone.
LEMMA KeepsSame ==
    ASSUME HwInv, Once(active), UNCHANGED <<active, elapsed>>
    PROVE  KeepsTime(0)
<1> SUFFICES ASSUME NEW i \in 1 .. Len(active), NEW j \in 1 .. Len(active),
                    active[i].timer = active[j].timer
             PROVE  At(active, j) - elapsed = At(active, i) - elapsed + 0
  BY DEF KeepsTime
<1>1. i = j
  BY DEF Once
<1>2. At(active, i) \in Nat /\ elapsed \in Nat
  <2>1. Len(active) \in Nat /\ \A k \in 0 .. Len(active) : At(active, k) \in Nat
    BY AtTimed DEF HwInv
  <2>2. i \in 0 .. Len(active)
    BY <2>1
  <2> QED BY <2>1, <2>2 DEF HwInv
<1> QED BY <1>1, <1>2

LEMMA TickHw ==
    ASSUME HwInv, Tick
    PROVE  HwInv'
<1>1. /\ enabled /\ active # <<>>
      /\ left' = Less(left, 1) /\ elapsed' = elapsed + 1
      /\ pending' = (pending \/ left = 1)
      /\ UNCHANGED <<active, enabled, value, handler>>
  BY DEF Tick
<1>2. /\ value \in Nat /\ left \in Nat /\ elapsed \in Nat
      /\ left = Less(value + 1, elapsed)
      /\ left = 0 => pending \/ handler = "entered"
  BY <1>1 DEF HwInv
<1>3. /\ left' \in Nat /\ elapsed' \in Nat
      /\ left' = Less(value + 1, elapsed')
      /\ left' = 0 => left = 0 \/ left = 1
  BY <1>1, <1>2 DEF Less
<1>4. pending' \in BOOLEAN
  BY <1>1
<1>5. left' = 0 => pending' \/ handler' = "entered"
  <2>1. (pending \/ left = 1) => pending'
    BY <1>1
  <2> QED BY <1>1, <1>2, <1>3, <2>1
<1>6. Timed(active') /\ (enabled' <=> active' # <<>>) /\ enabled' \in BOOLEAN
  BY <1>1 DEF HwInv
<1>7. value' = Larger(Less(active'[1].time, HAL_TIMER_LOAD_DELTA),
                      HAL_TIMER_LOAD_DELTA)
  BY <1>1 DEF HwInv
<1> QED BY <1>1, <1>2, <1>3, <1>4, <1>5, <1>6, <1>7 DEF HwInv

\* A step that leaves list and hardware alone, but for the interrupt's flag.
LEMMA HwFlag ==
    ASSUME HwInv, UNCHANGED <<active, enabled, value, left, elapsed>>,
           pending' \in BOOLEAN,
           pending \/ handler = "entered" =>
               left # 0 \/ pending' \/ handler' = "entered"
    PROVE  HwInv'
BY DEF HwInv

TimeInv == HwInv /\ current \in Timers \cup {None}

LEMMA StartStep ==
    ASSUME IInv, HwInv, NEW t \in Timers, NEW d \in Ticks, hwtimer_start(t, d)
    PROVE  Starts(t, Larger(d, HAL_TIMER_LOAD_DELTA))
<1> DEFINE ticks == Larger(d, HAL_TIMER_LOAD_DELTA)
<1>1. /\ state[t] \in {"ALLOC", "CALLBACK"} /\ handler' = handler
      /\ StartFirst(t, ticks) \/ StartBefore(t, ticks) \/ StartBehind(t, ticks)
  BY DEF hwtimer_start
<1>2. ticks \in Nat
  <2>1. d \in Nat
    BY HwtimerAssumption
  <2> QED BY <2>1 DEF Larger, HAL_TIMER_LOAD_DELTA
<1> HIDE DEF ticks
<1>3. Once(active) /\ t \notin In(active)
  BY <1>1 DEF IInv
<1>4. Starts(t, ticks)
  BY <1>1, <1>2, <1>3, FirstStarts, BeforeStarts, BehindStarts
<1> QED BY <1>4 DEF ticks

\* Every step but a tick leaves the timers that run on as they are, but for a
\* tick or two.
LEMMA StepTimes ==
    ASSUME IInv, TimeInv, [Next]_vars
    PROVE  HwInv' /\ (Tick \/ \E d \in -1 .. 2 : KeepsTime(d))
<1>0. /\ HwInv /\ Once(active) /\ pending \in BOOLEAN /\ 0 \in -1 .. 2
  BY DEF TimeInv, HwInv, IInv
<1>1. CASE Tick
  BY <1>0, <1>1, TickHw
<1>2. CASE Interrupt
  <2>1. /\ UNCHANGED <<active, enabled, value, left, elapsed>>
        /\ pending' = FALSE /\ handler' = "entered"
    BY <1>2 DEF Interrupt
  <2>2. HwInv'
    BY <1>0, <2>1, HwFlag
  <2> QED BY <1>0, <2>1, <2>2, KeepsSame
<1>3. CASE HandlerReturns
  <2>1. /\ UNCHANGED <<active, enabled, value, left, elapsed, pending>>
        /\ NothingDue
    BY <1>3 DEF HandlerReturns, hw
  <2>2. HwInv'
    <3>1. CASE active = <<>>
      BY <1>0, <2>1, <3>1 DEF HwInv
    <3>2. CASE active # <<>>
      <4>1. Head(active).time > elapsed + HAL_TIMER_LOAD_DELTA
        BY <2>1, <3>2 DEF NothingDue
      <4>2. Head(active) = active[1]
        BY <1>0, <3>2, TailList DEF HwInv, Timed
      <4>3. /\ active[1].time \in Nat /\ elapsed \in Nat
            /\ value = Larger(Less(active[1].time, HAL_TIMER_LOAD_DELTA),
                              HAL_TIMER_LOAD_DELTA)
            /\ left = Less(value + 1, elapsed)
        BY <1>0, <3>2, RawValue DEF HwInv
      <4> DEFINE h == active[1].time
      <4>4. h > elapsed + 1
        BY <4>1, <4>2 DEF HAL_TIMER_LOAD_DELTA
      <4> HIDE DEF h
      <4>5. value = h - 1
        BY <4>3, <4>4 DEF Larger, Less, HAL_TIMER_LOAD_DELTA, h
      <4>6. left # 0
        BY <4>3, <4>4, <4>5 DEF Less, h
      <4> QED BY <1>0, <2>1, <4>6, HwFlag
    <3> QED BY <3>1, <3>2
  <2> QED BY <1>0, <2>1, <2>2, KeepsSame
<1>4. CASE HandlerFires
  BY <1>0, <1>4, HandlerFiresTimes DEF Fires, Stops
<1>5. CASE CallbackReturns
  <2>1. UNCHANGED <<active, enabled, value, left, elapsed, pending>>
        /\ handler # "entered"
    BY <1>5 DEF CallbackReturns, hw
  <2>2. HwInv'
    BY <1>0, <2>1, HwFlag
  <2> QED BY <1>0, <2>1, <2>2, KeepsSame
<1>6. ASSUME NEW t \in Timers, Client(t)
      PROVE  HwInv' /\ \E d \in -1 .. 2 : KeepsTime(d)
  <2>1. CASE \E d \in Ticks : hwtimer_start(t, d)
    BY <1>0, <2>1, StartStep DEF Starts
  <2>2. CASE hwtimer_stop(t) /\ (StopFirst(t) \/ StopBehind(t))
    <3>1. handler' = handler
      BY <2>2 DEF hwtimer_stop
    <3> QED BY <1>0, <2>2, <3>1, FirstStops, BehindStops DEF Stops
  <2>3. CASE \/ hwtimer_alloc(t) \/ hwtimer_free(t)
             \/ hwtimer_stop(t) /\ UNCHANGED <<active, hw>>
    <3>1. /\ UNCHANGED <<active, enabled, value, left, elapsed, pending>>
          /\ handler' = handler
      BY <2>3 DEF hwtimer_alloc, hwtimer_free, hwtimer_stop, hw
    <3>2. HwInv'
      BY <1>0, <3>1, HwFlag
    <3> QED BY <1>0, <3>1, <3>2, KeepsSame
  <2> QED BY <1>6, <2>1, <2>2, <2>3 DEF Client, hwtimer_stop
<1>7. CASE UNCHANGED vars
  <2>1. /\ UNCHANGED <<active, enabled, value, left, elapsed, pending>>
        /\ handler' = handler
    BY <1>7 DEF vars, hw
  <2>2. HwInv'
    BY <1>0, <2>1, HwFlag
  <2> QED BY <1>0, <2>1, <2>2, KeepsSame
<1> QED BY <1>1, <1>2, <1>3, <1>4, <1>5, <1>6, <1>7 DEF Next, hwtimer_handler

LEMMA StepCurrent ==
    ASSUME IInv, TimeInv, [Next]_vars
    PROVE  current' \in Timers \cup {None}
<1>1. CASE HandlerFires \/ CallbackReturns
  <2>1. IInv'
    BY NextIInv
  <2>2. handler' = "callback" \/ current' = None
    <3>1. \A fd, st : CallNext(fd, st) =>
              handler' = "callback" \/ current' = None
      BY DEF CallNext
    <3> QED BY <1>1, <3>1 DEF HandlerFires, CallbackReturns
  <2> QED BY <2>1, <2>2 DEF IInv
<1>2. CASE ~(HandlerFires \/ CallbackReturns)
  <2>1. current' = current
    BY <1>2 DEF Next, hwtimer_handler, Tick, Interrupt, HandlerReturns, Client,
                hwtimer_alloc, hwtimer_free, hwtimer_start, hwtimer_stop, vars
  <2> QED BY <2>1 DEF TimeInv
<1> QED BY <1>1, <1>2

LEMMA InitTimeInv == Init => TimeInv
<1> SUFFICES ASSUME Init PROVE TimeInv
  OBVIOUS
<1>1. Timed(<<>>)
  BY EmptyList, EmptySeq DEF Timed
<1>2. /\ active = <<>> /\ enabled = FALSE /\ pending = FALSE
      /\ value = 0 /\ left = 0 /\ elapsed = 0 /\ current = None
  BY DEF Init
<1> QED BY <1>1, <1>2 DEF TimeInv, HwInv

\* The hardware timer runs exactly while timers do and for the first of them,
\* and its interrupt is not lost, whatever preempts the handler.
THEOREM TimeInvariance == Spec => [](IInv /\ TimeInv)
<1>1. IInv /\ TimeInv /\ [Next]_vars => TimeInv'
  <2> SUFFICES ASSUME IInv, TimeInv, [Next]_vars PROVE TimeInv'
    OBVIOUS
  <2> QED BY StepTimes, StepCurrent DEF TimeInv
<1> QED BY <1>1, InitTimeInv, Invariance, PTL DEF Spec

\* The times of the list and the registers of the hardware timer stay what the
\* code takes them for: no unsigned difference wraps.
THEOREM TypesHold == Spec => []HwTypeOK
<1>1. IInv /\ TimeInv => HwTypeOK
  <2> SUFFICES ASSUME IInv, TimeInv PROVE HwTypeOK
    OBVIOUS
  <2>1. /\ Timed(active) /\ IsList(active)
        /\ DOMAIN active = 1 .. Len(active)
        /\ \A i \in 1 .. Len(active) : active[i].timer \in Timers
    BY ListFacts DEF TimeInv, HwInv, Timed
  <2> QED BY <2>1 DEF HwTypeOK, IInv, TimeInv, HwInv, Timed, States
<1> QED BY <1>1, TimeInvariance, PTL

\* The ASSERTs "HWTIMER collapsed", "HWTIMER-START collapsed" and
\* "HWTIMER-STOP collapsed" do not fail: what the hardware timer counts down
\* is the first time of the list.
THEOREM NeverCollapses == Spec => []NoCollapse
<1>1. HwInv => NoCollapse
  <2> SUFFICES ASSUME HwInv PROVE NoCollapse
    OBVIOUS
  <2>1. ASSUME active # <<>>
        PROVE  /\ \/ raw_value <= Head(active).time
                  \/ raw_value <= HAL_TIMER_LOAD_DELTA
               /\ raw_value = 0 =>
                      elapsed + HAL_TIMER_LOAD_DELTA >= Head(active).time
    <3>1. Head(active) = active[1]
      BY <2>1, TailList DEF HwInv, Timed
    <3>2. /\ active[1].time \in Nat /\ raw_value \in Nat /\ elapsed \in Nat
          /\ raw_value = 0 => elapsed >= active[1].time
          /\ raw_value <= active[1].time \/ raw_value <= 1
      BY <2>1, RawValue
    <3> QED BY <3>1, <3>2 DEF HAL_TIMER_LOAD_DELTA
  <2>2. enabled = (active # <<>>)
    BY DEF HwInv
  <2> QED BY <2>1, <2>2 DEF NoCollapse
<1> QED BY <1>1, TimeInvariance, PTL DEF TimeInv

\* While timers run the hardware timer does, and its interrupt comes when the
\* first of them is due or the tick or two later that loading takes.
THEOREM InterruptComes == Spec => []InterruptArmed
<1>1. HwInv => InterruptArmed
  <2> SUFFICES ASSUME HwInv, active # <<>>
               PROVE  /\ enabled
                      /\ left = 0 => pending \/ handler = "entered"
                      /\ left <= Larger(Less(Head(active).time, elapsed),
                                        HAL_TIMER_LOAD_DELTA + 1)
    BY DEF InterruptArmed
  <2>1. Head(active) = active[1]
    BY TailList DEF HwInv, Timed
  <2> DEFINE h == active[1].time
  <2>2. /\ h \in Nat /\ elapsed \in Nat
        /\ value = Larger(Less(h, HAL_TIMER_LOAD_DELTA), HAL_TIMER_LOAD_DELTA)
        /\ left = Less(value + 1, elapsed)
    BY RawValue DEF HwInv
  <2> HIDE DEF h
  <2>3. left <= Larger(Less(h, elapsed), HAL_TIMER_LOAD_DELTA + 1)
    BY <2>2 DEF Larger, Less, HAL_TIMER_LOAD_DELTA
  <2> QED BY <2>1, <2>3 DEF HwInv, h
<1> QED BY <1>1, TimeInvariance, PTL DEF TimeInv

-----------------------------------------------------------------------------
(* How far off the timers are.                                             *)

\* A running timer is due when the times up to it in the list have passed.
LEMMA RemainingIs ==
    IsList(active) => \A t \in Running :
        \E i \in 1 .. Len(active) :
            active[i].timer = t /\ Remaining(t) = At(active, i) - elapsed
<1> SUFFICES ASSUME IsList(active), NEW t \in Running
             PROVE  \E i \in 1 .. Len(active) :
                        /\ active[i].timer = t
                        /\ Remaining(t) = At(active, i) - elapsed
  OBVIOUS
<1>1. DOMAIN active = 1 .. Len(active)
  BY ListFacts
<1> DEFINE k == CHOOSE i \in DOMAIN active : active[i].timer = t
<1>2. k \in 1 .. Len(active) /\ active[k].timer = t
  BY <1>1 DEF Running
<1>3. Remaining(t) = At(active, k) - elapsed
  BY DEF Remaining
<1> HIDE DEF k
<1> QED BY <1>2, <1>3

LEMMA RemainingNext ==
    IsList(active)' => \A t \in Running' :
        \E i \in 1 .. Len(active') :
            active'[i].timer = t /\ Remaining(t)' = At(active', i) - elapsed'
<1>1. (IsList(active) => \A t \in Running :
          \E i \in 1 .. Len(active) :
              active[i].timer = t /\ Remaining(t) = At(active, i) - elapsed)'
  BY RemainingIs, PTL
<1> QED BY <1>1

LEMMA RunningIn ==
    ASSUME IsList(active) PROVE Running = In(active)
BY ListFacts DEF Running, In

\* Starting, stopping and firing one timer moves the others by a tick or two,
\* and all of them alike, but for those that are due anyhow.
THEOREM TimeKept == Spec => OthersKeepTime
<1> DEFINE Kept ==
      ~Tick => \E d \in -1 .. 2 : \A t \in Running \cap Running' :
          \/ Remaining(t)' = Remaining(t) + d
          \/ Remaining(t) <= 1 /\ Remaining(t)' <= 1
<1>1. IInv /\ TimeInv /\ [Next]_vars => [Kept]_vars
  <2> SUFFICES ASSUME IInv, TimeInv, [Next]_vars, ~Tick
               PROVE  \E d \in -1 .. 2 : \A t \in Running \cap Running' :
                        \/ Remaining(t)' = Remaining(t) + d
                        \/ Remaining(t) <= 1 /\ Remaining(t)' <= 1
    OBVIOUS
  <2>1. PICK d \in -1 .. 2 : KeepsTime(d)
    BY StepTimes
  <2>2. IsList(active) /\ IsList(active)'
    BY NextIInv DEF IInv
  <2> SUFFICES ASSUME NEW t \in Running \cap Running'
               PROVE  \/ Remaining(t)' = Remaining(t) + d
                      \/ Remaining(t) <= 1 /\ Remaining(t)' <= 1
    OBVIOUS
  <2>3. PICK i \in 1 .. Len(active) :
            active[i].timer = t /\ Remaining(t) = At(active, i) - elapsed
    BY <2>2, RemainingIs
  <2>4. PICK j \in 1 .. Len(active') :
            active'[j].timer = t /\ Remaining(t)' = At(active', j) - elapsed'
    BY <2>2, RemainingNext
  <2> QED BY <2>1, <2>3, <2>4 DEF KeepsTime
<1> QED BY <1>1, TimeInvariance, PTL DEF Spec, OthersKeepTime

\* A started timer is due as many ticks later as it was started with, within
\* a tick and early by no more than the interrupt is late.
LEMMA StartInTime ==
    ASSUME IInv, HwInv, NEW t \in Timers, NEW d \in Ticks, hwtimer_start(t, d)
    PROVE  Remaining(t)' \in d - 1 - Late .. Larger(d, 1) + 1
<1> DEFINE ticks == Larger(d, HAL_TIMER_LOAD_DELTA)
<1>1. Starts(t, ticks)
  BY StartStep
<1>2. d \in Nat /\ Late \in Nat
  BY HwtimerAssumption, LateNat
<1>3. ticks \in Nat /\ ticks >= d /\ ticks = Larger(d, 1)
  BY <1>2 DEF Larger, HAL_TIMER_LOAD_DELTA
<1> HIDE DEF ticks
<1>4. PICK p \in 1 .. Len(active') :
        /\ active'[p].timer = t
        /\ At(active', p) - elapsed' \in ticks - 1 - Late .. ticks + 1
  BY <1>1 DEF Starts
<1>5. IInv'
  <2>1. Next
    BY DEF Next, Client
  <2> QED BY <2>1, NextIInv
<1>6. IsList(active)' /\ Once(active)' /\ IsList(active')
  BY <1>5 DEF IInv
<1>7. t \in Running'
  <2>1. Running' = {active'[i].timer : i \in DOMAIN active'}
    BY DEF Running
  <2>2. DOMAIN active' = 1 .. Len(active')
    BY <1>6, ListFacts
  <2> QED BY <1>4, <2>1, <2>2
<1>8. PICK i \in 1 .. Len(active') :
        active'[i].timer = t /\ Remaining(t)' = At(active', i) - elapsed'
  BY <1>6, <1>7, RemainingNext
<1>9. i = p
  BY <1>4, <1>6, <1>8 DEF Once
<1>10. Remaining(t)' \in ticks - 1 - Late .. ticks + 1
  BY <1>4, <1>8, <1>9
<1> HIDE DEF Late
<1> QED BY <1>2, <1>3, <1>10

\* Only a timer that is due is taken out of the list to be called.
LEMMA CalledWhenDue ==
    ASSUME IInv, TimeInv, Next, NEW t \in Running, t \notin Running',
           state'[t] \in {"FIRED", "CALLBACK"}
    PROVE  Remaining(t) <= 1
<1>1. /\ IsList(active) /\ Once(active) /\ HwInv
      /\ state \in [Timers -> States] /\ IsList(active)'
  BY NextIInv DEF IInv, TimeInv
<1>2. Running = In(active) /\ t \in Timers
  BY <1>1, RunningIn, ListFacts DEF In
<1>3. Running' = In(active')
  <2>1. (IsList(active) => Running = In(active))'
    BY RunningIn, PTL
  <2> QED BY <1>1, <2>1 DEF In
<1>4. CASE HandlerFires
  <2>1. Fires
    BY <1>1, <1>4, HandlerFiresTimes
  <2>2. PICK i \in 1 .. Len(active) :
            active[i].timer = t /\ Remaining(t) = At(active, i) - elapsed
    BY <1>1, RemainingIs
  <2> QED BY <1>3, <2>1, <2>2 DEF Fires
<1>5. CASE UNCHANGED active
  BY <1>5 DEF Running
<1>6. CASE \E q \in Timers, d \in Ticks : hwtimer_start(q, d)
  <2>1. PICK q \in Timers, d \in Ticks : hwtimer_start(q, d)
    BY <1>6
  <2>2. IInv'
    BY NextIInv
  <2>3. state[t] = "ACTIVE" /\ state' = [state EXCEPT ![q] = "ACTIVE"]
    BY <1>2, <2>1 DEF IInv, hwtimer_start
  <2>4. state'[t] = "ACTIVE"
    BY <1>1, <1>2, <2>3
  <2> QED BY <2>4
<1>7. CASE \E q \in Timers : hwtimer_stop(q)
  <2>1. PICK q \in Timers : state' = [state EXCEPT ![q] = "ALLOC"]
    BY <1>7 DEF hwtimer_stop
  <2>2. state[t] = "ACTIVE"
    BY <1>2 DEF IInv
  <2>3. state'[t] \in {"ACTIVE", "ALLOC"}
    BY <1>1, <1>2, <2>1, <2>2
  <2> QED BY <2>3
<1>8. \/ HandlerFires \/ UNCHANGED active
      \/ \E q \in Timers, d \in Ticks : hwtimer_start(q, d)
      \/ \E q \in Timers : hwtimer_stop(q)
  BY DEF Next, hwtimer_handler, Tick, Interrupt, HandlerReturns,
         CallbackReturns, Client, hwtimer_alloc, hwtimer_free
<1> QED BY <1>4, <1>5, <1>6, <1>7, <1>8

\* No timer is called early, and none is due much earlier or later than it
\* was started for.
THEOREM InTime == Spec => CalledInTime
<1> DEFINE Called ==
      /\ \A t \in Timers, d \in Ticks :
          hwtimer_start(t, d) =>
              Remaining(t)' \in d - 1 - Late .. Larger(d, 1) + 1
      /\ \A t \in Running \ Running' :
          state'[t] \in {"FIRED", "CALLBACK"} => Remaining(t) <= 1
<1>1. IInv /\ TimeInv /\ [Next]_vars => [Called]_vars
  <2> SUFFICES ASSUME IInv, TimeInv, Next PROVE Called
    OBVIOUS
  <2>1. HwInv
    BY DEF TimeInv
  <2>2. ASSUME NEW t \in Timers, NEW d \in Ticks, hwtimer_start(t, d)
        PROVE  Remaining(t)' \in d - 1 - Late .. Larger(d, 1) + 1
    BY <2>1, <2>2, StartInTime
  <2>3. ASSUME NEW t \in Running \ Running',
               state'[t] \in {"FIRED", "CALLBACK"}
        PROVE  Remaining(t) <= 1
    BY <2>3, CalledWhenDue
  <2> QED BY <2>2, <2>3
<1> QED BY <1>1, TimeInvariance, PTL DEF Spec, CalledInTime

=============================================================================
