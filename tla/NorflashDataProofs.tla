------------------------- MODULE NorflashDataProofs -------------------------
(***************************************************************************)
(* Proofs about the data of the NOR flash service: for one sector buffer   *)
(* and no coprocessor user, the build of the product, a reader sees every  *)
(* accepted call at once, whatever is queued, suspended or resumed.  The   *)
(* last section, on the hook rounds, is about every build.                 *)
(***************************************************************************)
EXTENDS NorflashApiProofs, NorflashHook

\* FLASH_API_NORMAL: one sector buffer, and nobody closes the flush window.
ProductBuild == BufferNum <= 1 /\ Users = {}

-----------------------------------------------------------------------------
(* What the nodes of a sector say of its data.                             *)

Newest(S, n) == \A k \in S \ {n} : <<n, k>> \in before
Oldest(S, n) == \A k \in S \ {n} : <<k, n>> \in before

Covers(n, x) == InRange(x, node[n].w_offs, node[n].w_len)

\* The sector once node n is done.
Result(n) == IF node[n].type = "WRITTING" THEN node[n].data ELSE Erased

\* The newest node of a sector, or else flash, is what the calls amount to;
\* around its range a write agrees with flash or follows an erase, and in its
\* range the chip has only bits to clear.
SectorFits(m, s) ==
    /\ OfSector(m, s) = {} => flash[m][s] = contents[m][s]
    /\ \A n \in OfSector(m, s) :
           Newest(OfSector(m, s), n) => contents[m][s] = Result(n)
    /\ \A n \in OfSector(m, s) :
           node[n].type = "WRITTING" /\ Oldest(OfSector(m, s), n) =>
               \A x \in Offs :
                   IF Covers(n, x) THEN flash[m][s][x] \subseteq node[n].data[x]
                   ELSE flash[m][s][x] = node[n].data[x]
    /\ \A n \in OfSector(m, s) :
           node[n].type = "WRITTING" /\ ~Oldest(OfSector(m, s), n) =>
               \A x \in Offs : Covers(n, x) \/ node[n].data[x] = {}

DataFits == \A m \in Mods, s \in Secs : SectorFits(m, s)

\* A synchronous write clears bits only, whenever its loops end.
SyncFits ==
    sync.mod # NoMod /\ sync.type = "WRITTING" =>
        /\ NorDiscipline(sync.mod, sync.addr, sync.w_offs, sync.w_len, sync.val)
        /\ ValidRange(sync.w_offs, sync.w_len)

DataInv == IInv /\ SyncFits /\ DataFits

-----------------------------------------------------------------------------
(* Sectors a step does not touch.                                          *)

SameNode(n) ==
    /\ node'[n].type = node[n].type /\ node'[n].addr = node[n].addr
    /\ node'[n].w_offs = node[n].w_offs /\ node'[n].w_len = node[n].w_len
    /\ node'[n].data = node[n].data

SameOrder(S) == \A n, k \in S : <<n, k>> \in before' <=> <<n, k>> \in before

\* The nodes of a sector are the ones in S, as they were.
NodesLeft(m, s, S) ==
    /\ OfSector(m, s)' = S
    /\ \A n \in S : SameNode(n)
    /\ SameOrder(S)

SectorSame(m, s) ==
    /\ NodesLeft(m, s, OfSector(m, s))
    /\ flash'[m][s] = flash[m][s] /\ contents'[m][s] = contents[m][s]

LEMMA SameKeeps ==
    ASSUME NEW m, NEW s, SectorFits(m, s), SectorSame(m, s)
    PROVE  SectorFits(m, s)'
<1>1. /\ OfSector(m, s)' = OfSector(m, s)
      /\ flash'[m][s] = flash[m][s] /\ contents'[m][s] = contents[m][s]
  BY DEF SectorSame, NodesLeft
<1>2. \A n \in OfSector(m, s) :
        /\ node'[n].type = node[n].type /\ node'[n].data = node[n].data
        /\ Result(n)' = Result(n)
        /\ Newest(OfSector(m, s), n)' <=> Newest(OfSector(m, s), n)
        /\ Oldest(OfSector(m, s), n)' <=> Oldest(OfSector(m, s), n)
        /\ \A x : Covers(n, x)' <=> Covers(n, x)
  BY <1>1 DEF SectorSame, NodesLeft, SameNode, SameOrder, Result, Newest, Oldest,
              Covers
<1>3. \A n \in OfSector(m, s)' :
          Newest(OfSector(m, s), n)' => contents'[m][s] = Result(n)'
  BY <1>1, <1>2 DEF SectorFits
<1>4. \A n \in OfSector(m, s)' :
          node'[n].type = "WRITTING" /\ Oldest(OfSector(m, s), n)' =>
              \A x \in Offs :
                  IF Covers(n, x)' THEN flash'[m][s][x] \subseteq node'[n].data[x]
                  ELSE flash'[m][s][x] = node'[n].data[x]
  BY <1>1, <1>2 DEF SectorFits
<1>5. \A n \in OfSector(m, s)' :
          node'[n].type = "WRITTING" /\ ~Oldest(OfSector(m, s), n)' =>
              \A x \in Offs : Covers(n, x)' \/ node'[n].data[x] = {}
  BY <1>1, <1>2 DEF SectorFits
<1> QED BY <1>1, <1>3, <1>4, <1>5 DEF SectorFits

LEMMA StillSame ==
    ASSUME UNCHANGED <<opera_info, before, node, flash, contents>>,
           NEW m, NEW s
    PROVE  SectorSame(m, s)
BY DEF SectorSame, NodesLeft, SameNode, SameOrder, OfSector

-----------------------------------------------------------------------------
(* Lists.                                                                  *)

LEMMA ListFacts ==
    ASSUME IInv
    PROVE  /\ opera_info \in [Mods -> SUBSET Slots] /\ node \in [Slots -> Node]
           /\ before \subseteq Slots \X Slots
           /\ flash \in [Mods -> [Secs -> Sector]]
           /\ contents \in [Mods -> [Secs -> Sector]]
           /\ \A m, j \in Mods : m # j => opera_info[m] \cap opera_info[j] = {}
           /\ \A m \in Mods : opera_info[m] \subseteq opera_used
           /\ \A m \in Mods, s \in Secs : OfSector(m, s) \subseteq opera_info[m]
           /\ \A m \in Mods : \A n, k \in opera_info[m] : n # k =>
                  (<<n, k>> \in before <=> <<k, n>> \notin before)
           /\ \A n \in Slots : <<n, n>> \notin before
BY DEF IInv, TypeOK, PoolsExact, Chains, OfSector

\* The nodes R leave the list of module m.
Drop(m, R) ==
    /\ opera_info' = [opera_info EXCEPT ![m] = opera_info[m] \ R]
    /\ before' = Without(R)
    /\ node' = [n \in Slots |-> IF n \in R THEN FreeNode ELSE node[n]]

LEMMA DropSame ==
    ASSUME IInv, NEW m \in Mods, NEW s \in Secs, NEW R, R \subseteq OfSector(m, s),
           Drop(m, R),
           NEW j \in Mods, NEW t \in Secs
    PROVE  NodesLeft(j, t, OfSector(j, t) \ R)
           /\ (<<j, t>> # <<m, s>> => OfSector(j, t) \ R = OfSector(j, t))
<1>1. /\ opera_info'[j] = opera_info[j] \ R
      /\ <<j, t>> # <<m, s>> => OfSector(j, t) \cap R = {}
  BY ListFacts DEF OfSector, Drop
<1>2. \A n \in opera_info[j] \ R : node'[n] = node[n]
  BY ListFacts DEF Drop
<1>3. OfSector(j, t)' = OfSector(j, t) \ R
  BY <1>1, <1>2 DEF OfSector
<1>4. OfSector(j, t) \subseteq opera_info[j]
  BY DEF OfSector
<1>5. SameOrder(OfSector(j, t) \ R)
  BY DEF SameOrder, Without, Drop
<1> QED BY <1>1, <1>2, <1>3, <1>4, <1>5 DEF NodesLeft, SameNode

\* A new node becomes the head of its list, others of its sector may leave.
LEMMA PushSame ==
    ASSUME IInv, NEW m \in Mods, NEW s \in Secs, NEW R, R \subseteq OfSector(m, s),
           NEW i, i \in Slots \ (opera_used \ R), NEW nd, nd.addr = s,
           Push(m, opera_info[m] \ R, i, nd)
    PROVE  /\ \A j \in Mods, t \in Secs :
                  <<j, t>> # <<m, s>> => NodesLeft(j, t, OfSector(j, t))
           /\ OfSector(m, s)' = (OfSector(m, s) \ R) \cup {i} /\ node'[i] = nd
           /\ \A k \in OfSector(m, s) \ R :
                  /\ k # i /\ SameNode(k)
                  /\ <<i, k>> \in before' /\ <<k, i>> \notin before'
           /\ SameOrder(OfSector(m, s) \ R)
<1>1. R \subseteq opera_info[m] /\ opera_info[m] \ (opera_info[m] \ R) = R
  BY DEF OfSector
<1>2. /\ opera_info' = [opera_info EXCEPT ![m] = (opera_info[m] \ R) \cup {i}]
      /\ before' = Without(R) \cup ({i} \X (opera_info[m] \ R))
      /\ node' = [[n \in Slots |-> IF n \in R THEN FreeNode ELSE node[n]]
                    EXCEPT ![i] = nd]
  BY <1>1 DEF Push
<1>3. \A k \in Mods : \A n \in opera_info[k] \ R : n # i /\ n \in Slots
  BY ListFacts
<1>4. node'[i] = nd /\ \A k \in Mods : \A n \in opera_info[k] \ R : node'[n] = node[n]
  BY <1>2, <1>3
<1>5. opera_info'[m] = (opera_info[m] \ R) \cup {i}
  BY <1>2, ListFacts
<1>6. OfSector(m, s)' = (OfSector(m, s) \ R) \cup {i}
  BY <1>4, <1>5 DEF OfSector
<1>7. \A k \in OfSector(m, s) \ R : k \in opera_info[m] \ R
  BY DEF OfSector
<1>8. \A k \in OfSector(m, s) \ R :
          /\ k # i /\ SameNode(k)
          /\ <<i, k>> \in before' /\ <<k, i>> \notin before'
  <2> SUFFICES ASSUME NEW k \in OfSector(m, s) \ R
               PROVE  /\ k # i /\ SameNode(k)
                      /\ <<i, k>> \in before' /\ <<k, i>> \notin before'
    OBVIOUS
  <2>1. k # i /\ node'[k] = node[k] /\ <<i, k>> \in before'
    BY <1>2, <1>3, <1>4, <1>7
  <2>2. <<k, i>> \notin Without(R)
    <3>1. CASE i \in R
      BY <3>1 DEF Without
    <3>2. CASE i \notin R
      <4>1. \A n \in Mods : i \notin opera_info[n]
        BY <3>2, ListFacts
      <4> QED BY <4>1, <1>7, ListFacts DEF Without, IInv, Chains
    <3> QED BY <3>1, <3>2
  <2> QED BY <1>2, <2>1, <2>2 DEF SameNode
<1>9. SameOrder(OfSector(m, s) \ R)
  BY <1>2, <1>3, <1>7 DEF SameOrder, Without
<1>10. ASSUME NEW j \in Mods, NEW t \in Secs, <<j, t>> # <<m, s>>
       PROVE  NodesLeft(j, t, OfSector(j, t))
  <2>1. OfSector(j, t) \subseteq opera_info[j] \ R
    BY <1>1, <1>10, ListFacts DEF OfSector
  <2>2. \A n \in OfSector(j, t) : n # i /\ n \notin R /\ node'[n] = node[n]
    BY <1>3, <1>4, <2>1
  <2>3. OfSector(j, t)' = OfSector(j, t)
    <3>1. CASE j = m
      BY <1>4, <1>5, <1>10, <2>1, <2>2, <3>1 DEF OfSector
    <3>2. CASE j # m
      <4>1. opera_info'[j] = opera_info[j] /\ opera_info[j] \cap R = {}
        BY <1>1, <1>2, <3>2, ListFacts
      <4> QED BY <1>4, <4>1 DEF OfSector
    <3> QED BY <3>1, <3>2
  <2>4. SameOrder(OfSector(j, t))
    BY <1>2, <2>2 DEF SameOrder, Without
  <2> QED BY <2>2, <2>3, <2>4 DEF NodesLeft, SameNode
<1> QED BY <1>4, <1>6, <1>8, <1>9, <1>10

LEMMA SetSectorAt ==
    ASSUME NEW f \in [Mods -> [Secs -> Sector]], NEW m \in Mods, NEW s \in Secs,
           NEW d, NEW j \in Mods, NEW t \in Secs
    PROVE  SetSector(f, m, s, d)[j][t] = IF j = m /\ t = s THEN d ELSE f[j][t]
BY DEF SetSector

\* A locked node is the oldest of its list.
LEMMA LockedIsOldest ==
    ASSUME IInv, NEW m \in Mods, NEW n \in opera_info[m], node[n].lock
    PROVE  /\ \A k \in opera_info[m] \ {n} : <<k, n>> \in before /\ ~node[k].lock
           /\ cur_opera_info[m] = n
<1>1. cur_opera_info[m] = n /\ n # Null
  BY LockedIsCurrent, SlotFacts DEF IInv, TypeOK
<1>2. state[m] \notin {"UNINITED", "IDLE"}
  BY <1>1 DEF IInv, OneSuspended
<1>3. \A k \in opera_info[m] \ {n} : <<k, n>> \in before
  BY <1>1, <1>2 DEF IInv, OneSuspended
<1>4. \A k \in opera_info[m] \ {n} : ~node[k].lock
  BY <1>1, LockedIsCurrent
<1> QED BY <1>1, <1>3, <1>4

-----------------------------------------------------------------------------
(* The calls.                                                              *)

\* An erase leaves one erase in front of the sector's list.
LEMMA EraseFits ==
    ASSUME IInv, DataFits, NEW m \in Mods, NEW s \in Secs, EraseAsync(m, s)
    PROVE  DataFits'
<1> DEFINE merged == MergedErase(m, s)
<1>16. PICK nd : nd = [FreeNode EXCEPT !.addr = s]
  OBVIOUS
<1>0. PICK dropped : dropped = {n \in OfSector(m, s) :
                                  ~node[n].lock /\ \A k \in merged : <<n, k>> \in before}
  OBVIOUS
<1> DEFINE kept == opera_info[m] \ dropped
           free == Slots \ (opera_used \ dropped)
<1>15. PICK i : i = FirstFree(free)
  OBVIOUS
<1>1. /\ flash' = flash /\ contents' = SetSector(contents, m, s, Erased)
      /\ dropped \in SUBSET OfSector(m, s)
  BY <1>0 DEF EraseAsync, chip
<1>2. \/ /\ merged # {}
         /\ opera_info' = [opera_info EXCEPT ![m] = kept]
         /\ before' = Without(dropped)
         /\ node' = [n \in Slots |-> IF n \in dropped THEN FreeNode ELSE node[n]]
      \/ /\ merged = {} /\ free # {}
         /\ Push(m, kept, i, nd)
  BY <1>0, <1>15, <1>16 DEF EraseAsync
<1>3. free # {} => i \in Slots \ (opera_used \ dropped)
  BY <1>15 DEF FirstFree
<1>4. nd.addr = s /\ nd.type = "ERASING"
  BY <1>16 DEF FreeNode
<1>5. \A n \in OfSector(m, s) : n \in opera_info[m] /\ n \in Slots
  BY ListFacts DEF OfSector
<1>6. contents'[m][s] = Erased
  BY <1>1, SetSectorAt, ListFacts
<1>7. \A j \in Mods, t \in Secs : <<j, t>> # <<m, s>> => contents'[j][t] = contents[j][t]
  BY <1>1, SetSectorAt, ListFacts
<1>8. \A e \in merged : e \in OfSector(m, s) /\ node[e].lock /\ node[e].type = "ERASING"
  BY DEF MergedErase
<1>9. merged = {} => \A n \in OfSector(m, s) \ dropped : node[n].lock
  BY <1>0
<1>10. \A n \in dropped : ~node[n].lock
  BY <1>0
<1>11. \A n \in OfSector(m, s) :
           ~node[n].lock /\ (\A k \in merged : <<n, k>> \in before) => n \in dropped
  BY <1>0
<1>12. kept = opera_info[m] \ dropped /\ free = Slots \ (opera_used \ dropped)
  OBVIOUS
<1> HIDE DEF merged, kept, free
<1>13. CASE /\ merged # {}
            /\ opera_info' = [opera_info EXCEPT ![m] = kept]
            /\ before' = Without(dropped)
            /\ node' = [n \in Slots |-> IF n \in dropped THEN FreeNode ELSE node[n]]
  <2>1. \A j \in Mods, t \in Secs :
          /\ NodesLeft(j, t, OfSector(j, t) \ dropped)
          /\ <<j, t>> # <<m, s>> => OfSector(j, t) \ dropped = OfSector(j, t)
    <3>1. Drop(m, dropped)
      BY <1>12, <1>13 DEF Drop
    <3> QED BY <1>1, <3>1, DropSame
  <2>2. PICK e \in merged : TRUE
    BY <1>13
  <2>3. \A k \in OfSector(m, s) \ {e} : <<k, e>> \in before /\ ~node[k].lock
    BY <1>5, <1>8, LockedIsOldest
  <2>4. merged = {e}
    BY <1>8, <2>3
  <2>5. OfSector(m, s) \ dropped = {e}
    BY <1>8, <1>10, <1>11, <2>3, <2>4
  <2>6. SectorFits(m, s)'
    <3>0. NodesLeft(m, s, {e})
      BY <2>1, <2>5
    <3>1. OfSector(m, s)' = {e} /\ node'[e].type = "ERASING"
      BY <1>8, <3>0 DEF NodesLeft, SameNode
    <3> QED BY <1>6, <3>1 DEF SectorFits, Result
  <2>7. \A j \in Mods, t \in Secs : <<j, t>> # <<m, s>> => SectorFits(j, t)'
    BY <1>1, <1>7, <2>1, SameKeeps DEF DataFits, SectorSame
  <2> QED BY <2>6, <2>7 DEF DataFits
<1>14. CASE merged = {} /\ free # {} /\ Push(m, kept, i, nd)
  <2>1. /\ \A j \in Mods, t \in Secs :
               <<j, t>> # <<m, s>> => NodesLeft(j, t, OfSector(j, t))
        /\ OfSector(m, s)' = (OfSector(m, s) \ dropped) \cup {i} /\ node'[i] = nd
        /\ \A k \in OfSector(m, s) \ dropped :
               /\ k # i /\ SameNode(k)
               /\ <<i, k>> \in before' /\ <<k, i>> \notin before'
        /\ SameOrder(OfSector(m, s) \ dropped)
    <3>1. /\ Push(m, opera_info[m] \ dropped, i, nd) /\ nd.addr = s
          /\ i \in Slots \ (opera_used \ dropped)
      BY <1>3, <1>4, <1>12, <1>14
    <3>2. dropped \subseteq OfSector(m, s) /\ i \in Slots \ (opera_used \ dropped)
      BY <1>1, <3>1
    <3>3. node'[i] = nd
      BY <3>1, ListFacts DEF Push
    <3>4. SameOrder(OfSector(m, s) \ dropped)
      BY <3>1, <3>2, PushSame, ZenonT(30)
    <3>5. \A j \in Mods, t \in Secs :
               <<j, t>> # <<m, s>> => NodesLeft(j, t, OfSector(j, t))
      BY <3>1, <3>2, PushSame
    <3>6. OfSector(m, s)' = (OfSector(m, s) \ dropped) \cup {i}
      BY <3>1, <3>2, PushSame, ZenonT(30)
    <3>7. \A k \in OfSector(m, s) \ dropped :
               /\ k # i /\ SameNode(k)
               /\ <<i, k>> \in before' /\ <<k, i>> \notin before'
      BY <3>1, <3>2, PushSame
    <3> QED BY <3>3, <3>4, <3>5, <3>6, <3>7
  <2>2. \A n \in OfSector(m, s) \ dropped :
          \A k \in OfSector(m, s) \ {n} : <<k, n>> \in before
    BY <1>5, <1>9, <1>14, LockedIsOldest
  <2>3. SectorFits(m, s)'
    <3>1. OfSector(m, s)' = (OfSector(m, s) \ dropped) \cup {i} /\ node'[i].type = "ERASING"
      BY <1>4, <2>1
    <3>2. \A n \in OfSector(m, s)' :
            Newest(OfSector(m, s), n)' => contents'[m][s] = Result(n)'
      <4>1. \A n \in OfSector(m, s) \ dropped : ~Newest(OfSector(m, s), n)'
        BY <2>1, <3>1 DEF Newest
      <4> QED BY <1>6, <3>1, <4>1 DEF Result
    <3>3. \A n \in OfSector(m, s) \ dropped :
            /\ Oldest(OfSector(m, s), n)'
            /\ Oldest(OfSector(m, s), n)
            /\ node'[n].type = node[n].type /\ node'[n].data = node[n].data
            /\ \A x : Covers(n, x)' <=> Covers(n, x)
      BY <2>1, <2>2, <3>1 DEF Oldest, SameOrder, SameNode, Covers
    <3>4. \A n \in OfSector(m, s)' :
            node'[n].type = "WRITTING" /\ Oldest(OfSector(m, s), n)' =>
              \A x \in Offs :
                  IF Covers(n, x)' THEN flash'[m][s][x] \subseteq node'[n].data[x]
                  ELSE flash'[m][s][x] = node'[n].data[x]
      BY <1>1, <3>1, <3>3 DEF DataFits, SectorFits
    <3>5. \A n \in OfSector(m, s)' :
            node'[n].type = "WRITTING" => Oldest(OfSector(m, s), n)'
      BY <3>1, <3>3
    <3> QED BY <3>1, <3>2, <3>4, <3>5 DEF SectorFits
  <2>4. \A j \in Mods, t \in Secs : <<j, t>> # <<m, s>> => SectorFits(j, t)'
    BY <1>1, <1>7, <2>1, SameKeeps DEF DataFits, SectorSame
  <2> QED BY <2>3, <2>4 DEF DataFits
<1> QED BY <1>2, <1>13, <1>14

\* With one buffer there is one write at most, of any module.
LEMMA OneWrite ==
    ASSUME IInv, BufferNum <= 1
    PROVE  /\ \A n, k \in opera_used :
                  node[n].type = "WRITTING" /\ node[k].type = "WRITTING" => n = k
           /\ Bufs \ buffer_used # {} => \A n \in opera_used : node[n].type # "WRITTING"
<1>1. Bufs \subseteq {1}
  BY ConstAssumption DEF Bufs
<1>2. \A n \in opera_used : node[n].buff \in Bufs \cup {Null}
  BY DEF IInv, TypeOK, Node
<1>3. ASSUME NEW n \in opera_used, node[n].type = "WRITTING"
      PROVE  node[n].buff = 1 /\ node[n].buff # Null /\ 1 \in buffer_used
  <2>1. node[n].buff # Null
    BY <1>3 DEF IInv, PoolsExact
  <2>2. node[n].buff = 1
    BY <1>1, <1>2, <2>1
  <2>3. node[n].buff \in buffer_used
    BY <2>1 DEF IInv, PoolsExact
  <2> QED BY <2>1, <2>2, <2>3
<1>4. \A n, k \in opera_used :
        node[n].type = "WRITTING" /\ node[k].type = "WRITTING" => n = k
  BY <1>3 DEF IInv, PoolsExact
<1> QED BY <1>1, <1>3, <1>4

LEMMA MergedCovers ==
    ASSUME NEW nd \in Node, NEW o \in Offs, NEW l \in 1 .. SecLen, NEW x \in Offs,
           InRange(x, nd.w_offs, nd.w_len) \/ InRange(x, o, l)
    PROVE  InRange(x, MergedOffs(nd, o), MergedLen(nd, o, l))
BY ConstAssumption DEF Node, Offs, InRange, MergedOffs, MergedLen

\* A write that merges goes into the newest node of its sector.
LEMMA MergeFits ==
    ASSUME IInv, DataFits, BufferNum <= 1, NEW m \in Mods, NEW s \in Secs,
           NEW o \in Offs, NEW l \in 1 .. SecLen, NEW v \in SUBSET Bits,
           NorDiscipline(m, s, o, l, v), WriteAsyncMerge(m, s, o, l, v),
           flash' = flash,
           contents' = SetSector(contents, m, s, Memcpy(contents[m][s], o, l, v))
    PROVE  DataFits'
<1>1. PICK i : i = FirstOf(Mergeable(m, s))
  OBVIOUS
<1>2. PICK new : new = [node[i] EXCEPT !.data = Memcpy(node[i].data, o, l, v),
                                       !.w_offs = MergedOffs(node[i], o),
                                       !.w_len = MergedLen(node[i], o, l)]
  OBVIOUS
<1>3. /\ node' = [node EXCEPT ![i] = new] /\ node[i].type = "WRITTING"
      /\ UNCHANGED <<opera_info, before>>
      /\ Mergeable(m, s) # {}
  BY <1>1, <1>2 DEF WriteAsyncMerge
<1>4. /\ i \in OfSector(m, s) /\ i \in opera_info[m] /\ i \in Slots
      /\ \A k \in Mergeable(m, s) \ {i} : <<i, k>> \in before
  <2>1. Mergeable(m, s) \in SUBSET opera_info[m] /\ Mergeable(m, s) \subseteq OfSector(m, s)
    BY DEF Mergeable, OfSector
  <2> QED BY <1>1, <1>3, <2>1, FirstOfPart, ListFacts DEF IInv
<1>5. \A k \in OfSector(m, s) \ {i} : node[k].type # "WRITTING" /\ <<i, k>> \in before
  <2>1. \A k \in OfSector(m, s) \ {i} : node[k].type # "WRITTING"
    BY <1>3, <1>4, OneWrite, ListFacts DEF OfSector
  <2> QED BY <1>4, <2>1 DEF Mergeable
<1>6. /\ node[i] \in Node /\ node[i].addr = s
      /\ new.type = "WRITTING" /\ new.addr = s
      /\ new.data = Memcpy(node[i].data, o, l, v)
      /\ new.w_offs = MergedOffs(node[i], o) /\ new.w_len = MergedLen(node[i], o, l)
  <2>1. node[i] \in Node /\ node[i].addr = s
    BY <1>4, ListFacts DEF OfSector
  <2> QED BY <1>2, <1>3, <2>1 DEF Node
<1>7. contents[m][s] = node[i].data
  BY <1>3, <1>4, <1>5 DEF DataFits, SectorFits, Newest, Result
<1>8. contents'[m][s] = new.data
  BY <1>6, <1>7, SetSectorAt, ListFacts
<1>9. node'[i] = new /\ \A k \in Slots \ {i} : node'[k] = node[k]
  BY <1>3, <1>4, ListFacts
<1>10. \A j \in Mods, t \in Secs : OfSector(j, t)' = OfSector(j, t)
  <2>1. \A k \in Slots : node'[k].addr = node[k].addr
    BY <1>6, <1>9
  <2> QED BY <1>3, <2>1, ListFacts DEF OfSector
<1>11. ASSUME NEW j \in Mods, NEW t \in Secs, <<j, t>> # <<m, s>>
       PROVE  SectorFits(j, t)'
  <2>1. contents'[j][t] = contents[j][t]
    BY <1>11, SetSectorAt, ListFacts
  <2>2. \A k \in OfSector(j, t) : k \in Slots /\ k # i
    BY <1>4, <1>6, <1>11, ListFacts DEF OfSector
  <2>3. NodesLeft(j, t, OfSector(j, t))
    BY <1>3, <1>9, <1>10, <2>2 DEF NodesLeft, SameNode, SameOrder
  <2> QED BY <2>1, <2>3, SameKeeps DEF DataFits, SectorSame
<1>12. SectorFits(m, s)'
  <2>1. OfSector(m, s)' = OfSector(m, s) /\ i \in OfSector(m, s)
    BY <1>4, <1>10
  <2>2. \A n \in OfSector(m, s) \ {i} :
          /\ ~Newest(OfSector(m, s), n)' /\ node'[n].type # "WRITTING"
    <3>1. \A n \in OfSector(m, s) \ {i} : n \in Slots /\ <<n, i>> \notin before
      BY <1>4, <1>5, ListFacts DEF OfSector
    <3> QED BY <1>3, <1>5, <1>9, <2>1, <3>1 DEF Newest
  <2>3. \A n \in OfSector(m, s)' :
            Newest(OfSector(m, s), n)' => contents'[m][s] = Result(n)'
    BY <1>6, <1>8, <1>9, <2>1, <2>2 DEF Result
  <2>4. Oldest(OfSector(m, s), i)' <=> Oldest(OfSector(m, s), i)
    BY <1>3, <2>1 DEF Oldest
  <2>5. \A x \in Offs :
          /\ Covers(i, x)' <=> InRange(x, MergedOffs(node[i], o), MergedLen(node[i], o, l))
          /\ Covers(i, x) \/ InRange(x, o, l) => Covers(i, x)'
          /\ new.data[x] = IF InRange(x, o, l) THEN v ELSE node[i].data[x]
    BY <1>6, <1>9, MergedCovers DEF Covers, Memcpy
  <2>6. ASSUME Oldest(OfSector(m, s), i), NEW x \in Offs
        PROVE  IF Covers(i, x)' THEN flash'[m][s][x] \subseteq new.data[x]
               ELSE flash'[m][s][x] = new.data[x]
    <3>1. IF Covers(i, x) THEN flash[m][s][x] \subseteq node[i].data[x]
          ELSE flash[m][s][x] = node[i].data[x]
      BY <1>3, <1>4, <2>6 DEF DataFits, SectorFits
    <3>2. InRange(x, o, l) => node[i].data[x] \subseteq v
      BY <1>7 DEF NorDiscipline
    <3> QED BY <2>5, <3>1, <3>2
  <2>7. ASSUME ~Oldest(OfSector(m, s), i), NEW x \in Offs
        PROVE  Covers(i, x)' \/ new.data[x] = {}
    <3>1. Covers(i, x) \/ node[i].data[x] = {}
      BY <1>3, <1>4, <2>7 DEF DataFits, SectorFits
    <3> QED BY <2>5, <3>1
  <2>8. \A n \in OfSector(m, s)' :
          node'[n].type = "WRITTING" /\ Oldest(OfSector(m, s), n)' =>
              \A x \in Offs :
                  IF Covers(n, x)' THEN flash'[m][s][x] \subseteq node'[n].data[x]
                  ELSE flash'[m][s][x] = node'[n].data[x]
    BY <1>9, <2>1, <2>2, <2>4, <2>6
  <2>9. \A n \in OfSector(m, s)' :
          node'[n].type = "WRITTING" /\ ~Oldest(OfSector(m, s), n)' =>
              \A x \in Offs : Covers(n, x)' \/ node'[n].data[x] = {}
    BY <1>9, <2>1, <2>2, <2>4, <2>7
  <2> QED BY <2>1, <2>3, <2>8, <2>9 DEF SectorFits
<1> QED BY <1>11, <1>12 DEF DataFits

\* A write with a node of its own: with one buffer, only erases are queued.
LEMMA NewWriteFits ==
    ASSUME IInv, DataFits, BufferNum <= 1, NEW m \in Mods, NEW s \in Secs,
           NEW o \in Offs, NEW l \in 1 .. SecLen, NEW v \in SUBSET Bits,
           NorDiscipline(m, s, o, l, v), WriteAsyncNew(m, s, o, l, v),
           flash' = flash,
           contents' = SetSector(contents, m, s, Memcpy(contents[m][s], o, l, v))
    PROVE  DataFits'
<1>1. PICK i : i = FirstFree(Slots \ opera_used)
  OBVIOUS
<1>2. PICK nd : nd = [type |-> "WRITTING", addr |-> s, w_offs |-> o, w_len |-> l,
                      buff |-> FirstFree(Bufs \ buffer_used),
                      data |-> Memcpy(BaseOf(m, s), o, l, v), lock |-> FALSE]
  OBVIOUS
<1>3. /\ Push(m, opera_info[m], i, nd) /\ i \in Slots \ opera_used
      /\ Bufs \ buffer_used # {}
  BY <1>1, <1>2 DEF WriteAsyncNew, FirstFree
<1>4. \A n \in OfSector(m, s) : node[n].type # "WRITTING"
  BY <1>3, OneWrite, ListFacts DEF OfSector
<1>5. Mergeable(m, s) = OfSector(m, s)
  BY <1>4 DEF Mergeable
<1>6. BaseOf(m, s) = contents[m][s]
  <2>1. CASE OfSector(m, s) = {}
    BY <1>5, <2>1 DEF BaseOf, DataFits, SectorFits
  <2>2. CASE OfSector(m, s) # {}
    <3>1. OfSector(m, s) \in SUBSET opera_info[m]
      BY DEF OfSector
    <3>2. PICK n \in OfSector(m, s) : Newest(OfSector(m, s), n)
      BY <2>2, <3>1, FirstOfPart DEF Newest, IInv
    <3>3. contents[m][s] = Erased
      BY <1>4, <3>2 DEF DataFits, SectorFits, Result
    <3> QED BY <1>5, <2>2, <3>3 DEF BaseOf
  <2> QED BY <2>1, <2>2
<1>7. /\ nd.type = "WRITTING" /\ nd.addr = s /\ nd.w_offs = o /\ nd.w_len = l
      /\ nd.data = Memcpy(contents[m][s], o, l, v)
  BY <1>2, <1>6
<1>8. /\ \A j \in Mods, t \in Secs :
             <<j, t>> # <<m, s>> => NodesLeft(j, t, OfSector(j, t))
      /\ OfSector(m, s)' = OfSector(m, s) \cup {i}
      /\ \A k \in OfSector(m, s) :
             k # i /\ SameNode(k) /\ <<i, k>> \in before' /\ <<k, i>> \notin before'
  <2>1. PICK R : R = {}
    OBVIOUS
  <2>2. opera_info[m] \ R = opera_info[m] /\ R \subseteq OfSector(m, s)
        /\ opera_used \ R = opera_used /\ OfSector(m, s) \ R = OfSector(m, s)
    BY <2>1
  <2>3. Push(m, opera_info[m] \ R, i, nd) /\ i \in Slots \ (opera_used \ R) /\ nd.addr = s
    BY <1>3, <1>7, <2>2
  <2>4. R \subseteq OfSector(m, s) /\ i \in Slots \ (opera_used \ R)
    BY <2>2, <2>3
  <2>5. \A j \in Mods, t \in Secs :
            <<j, t>> # <<m, s>> => NodesLeft(j, t, OfSector(j, t))
    BY <2>3, <2>4, PushSame
  <2>6. OfSector(m, s)' = (OfSector(m, s) \ R) \cup {i}
    BY <2>2, <2>3, PushSame, ZenonT(30)
  <2>7. \A k \in OfSector(m, s) \ R :
               /\ k # i /\ SameNode(k)
               /\ <<i, k>> \in before' /\ <<k, i>> \notin before'
    BY <2>3, <2>4, PushSame
  <2> QED BY <2>2, <2>5, <2>6, <2>7
<1>9. node'[i] = nd
  BY <1>3, ListFacts DEF Push
<1>10. contents'[m][s] = nd.data
  BY <1>7, SetSectorAt, ListFacts
<1>11. ASSUME NEW j \in Mods, NEW t \in Secs, <<j, t>> # <<m, s>>
       PROVE  SectorFits(j, t)'
  <2>1. contents'[j][t] = contents[j][t]
    BY <1>11, SetSectorAt, ListFacts
  <2> QED BY <1>8, <1>11, <2>1, SameKeeps DEF DataFits, SectorSame
<1>12. SectorFits(m, s)'
  <2>1. \A n \in OfSector(m, s) :
          /\ ~Newest(OfSector(m, s), n)' /\ node'[n].type # "WRITTING"
    BY <1>4, <1>8 DEF Newest, SameNode
  <2>2. \A n \in OfSector(m, s)' :
            Newest(OfSector(m, s), n)' => contents'[m][s] = Result(n)'
    BY <1>7, <1>8, <1>9, <1>10, <2>1 DEF Result
  <2>3. \A x \in Offs :
          /\ Covers(i, x)' <=> InRange(x, o, l)
          /\ nd.data[x] = IF InRange(x, o, l) THEN v ELSE contents[m][s][x]
    BY <1>7, <1>9 DEF Covers, Memcpy
  <2>4. Oldest(OfSector(m, s), i)' => OfSector(m, s) = {}
    BY <1>8 DEF Oldest
  <2>5. ASSUME OfSector(m, s) = {}, NEW x \in Offs
        PROVE  IF Covers(i, x)' THEN flash'[m][s][x] \subseteq nd.data[x]
               ELSE flash'[m][s][x] = nd.data[x]
    <3>1. flash[m][s] = contents[m][s]
      BY <2>5 DEF DataFits, SectorFits
    <3>2. InRange(x, o, l) => contents[m][s][x] \subseteq v
      BY DEF NorDiscipline
    <3> QED BY <2>3, <3>1, <3>2
  <2>6. ASSUME ~Oldest(OfSector(m, s), i)', NEW x \in Offs
        PROVE  Covers(i, x)' \/ nd.data[x] = {}
    <3>1. OfSector(m, s) # {}
      BY <1>8, <2>6 DEF Oldest
    <3>2. contents[m][s] = Erased
      BY <1>5, <1>6, <3>1 DEF BaseOf
    <3> QED BY <2>3, <3>2 DEF Erased
  <2>7. \A n \in OfSector(m, s)' :
          node'[n].type = "WRITTING" /\ Oldest(OfSector(m, s), n)' =>
              \A x \in Offs :
                  IF Covers(n, x)' THEN flash'[m][s][x] \subseteq node'[n].data[x]
                  ELSE flash'[m][s][x] = node'[n].data[x]
    BY <1>8, <1>9, <2>1, <2>4, <2>5
  <2>8. \A n \in OfSector(m, s)' :
          node'[n].type = "WRITTING" /\ ~Oldest(OfSector(m, s), n)' =>
              \A x \in Offs : Covers(n, x)' \/ node'[n].data[x] = {}
    BY <1>8, <1>9, <2>1, <2>6
  <2> QED BY <1>8, <2>2, <2>7, <2>8 DEF SectorFits
<1> QED BY <1>11, <1>12 DEF DataFits

-----------------------------------------------------------------------------
(* The flush.                                                              *)

\* A whole write leaves its data in the sector, an erase nothing.
LEMMA AppliedIsResult ==
    ASSUME IInv, DataFits, NEW m \in Mods, NEW s \in Secs, NEW n \in OfSector(m, s),
           Oldest(OfSector(m, s), n)
    PROVE  Applied(flash[m][s], node[n]) = Result(n)
<1>1. node[n] \in Node /\ flash[m][s] \in Sector
  BY ListFacts DEF OfSector
<1>2. CASE node[n].type = "WRITTING"
  <2>1. \A x \in Offs :
          IF Covers(n, x) THEN flash[m][s][x] \subseteq node[n].data[x]
          ELSE flash[m][s][x] = node[n].data[x]
    BY <1>2 DEF DataFits, SectorFits
  <2>2. \A x \in Offs :
          (IF InRange(x, node[n].w_offs, node[n].w_len)
           THEN flash[m][s][x] \cup node[n].data[x] ELSE flash[m][s][x])
              = node[n].data[x]
    BY <2>1 DEF Covers
  <2>3. node[n].data = [x \in Offs |-> node[n].data[x]]
    BY <1>1 DEF Node, Sector
  <2> QED BY <1>2, <2>2, <2>3 DEF Applied, Program, Result
<1>3. CASE node[n].type # "WRITTING"
  BY <1>3 DEF Applied, Result
<1> QED BY <1>2, <1>3

\* The oldest operation of a module reaches the chip and leaves the list.
LEMMA CompleteFits ==
    ASSUME IInv, DataFits, BufferNum <= 1, NEW m \in Mods, HasWork(m),
           OperaCompletes(m), contents' = contents
    PROVE  DataFits'
<1>1. PICK n : n = CurNode(m)
  OBVIOUS
<1>2. PICK s : s = node[n].addr
  OBVIOUS
<1>0. PICK d : d = Applied(flash[m][s], node[n])
  OBVIOUS
<1>3. /\ n \in opera_info[m] /\ n \in Slots
      /\ \A k \in opera_info[m] \ {n} : <<k, n>> \in before
  BY <1>1, CurNodeFacts
<1>4. s \in Secs /\ n \in OfSector(m, s)
  BY <1>2, <1>3, ListFacts DEF OfSector, Node
<1>5. Oldest(OfSector(m, s), n)
  BY <1>3 DEF Oldest, OfSector
<1>6. /\ flash' = SetSector(flash, m, s, d)
      /\ opera_info' = [opera_info EXCEPT ![m] = {k \in opera_info[m] : <<k, n>> \in before}]
      /\ before' = Without({n})
      /\ node' = [node EXCEPT ![n] = FreeNode]
  BY <1>0, <1>1, <1>2 DEF OperaCompletes
<1>7. Drop(m, {n})
  <2>1. {k \in opera_info[m] : <<k, n>> \in before} = opera_info[m] \ {n}
    BY <1>3, ListFacts
  <2>2. node' = [k \in Slots |-> IF k \in {n} THEN FreeNode ELSE node[k]]
    BY <1>3, <1>6, ListFacts
  <2> QED BY <1>6, <2>1, <2>2 DEF Drop
<1>8. \A j \in Mods, t \in Secs :
        /\ NodesLeft(j, t, OfSector(j, t) \ {n})
        /\ <<j, t>> # <<m, s>> => OfSector(j, t) \ {n} = OfSector(j, t)
  <2>1. PICK R : R = {n}
    OBVIOUS
  <2>2. Drop(m, R)
    BY <1>7, <2>1
  <2>4. s \in Secs /\ R \subseteq OfSector(m, s)
    BY <1>4, <2>1
  <2>3. \A j \in Mods, t \in Secs :
          /\ NodesLeft(j, t, OfSector(j, t) \ R)
          /\ <<j, t>> # <<m, s>> => OfSector(j, t) \ R = OfSector(j, t)
    <3>1. s \in Secs
      BY <1>4
    <3>2. R \subseteq OfSector(m, s)
      BY <2>4
    <3>3. ASSUME NEW j \in Mods, NEW t \in Secs
          PROVE  NodesLeft(j, t, OfSector(j, t) \ R)
      BY <2>2, <3>1, <3>2, DropSame
    <3>4. ASSUME NEW j \in Mods, NEW t \in Secs
          PROVE  <<j, t>> # <<m, s>> => OfSector(j, t) \ R = OfSector(j, t)
      BY <3>2, ListFacts DEF OfSector
    <3> QED BY <3>3, <3>4
  <2> QED BY <2>1, <2>3
<1>9. flash'[m][s] = Result(n)
  <2>1. d = Result(n)
    BY <1>0, <1>4, <1>5, AppliedIsResult
  <2> QED BY <1>4, <1>6, <2>1, SetSectorAt, ListFacts
<1>10. ASSUME NEW j \in Mods, NEW t \in Secs, <<j, t>> # <<m, s>>
       PROVE  SectorFits(j, t)'
  <2>1. flash'[j][t] = flash[j][t]
    <3>1. s \in Secs /\ ~(j = m /\ t = s) /\ flash' = SetSector(flash, m, s, d)
      BY <1>4, <1>6, <1>10
    <3>2. flash \in [Mods -> [Secs -> Sector]]
      BY ListFacts
    <3> QED BY <3>1, <3>2, SetSectorAt
  <2> QED BY <1>8, <1>10, <2>1, SameKeeps DEF DataFits, SectorSame
<1>11. SectorFits(m, s)'
  <2> DEFINE S == OfSector(m, s)
  <2>1. OfSector(m, s)' = S \ {n} /\ contents'[m][s] = contents[m][s]
    BY <1>4, <1>8 DEF NodesLeft
  <2>2. \A k \in S \ {n} :
          /\ node'[k].type = node[k].type /\ node'[k].data = node[k].data
          /\ Result(k)' = Result(k)
          /\ \A x : Covers(k, x)' <=> Covers(k, x)
          /\ Newest(OfSector(m, s), k)' => Newest(S, k)
          /\ ~Oldest(S, k)
    <3>1. \A k \in S \ {n} : SameNode(k)
      BY <1>4, <1>8 DEF NodesLeft
    <3>2. \A k \in S \ {n} : <<k, n>> \in before /\ <<n, k>> \notin before
      BY <1>3, ListFacts DEF OfSector
    <3>3. \A k \in S \ {n} : Newest(OfSector(m, s), k)' => Newest(S, k)
      BY <1>6, <2>1, <3>2 DEF Newest, Without
    <3>4. \A k \in S \ {n} : ~Oldest(S, k)
      BY <1>4, <3>2 DEF Oldest
    <3> QED BY <3>1, <3>3, <3>4 DEF SameNode, Result, Covers
  <2>3. OfSector(m, s)' = {} => flash'[m][s] = contents'[m][s]
    <3>1. S = {n} => contents[m][s] = Result(n)
      BY <1>4 DEF DataFits, SectorFits, Newest
    <3> QED BY <1>4, <1>9, <2>1, <3>1
  <2>4. \A k \in S \ {n} : Newest(S, k) => contents[m][s] = Result(k)
    BY <1>4 DEF DataFits, SectorFits
  <2>5. \A k \in S \ {n} : node[k].type = "WRITTING" =>
            \A x \in Offs : Covers(k, x) \/ node[k].data[x] = {}
    BY <1>4, <2>2 DEF DataFits, SectorFits
  <2>6. \A k \in S \ {n} : node[k].type = "WRITTING" =>
            \A x \in Offs : flash'[m][s][x] = {}
    <3>1. \A k \in S \ {n} : node[k].type = "WRITTING" => node[n].type # "WRITTING"
      BY <1>3, OneWrite, ListFacts DEF OfSector
    <3> QED BY <1>9, <3>1 DEF Result, Erased
  <2>7. \A k \in OfSector(m, s)' :
            Newest(OfSector(m, s), k)' => contents'[m][s] = Result(k)'
    BY <2>1, <2>2, <2>4
  <2>8. \A k \in OfSector(m, s)' :
          node'[k].type = "WRITTING" /\ Oldest(OfSector(m, s), k)' =>
              \A x \in Offs :
                  IF Covers(k, x)' THEN flash'[m][s][x] \subseteq node'[k].data[x]
                  ELSE flash'[m][s][x] = node'[k].data[x]
    BY <2>1, <2>2, <2>5, <2>6
  <2>9. \A k \in OfSector(m, s)' :
          node'[k].type = "WRITTING" /\ ~Oldest(OfSector(m, s), k)' =>
              \A x \in Offs : Covers(k, x)' \/ node'[k].data[x] = {}
    BY <2>1, <2>2, <2>5
  <2> QED BY <2>3, <2>7, <2>8, <2>9 DEF SectorFits
<1> QED BY <1>10, <1>11 DEF DataFits

\* The oldest operation of a module is given up half way.
LEMMA SuspendFits ==
    ASSUME IInv, DataFits, NEW m \in Mods, HasWork(m), OperaSuspends(m),
           contents' = contents
    PROVE  DataFits'
<1>1. PICK n : n = CurNode(m)
  OBVIOUS
<1>2. PICK s : s = node[n].addr
  OBVIOUS
<1>3. /\ n \in opera_info[m] /\ n \in Slots
      /\ \A k \in opera_info[m] \ {n} : <<k, n>> \in before
  BY <1>1, CurNodeFacts
<1>4. s \in Secs /\ n \in OfSector(m, s) /\ node[n] \in Node
  BY <1>2, <1>3, ListFacts DEF OfSector, Node
<1>5. /\ node' = [node EXCEPT ![n] = [node[n] EXCEPT !.lock = TRUE]]
      /\ UNCHANGED <<opera_info, before>>
  BY <1>1 DEF OperaSuspends
<1>6. \A k \in Slots : SameNode(k)
  BY <1>3, <1>4, <1>5, ListFacts DEF SameNode, Node
<1>7. \A j \in Mods, t \in Secs : NodesLeft(j, t, OfSector(j, t))
  <2>1. \A j \in Mods, t \in Secs : OfSector(j, t) \subseteq Slots
    BY ListFacts DEF OfSector
  <2>2. \A j \in Mods, t \in Secs : OfSector(j, t)' = OfSector(j, t)
    BY <1>5, <1>6, ListFacts DEF OfSector, SameNode
  <2> QED BY <1>5, <1>6, <2>1, <2>2 DEF NodesLeft, SameOrder
<1>8. PICK d :
        /\ flash' = SetSector(flash, m, s, d)
        /\ node[n].type = "WRITTING" => \A x \in Offs :
               \/ d[x] = flash[m][s][x]
               \/ Covers(n, x) /\ d[x] = flash[m][s][x] \cup node[n].data[x]
  <2>1. CASE node[n].type = "WRITTING"
    <3>1. PICK k \in 0 .. node[n].w_len :
            flash' = SetSector(flash, m, s,
                               Program(flash[m][s], node[n].w_offs, k, node[n].data))
      BY <1>1, <1>2, <2>1 DEF OperaSuspends
    <3>2. node[n].w_len \in Nat /\ node[n].w_offs \in Nat
      BY <1>4, ConstAssumption DEF Node, Offs
    <3>3. \A x \in Offs : InRange(x, node[n].w_offs, k) => Covers(n, x)
      BY <3>2, ConstAssumption DEF InRange, Covers, Offs
    <3> QED BY <3>1, <3>3, ZenonT(30) DEF Program
  <2>2. CASE node[n].type # "WRITTING"
    BY <1>1, <1>2, <2>2 DEF OperaSuspends
  <2> QED BY <2>1, <2>2
<1>9. flash'[m][s] = d /\ \A j \in Mods, t \in Secs :
          ~(j = m /\ t = s) => flash'[j][t] = flash[j][t]
  <2>1. s \in Secs /\ flash \in [Mods -> [Secs -> Sector]]
    BY <1>4, ListFacts
  <2> QED BY <1>8, <2>1, SetSectorAt
<1>10. ASSUME NEW j \in Mods, NEW t \in Secs, ~(j = m /\ t = s)
       PROVE  SectorFits(j, t)'
  BY <1>7, <1>9, <1>10, SameKeeps DEF DataFits, SectorSame
<1>11. SectorFits(m, s)'
  <2> DEFINE S == OfSector(m, s)
  <2>1. OfSector(m, s)' = S /\ n \in S /\ S \subseteq Slots
    <3>1. S \subseteq Slots
      BY ListFacts DEF OfSector
    <3> QED BY <1>4, <1>7, <3>1 DEF NodesLeft
  <2>2. \A k \in S :
          /\ node'[k].type = node[k].type /\ node'[k].data = node[k].data
          /\ Result(k)' = Result(k)
          /\ \A x : Covers(k, x)' <=> Covers(k, x)
          /\ Newest(OfSector(m, s), k)' <=> Newest(S, k)
          /\ Oldest(OfSector(m, s), k)' <=> Oldest(S, k)
    BY <1>5, <1>6, <2>1 DEF SameNode, Result, Covers, Newest, Oldest
  <2>3. \A k \in S : Oldest(S, k) => k = n
    <3>1. \A k \in S \ {n} : <<n, k>> \notin before
      BY <1>3, ListFacts DEF OfSector
    <3> QED BY <2>1, <3>1 DEF Oldest
  <2>4. \A k \in OfSector(m, s)' :
            Newest(OfSector(m, s), k)' => contents'[m][s] = Result(k)'
    BY <1>4, <2>1, <2>2 DEF DataFits, SectorFits
  <2>5. \A k \in OfSector(m, s)' :
          node'[k].type = "WRITTING" /\ ~Oldest(OfSector(m, s), k)' =>
              \A x \in Offs : Covers(k, x)' \/ node'[k].data[x] = {}
    BY <1>4, <2>1, <2>2 DEF DataFits, SectorFits
  <2>6. ASSUME node[n].type = "WRITTING", Oldest(S, n), NEW x \in Offs
        PROVE  IF Covers(n, x) THEN d[x] \subseteq node[n].data[x]
               ELSE d[x] = node[n].data[x]
    <3>1. IF Covers(n, x) THEN flash[m][s][x] \subseteq node[n].data[x]
          ELSE flash[m][s][x] = node[n].data[x]
      BY <1>4, <2>6 DEF DataFits, SectorFits
    <3> QED BY <1>8, <2>6, <3>1
  <2>7. \A k \in OfSector(m, s)' :
          node'[k].type = "WRITTING" /\ Oldest(OfSector(m, s), k)' =>
              \A x \in Offs :
                  IF Covers(k, x)' THEN flash'[m][s][x] \subseteq node'[k].data[x]
                  ELSE flash'[m][s][x] = node'[k].data[x]
    BY <1>9, <2>1, <2>2, <2>3, <2>6
  <2> QED BY <2>1, <2>4, <2>5, <2>7 DEF SectorFits
<1> QED BY <1>10, <1>11 DEF DataFits

-----------------------------------------------------------------------------
(* The synchronous calls.                                                  *)

\* The second loop of a synchronous call leaves nothing of its module queued.
LEMMA SyncSeesEmpty ==
    ASSUME ProductBuild, IInv, SyncOperate
    PROVE  sync.mod \in Mods /\ sync \in Call /\ opera_info[sync.mod] = {}
<1>1. sync.mod # NoMod /\ SyncLoopEnds
  BY DEF SyncOperate
<1>2. flush_is_allowed
  BY DEF ProductBuild, flush_is_allowed
<1>3. ~HasWork(sync.mod)
  BY <1>1, <1>2 DEF SyncLoopEnds
<1>4. sync.mod \in Mods /\ sync \in Call
  BY <1>1, SyncTargetType DEF IInv
<1> QED BY <1>3, <1>4 DEF HasWork

\* The cells get what the call stands for.
LEMMA SyncWrites ==
    ASSUME SyncFits, sync.mod # NoMod, sync \in Call, NEW f \in Sector,
           f = contents[sync.mod][sync.addr]
    PROVE  (IF sync.type = "ERASING" THEN Erased
            ELSE Program(f, sync.w_offs, sync.w_len, [x \in Offs |-> sync.val]))
         = (IF sync.type = "ERASING" THEN Erased
            ELSE Memcpy(contents[sync.mod][sync.addr], sync.w_offs, sync.w_len, sync.val))
<1>1. sync.type \in {"WRITTING", "ERASING"}
  BY DEF Call
<1>2. CASE sync.type = "WRITTING"
  <2>1. \A x \in Offs : InRange(x, sync.w_offs, sync.w_len) =>
            contents[sync.mod][sync.addr][x] \subseteq sync.val
    BY <1>2 DEF SyncFits, NorDiscipline
  <2> QED BY <1>2, <2>1 DEF Program, Memcpy
<1>3. CASE sync.type = "ERASING"
  BY <1>3
<1> QED BY <1>1, <1>2, <1>3

LEMMA SyncOperateFits ==
    ASSUME ProductBuild, IInv, DataFits, SyncFits, SyncOperate
    PROVE  DataFits'
<1>1. sync.mod \in Mods /\ sync \in Call /\ opera_info[sync.mod] = {}
      /\ sync.mod # NoMod
  BY SyncSeesEmpty, SlotFacts
<1>2. PICK m \in Mods : m = sync.mod
  BY <1>1
<1>3. PICK s \in Secs : s = sync.addr
  BY <1>1 DEF Call
<1>4. \A j \in Mods, t \in Secs : NodesLeft(j, t, OfSector(j, t))
  BY DEF SyncOperate, lists, NodesLeft, SameNode, SameOrder, OfSector
<1>5. CASE UNCHANGED <<flash, contents>>
  BY <1>4, <1>5, SameKeeps DEF DataFits, SectorSame
<1>6. CASE ~UNCHANGED <<flash, contents>>
  <2>1. OfSector(m, s) = {} /\ OfSector(m, s)' = {}
    BY <1>1, <1>2, <1>4 DEF OfSector, NodesLeft
  <2>2. flash[m][s] = contents[m][s] /\ flash[m][s] \in Sector
    BY <2>1, ListFacts DEF DataFits, SectorFits
  <2>3. PICK d : d = IF sync.type = "ERASING" THEN Erased
                     ELSE Program(flash[m][s], sync.w_offs, sync.w_len,
                                  [x \in Offs |-> sync.val])
    OBVIOUS
  <2>4. PICK c : c = IF sync.type = "ERASING" THEN Erased
                     ELSE Memcpy(contents[m][s], sync.w_offs, sync.w_len, sync.val)
    OBVIOUS
  <2>5. c = d
    <3>1. PICK f \in Sector : f = flash[m][s]
      BY <2>2
    <3>2. f = contents[sync.mod][sync.addr]
      BY <1>2, <1>3, <2>2, <3>1
    <3> QED BY <1>1, <1>2, <1>3, <2>3, <2>4, <3>1, <3>2, SyncWrites
  <2>6. flash' = SetSector(flash, m, s, d) /\ contents' = SetSector(contents, m, s, d)
    BY <1>2, <1>3, <1>6, <2>3, <2>4, <2>5 DEF SyncOperate
  <2>7. /\ flash'[m][s] = contents'[m][s]
        /\ \A j \in Mods, t \in Secs : ~(j = m /\ t = s) =>
               flash'[j][t] = flash[j][t] /\ contents'[j][t] = contents[j][t]
    BY <2>6, SetSectorAt, ListFacts
  <2>8. SectorFits(m, s)'
    BY <2>1, <2>7 DEF SectorFits
  <2>9. \A j \in Mods, t \in Secs : ~(j = m /\ t = s) => SectorFits(j, t)'
    BY <1>4, <2>7, SameKeeps DEF DataFits, SectorSame
  <2> QED BY <2>8, <2>9 DEF DataFits
<1> QED BY <1>5, <1>6

-----------------------------------------------------------------------------
(* The invariant.                                                          *)

LEMMA InitData == Init => DataInv
<1> SUFFICES ASSUME Init PROVE DataInv
  OBVIOUS
<1>1. IInv
  BY InitIInv
<1>2. SyncFits
  BY DEF Init, SyncFits, NoCall
<1>3. DataFits
  BY DEF Init, DataFits, SectorFits, OfSector
<1> QED BY <1>1, <1>2, <1>3 DEF DataInv

\* A synchronous call in progress stays legal.
LEMMA NextSync ==
    ASSUME SyncFits, [Next]_vars
    PROVE  SyncFits'
<1>1. CASE UNCHANGED <<sync, contents>>
  BY <1>1 DEF SyncFits, NorDiscipline
<1>2. CASE (\E m \in Mods : norflash_api_register(m)) \/ UNCHANGED vars
  BY <1>1, <1>2 DEF norflash_api_register, vars
<1>3. CASE \E user \in Users : \/ norflash_api_flush_disable(user)
                              \/ norflash_api_flush_enable(user)
                              \/ CpInitDone(user)
  BY <1>1, <1>3 DEF norflash_api_flush_disable, norflash_api_flush_enable,
                    CpInitDone
<1>4. CASE \E m \in Mods, s \in Secs : EraseAsync(m, s)
  BY <1>4 DEF EraseAsync, Running, SyncFits
<1>5. CASE \E m \in Mods, s \in Secs, o \in Offs, l \in 1 .. SecLen,
              v \in SUBSET Bits : WriteAsync(m, s, o, l, v)
  BY <1>5 DEF WriteAsync, Running, SyncFits
<1>6. CASE \E c \in Call : SyncCall(c)
  BY <1>6 DEF SyncCall, SyncFits, NorDiscipline
<1>7. CASE norflash_api_flush
  <2>1. UNCHANGED <<sync, contents>>
    BY <1>7 DEF norflash_api_flush, FlushIdle, FlushOpera
  <2> QED BY <1>1, <2>1
<1>8. CASE SyncFlush
  <2>1. sync' = [sync EXCEPT !.bresult = TRUE] /\ contents' = contents
    BY <1>8 DEF SyncFlush
  <2>2. /\ sync'.mod = sync.mod /\ sync'.type = sync.type /\ sync'.addr = sync.addr
        /\ sync'.w_offs = sync.w_offs /\ sync'.w_len = sync.w_len /\ sync'.val = sync.val
    BY <2>1
  <2> QED BY <2>1, <2>2 DEF SyncFits, NorDiscipline
<1>9. CASE SyncOperate
  BY <1>9 DEF SyncOperate, SyncFits, NoCall
<1> QED BY <1>2, <1>3, <1>4, <1>5, <1>6, <1>7, <1>8, <1>9 DEF Next, Client

LEMMA FlushFits ==
    ASSUME IInv, DataFits, BufferNum <= 1, NEW m \in Mods, FlushOpera(m)
    PROVE  DataFits'
<1>1. contents' = contents
  BY DEF FlushOpera
<1>2. CASE HasWork(m) /\ opera_flush(m, FALSE)
  <2>1. OperaCompletes(m) \/ OperaSuspends(m)
    BY <1>2 DEF opera_flush
  <2> QED BY <1>1, <1>2, <2>1, CompleteFits, SuspendFits
<1>3. CASE UNCHANGED <<lists, cur_opera_info, state, chip>>
  <2>1. UNCHANGED <<opera_info, before, node, flash, contents>>
    BY <1>1, <1>3 DEF lists, chip
  <2> QED BY <2>1, StillSame, SameKeeps DEF DataFits
<1> QED BY <1>2, <1>3 DEF FlushOpera

LEMMA WriteFits ==
    ASSUME IInv, DataFits, BufferNum <= 1, NEW m \in Mods, NEW s \in Secs,
           NEW o \in Offs, NEW l \in 1 .. SecLen, NEW v \in SUBSET Bits,
           WriteAsync(m, s, o, l, v)
    PROVE  DataFits'
<1>1. /\ NorDiscipline(m, s, o, l, v) /\ flash' = flash
      /\ contents' = SetSector(contents, m, s, Memcpy(contents[m][s], o, l, v))
      /\ WriteAsyncMerge(m, s, o, l, v) \/ WriteAsyncNew(m, s, o, l, v)
  BY DEF WriteAsync, chip
<1> QED BY <1>1, MergeFits, NewWriteFits

LEMMA NextDataFits ==
    ASSUME ProductBuild, DataInv, [Next]_vars
    PROVE  DataFits'
<1> USE DEF ProductBuild, DataInv
<1>1. CASE UNCHANGED <<lists, chip, contents>>
  <2>1. UNCHANGED <<opera_info, before, node, flash, contents>>
    BY <1>1 DEF lists, chip
  <2> QED BY <2>1, StillSame, SameKeeps DEF DataFits
<1>2. CASE (\E m \in Mods : norflash_api_register(m)) \/ (\E c \in Call : SyncCall(c))
           \/ (\E user \in Users : \/ norflash_api_flush_disable(user)
                                  \/ norflash_api_flush_enable(user)
                                  \/ CpInitDone(user))
           \/ FlushIdle \/ UNCHANGED vars
  BY <1>1, <1>2 DEF norflash_api_register, SyncCall, norflash_api_flush_disable,
                    norflash_api_flush_enable, CpInitDone, FlushIdle, vars
<1>3. CASE \E m \in Mods, s \in Secs : EraseAsync(m, s)
  BY <1>3, EraseFits
<1>4. CASE \E m \in Mods, s \in Secs, o \in Offs, l \in 1 .. SecLen,
              v \in SUBSET Bits : WriteAsync(m, s, o, l, v)
  BY <1>4, WriteFits
<1>5. CASE \E m \in Mods : FlushOpera(m)
  BY <1>5, FlushFits
<1>6. CASE SyncFlush
  <2>1. PICK m : m = SyncTarget
    OBVIOUS
  <2>2. m \in Mods /\ HasWork(m) /\ OperaCompletes(m) /\ contents' = contents
    BY <1>6, <2>1, SyncTargetType DEF SyncFlush, opera_flush, IInv
  <2> QED BY <2>2, CompleteFits
<1>7. CASE SyncOperate
  BY <1>7, SyncOperateFits
<1> QED BY <1>2, <1>3, <1>4, <1>5, <1>6, <1>7 DEF Next, Client, norflash_api_flush

\* DataInv is inductive in the build of the product.
LEMMA NextData == ProductBuild /\ DataInv /\ [Next]_vars => DataInv'
BY NextIInv, NextSync, NextDataFits DEF DataInv

-----------------------------------------------------------------------------
(* What follows from the invariant.                                        *)

LEMMA ReadsAreContents == IInv /\ DataFits => ReadYourWrites
<1> SUFFICES ASSUME IInv, DataFits, NEW m \in Mods, NEW s \in Secs
             PROVE  opera_read(m, s) = contents[m][s]
  BY DEF ReadYourWrites
<1>1. CASE OfSector(m, s) = {}
  BY <1>1 DEF opera_read, DataFits, SectorFits
<1>2. CASE OfSector(m, s) # {}
  <2>1. PICK n : n = FirstOf(OfSector(m, s))
    OBVIOUS
  <2>2. OfSector(m, s) \in SUBSET opera_info[m]
    BY DEF OfSector
  <2>3. n \in OfSector(m, s) /\ Newest(OfSector(m, s), n)
    BY <1>2, <2>1, <2>2, FirstOfPart DEF IInv, Newest
  <2>4. contents[m][s] = Result(n)
    BY <2>3 DEF DataFits, SectorFits
  <2> QED BY <1>2, <2>1, <2>4 DEF opera_read, Result
<1> QED BY <1>1, <1>2

LEMMA DrainedFits == IInv /\ DataFits => DrainedIsContents
<1> SUFFICES ASSUME IInv, DataFits, NEW m \in Mods, opera_info[m] = {}
             PROVE  flash[m] = contents[m]
  BY DEF DrainedIsContents
<1>1. \A s \in Secs : flash[m][s] = contents[m][s]
  BY DEF DataFits, SectorFits, OfSector
<1>2. flash[m] \in [Secs -> Sector] /\ contents[m] \in [Secs -> Sector]
  BY ListFacts
<1> QED BY <1>1, <1>2

\* The round robin search finds a module with queued operations.
LEMMA BusyIsFound ==
    ASSUME IInv, NEW m \in Mods, opera_info[m] # {}
    PROVE  get_cur_mod # NoMod
<1>1. PICK busy : busy = {k \in Mods : Registered(k) /\ opera_info[k] # {}}
  OBVIOUS
<1>2. m \in busy
  BY <1>1 DEF IInv, UnregisteredEmpty, Registered
<1>3. PICK R : R = {p \in Mods \X Mods : Distance(p[1]) < Distance(p[2])}
  OBVIOUS
<1>4. \A k \in Mods : k \in Nat /\ k < ModNum
  BY ConstAssumption DEF Mods
<1>5. cur_mod_id \in Nat /\ cur_mod_id <= ModNum /\ ModNum \in Nat
  BY ConstAssumption DEF IInv, TypeOK, Mods, NoMod
<1>6. \A k \in Mods : Distance(k) \in Int
  BY <1>4, <1>5 DEF Distance
<1>7. \A k, j \in Mods : k # j => Distance(k) # Distance(j)
  BY <1>4, <1>5 DEF Distance
<1>8. IsFiniteSet(busy) /\ busy \subseteq Mods
  <2>1. IsFiniteSet(Mods)
    BY ConstAssumption, FS_Interval DEF Mods
  <2>2. busy \subseteq Mods
    BY <1>1
  <2> QED BY <2>1, <2>2, FS_Subset
<1>9. IsChain(R, busy)
  <2>1. \A k \in busy : <<k, k>> \notin R
    BY <1>3, <1>6, <1>8
  <2>2. \A k, j \in busy : k # j => <<k, j>> \in R \/ <<j, k>> \in R
    BY <1>3, <1>6, <1>7, <1>8
  <2>3. \A k, j, i \in busy : <<k, j>> \in R /\ <<j, i>> \in R => <<k, i>> \in R
    BY <1>3, <1>6, <1>8
  <2> QED BY <2>1, <2>2, <2>3 DEF IsChain
<1>10. PICK n \in busy : \A k \in busy \ {n} : <<n, k>> \in R
  BY <1>2, <1>8, <1>9, ChainHasFirst
<1>11. \A k \in busy : Distance(n) <= Distance(k)
  <2>1. \A k \in busy \ {n} : Distance(n) < Distance(k)
    BY <1>3, <1>10
  <2>2. \A k \in busy : Distance(k) \in Int
    BY <1>6, <1>8
  <2> QED BY <2>1, <2>2
<1>12. NoMod \notin busy
  BY <1>8, SlotFacts
<1> QED BY <1>1, <1>2, <1>11, <1>12 DEF get_cur_mod

-----------------------------------------------------------------------------
(* The service is a FlashStore.                                            *)

LEMMA VisibleIsContents == IInv /\ DataFits => Visible = contents
<1> SUFFICES ASSUME IInv, DataFits PROVE Visible = contents
  OBVIOUS
<1>1. contents = [m \in Mods |-> [s \in Secs |-> contents[m][s]]]
  BY ListFacts
<1>2. \A m \in Mods, s \in Secs : opera_read(m, s) = contents[m][s]
  BY ReadsAreContents DEF ReadYourWrites
<1> QED BY <1>1, <1>2 DEF Visible

\* The calls accepted so far change as a whole, by one write.
LEMMA IsStoreWrite ==
    ASSUME IInv, Visible = contents, Visible' = contents',
           NEW m \in Mods, NEW s \in Secs, NEW o \in Offs, NEW l \in 0 .. SecLen,
           NEW v \in SUBSET Bits, NorDiscipline(m, s, o, l, v), ValidRange(o, l),
           contents' = SetSector(contents, m, s, Memcpy(contents[m][s], o, l, v))
    PROVE  Store!Next
<1>1. PICK hi : hi = o + l - 1
  OBVIOUS
<1>2. hi \in Offs /\ \A x \in Offs : InRange(x, o, l) <=> o <= x /\ x <= hi
  BY <1>1, ConstAssumption DEF Offs, InRange, ValidRange
<1>3. \A x \in Offs : o <= x /\ x <= hi => Visible[m][s][x] \subseteq v
  BY <1>2 DEF NorDiscipline
<1>4. Memcpy(contents[m][s], o, l, v)
        = [x \in Offs |-> IF o <= x /\ x <= hi THEN v ELSE Visible[m][s][x]]
  BY <1>2 DEF Memcpy
<1>5. Visible' = [Visible EXCEPT ![m][s] =
                     [x \in Offs |-> IF o <= x /\ x <= hi THEN v
                                     ELSE Visible[m][s][x]]]
  BY <1>4 DEF SetSector
<1>6. Store!Write(m, s, o, hi, v)
  BY <1>3, <1>5 DEF Store!Write
<1> QED BY <1>2, <1>6 DEF Store!Next

LEMMA IsStoreErase ==
    ASSUME Visible = contents, Visible' = contents',
           NEW m \in Mods, NEW s \in Secs, contents' = SetSector(contents, m, s, Erased)
    PROVE  Store!Next
<1>1. Store!Erase(m, s)
  BY DEF Store!Erase, SetSector, Erased
<1> QED BY <1>1 DEF Store!Next

LEMMA InitStore == Init => Store!Init
<1> SUFFICES ASSUME Init PROVE Store!Init
  OBVIOUS
<1>1. Visible = contents
  BY InitData, VisibleIsContents DEF DataInv
<1> QED BY <1>1 DEF Init, Store!Init, Erased

\* Every step is a write, an erase or nothing a reader can see.
LEMMA NextStore ==
    ASSUME DataInv, DataInv', [Next]_vars
    PROVE  [Store!Next]_Visible
<1>1. Visible = contents /\ Visible' = contents' /\ IInv
  <2>1. (IInv /\ DataFits => Visible = contents)'
    BY VisibleIsContents, PTL
  <2> QED BY <2>1, VisibleIsContents DEF DataInv
<1>2. CASE contents' = contents
  BY <1>1, <1>2
<1>3. CASE \E m \in Mods, s \in Secs : EraseAsync(m, s)
  BY <1>1, <1>3, IsStoreErase DEF EraseAsync
<1>4. CASE \E m \in Mods, s \in Secs, o \in Offs, l \in 1 .. SecLen,
              v \in SUBSET Bits : WriteAsync(m, s, o, l, v)
  <2>1. PICK m \in Mods, s \in Secs, o \in Offs, l \in 1 .. SecLen,
             v \in SUBSET Bits : WriteAsync(m, s, o, l, v)
    BY <1>4
  <2>2. /\ l \in 0 .. SecLen /\ NorDiscipline(m, s, o, l, v) /\ ValidRange(o, l)
        /\ contents' = SetSector(contents, m, s, Memcpy(contents[m][s], o, l, v))
    BY <2>1, ConstAssumption DEF WriteAsync
  <2> QED BY <1>1, <2>2, IsStoreWrite
<1>5. CASE SyncOperate /\ contents' # contents
  <2>1. sync.mod # NoMod
    BY <1>5 DEF SyncOperate
  <2>2. sync \in Call /\ sync.mod \in Mods
    BY <1>1, <2>1, SyncTargetType DEF IInv
  <2>3. PICK m \in Mods, s \in Secs, o \in Offs, l \in 0 .. SecLen, v \in SUBSET Bits :
          m = sync.mod /\ s = sync.addr /\ o = sync.w_offs /\ l = sync.w_len
          /\ v = sync.val
    BY <2>2 DEF Call
  <2>4. CASE sync.type = "ERASING"
    <3>1. contents' = SetSector(contents, m, s, Erased)
      BY <1>5, <2>3, <2>4 DEF SyncOperate
    <3> QED BY <1>1, <3>1, IsStoreErase
  <2>5. CASE sync.type = "WRITTING"
    <3>1. contents' = SetSector(contents, m, s, Memcpy(contents[m][s], o, l, v))
      BY <1>5, <2>3, <2>5 DEF SyncOperate
    <3>2. NorDiscipline(m, s, o, l, v) /\ ValidRange(o, l)
      BY <2>1, <2>3, <2>5 DEF DataInv, SyncFits
    <3> QED BY <1>1, <3>1, <3>2, IsStoreWrite
  <2> QED BY <2>2, <2>4, <2>5 DEF Call
<1>6. CASE (\E m \in Mods : norflash_api_register(m)) \/ (\E c \in Call : SyncCall(c))
           \/ (\E user \in Users : \/ norflash_api_flush_disable(user)
                                  \/ norflash_api_flush_enable(user)
                                  \/ CpInitDone(user))
           \/ norflash_api_flush \/ SyncFlush \/ UNCHANGED vars
  BY <1>2, <1>6 DEF norflash_api_register, SyncCall, norflash_api_flush_disable,
                    norflash_api_flush_enable, CpInitDone, norflash_api_flush,
                    FlushIdle, FlushOpera, SyncFlush, vars
<1> QED BY <1>2, <1>3, <1>4, <1>5, <1>6 DEF Next, Client

-----------------------------------------------------------------------------
(* The theorems.                                                           *)

\* The invariant holds in every reachable state of the product's build.
THEOREM DataInvariance ==
    ASSUME ProductBuild
    PROVE  Spec => []DataInv
<1>1. Init => DataInv
  BY InitData
<1>2. DataInv /\ [Next]_vars => DataInv'
  BY NextData
<1> QED BY <1>1, <1>2, PTL DEF Spec

\* norflash_api_read returns what the calls accepted so far amount to, while
\* operations are queued, merged, programmed, suspended and resumed.
THEOREM ReadsSeeWrites ==
    ASSUME ProductBuild
    PROVE  Spec => []ReadYourWrites
<1>1. DataInv => ReadYourWrites
  BY ReadsAreContents DEF DataInv
<1> QED BY <1>1, DataInvariance, PTL

\* A module with nothing queued finds its calls, in their order, in the cells.
THEOREM FlashIsUpToDate ==
    ASSUME ProductBuild
    PROVE  Spec => []DrainedIsContents
<1>1. DataInv => DrainedIsContents
  BY DrainedFits DEF DataInv
<1> QED BY <1>1, DataInvariance, PTL

\* Queue, sector buffers, suspension and the two calls cannot be told from a
\* flash memory in which every accepted call takes effect at once.
THEOREM ImplementsFlashStore ==
    ASSUME ProductBuild
    PROVE  Spec => StoreSpec
<1>1. Init => Store!Init
  BY InitStore
<1>2. DataInv /\ DataInv' /\ [Next]_vars => [Store!Next]_Visible
  BY NextStore
<1> QED BY <1>1, <1>2, DataInvariance, PTL DEF Spec, StoreSpec, Store!Spec

-----------------------------------------------------------------------------
(* The hook rounds of the norflash thread.                                 *)

\* What is queued when a round is over, or none runs, waits for a message.
Awaited == hook # "round" /\ mails = 0 => Drained \/ missed

HookInv == IInv /\ HookTypeOK /\ Awaited

LEMMA InitHook == HookInit => HookInv
<1> SUFFICES ASSUME HookInit PROVE HookInv
  OBVIOUS
<1>1. IInv
  BY InitIInv DEF HookInit
<1>2. missed \in BOOLEAN
  BY Zenon DEF HookInit
<1>3. HookTypeOK
  BY <1>2 DEF HookInit, HookTypeOK, NORFLASH_API_MAILBOX_MAX
<1>4. Drained
  BY DEF HookInit, Init, Drained
<1> QED BY <1>1, <1>3, <1>4 DEF HookInv, Awaited

\* The service takes its own steps only.
LEMMA HookIsService == HookNext => [Next]_vars
BY DEF HookNext, HookClient, Others, norflash_api_hook_activate, MailboxGet,
       RoundFlush, MailboxFree, Next, Client

LEMMA FlagIsBoolean == missed' = ~flush_is_allowed => missed' \in BOOLEAN
BY Zenon

LEMMA HookTypes == HookTypeOK /\ [HookNext]_hookVars => HookTypeOK'
<1> SUFFICES ASSUME HookTypeOK, [HookNext]_hookVars PROVE HookTypeOK'
  OBVIOUS
<1> USE DEF HookTypeOK, NORFLASH_API_MAILBOX_MAX
<1>1. CASE UNCHANGED mailbox
  BY <1>1 DEF mailbox
<1>2. CASE MailboxPut
  <2>1. hook' = hook /\ missed' \in {missed, TRUE}
    BY <1>2 DEF MailboxPut
  <2>2. missed' \in BOOLEAN
    BY <2>1, Zenon
  <2>3. mails' \in 0 .. 2
    BY <1>2 DEF MailboxPut, mailbox_cnt
  <2> QED BY <2>1, <2>2, <2>3
<1>3. CASE MailboxGet \/ MailboxFree
  BY <1>3 DEF MailboxGet, MailboxFree
<1>4. CASE RoundFlush
  <2>1. hook' \in {"round", "done"} /\ mails' = mails
    BY <1>4 DEF RoundFlush
  <2>2. missed' \in BOOLEAN
    BY <1>4, FlagIsBoolean DEF RoundFlush
  <2> QED BY <2>1, <2>2
<1> QED BY <1>1, <1>2, <1>3, <1>4
        DEF HookNext, HookClient, Others, norflash_api_hook_activate, hookVars

\* After a put a message waits, or the wake-up was refused by a wrapped
\* counter.
LEMMA PutIsAwaited ==
    ASSUME HookTypeOK, MailboxPut
    PROVE  hook' # "round" /\ mails' = 0 => missed'
BY DEF HookTypeOK, MailboxPut, mailbox_cnt, NORFLASH_API_MAILBOX_MAX

\* A call of norflash_api_flush, or a step of a synchronous call, queues
\* nothing.
LEMMA FlushQueuesNothing ==
    ASSUME TypeOK, Drained, norflash_api_flush \/ SyncFlush
    PROVE  Drained'
<1>1. ASSUME NEW m, OperaCompletes(m) \/ OperaSuspends(m)
      PROVE  Drained'
  <2>1. \/ opera_info' = opera_info
        \/ opera_info' = [opera_info EXCEPT ![m] =
               {k \in opera_info[m] : <<k, CurNode(m)>> \in before}]
    BY <1>1 DEF OperaCompletes, OperaSuspends
  <2> QED BY <2>1 DEF TypeOK, Drained
<1>2. CASE opera_info' = opera_info
  BY <1>2 DEF Drained
<1>3. CASE norflash_api_flush
  BY <1>1, <1>2, <1>3 DEF norflash_api_flush, FlushIdle, FlushOpera, lists,
                          opera_flush
<1>4. CASE SyncFlush
  <2>1. PICK m : m = SyncTarget
    OBVIOUS
  <2>2. OperaCompletes(m)
    BY <1>4, <2>1 DEF SyncFlush, opera_flush
  <2> QED BY <2>2, <1>1
<1> QED BY <1>3, <1>4

\* The round robin answers that there is no module to flush only when no
\* module has anything queued.
NobodyMissed == get_cur_mod = NoMod => Drained

LEMMA SearchIsComplete == IInv => NobodyMissed
BY BusyIsFound DEF NobodyMissed, Drained

\* A round that ends with a flush that was allowed leaves nothing queued.
LEMMA RoundDrains ==
    ASSUME NobodyMissed, NobodyMissed', RoundFlush, hook' # "round"
    PROVE  Drained' \/ missed'
<1>1. CASE ~flush_is_allowed
  BY <1>1, Zenon DEF RoundFlush
<1>2. CASE get_cur_mod = NoMod
  <2>1. opera_info' = opera_info
    BY <1>2 DEF RoundFlush, norflash_api_flush, FlushIdle, FlushOpera, lists
  <2> QED BY <1>2, <2>1 DEF Drained, NobodyMissed
<1>3. CASE get_cur_mod' = NoMod
  BY <1>3 DEF NobodyMissed
<1> QED BY <1>1, <1>2, <1>3 DEF FlushReturns0, RoundFlush

\* Every step keeps what is queued awaited.
LEMMA NextAwaited ==
    ASSUME HookInv, NobodyMissed, NobodyMissed', [HookNext]_hookVars
    PROVE  Awaited'
<1> USE DEF HookInv
<1>1. CASE UNCHANGED <<opera_info, mailbox>>
  BY <1>1 DEF Awaited, Drained, mailbox
<1>2. CASE MailboxPut
  BY <1>2, PutIsAwaited DEF Awaited
<1>3. CASE (norflash_api_flush \/ SyncFlush) /\ UNCHANGED mailbox
  <2>1. TypeOK
    BY DEF IInv
  <2>2. Drained => Drained'
    BY <1>3, <2>1, FlushQueuesNothing
  <2> QED BY <1>3, <2>2 DEF Awaited, mailbox
<1>4. CASE MailboxGet
  BY <1>4 DEF MailboxGet, Awaited
<1>5. CASE MailboxFree
  <2>1. opera_info' = opera_info
    BY <1>5 DEF MailboxFree, vars, lists
  <2> QED BY <1>5, <2>1 DEF MailboxFree, Awaited, Drained
<1>6. CASE RoundFlush
  BY <1>6, RoundDrains DEF Awaited
<1>7. CASE UNCHANGED hookVars
  BY <1>1, <1>7 DEF hookVars, vars, lists
<1>8. CASE HookClient
  <2>1. CASE \/ \E m \in Mods : norflash_api_register(m)
             \/ \E c \in Call : SyncCall(c)
             \/ \E user \in Users : norflash_api_flush_disable(user)
             \/ \E user \in Users : norflash_api_flush_enable(user)
    <3>1. opera_info' = opera_info
      BY <2>1 DEF norflash_api_register, SyncCall, norflash_api_flush_disable,
                  norflash_api_flush_enable, lists
    <3> QED BY <1>1, <1>2, <1>8, <3>1 DEF HookClient,
                                          norflash_api_hook_activate
  <2> QED BY <1>2, <1>8, <2>1 DEF HookClient, norflash_api_hook_activate
<1>9. CASE Others
  <2>1. CASE SyncOperate \/ \E user \in Users : CpInitDone(user)
    <3>1. opera_info' = opera_info
      BY <2>1 DEF SyncOperate, CpInitDone, lists
    <3> QED BY <1>1, <1>9, <3>1 DEF Others
  <2> QED BY <1>3, <1>9, <2>1 DEF Others
<1> QED BY <1>4, <1>5, <1>6, <1>7, <1>8, <1>9 DEF HookNext

\* The service does nothing in the hook rounds of its thread that it does not
\* do anywhere: what is proved of Spec holds there too.
THEOREM HookImplementsService == HookSpec => Spec
<1>1. HookInit => Init
  BY DEF HookInit
<1>2. [HookNext]_hookVars => [Next]_vars
  BY HookIsService DEF hookVars
<1> QED BY <1>1, <1>2, PTL DEF HookSpec, Spec

\* When the norflash thread sleeps and no message waits for it, nothing is
\* queued, for any modules, pools and users of the window: a call that comes
\* while a round ends, or finds the mailbox full, does not leave its operation
\* behind.  _norflash_api_exec_flush_hook, norflash_api_erase and _write.
THEOREM NothingIsLeft == HookSpec => []NothingLeftBehind
<1>1. IInv => NobodyMissed
  BY SearchIsComplete
<1>2. HookInv /\ [HookNext]_hookVars => IInv'
  <2> SUFFICES ASSUME HookInv, [HookNext]_hookVars PROVE IInv'
    OBVIOUS
  <2>1. [Next]_vars
    BY HookIsService DEF hookVars
  <2> QED BY <2>1, NextIInv DEF HookInv
<1>3. HookInv /\ [HookNext]_hookVars => HookTypeOK'
  BY HookTypes DEF HookInv
<1>4. HookInv /\ NobodyMissed /\ NobodyMissed' /\ [HookNext]_hookVars
          => Awaited'
  BY NextAwaited
<1>5. HookInv <=> IInv /\ HookTypeOK /\ Awaited
  BY DEF HookInv
<1>6. HookInv => NothingLeftBehind
  BY DEF HookInv, Awaited, NothingLeftBehind
<1>7. HookInit => HookInv
  BY InitHook
<1> QED BY <1>1, <1>2, <1>3, <1>4, <1>5, <1>6, <1>7, PTL DEF HookSpec

=============================================================================
