------------------------- MODULE NorflashApiProofs -------------------------
(***************************************************************************)
(* Proofs about NorflashApi for any number of modules, sectors, pages,     *)
(* list nodes and sector buffers, with or without FLASH_SUSPEND and with   *)
(* or without a coprocessor user.                                          *)
(***************************************************************************)
EXTENDS NorflashApi, FiniteSetTheorems, WellFoundedInduction, TLAPS

\* R orders S: the walk along a list meets its nodes in one order.
IsChain(R, S) ==
    /\ \A n \in S : <<n, n>> \notin R
    /\ \A n, k \in S : n # k => <<n, k>> \in R \/ <<k, n>> \in R
    /\ \A n, k, j \in S : <<n, k>> \in R /\ <<k, j>> \in R => <<n, j>> \in R

\* A finite chain has a last element: the loop of _get_tail finds a node
\* whenever the list is not empty.
LEMMA ChainHasLast ==
    ASSUME NEW S, IsFiniteSet(S), S # {}, NEW R, IsChain(R, S)
    PROVE  \E n \in S : \A k \in S \ {n} : <<k, n>> \in R
<1> DEFINE After(n) == {k \in S : <<n, k>> \in R}
<1> DEFINE T == {After(n) : n \in S}
<1>1. T \subseteq FiniteSubsetsOf(S) /\ T # {}
  <2>1. \A n \in S : After(n) \in SUBSET S /\ IsFiniteSet(After(n))
    BY FS_Subset
  <2> QED BY <2>1 DEF FiniteSubsetsOf
<1>2. PICK X \in T : \A Y \in T : <<Y, X>> \notin StrictSubsetOrdering(S)
  <2> HIDE DEF T
  <2> QED BY <1>1, FS_StrictSubsetOrderingWellFounded, WFMin
<1>3. PICK n \in S : X = After(n)
  OBVIOUS
<1>4. ASSUME NEW k \in S \ {n}, <<k, n>> \notin R
      PROVE  FALSE
  <2>1. <<n, k>> \in R
    BY <1>4 DEF IsChain
  <2>2. After(k) \subseteq After(n) /\ k \in After(n) /\ k \notin After(k)
    BY <2>1 DEF IsChain
  <2>3. After(k) \in T /\ After(k) \in SUBSET S /\ X \in SUBSET S
    BY <1>3
  <2>4. <<After(k), X>> \in StrictSubsetOrdering(S)
    <3> HIDE DEF After
    <3> QED BY <2>2, <2>3, <1>3 DEF StrictSubsetOrdering
  <2> QED BY <2>3, <2>4, <1>2
<1> QED BY <1>4

\* A finite chain has a first element: the walk from the head meets some
\* node of any non-empty part of the list first.
LEMMA ChainHasFirst ==
    ASSUME NEW S, IsFiniteSet(S), S # {}, NEW R, IsChain(R, S)
    PROVE  \E n \in S : \A k \in S \ {n} : <<n, k>> \in R
<1> DEFINE Q == {p \in S \X S : <<p[2], p[1]>> \in R}
<1>1. IsChain(Q, S)
  BY DEF IsChain
<1>2. PICK n \in S : \A k \in S \ {n} : <<k, n>> \in Q
  <2> HIDE DEF Q
  <2> QED BY <1>1, ChainHasLast
<1> QED BY <1>2

-----------------------------------------------------------------------------
(* The inductive invariant.                                                *)

UnregisteredEmpty ==
    \A m \in Mods : state[m] = "UNINITED" => opera_info[m] = {}

IInv == TypeOK /\ Chains /\ PoolsExact /\ OneSuspended /\ UnregisteredEmpty

ListTypes ==
    /\ opera_info \in [Mods -> SUBSET Slots]
    /\ before \subseteq Slots \X Slots
    /\ node \in [Slots -> Node]
    /\ opera_used \subseteq Slots
    /\ buffer_used \subseteq Bufs

LEMMA SlotFacts == IsFiniteSet(Slots) /\ Null \notin Slots /\ Null \notin Bufs
                   /\ NoMod \notin Mods
BY ConstAssumption, FS_Interval DEF Slots, Bufs, Null, Mods, NoMod

LEMMA FreeNodeType == FreeNode \in Node
BY ConstAssumption DEF FreeNode, Node, Sector, Erased, Secs, Offs

\* Any part of a module's list is a chain of its own.
LEMMA PartIsChain ==
    ASSUME TypeOK, Chains, NEW m \in Mods, NEW S \in SUBSET opera_info[m]
    PROVE  IsFiniteSet(S) /\ IsChain(before, S)
<1>1. S \subseteq Slots
  BY DEF TypeOK
<1>2. IsFiniteSet(S)
  BY <1>1, SlotFacts, FS_Subset
<1> QED BY <1>1, <1>2 DEF IsChain, Chains

LEMMA FirstOfPart ==
    ASSUME TypeOK, Chains, NEW m \in Mods, NEW S \in SUBSET opera_info[m],
           S # {}
    PROVE  FirstOf(S) \in S /\ \A k \in S \ {FirstOf(S)} : <<FirstOf(S), k>> \in before
<1>1. \E n \in S : \A k \in S \ {n} : <<n, k>> \in before
  BY PartIsChain, ChainHasFirst
<1> QED BY <1>1 DEF FirstOf

LEMMA TailOfList ==
    ASSUME TypeOK, Chains, NEW m \in Mods, opera_info[m] # {}
    PROVE  /\ Tail(m) \in opera_info[m]
           /\ \A k \in opera_info[m] \ {Tail(m)} : <<k, Tail(m)>> \in before
<1>1. \E n \in opera_info[m] : \A k \in opera_info[m] \ {n} : <<k, n>> \in before
  BY PartIsChain, ChainHasLast
<1> QED BY <1>1 DEF Tail

\* Taking nodes out of a list and giving them and their buffers back keeps
\* the lists and the pools in order.
LEMMA DropKeeps ==
    ASSUME TypeOK, Chains, PoolsExact,
           NEW m \in Mods, NEW R \in SUBSET opera_info[m],
           opera_info' = [opera_info EXCEPT ![m] = opera_info[m] \ R],
           before' = Without(R),
           node' = [n \in Slots |-> IF n \in R THEN FreeNode ELSE node[n]],
           opera_used' = opera_used \ R,
           buffer_used' = BuffersAfterFree(R)
    PROVE  ListTypes' /\ Chains' /\ PoolsExact'
<1> R \subseteq Slots
  BY DEF TypeOK
<1>1. ListTypes'
  BY FreeNodeType DEF ListTypes, TypeOK, Without, BuffersAfterFree
<1>2. Chains'
  <2>1. \A n, k \in Slots : <<n, k>> \in before' =>
           n # k /\ \E j \in Mods : n \in opera_info'[j] /\ k \in opera_info'[j]
    BY DEF Chains, Without, TypeOK
  <2>2. \A j \in Mods : \A n, k \in opera_info'[j] :
           n # k => (<<n, k>> \in before' <=> <<k, n>> \notin before')
    <3> SUFFICES ASSUME NEW j \in Mods, NEW n \in opera_info'[j],
                        NEW k \in opera_info'[j], n # k
                 PROVE  <<n, k>> \in before' <=> <<k, n>> \notin before'
      OBVIOUS
    <3>1. n \in opera_info[j] /\ k \in opera_info[j] /\ n \notin R /\ k \notin R
      BY DEF TypeOK, PoolsExact
    <3> QED BY <3>1 DEF Chains, Without
  <2>3. \A n, k, j \in Slots :
           <<n, k>> \in before' /\ <<k, j>> \in before' => <<n, j>> \in before'
    BY DEF Chains, Without
  <2> QED BY <2>1, <2>2, <2>3 DEF Chains
<1>3. PoolsExact'
  <2>1. opera_used' = UNION {opera_info'[j] : j \in Mods}
    BY DEF PoolsExact, TypeOK
  <2>2. \A j, k \in Mods : j # k => opera_info'[j] \cap opera_info'[k] = {}
    BY DEF PoolsExact, TypeOK
  <2>3. \A n \in opera_used' : node'[n] = node[n] /\ n \in opera_used /\ n \in Slots
    BY DEF TypeOK
  <2>4. buffer_used' = {node'[n].buff : n \in opera_used'} \ {Null}
    <3>1. \A n \in R : n \in opera_used
      BY DEF PoolsExact
    <3>2. buffer_used' = {node[n].buff : n \in opera_used \ R} \ {Null}
      BY <3>1 DEF PoolsExact, BuffersAfterFree
    <3> QED BY <2>3, <3>2
  <2>5. \A n, k \in opera_used' :
           n # k /\ node'[n].buff # Null => node'[n].buff # node'[k].buff
    BY <2>3 DEF PoolsExact
  <2>6. \A n \in opera_used' : node'[n].type = "WRITTING" <=> node'[n].buff # Null
    BY <2>3 DEF PoolsExact
  <2> QED BY <2>1, <2>2, <2>4, <2>5, <2>6 DEF PoolsExact
<1> QED BY <1>1, <1>2, <1>3

\* So does adding a node, with a sector buffer if it is a write, at the head
\* of a list from which some nodes have just been taken.
LEMMA PushKeeps ==
    ASSUME TypeOK, Chains, PoolsExact,
           NEW m \in Mods, NEW R \in SUBSET opera_info[m],
           NEW i \in Slots \ (opera_used \ R), NEW nd \in Node,
           nd.type = "WRITTING" <=> nd.buff # Null,
           nd.buff \notin buffer_used,
           Push(m, opera_info[m] \ R, i, nd),
           opera_used' = (opera_used \ R) \cup {i},
           buffer_used' = BuffersAfterFree(R) \cup ({nd.buff} \ {Null})
    PROVE  ListTypes' /\ Chains' /\ PoolsExact'
<1> R \subseteq Slots
  BY DEF TypeOK
<1> DEFINE S == opera_info[m] \ R
<1>1. opera_info[m] \ S = R
  OBVIOUS
<1>2. /\ opera_info' = [opera_info EXCEPT ![m] = S \cup {i}]
      /\ before' = Without(R) \cup ({i} \X S)
      /\ node' = [[n \in Slots |-> IF n \in R THEN FreeNode ELSE node[n]]
                     EXCEPT ![i] = nd]
  BY <1>1 DEF Push
<1>3. i \notin S /\ \A j \in Mods : j # m => i \notin opera_info[j]
  BY DEF PoolsExact
<1>4. \A j \in Mods : j # m => opera_info[j] \cap R = {}
  BY DEF PoolsExact
<1>5. ListTypes'
  <2>1. node' \in [Slots -> Node]
    BY <1>2, FreeNodeType DEF TypeOK
  <2>2. nd.buff \in Bufs \cup {Null}
    BY DEF Node
  <2>3. before' \subseteq Slots \X Slots
    <3>1. S \subseteq Slots /\ Without(R) \subseteq Slots \X Slots
      BY DEF TypeOK, Without
    <3> QED BY <3>1, <1>2
  <2> QED BY <1>2, <2>1, <2>2, <2>3 DEF ListTypes, TypeOK, BuffersAfterFree
<1>6. Chains'
  <2> DEFINE I(j) == opera_info'[j]
  <2>0. /\ I(m) = S \cup {i}
        /\ \A j \in Mods : j # m => I(j) = opera_info[j]
    BY <1>2 DEF TypeOK
  <2>1. \A n, k \in Slots : <<n, k>> \in before' <=>
           \/ <<n, k>> \in before /\ n \notin R /\ k \notin R
           \/ n = i /\ k \in S
    BY <1>2 DEF Without
  <2>2. \A n, k \in Slots : <<n, k>> \in before /\ n \notin R /\ k \notin R =>
           /\ n # k /\ n # i /\ k # i
           /\ \E j \in Mods : n \in I(j) /\ k \in I(j)
    <3> SUFFICES ASSUME NEW n \in Slots, NEW k \in Slots, <<n, k>> \in before,
                        n \notin R, k \notin R
                 PROVE  /\ n # k /\ n # i /\ k # i
                        /\ \E j \in Mods : n \in I(j) /\ k \in I(j)
      OBVIOUS
    <3>1. PICK j \in Mods : n \in opera_info[j] /\ k \in opera_info[j] /\ n # k
      BY DEF Chains
    <3>2. n \in I(j) /\ k \in I(j)
      BY <3>1, <2>0
    <3> QED BY <3>1, <3>2, <1>3
  <2>3. \A n, k \in Slots : <<n, k>> \in before' =>
           n # k /\ \E j \in Mods : n \in I(j) /\ k \in I(j)
    BY <2>0, <2>1, <2>2, <1>3
  <2>4. ASSUME NEW j \in Mods, NEW n \in I(j), NEW k \in I(j), n # k
        PROVE  <<n, k>> \in before' <=> <<k, n>> \notin before'
    <3>1. n \in Slots /\ k \in Slots
      BY <1>5 DEF ListTypes
    <3>2. CASE j # m
      <4>1. /\ n \in opera_info[j] /\ k \in opera_info[j] /\ n # i /\ k # i
            /\ n \notin R /\ k \notin R
        BY <2>0, <1>3, <1>4, <3>2
      <4> QED BY <4>1, <2>1, <3>1, <2>4 DEF Chains
    <3>3. CASE j = m /\ n # i /\ k # i
      <4>1. n \in opera_info[m] /\ k \in opera_info[m] /\ n \notin R /\ k \notin R
        BY <2>0, <3>3
      <4> QED BY <4>1, <2>1, <3>1, <2>4, <3>3 DEF Chains
    <3>4. CASE j = m /\ (n = i \/ k = i)
      BY <2>0, <2>1, <2>2, <3>1, <3>4, <1>3, <2>4
    <3> QED BY <3>2, <3>3, <3>4
  <2>5. ASSUME NEW n \in Slots, NEW k \in Slots, NEW j \in Slots,
               <<n, k>> \in before', <<k, j>> \in before'
        PROVE  <<n, j>> \in before'
    <3>1. CASE n = i
      <4>1. k \in S /\ k # i
        BY <3>1, <2>1, <2>2, <2>5, <1>3
      <4>2. <<k, j>> \in before /\ j \notin R
        BY <4>1, <2>1, <2>5
      <4>3. PICK l \in Mods : k \in opera_info[l] /\ j \in opera_info[l]
        BY <4>2 DEF Chains
      <4>4. l = m
        BY <4>1, <4>3 DEF PoolsExact
      <4> QED BY <4>2, <4>3, <4>4, <3>1, <2>1
    <3>2. CASE n # i
      <4>1. <<n, k>> \in before /\ n \notin R /\ k \notin R /\ k # i
        BY <3>2, <2>1, <2>2, <2>5
      <4>2. <<k, j>> \in before /\ j \notin R
        BY <4>1, <2>1, <2>5
      <4> QED BY <4>1, <4>2, <2>1 DEF Chains
    <3> QED BY <3>1, <3>2
  <2> QED BY <2>3, <2>4, <2>5 DEF Chains
<1>7. PoolsExact'
  <2>1. opera_used' = UNION {opera_info'[j] : j \in Mods}
    BY <1>2, <1>4 DEF PoolsExact, TypeOK
  <2>2. \A j, k \in Mods : j # k => opera_info'[j] \cap opera_info'[k] = {}
    BY <1>2, <1>3 DEF PoolsExact, TypeOK
  <2>3. /\ i \in opera_used' /\ node'[i] = nd
        /\ \A n \in opera_used' \ {i} :
               node'[n] = node[n] /\ n \in opera_used \ R
    BY <1>2 DEF TypeOK
  <2>4. \A n \in opera_used' : node'[n].type = "WRITTING" <=> node'[n].buff # Null
    BY <2>3 DEF PoolsExact
  <2>5. \A n \in opera_used \ R : node[n].buff # Null =>
           node[n].buff \in buffer_used /\ node[n].buff # nd.buff
    BY DEF PoolsExact
  <2>6. \A n, k \in opera_used' :
           n # k /\ node'[n].buff # Null => node'[n].buff # node'[k].buff
    BY <2>3, <2>5 DEF PoolsExact
  <2>7. buffer_used' = {node'[n].buff : n \in opera_used'} \ {Null}
    <3>1. \A n \in R : n \in opera_used
      BY DEF PoolsExact
    <3>2. BuffersAfterFree(R) = {node[n].buff : n \in opera_used \ R} \ {Null}
      BY <3>1 DEF PoolsExact, BuffersAfterFree
    <3>3. opera_used' = (opera_used \ R) \cup {i} /\ i \notin opera_used \ R
      OBVIOUS
    <3>4. \A n \in opera_used \ R : node'[n].buff = node[n].buff
      BY <2>3, <3>3
    <3> QED BY <2>3, <3>2, <3>3, <3>4
  <2> QED BY <2>1, <2>2, <2>4, <2>6, <2>7 DEF PoolsExact
<1> QED BY <1>5, <1>6, <1>7

-----------------------------------------------------------------------------
(* The actions keep IInv.                                                  *)

RestTypes ==
    /\ cur_opera_info \in [Mods -> Slots \cup {Null}]
    /\ state \in [Mods -> States]
    /\ cur_mod \in Mods \cup {NoMod}
    /\ cur_mod_id \in Mods \cup {NoMod}
    /\ allowed_cb \in [Users -> {"NULL", "false", "true"}]
    /\ sync \in Call \cup {NoCall}
    /\ suspend_state \in {"NONE", "ERASE_SUSPEND", "PROGRAM_SUSPEND"}
    /\ flash \in [Mods -> [Secs -> Sector]]
    /\ contents \in [Mods -> [Secs -> Sector]]

LEMMA SectorFacts ==
    /\ Erased \in Sector
    /\ \A d \in Sector, o \in Offs, l \in 0 .. SecLen, v \in SUBSET Bits :
           Memcpy(d, o, l, v) \in Sector
    /\ \A d, e \in Sector, o \in Offs, l \in Nat : Program(d, o, l, e) \in Sector
BY DEF Sector, Erased, Memcpy, Program

LEMMA SetSectorType ==
    ASSUME NEW f \in [Mods -> [Secs -> Sector]], NEW m \in Mods, NEW s \in Secs,
           NEW d \in Sector
    PROVE  SetSector(f, m, s, d) \in [Mods -> [Secs -> Sector]]
BY DEF SetSector

\* Nothing structural changes when the types and buffers of the nodes stay.
LEMMA NodesKeep ==
    ASSUME TypeOK, Chains, PoolsExact,
           UNCHANGED <<opera_info, before, opera_used, buffer_used>>,
           node' \in [Slots -> Node],
           \A n \in Slots : /\ node'[n].type = node[n].type
                            /\ node'[n].buff = node[n].buff
    PROVE  ListTypes' /\ Chains' /\ PoolsExact'
<1>1. ListTypes'
  BY DEF ListTypes, TypeOK
<1>2. Chains'
  BY DEF Chains
<1>3. PoolsExact'
  <2>1. opera_used \subseteq Slots
    BY DEF TypeOK
  <2>2. {node'[n].buff : n \in opera_used'} = {node[n].buff : n \in opera_used}
    BY <2>1
  <2>3. \A n \in opera_used' : /\ node'[n].type = node[n].type
                               /\ node'[n].buff = node[n].buff
    BY <2>1
  <2> QED BY <2>2, <2>3 DEF PoolsExact
<1> QED BY <1>1, <1>2, <1>3

THEOREM InitIInv == Init => IInv
<1> SUFFICES ASSUME Init PROVE IInv
  OBVIOUS
<1>1. TypeOK
  <2>1. NoCall \in Call \cup {NoCall}
    OBVIOUS
  <2> QED BY <2>1, FreeNodeType, SectorFacts DEF Init, TypeOK, States, Erased, Sector
<1>2. Chains
  BY DEF Init, Chains
<1>3. PoolsExact
  BY DEF Init, PoolsExact
<1>4. OneSuspended
  BY DEF Init, OneSuspended, FreeNode
<1>5. UnregisteredEmpty
  BY DEF Init, UnregisteredEmpty
<1> QED BY <1>1, <1>2, <1>3, <1>4, <1>5 DEF IInv

LEMMA RegisterKeeps ==
    ASSUME IInv, NEW m \in Mods, norflash_api_register(m)
    PROVE  IInv'
<1> USE DEF IInv, norflash_api_register, lists, chip
<1>1. ListTypes' /\ Chains' /\ PoolsExact'
  BY NodesKeep DEF TypeOK
<1>2. RestTypes'
  BY DEF TypeOK, RestTypes, States
<1>3. OneSuspended'
  BY DEF OneSuspended, Registered, TypeOK
<1>4. UnregisteredEmpty'
  BY DEF UnregisteredEmpty, TypeOK
<1> QED BY <1>1, <1>2, <1>3, <1>4 DEF TypeOK, ListTypes, RestTypes

\* Steps that change neither the lists, the modules nor the chip.
LEMMA QuietKeeps ==
    ASSUME IInv,
           UNCHANGED <<lists, cur_opera_info, state, cur_mod, suspend_state>>,
           RestTypes'
    PROVE  IInv'
<1> USE DEF IInv, lists
<1>1. ListTypes' /\ Chains' /\ PoolsExact'
  BY NodesKeep DEF TypeOK
<1>2. OneSuspended'
  BY DEF OneSuspended
<1>3. UnregisteredEmpty'
  BY DEF UnregisteredEmpty
<1> QED BY <1>1, <1>2, <1>3 DEF TypeOK, ListTypes, RestTypes

LEMMA CallbackKeeps ==
    ASSUME IInv,
           \/ FlushIdle
           \/ \E user \in Users : norflash_api_flush_disable(user)
           \/ \E user \in Users : norflash_api_flush_enable(user)
           \/ \E user \in Users : CpInitDone(user)
    PROVE  IInv'
<1>1. RestTypes'
  BY DEF norflash_api_flush_disable, norflash_api_flush_enable, CpInitDone,
         FlushIdle, PollAllowedCb, IInv, TypeOK, RestTypes, chip
<1> QED BY <1>1, QuietKeeps
        DEF norflash_api_flush_disable, norflash_api_flush_enable, CpInitDone,
            FlushIdle, chip

LEMMA SyncCallKeeps ==
    ASSUME IInv, NEW c \in Call, SyncCall(c)
    PROVE  IInv'
<1>1. RestTypes'
  BY DEF SyncCall, IInv, TypeOK, RestTypes, chip
<1> QED BY <1>1, QuietKeeps DEF SyncCall, chip

LEMMA SyncOperateKeeps ==
    ASSUME IInv, SyncOperate
    PROVE  IInv'
<1> DEFINE src == [x \in Offs |-> sync.val]
<1>1. /\ sync \in Call
      /\ sync.mod \in Mods /\ sync.addr \in Secs /\ sync.w_offs \in Offs
      /\ sync.w_len \in 0 .. SecLen /\ sync.val \in SUBSET Bits
  BY DEF IInv, TypeOK, SyncOperate, Call, NoCall
<1>2. src \in Sector
  BY <1>1 DEF Sector
<1>3. flash' \in [Mods -> [Secs -> Sector]] /\ contents' \in [Mods -> [Secs -> Sector]]
  <2> DEFINE d == IF sync.type = "ERASING" THEN Erased
                  ELSE Program(flash[sync.mod][sync.addr], sync.w_offs,
                               sync.w_len, src)
             c == IF sync.type = "ERASING" THEN Erased
                  ELSE Memcpy(contents[sync.mod][sync.addr], sync.w_offs,
                              sync.w_len, sync.val)
  <2>1. /\ flash \in [Mods -> [Secs -> Sector]]
        /\ contents \in [Mods -> [Secs -> Sector]]
    BY DEF IInv, TypeOK
  <2>2. /\ flash[sync.mod][sync.addr] \in Sector
        /\ contents[sync.mod][sync.addr] \in Sector
    BY <1>1, <2>1
  <2>3. sync.w_len \in Nat
    BY <1>1, ConstAssumption
  <2>4. d \in Sector /\ c \in Sector
    BY <1>1, <1>2, <2>2, <2>3, SectorFacts
  <2>5. \/ /\ flash' = SetSector(flash, sync.mod, sync.addr, d)
           /\ contents' = SetSector(contents, sync.mod, sync.addr, c)
        \/ UNCHANGED <<flash, contents>>
    BY DEF SyncOperate
  <2> HIDE DEF d, c
  <2>6. /\ SetSector(flash, sync.mod, sync.addr, d) \in [Mods -> [Secs -> Sector]]
        /\ SetSector(contents, sync.mod, sync.addr, c) \in [Mods -> [Secs -> Sector]]
    BY <1>1, <2>1, <2>4, SetSectorType
  <2> QED BY <2>1, <2>5, <2>6
<1>4. RestTypes'
  BY <1>3 DEF SyncOperate, PollAllowedCb, IInv, TypeOK, RestTypes
<1> QED BY <1>4, QuietKeeps DEF SyncOperate

\* A node is locked exactly when its module is processing it.
LEMMA LockedIsCurrent ==
    ASSUME IInv, NEW m \in Mods, NEW n \in opera_info[m]
    PROVE  node[n].lock <=> cur_opera_info[m] = n
<1>1. n \in Slots /\ n # Null
  BY SlotFacts DEF IInv, TypeOK
<1>2. ASSUME node[n].lock PROVE cur_opera_info[m] = n
  <2>1. PICK k \in Mods : cur_opera_info[k] = n
    BY <1>1, <1>2 DEF IInv, OneSuspended
  <2>2. n \in opera_info[k]
    BY <2>1, <1>1 DEF IInv, OneSuspended
  <2>3. k = m
    BY <2>2 DEF IInv, PoolsExact
  <2> QED BY <2>1, <2>3
<1>3. ASSUME cur_opera_info[m] = n PROVE node[n].lock
  BY <1>1, <1>3 DEF IInv, OneSuspended
<1> QED BY <1>2, <1>3

\* A suspended operation stays what it is when its node keeps its kind, its
\* lock and its place at the tail.
LEMMA CurrentKeeps ==
    ASSUME OneSuspended,
           UNCHANGED <<cur_opera_info, state, cur_mod, suspend_state>>,
           \A m \in Mods : state[m] \notin {"UNINITED", "IDLE"} =>
               LET n == cur_opera_info[m] IN
               /\ n \in opera_info'[m]
               /\ \A k \in opera_info'[m] \ {n} : <<k, n>> \in before'
               /\ node'[n].type = node[n].type
               /\ node'[n].lock,
           \A n \in Slots : node'[n].lock => node[n].lock
    PROVE  OneSuspended'
BY DEF OneSuspended

\* An erase removes queued operations of its sector, never the locked one.
LEMMA EraseAsyncKeeps ==
    ASSUME IInv, NEW m \in Mods, NEW s \in Secs, EraseAsync(m, s)
    PROVE  IInv'
<1> USE DEF IInv
<1> DEFINE merged  == MergedErase(m, s)
           dropped == {n \in OfSector(m, s) :
                         ~node[n].lock /\ \A k \in merged : <<n, k>> \in before}
           kept    == opera_info[m] \ dropped
           free    == Slots \ (opera_used \ dropped)
           i       == FirstFree(free)
           nd      == [FreeNode EXCEPT !.addr = s]
<1>1. dropped \in SUBSET opera_info[m] /\ dropped \subseteq Slots
  BY DEF OfSector, TypeOK
<1>2. /\ nd \in Node /\ nd.type = "ERASING" /\ nd.buff = Null /\ nd.lock = FALSE
  <2>1. nd \in Node
    BY FreeNodeType DEF Node
  <2> QED BY <2>1 DEF FreeNode
<1>3. Null \notin buffer_used
  BY SlotFacts DEF TypeOK
<1>4. /\ Running /\ Registered(m)
      /\ buffer_used' = BuffersAfterFree(dropped)
      /\ contents' = SetSector(contents, m, s, Erased)
      /\ UNCHANGED <<cur_opera_info, state, cur_mod, cur_mod_id, allowed_cb,
                     sync, suspend_state, flash>>
  BY DEF EraseAsync, chip
<1>5. \/ /\ opera_info' = [opera_info EXCEPT ![m] = kept]
         /\ before' = Without(dropped)
         /\ node' = [n \in Slots |-> IF n \in dropped THEN FreeNode ELSE node[n]]
         /\ opera_used' = opera_used \ dropped
      \/ /\ merged = {} /\ free # {}
         /\ Push(m, kept, i, nd)
         /\ opera_used' = (opera_used \ dropped) \cup {i}
  BY DEF EraseAsync
<1>6. ASSUME NEW k \in Mods, state[k] \notin {"UNINITED", "IDLE"}
      PROVE  LET n == cur_opera_info[k] IN
             /\ n \in opera_info[k] /\ n \notin dropped /\ n \in Slots
             /\ node[n].lock /\ n \in opera_used
             /\ \A j \in opera_info[k] \ {n} : <<j, n>> \in before
  <2>1. cur_opera_info[k] \in opera_info[k] /\ node[cur_opera_info[k]].lock
    BY <1>6 DEF OneSuspended
  <2> QED BY <2>1, <1>6 DEF OneSuspended, TypeOK, PoolsExact
<1>7. ListTypes' /\ Chains' /\ PoolsExact' /\ OneSuspended'
  <2> HIDE DEF dropped, nd, i
  <2>1. CASE /\ opera_info' = [opera_info EXCEPT ![m] = kept]
             /\ before' = Without(dropped)
             /\ node' = [n \in Slots |-> IF n \in dropped THEN FreeNode
                                         ELSE node[n]]
             /\ opera_used' = opera_used \ dropped
    <3>1. ListTypes' /\ Chains' /\ PoolsExact'
      BY <1>1, <1>4, <2>1, DropKeeps
    <3>2. \A n \in Slots : node'[n].lock => node[n].lock
      BY <2>1 DEF FreeNode
    <3>3. \A k \in Mods : opera_info'[k] \subseteq opera_info[k]
      BY <2>1 DEF TypeOK
    <3>4. ASSUME NEW k \in Mods, state[k] \notin {"UNINITED", "IDLE"}
          PROVE  LET n == cur_opera_info[k] IN
                 /\ n \in opera_info'[k]
                 /\ \A j \in opera_info'[k] \ {n} : <<j, n>> \in before'
                 /\ node'[n].type = node[n].type /\ node'[n].lock
      <4>1. cur_opera_info[k] \in opera_info'[k]
        BY <1>6, <3>4, <2>1 DEF TypeOK
      <4>2. \A j \in opera_info'[k] : j \notin dropped
        BY <1>1, <2>1 DEF TypeOK, PoolsExact
      <4> QED BY <4>1, <4>2, <1>6, <3>3, <3>4, <2>1 DEF Without
    <3> QED BY <3>1, <3>2, <3>4, <1>4, CurrentKeeps
  <2>2. CASE /\ merged = {} /\ free # {}
             /\ Push(m, kept, i, nd)
             /\ opera_used' = (opera_used \ dropped) \cup {i}
    <3>1. i \in Slots \ (opera_used \ dropped)
      BY <2>2 DEF FirstFree, i
    <3>2. ListTypes' /\ Chains' /\ PoolsExact'
      <4>1. buffer_used' = BuffersAfterFree(dropped) \cup ({nd.buff} \ {Null})
        BY <1>2, <1>4
      <4>2. nd.type = "WRITTING" <=> nd.buff # Null
        BY <1>2
      <4>3. nd.buff \notin buffer_used
        BY <1>2, <1>3
      <4> QED BY <1>1, <1>2, <2>2, <3>1, <4>1, <4>2, <4>3, PushKeeps
    <3>3. opera_info[m] \ kept = dropped
      BY <1>1
    <3>4. /\ opera_info' = [opera_info EXCEPT ![m] = kept \cup {i}]
          /\ before' = Without(dropped) \cup ({i} \X kept)
          /\ node' = [[n \in Slots |-> IF n \in dropped THEN FreeNode ELSE node[n]]
                        EXCEPT ![i] = nd]
      BY <2>2, <3>3 DEF Push
    <3>5. \A n \in Slots : node'[n].lock => node[n].lock
      BY <3>4, <1>2, <3>1 DEF FreeNode
    <3>6. ASSUME NEW k \in Mods, state[k] \notin {"UNINITED", "IDLE"}
          PROVE  LET n == cur_opera_info[k] IN
                 /\ n \in opera_info'[k]
                 /\ \A j \in opera_info'[k] \ {n} : <<j, n>> \in before'
                 /\ node'[n].type = node[n].type /\ node'[n].lock
      <4>1. cur_opera_info[k] # i
        BY <1>6, <3>6, <3>1
      <4>2. cur_opera_info[k] \in opera_info'[k]
        BY <1>6, <3>6, <3>4 DEF TypeOK
      <4>3. node'[cur_opera_info[k]] = node[cur_opera_info[k]]
        BY <1>6, <3>6, <3>4, <4>1
      <4>4. ASSUME NEW j \in opera_info'[k] \ {cur_opera_info[k]}
            PROVE  <<j, cur_opera_info[k]>> \in before'
        <5>1. CASE j \in opera_info[k] /\ j \notin dropped
          BY <5>1, <1>6, <3>6, <3>4, <4>4 DEF Without
        <5>2. CASE k = m /\ j = i
          BY <5>2, <1>6, <3>6, <3>4, <4>1
        <5>3. k # m => j \notin dropped
          BY <1>1, <3>4 DEF TypeOK, PoolsExact
        <5> QED BY <5>1, <5>2, <5>3, <3>4 DEF TypeOK
      <4> QED BY <4>2, <4>3, <4>4, <1>6, <3>6
    <3> QED BY <3>2, <3>5, <3>6, <1>4, CurrentKeeps
  <2> QED BY <1>5, <2>1, <2>2
<1>8. RestTypes'
  BY <1>4, SectorFacts, SetSectorType DEF TypeOK, RestTypes
<1>9. UnregisteredEmpty'
  BY <1>4, <1>5 DEF UnregisteredEmpty, Push, TypeOK, Registered
<1> QED BY <1>7, <1>8, <1>9 DEF TypeOK, ListTypes, RestTypes

\* Merging two ranges gives a range of the sector.
LEMMA MergedRange ==
    ASSUME NEW nd \in Node, NEW offs \in Offs, NEW len \in 1 .. SecLen,
           ValidRange(offs, len)
    PROVE  /\ MergedOffs(nd, offs) \in Offs /\ MergedLen(nd, offs, len) \in 0 .. SecLen
           /\ MergedOffs(nd, offs) + MergedLen(nd, offs, len) <= SecLen
BY ConstAssumption DEF Node, Offs, ValidRange, MergedOffs, MergedLen

\* A write that merges changes neither lists nor pools nor a locked node.
LEMMA WriteMergeKeeps ==
    ASSUME IInv, NEW m \in Mods, NEW s \in Secs, NEW o \in Offs,
           NEW l \in 1 .. SecLen, NEW v \in SUBSET Bits,
           ValidRange(o, l), WriteAsyncMerge(m, s, o, l, v),
           UNCHANGED <<cur_opera_info, state, cur_mod, suspend_state>>
    PROVE  ListTypes' /\ Chains' /\ PoolsExact' /\ OneSuspended' /\ UnregisteredEmpty'
<1> USE DEF IInv
<1> DEFINE i   == FirstOf(Mergeable(m, s))
           old == node[i]
           new == [old EXCEPT !.data = Memcpy(old.data, o, l, v),
                              !.w_offs = MergedOffs(old, o),
                              !.w_len = MergedLen(old, o, l)]
<1>1. i \in Mergeable(m, s) /\ i \in Slots /\ old \in Node
  <2>1. Mergeable(m, s) \in SUBSET opera_info[m]
    BY DEF Mergeable, OfSector
  <2> QED BY <2>1, FirstOfPart DEF WriteAsyncMerge, TypeOK
<1>2. /\ node' = [node EXCEPT ![i] = new] /\ old.type = "WRITTING"
      /\ UNCHANGED <<opera_info, before, opera_used, buffer_used>>
  BY DEF WriteAsyncMerge
<1>3. ~old.lock
  BY <1>1, <1>2 DEF Mergeable, Node
<1>4. new \in Node /\ new.type = old.type /\ new.buff = old.buff /\ new.lock = old.lock
  <2>1. Memcpy(old.data, o, l, v) \in Sector
    BY <1>1, SectorFacts DEF Node
  <2>2. /\ MergedOffs(old, o) \in Offs /\ MergedLen(old, o, l) \in 0 .. SecLen
        /\ MergedOffs(old, o) + MergedLen(old, o, l) <= SecLen
    BY <1>1, MergedRange
  <2> QED BY <1>1, <2>1, <2>2 DEF Node
<1> HIDE DEF i, old, new
<1>5. /\ node' \in [Slots -> Node]
      /\ \A n \in Slots : /\ node'[n].type = node[n].type
                          /\ node'[n].buff = node[n].buff
                          /\ node'[n].lock = node[n].lock
  BY <1>1, <1>2, <1>4 DEF TypeOK, old
<1>6. ListTypes' /\ Chains' /\ PoolsExact'
  BY <1>2, <1>5, NodesKeep
<1>7. OneSuspended'
  <2>1. \A k \in Mods : state[k] \notin {"UNINITED", "IDLE"} =>
            cur_opera_info[k] \in Slots
    BY DEF OneSuspended, TypeOK
  <2> QED BY <1>2, <1>5, <2>1, CurrentKeeps DEF OneSuspended
<1>8. UnregisteredEmpty'
  BY <1>2 DEF UnregisteredEmpty
<1> QED BY <1>6, <1>7, <1>8

\* A write that gets a node and a sector buffer of its own.
LEMMA WriteNewKeeps ==
    ASSUME IInv, NEW m \in Mods, NEW s \in Secs, NEW o \in Offs,
           NEW l \in 1 .. SecLen, NEW v \in SUBSET Bits,
           Registered(m), ValidRange(o, l), WriteAsyncNew(m, s, o, l, v),
           UNCHANGED <<cur_opera_info, state, cur_mod, suspend_state>>
    PROVE  ListTypes' /\ Chains' /\ PoolsExact' /\ OneSuspended' /\ UnregisteredEmpty'
<1> USE DEF IInv
<1> DEFINE i  == FirstFree(Slots \ opera_used)
           b  == FirstFree(Bufs \ buffer_used)
           nd == [type |-> "WRITTING", addr |-> s, w_offs |-> o, w_len |-> l,
                  buff |-> b, data |-> Memcpy(BaseOf(m, s), o, l, v),
                  lock |-> FALSE]
<1>1. i \in Slots \ opera_used /\ b \in Bufs \ buffer_used
  BY DEF WriteAsyncNew, FirstFree
<1>2. nd \in Node
  <2>1. BaseOf(m, s) \in Sector
    BY SectorFacts DEF BaseOf, TypeOK
  <2>2. l \in 0 .. SecLen /\ o + l <= SecLen
    BY ConstAssumption DEF ValidRange
  <2>3. Memcpy(BaseOf(m, s), o, l, v) \in Sector
    BY <2>1, <2>2, SectorFacts
  <2> QED BY <1>1, <2>2, <2>3 DEF Node
<1>3. nd.type = "WRITTING" /\ nd.buff = b /\ nd.lock = FALSE /\ b # Null
  BY <1>1, SlotFacts
<1>4. /\ opera_used' = opera_used \cup {i} /\ buffer_used' = buffer_used \cup {b}
      /\ Push(m, opera_info[m], i, nd)
  BY DEF WriteAsyncNew
<1> HIDE DEF i, b, nd
<1>5. ListTypes' /\ Chains' /\ PoolsExact'
  <2>1. {} \in SUBSET opera_info[m] /\ opera_info[m] \ {} = opera_info[m]
        /\ opera_used \ {} = opera_used
    OBVIOUS
  <2>2. BuffersAfterFree({}) = buffer_used
    BY DEF BuffersAfterFree
  <2>3. buffer_used' = BuffersAfterFree({}) \cup ({nd.buff} \ {Null})
    BY <1>3, <1>4, <2>2
  <2> QED BY <1>1, <1>2, <1>3, <1>4, <2>1, <2>3, PushKeeps
<1>6. /\ opera_info' = [opera_info EXCEPT ![m] = opera_info[m] \cup {i}]
      /\ before' = Without({}) \cup ({i} \X opera_info[m])
      /\ node' = [[n \in Slots |-> IF n \in {} THEN FreeNode ELSE node[n]]
                    EXCEPT ![i] = nd]
  BY <1>4 DEF Push
<1>7. OneSuspended'
  <2>1. \A n \in Slots : node'[n].lock => node[n].lock
    BY <1>6, <1>3, <1>1
  <2>2. ASSUME NEW k \in Mods, state[k] \notin {"UNINITED", "IDLE"}
        PROVE  LET n == cur_opera_info[k] IN
               /\ n \in opera_info'[k]
               /\ \A j \in opera_info'[k] \ {n} : <<j, n>> \in before'
               /\ node'[n].type = node[n].type /\ node'[n].lock
    <3>1. /\ cur_opera_info[k] \in opera_info[k] /\ node[cur_opera_info[k]].lock
          /\ \A j \in opera_info[k] \ {cur_opera_info[k]} :
                 <<j, cur_opera_info[k]>> \in before
      BY <2>2 DEF OneSuspended
    <3>2. cur_opera_info[k] # i /\ cur_opera_info[k] \in Slots
      BY <3>1, <1>1 DEF PoolsExact, TypeOK
    <3>3. node'[cur_opera_info[k]] = node[cur_opera_info[k]]
      BY <3>2, <1>6
    <3>4. cur_opera_info[k] \in opera_info'[k]
      BY <3>1, <1>6 DEF TypeOK
    <3>5. before \subseteq before'
      BY <1>6 DEF Without, TypeOK
    <3>6. \A j \in opera_info'[k] : j \in opera_info[k] \/ (k = m /\ j = i)
      BY <1>6 DEF TypeOK
    <3>7. k = m => <<i, cur_opera_info[k]>> \in before'
      BY <1>6, <3>1
    <3> QED BY <3>1, <3>3, <3>4, <3>5, <3>6, <3>7
  <2> QED BY <2>1, <2>2, CurrentKeeps
<1>8. UnregisteredEmpty'
  BY <1>6 DEF UnregisteredEmpty, TypeOK, Registered
<1> QED BY <1>5, <1>7, <1>8

LEMMA WriteAsyncKeeps ==
    ASSUME IInv, NEW m \in Mods, NEW s \in Secs, NEW o \in Offs,
           NEW l \in 1 .. SecLen, NEW v \in SUBSET Bits,
           WriteAsync(m, s, o, l, v)
    PROVE  IInv'
<1>1. /\ Registered(m) /\ ValidRange(o, l)
      /\ WriteAsyncMerge(m, s, o, l, v) \/ WriteAsyncNew(m, s, o, l, v)
      /\ contents' = SetSector(contents, m, s, Memcpy(contents[m][s], o, l, v))
      /\ UNCHANGED <<cur_opera_info, state, cur_mod, cur_mod_id, allowed_cb,
                     sync, suspend_state, flash>>
  BY DEF WriteAsync, chip
<1>2. ListTypes' /\ Chains' /\ PoolsExact' /\ OneSuspended' /\ UnregisteredEmpty'
  BY <1>1, WriteMergeKeeps, WriteNewKeeps
<1>3. contents' \in [Mods -> [Secs -> Sector]]
  <2>1. contents \in [Mods -> [Secs -> Sector]] /\ contents[m][s] \in Sector
    BY DEF IInv, TypeOK
  <2>2. l \in 0 .. SecLen
    BY ConstAssumption
  <2>3. Memcpy(contents[m][s], o, l, v) \in Sector
    BY <2>1, <2>2, SectorFacts
  <2> QED BY <1>1, <2>1, <2>3, SetSectorType
<1>4. RestTypes'
  BY <1>1, <1>3 DEF IInv, TypeOK, RestTypes
<1> QED BY <1>2, <1>4 DEF IInv, TypeOK, ListTypes, RestTypes

\* _opera_flush works on the tail of the list, and on the suspended node if
\* there is one.
LEMMA CurNodeFacts ==
    ASSUME IInv, NEW m \in Mods, HasWork(m)
    PROVE  /\ CurNode(m) \in opera_info[m] /\ CurNode(m) \in Slots
           /\ CurNode(m) # Null /\ CurNode(m) \in opera_used
           /\ \A k \in opera_info[m] \ {CurNode(m)} : <<k, CurNode(m)>> \in before
<1> USE DEF IInv
<1>1. CASE cur_opera_info[m] # Null
  <2>1. /\ cur_opera_info[m] \in opera_info[m]
        /\ \A k \in opera_info[m] \ {cur_opera_info[m]} :
               <<k, cur_opera_info[m]>> \in before
    BY <1>1 DEF OneSuspended
  <2> QED BY <1>1, <2>1 DEF CurNode, TypeOK, PoolsExact
<1>2. CASE cur_opera_info[m] = Null
  <2>1. opera_info[m] # {}
    BY <1>2 DEF HasWork
  <2>2. Tail(m) \in Slots /\ Tail(m) # Null
    BY <2>1, TailOfList, SlotFacts DEF TypeOK
  <2> QED BY <1>2, <2>1, <2>2, TailOfList DEF CurNode, PoolsExact
<1> QED BY <1>1, <1>2

\* When the hal accepts an operation, no other module has a suspended one.
LEMMA OthersIdle ==
    ASSUME IInv, NEW m \in Mods, HalAccepts(m)
    PROVE  /\ state[m] # "UNINITED"
           /\ \A k \in Mods \ {m} : /\ state[k] \in {"UNINITED", "IDLE"}
                                    /\ cur_opera_info[k] = Null
<1>1. state[m] # "UNINITED"
  BY DEF HalAccepts
<1>2. \A k \in Mods \ {m} : state[k] \in {"UNINITED", "IDLE"}
  BY DEF IInv, OneSuspended, HalAccepts
<1> QED BY <1>1, <1>2 DEF IInv, OneSuspended

LEMMA AppliedType ==
    ASSUME TypeOK, NEW n \in Slots, NEW d \in Sector
    PROVE  Applied(d, node[n]) \in Sector
<1>1. node[n].w_offs \in Offs /\ node[n].w_len \in Nat /\ node[n].data \in Sector
  BY ConstAssumption DEF TypeOK, Node
<1> QED BY <1>1, SectorFacts DEF Applied

\* An operation that completes leaves nothing suspended.
LEMMA CompletesKeeps ==
    ASSUME IInv, NEW m \in Mods, HasWork(m), HalAccepts(m), OperaCompletes(m),
           cur_mod' \in Mods \cup {NoMod}, cur_mod_id' \in Mods \cup {NoMod},
           PollAllowedCb, sync' \in Call \cup {NoCall}, UNCHANGED contents
    PROVE  IInv'
<1> USE DEF IInv
<1> DEFINE n == CurNode(m)
<1>1. /\ n \in opera_info[m] /\ n \in Slots /\ n # Null
      /\ \A k \in opera_info[m] \ {n} : <<k, n>> \in before
  BY CurNodeFacts
<1>2. /\ state[m] # "UNINITED"
      /\ \A k \in Mods \ {m} : /\ state[k] \in {"UNINITED", "IDLE"}
                               /\ cur_opera_info[k] = Null
  BY OthersIdle
<1>3. /\ flash' = SetSector(flash, m, node[n].addr,
                            Applied(flash[m][node[n].addr], node[n]))
      /\ suspend_state' = "NONE"
      /\ state' = [state EXCEPT ![m] = "IDLE"]
      /\ opera_info' = [opera_info EXCEPT ![m] =
                            {k \in opera_info[m] : <<k, n>> \in before}]
      /\ before' = Without({n})
      /\ opera_used' = opera_used \ {n}
      /\ buffer_used' = BuffersAfterFree({n})
      /\ node' = [node EXCEPT ![n] = FreeNode]
      /\ cur_opera_info' = [cur_opera_info EXCEPT ![m] = Null]
  BY DEF OperaCompletes
<1>4. cur_opera_info[m] # Null => n = cur_opera_info[m]
  BY DEF CurNode
<1> HIDE DEF n
<1>5. ListTypes' /\ Chains' /\ PoolsExact'
  <2>1. {k \in opera_info[m] : <<k, n>> \in before} = opera_info[m] \ {n}
    BY <1>1 DEF Chains
  <2>2. node' = [k \in Slots |-> IF k \in {n} THEN FreeNode ELSE node[k]]
    BY <1>1, <1>3 DEF TypeOK
  <2>3. {n} \in SUBSET opera_info[m]
    BY <1>1
  <2> QED BY <1>3, <2>1, <2>2, <2>3, DropKeeps
<1>6. OneSuspended'
  <2>1. \A k \in Mods : /\ state'[k] \in {"UNINITED", "IDLE"}
                        /\ cur_opera_info'[k] = Null
    BY <1>2, <1>3 DEF TypeOK
  <2>2. ASSUME NEW k \in Slots, node'[k].lock PROVE FALSE
    <3>1. k # n /\ node[k].lock
      BY <1>3, <2>2 DEF FreeNode, TypeOK
    <3>2. PICK j \in Mods : cur_opera_info[j] = k
      BY <3>1 DEF OneSuspended
    <3> QED BY <3>1, <3>2, <1>2, <1>4, SlotFacts
  <2> QED BY <2>1, <2>2, <1>3 DEF OneSuspended
<1>7. RestTypes'
  <2>1. node[n].addr \in Secs
    BY <1>1 DEF TypeOK, Node
  <2>2. flash' \in [Mods -> [Secs -> Sector]]
    <3>1. flash \in [Mods -> [Secs -> Sector]] /\ flash[m][node[n].addr] \in Sector
      BY <2>1 DEF TypeOK
    <3> QED BY <3>1, <2>1, <1>1, <1>3, AppliedType, SetSectorType
  <2> QED BY <1>3, <2>2 DEF TypeOK, RestTypes, States, PollAllowedCb
<1>8. UnregisteredEmpty'
  BY <1>2, <1>3 DEF UnregisteredEmpty, TypeOK
<1> QED BY <1>5, <1>6, <1>7, <1>8 DEF TypeOK, ListTypes, RestTypes

\* An operation that is suspended stays at the tail, locked.
LEMMA SuspendsKeeps ==
    ASSUME IInv, NEW m \in Mods, HasWork(m), HalAccepts(m), OperaSuspends(m),
           cur_mod' = m, cur_mod_id' = m, PollAllowedCb,
           UNCHANGED <<sync, contents>>
    PROVE  IInv'
<1> USE DEF IInv
<1> DEFINE n == CurNode(m)
<1>1. /\ n \in opera_info[m] /\ n \in Slots /\ n # Null
      /\ \A k \in opera_info[m] \ {n} : <<k, n>> \in before
  BY CurNodeFacts
<1>2. /\ state[m] # "UNINITED"
      /\ \A k \in Mods \ {m} : /\ state[k] \in {"UNINITED", "IDLE"}
                               /\ cur_opera_info[k] = Null
  BY OthersIdle
<1>3. /\ node' = [node EXCEPT ![n] = [node[n] EXCEPT !.lock = TRUE]]
      /\ cur_opera_info' = [cur_opera_info EXCEPT ![m] = n]
      /\ UNCHANGED <<opera_info, before, opera_used, buffer_used>>
      /\ \/ /\ node[n].type = "WRITTING"
            /\ state' = [state EXCEPT ![m] = "WRITTING_SUSPEND"]
            /\ suspend_state' = "PROGRAM_SUSPEND"
         \/ /\ node[n].type = "ERASING"
            /\ state' = [state EXCEPT ![m] = "ERASE_SUSPEND"]
            /\ suspend_state' = "ERASE_SUSPEND"
  BY DEF OperaSuspends
<1>4. cur_opera_info[m] # Null => n = cur_opera_info[m]
  BY DEF CurNode
<1>5. flash' \in [Mods -> [Secs -> Sector]]
  <2>1. /\ node[n].addr \in Secs /\ node[n].w_offs \in Offs /\ node[n].data \in Sector
        /\ node[n].w_len \in Nat
    BY <1>1, ConstAssumption DEF TypeOK, Node
  <2>2. flash \in [Mods -> [Secs -> Sector]] /\ flash[m][node[n].addr] \in Sector
    BY <2>1 DEF TypeOK
  <2>3. ASSUME NEW k \in 0 .. node[n].w_len
        PROVE  Program(flash[m][node[n].addr], node[n].w_offs, k,
                       node[n].data) \in Sector
    <3>1. k \in Nat
      BY <2>1
    <3> HIDE DEF n
    <3> QED BY <3>1, <2>1, <2>2, SectorFacts
  <2>4. \A P \in SUBSET Offs :
           [x \in Offs |-> IF x \in P THEN {} ELSE flash[m][node[n].addr][x]] \in Sector
    BY <2>2 DEF Sector
  <2>5. \E d \in Sector : flash' = SetSector(flash, m, node[n].addr, d)
    BY <2>3, <2>4 DEF OperaSuspends
  <2> QED BY <2>1, <2>2, <2>5, SetSectorType
<1> HIDE DEF n
<1>6. /\ node' \in [Slots -> Node]
      /\ \A k \in Slots : /\ node'[k].type = node[k].type
                          /\ node'[k].buff = node[k].buff
                          /\ k # n => node'[k].lock = node[k].lock
      /\ node'[n].lock
  <2>1. [node[n] EXCEPT !.lock = TRUE] \in Node /\ node[n] \in Node
    BY <1>1 DEF TypeOK, Node
  <2>2. /\ [node[n] EXCEPT !.lock = TRUE].type = node[n].type
        /\ [node[n] EXCEPT !.lock = TRUE].buff = node[n].buff
        /\ [node[n] EXCEPT !.lock = TRUE].lock
    BY <2>1 DEF Node
  <2> QED BY <1>1, <1>3, <2>1, <2>2 DEF TypeOK
<1>7. ListTypes' /\ Chains' /\ PoolsExact'
  BY <1>3, <1>6, NodesKeep
<1>8. OneSuspended'
  <2>1. \A k \in Mods \ {m} : /\ state'[k] \in {"UNINITED", "IDLE"}
                              /\ cur_opera_info'[k] = Null
    BY <1>2, <1>3 DEF TypeOK
  <2>2. cur_opera_info'[m] = n
    BY <1>3 DEF TypeOK
  <2>3. /\ state'[m] \notin {"UNINITED", "IDLE"}
        /\ <<node'[n].type, state'[m], suspend_state'>> \in
              {<<"WRITTING", "WRITTING_SUSPEND", "PROGRAM_SUSPEND">>,
               <<"ERASING", "ERASE_SUSPEND", "ERASE_SUSPEND">>}
    BY <1>1, <1>3, <1>6 DEF TypeOK
  <2>4. ASSUME NEW k \in Slots, node'[k].lock
        PROVE  \E j \in Mods : cur_opera_info'[j] = k
    <3>1. CASE k = n
      BY <3>1, <2>2
    <3>2. CASE k # n
      <4>1. PICK j \in Mods : cur_opera_info[j] = k
        BY <3>2, <2>4, <1>6 DEF OneSuspended
      <4> QED BY <3>2, <4>1, <1>2, <1>4, SlotFacts
    <3> QED BY <3>1, <3>2
  <2>5. \E k \in Mods : cur_opera_info'[k] # Null
    BY <2>2, <1>1
  <2>6. /\ cur_opera_info'[m] \in opera_info'[m]
        /\ \A k \in opera_info'[m] \ {cur_opera_info'[m]} :
               <<k, cur_opera_info'[m]>> \in before'
        /\ node'[cur_opera_info'[m]].lock
    BY <2>2, <1>1, <1>3, <1>6
  <2> QED BY <2>1, <2>2, <2>3, <2>4, <2>5, <2>6 DEF OneSuspended
<1>9. RestTypes'
  BY <1>1, <1>3, <1>5 DEF TypeOK, RestTypes, States, PollAllowedCb
<1>10. UnregisteredEmpty'
  BY <1>2, <1>3 DEF UnregisteredEmpty, TypeOK
<1> QED BY <1>7, <1>8, <1>9, <1>10 DEF TypeOK, ListTypes, RestTypes

LEMMA FlushOperaKeeps ==
    ASSUME IInv, NEW m \in Mods, FlushOpera(m)
    PROVE  IInv'
<1> USE DEF IInv
<1>1. /\ get_cur_mod = m /\ PollAllowedCb /\ cur_mod_id' = m /\ m # NoMod
      /\ UNCHANGED <<sync, contents>>
      /\ m \in Mods \cup {NoMod} /\ NoMod \in Mods \cup {NoMod}
  BY DEF FlushOpera
<1>2. CASE HasWork(m) /\ cur_mod' = m /\ opera_flush(m, FALSE)
  <2>1. HalAccepts(m) /\ (OperaCompletes(m) \/ OperaSuspends(m))
    BY <1>2 DEF opera_flush
  <2>2. sync' \in Call \cup {NoCall}
    BY <1>1 DEF TypeOK
  <2>3. CASE OperaCompletes(m)
    BY <1>1, <1>2, <2>1, <2>2, <2>3, CompletesKeeps
  <2>4. CASE OperaSuspends(m)
    BY <1>1, <1>2, <2>1, <2>4, SuspendsKeeps
  <2> QED BY <2>1, <2>3, <2>4
<1>3. CASE /\ ~HasWork(m) /\ cur_mod' = NoMod
           /\ UNCHANGED <<lists, cur_opera_info, state, chip>>
  <2>1. UNCHANGED <<opera_info, before, node, opera_used, buffer_used,
                    cur_opera_info, state, suspend_state, flash>>
    BY <1>3 DEF lists, chip
  <2>2. ListTypes' /\ Chains' /\ PoolsExact'
    BY <2>1, NodesKeep DEF TypeOK
  <2>3. \A k \in Mods : state[k] \in {"UNINITED", "IDLE"}
    <3> SUFFICES ASSUME NEW k \in Mods, state[k] \notin {"UNINITED", "IDLE"}
                 PROVE  FALSE
      OBVIOUS
    <3>1. cur_mod = k /\ cur_opera_info[k] \in opera_info[k]
      BY DEF OneSuspended
    <3>2. k = m
      BY <1>1, <3>1, SlotFacts DEF get_cur_mod
    <3> QED BY <1>3, <3>1, <3>2 DEF HasWork
  <2>4. OneSuspended'
    BY <2>1, <2>3 DEF OneSuspended
  <2>5. RestTypes'
    BY <1>1, <1>3, <2>1 DEF TypeOK, RestTypes, PollAllowedCb
  <2>6. UnregisteredEmpty'
    BY <2>1 DEF UnregisteredEmpty
  <2> QED BY <2>2, <2>4, <2>5, <2>6 DEF TypeOK, ListTypes, RestTypes
<1> QED BY <1>2, <1>3 DEF FlushOpera

\* A synchronous call works on its own module or on cur_mod.
LEMMA SyncTargetType ==
    ASSUME TypeOK, sync.mod # NoMod
    PROVE  sync \in Call /\ sync.mod \in Mods /\ SyncTarget \in Mods
<1>1. sync \in Call /\ sync.mod \in Mods
  BY DEF TypeOK, NoCall, Call
<1> QED BY <1>1 DEF SyncTarget, OtherSuspended, TypeOK

LEMMA SyncFlushKeeps ==
    ASSUME IInv, SyncFlush
    PROVE  IInv'
<1> DEFINE m == SyncTarget
<1>1. /\ sync.mod # NoMod /\ HasWork(m) /\ PollAllowedCb /\ opera_flush(m, TRUE)
      /\ sync' = [sync EXCEPT !.bresult = TRUE]
      /\ UNCHANGED <<cur_mod, cur_mod_id, contents>>
  BY DEF SyncFlush
<1>2. sync \in Call /\ m \in Mods
  BY <1>1, SyncTargetType DEF IInv
<1> HIDE DEF m
<1>3. sync' \in Call \cup {NoCall}
  BY <1>1, <1>2 DEF Call
<1>4. HalAccepts(m) /\ OperaCompletes(m)
  BY <1>1 DEF opera_flush
<1>5. cur_mod' \in Mods \cup {NoMod} /\ cur_mod_id' \in Mods \cup {NoMod}
  BY <1>1 DEF IInv, TypeOK
<1> QED BY <1>1, <1>2, <1>3, <1>4, <1>5, CompletesKeeps

LEMMA ClientKeeps == IInv /\ Client => IInv'
<1> SUFFICES ASSUME IInv, Client PROVE IInv'
  OBVIOUS
<1>1. CASE \E m \in Mods : norflash_api_register(m)
  BY <1>1, RegisterKeeps
<1>2. CASE \E m \in Mods, s \in Secs : EraseAsync(m, s)
  BY <1>2, EraseAsyncKeeps
<1>3. CASE \E m \in Mods, s \in Secs, o \in Offs, l \in 1 .. SecLen,
              v \in SUBSET Bits : WriteAsync(m, s, o, l, v)
  BY <1>3, WriteAsyncKeeps
<1>4. CASE \E c \in Call : SyncCall(c)
  BY <1>4, SyncCallKeeps
<1>5. CASE \/ \E user \in Users : norflash_api_flush_disable(user)
           \/ \E user \in Users : norflash_api_flush_enable(user)
  BY <1>5, CallbackKeeps
<1> QED BY <1>1, <1>2, <1>3, <1>4, <1>5 DEF Client

\* IInv is inductive.
THEOREM NextIInv == IInv /\ [Next]_vars => IInv'
<1> SUFFICES ASSUME IInv, [Next]_vars PROVE IInv'
  OBVIOUS
<1>1. CASE Client
  BY <1>1, ClientKeeps
<1>2. CASE FlushIdle \/ \E user \in Users : CpInitDone(user)
  BY <1>2, CallbackKeeps
<1>3. CASE \E m \in Mods : FlushOpera(m)
  BY <1>3, FlushOperaKeeps
<1>4. CASE SyncFlush
  BY <1>4, SyncFlushKeeps
<1>5. CASE SyncOperate
  BY <1>5, SyncOperateKeeps
<1>6. CASE UNCHANGED vars
  <2>1. UNCHANGED <<lists, cur_opera_info, state, cur_mod, suspend_state>>
    BY <1>6 DEF vars, chip
  <2>2. RestTypes'
    BY <1>6 DEF vars, lists, chip, IInv, TypeOK, RestTypes
  <2> QED BY <2>1, <2>2, QuietKeeps
<1> QED BY <1>1, <1>2, <1>3, <1>4, <1>5, <1>6 DEF Next, norflash_api_flush

\* The invariant is strong enough for the state checks of _opera_flush: the
\* module the service turns to is the one that suspended the chip, if any did.
LEMMA IInvNoAssert == IInv => NoAssert
<1> SUFFICES ASSUME IInv, NEW m \in Mods, HasWork(m),
                    IF Running THEN get_cur_mod = m ELSE SyncTarget = m
             PROVE  HalAccepts(m)
  BY DEF NoAssert
<1> USE DEF IInv
<1>1. CASE state[m] = "UNINITED"
  BY <1>1 DEF HasWork, UnregisteredEmpty, OneSuspended
<1>2. CASE state[m] = "IDLE"
  <2>1. ASSUME suspend_state # "NONE" PROVE FALSE
    <3>1. PICK k \in Mods : cur_opera_info[k] # Null
      BY <2>1 DEF OneSuspended
    <3>2. state[k] \notin {"UNINITED", "IDLE"} /\ cur_mod = k /\ k # NoMod
      BY <3>1, SlotFacts DEF OneSuspended
    <3>3. CASE Running
      BY <3>2, <3>3, <1>2 DEF get_cur_mod
    <3>4. CASE ~Running
      BY <3>2, <3>4, <1>2 DEF SyncTarget, OtherSuspended
    <3> QED BY <3>3, <3>4
  <2> QED BY <1>2, <2>1 DEF HalAccepts
<1>3. CASE state[m] \notin {"UNINITED", "IDLE"}
  <2>1. /\ cur_opera_info[m] \in opera_info[m]
        /\ <<node[cur_opera_info[m]].type, state[m], suspend_state>> \in
              {<<"WRITTING", "WRITTING_SUSPEND", "PROGRAM_SUSPEND">>,
               <<"ERASING", "ERASE_SUSPEND", "ERASE_SUSPEND">>}
    BY <1>3 DEF OneSuspended
  <2>2. cur_opera_info[m] # Null
    BY <2>1, SlotFacts DEF TypeOK
  <2> QED BY <2>1, <2>2 DEF HalAccepts, CurNode
<1> QED BY <1>1, <1>2, <1>3

-----------------------------------------------------------------------------
(* The theorems.                                                           *)

\* The inductive invariant holds in every reachable state.
THEOREM Invariance == Spec => []IInv
<1>1. Init => IInv
  BY InitIInv
<1>2. IInv /\ [Next]_vars => IInv'
  BY NextIInv
<1> QED BY <1>1, <1>2, PTL DEF Spec

\* Every queued operation keeps to its module's sectors, with a range inside
\* its sector, whatever merging made of it.
THEOREM TypeCorrect == Spec => []TypeOK
<1>1. IInv => TypeOK
  BY DEF IInv
<1> QED BY <1>1, Invariance, PTL

\* The lists of the modules never get tangled.
THEOREM ListsAreChains == Spec => []Chains
<1>1. IInv => Chains
  BY DEF IInv
<1> QED BY <1>1, Invariance, PTL

\* No list node and no sector buffer is ever leaked or shared, whatever is
\* merged, suspended, completed or refused.
THEOREM NoLeak == Spec => []PoolsExact
<1>1. IInv => PoolsExact
  BY DEF IInv
<1> QED BY <1>1, Invariance, PTL

\* The modules, the service and the flash driver always agree on which
\* operation, if any, is suspended in the chip.
THEOREM SuspendAgreement == Spec => []OneSuspended
<1>1. IInv => OneSuspended
  BY DEF IInv
<1> QED BY <1>1, Invariance, PTL

\* _opera_flush never meets a state its ASSERTs reject.
THEOREM AssertsHold == Spec => []NoAssert
<1>1. IInv => NoAssert
  BY IInvNoAssert
<1> QED BY <1>1, Invariance, PTL

=============================================================================
