----------------------------- MODULE BusProofs -----------------------------
(***************************************************************************)
(* Theorems about Bus.tla, for every number of cores and every block size. *)
(***************************************************************************)
EXTENDS Bus, SequenceTheorems, FiniteSetTheorems, TLAPS

-----------------------------------------------------------------------------
(* The packets and the two ways the arbitration list changes.              *)

\* The error originator is not the number of a core: the container that delays the bus
\* is nobody's transaction.
LEMMA ErrIsNoCore == \A c \in Cores : c # ErrOriginator
  <1> SUFFICES ASSUME NEW c \in Cores PROVE c # 65535
    BY DEF ErrOriginator
  <1>1. c \in Int /\ c <= CORES_NUMBER - 1 /\ CORES_NUMBER \in Int /\ CORES_NUMBER <= 65534
    BY CoresAssumption DEF Cores
  <1> QED BY <1>1

\* push_to_arbitration_line, once for every packet: the nodes in the list keep their
\* places and the new ones follow them.
LEMMA PushFacts ==
  ASSUME NEW S, NEW l \in Seq(S), NEW p \in Seq(S), NEW n, n = l \o p
  PROVE  /\ n \in Seq(S)
         /\ Len(n) = Len(l) + Len(p)
         /\ Len(l) \in Nat /\ Len(p) \in Nat
         /\ \A i \in 1..Len(l) : n[i] = l[i]
         /\ \A i \in 1..Len(p) : n[Len(l) + i] = p[i]
  <1>1. n \in Seq(S) /\ Len(n) = Len(l) + Len(p)
    BY ConcatProperties
  <1>2. Len(l) \in Nat /\ Len(p) \in Nat
    BY LenProperties
  <1>3. \A i \in 1..(Len(l) + Len(p)) : n[i] = IF i <= Len(l) THEN l[i] ELSE p[i - Len(l)]
    BY ConcatProperties
  <1>4. \A i \in 1..Len(l) : n[i] = l[i]
    BY <1>2, <1>3
  <1>5. \A i \in 1..Len(p) : n[Len(l) + i] = p[i]
    BY <1>2, <1>3
  <1> QED BY <1>1, <1>2, <1>4, <1>5

\* pop_from_arbitration_line: the oldest node leaves and the others move up.
LEMMA PopFacts ==
  ASSUME NEW S, NEW l \in Seq(S), l # <<>>
  PROVE  /\ Head(l) \in S /\ Head(l) = l[1]
         /\ Tail(l) \in Seq(S)
         /\ Len(l) \in Nat /\ Len(l) >= 1
         /\ Len(Tail(l)) = Len(l) - 1
         /\ \A i \in 1..Len(Tail(l)) : i + 1 \in 1..Len(l) /\ Tail(l)[i] = l[i + 1]
  <1>1. Len(l) \in Nat /\ Len(l) >= 1
    BY EmptySeq
  <1>2. /\ Head(l) \in S
        /\ Tail(l) \in Seq(S)
        /\ Len(Tail(l)) = Len(l) - 1
    BY HeadTailProperties
  <1>3. \A i \in 1..Len(Tail(l)) : Tail(l)[i] = l[i + 1]
    BY HeadTailProperties
  <1>4. Head(l) = l[1]
    OBVIOUS
  <1>5. \A i \in 1..Len(Tail(l)) : i + 1 \in 1..Len(l)
    BY <1>1, <1>2
  <1> QED BY <1>1, <1>2, <1>3, <1>4, <1>5

-----------------------------------------------------------------------------
(* Type correctness.                                                       *)

\* What one call of a cache pushes: a fetch, an eviction and a fetch, or an ownership
\* request and the container behind it.
LEMMA RequestedPackets ==
  ASSUME NEW c \in Cores, RequestClean(c) \/ RequestDirty(c) \/ RequestUpgrade(c)
  PROVE  \E p \in Seq(Packet) :
           /\ PushNewBusOperations(c, p)
           /\ \/ /\ Len(p) = 1 /\ p[1].origid = c /\ p[1].command \in Fetches
              \/ /\ Len(p) = 2 /\ p[1].origid = c /\ p[1].command = "bus_flush"
                 /\ p[2].origid = c /\ p[2].command \in Fetches
              \/ /\ Len(p) = 2 /\ p[1].origid = c /\ p[1].command = "bus_read_exclusive"
                 /\ p[2].origid = ErrOriginator /\ p[2].command = "idle"
  <1>1. CASE RequestClean(c)
    <2>1. PICK cmd \in Fetches : PushNewBusOperations(c, <<NewPacket(c, cmd)>>)
      BY <1>1 DEF RequestClean
    <2>2. NewPacket(c, cmd) \in Packet /\ NewPacket(c, cmd).origid = c
          /\ NewPacket(c, cmd).command = cmd
      BY DEF NewPacket, Packet, Commands
    <2> DEFINE p == <<NewPacket(c, cmd)>>
    <2>3. p \in Seq(Packet) /\ Len(p) = 1 /\ p[1].origid = c /\ p[1].command \in Fetches
      BY <2>2
    <2>4. PushNewBusOperations(c, p)
      BY <2>1
    <2> HIDE DEF p
    <2> QED BY <2>3, <2>4
  <1>2. CASE RequestDirty(c)
    <2>1. PICK cmd \in Fetches :
            PushNewBusOperations(c, <<NewPacket(c, "bus_flush"), NewPacket(c, cmd)>>)
      BY <1>2 DEF RequestDirty
    <2>2. /\ NewPacket(c, "bus_flush") \in Packet /\ NewPacket(c, "bus_flush").origid = c
          /\ NewPacket(c, "bus_flush").command = "bus_flush"
          /\ NewPacket(c, cmd) \in Packet /\ NewPacket(c, cmd).origid = c
          /\ NewPacket(c, cmd).command = cmd
      BY DEF NewPacket, Packet, Commands
    <2> DEFINE p == <<NewPacket(c, "bus_flush"), NewPacket(c, cmd)>>
    <2>3. /\ p \in Seq(Packet) /\ Len(p) = 2
          /\ p[1] = NewPacket(c, "bus_flush") /\ p[2] = NewPacket(c, cmd)
      BY <2>2
    <2>4. PushNewBusOperations(c, p)
      BY <2>1
    <2>5. p[1].origid = c /\ p[1].command = "bus_flush"
          /\ p[2].origid = c /\ p[2].command \in Fetches
      BY <2>2, <2>3
    <2> HIDE DEF p
    <2> QED BY <2>3, <2>4, <2>5
  <1>3. CASE RequestUpgrade(c)
    <2>1. /\ NewPacket(c, "bus_read_exclusive") \in Packet
          /\ NewPacket(c, "bus_read_exclusive").origid = c
          /\ NewPacket(c, "bus_read_exclusive").command = "bus_read_exclusive"
          /\ Delay \in Packet /\ Delay.origid = ErrOriginator /\ Delay.command = "idle"
      BY DEF NewPacket, Delay, Packet, Commands, Fetches
    <2> DEFINE p == <<NewPacket(c, "bus_read_exclusive"), Delay>>
    <2>2. /\ p \in Seq(Packet) /\ Len(p) = 2
          /\ p[1] = NewPacket(c, "bus_read_exclusive") /\ p[2] = Delay
      BY <2>1
    <2>3. PushNewBusOperations(c, p)
      BY <1>3 DEF RequestUpgrade
    <2> QED BY <2>1, <2>2, <2>3
  <1> QED BY <1>1, <1>2, <1>3

\* Retiring the transaction that ended keeps every core's status a status.
LEMMA RetiredType == TypeOK => Retired \in [Cores -> Status]
  BY DEF TypeOK, Retired, Status

\* The cleared static variables of bus.c have their types.
LEMMA InitType == Init => TypeOK
  <1> SUFFICES ASSUME Init PROVE TypeOK
    OBVIOUS
  <1>1. 0 \in Cores
    <2>1. CORES_NUMBER \in Int /\ CORES_NUMBER >= 1
      BY CoresAssumption
    <2> QED BY <2>1 DEF Cores
  <1>2. current_data_on_bus \in Packet
    BY <1>1 DEF Init, NewPacket, Packet, Commands
  <1>3. list \in Seq(Packet)
    BY EmptySeq DEF Init
  <1>4. offset_of_address \in 0..(BLOCK_SIZE - 1)
    BY BlockSizeAssumption DEF Init
  <1> QED BY <1>2, <1>3, <1>4 DEF Init, TypeOK, Status

\* No request of a cache and no call of operate_bus leaves the types.
LEMMA NextType == TypeOK /\ [Next]_vars => TypeOK'
  <1> SUFFICES ASSUME TypeOK, [Next]_vars PROVE TypeOK'
    OBVIOUS
  <1>1. ASSUME NEW c \in Cores, RequestClean(c) \/ RequestDirty(c) \/ RequestUpgrade(c)
        PROVE TypeOK'
    <2>1. PICK p \in Seq(Packet) : PushNewBusOperations(c, p)
      BY <1>1, RequestedPackets
    <2>2. list' \in Seq(Packet)
      BY <2>1, PushFacts DEF TypeOK, PushNewBusOperations
    <2> QED BY <2>1, <2>2 DEF TypeOK, PushNewBusOperations, Status
  <1>2. CASE OperateIdle
    <2>1. current_data_on_bus' \in Packet
      BY <1>2 DEF OperateIdle, TypeOK, Packet
    <2> QED BY <1>2, <2>1, RetiredType DEF OperateIdle, TypeOK
  <1>3. CASE OperateDelay
    BY <1>3, PopFacts, RetiredType DEF OperateDelay, TypeOK
  <1>4. CASE OperateGrant
    <2>1. core_operating_state' \in [Cores -> Status]
      BY <1>4, RetiredType DEF OperateGrant, Status
    <2>2. offset_of_address' \in 0..(BLOCK_SIZE - 1)
      BY <1>4, BlockSizeAssumption DEF OperateGrant
    <2> QED BY <1>4, <2>1, <2>2, PopFacts DEF OperateGrant, TypeOK
  <1>5. CASE OperateWord
    <2>1. offset_of_address' \in 0..(BLOCK_SIZE - 1)
      BY <1>5, BlockSizeAssumption DEF OperateWord, TypeOK
    <2> QED BY <1>5, <2>1 DEF OperateWord, TypeOK
  <1>6. CASE OperateFinish
    BY <1>6 DEF OperateFinish, TypeOK, Status
  <1>7. CASE UNCHANGED vars
    BY <1>7 DEF vars, TypeOK
  <1> QED BY <1>1, <1>2, <1>3, <1>4, <1>5, <1>6, <1>7 DEF Next, OperateBus

\* The variables of the arbiter keep the types of bus.c.
THEOREM TypeCorrect == Spec => []TypeOK
  <1> QED BY InitType, NextType, PTL DEF Spec

-----------------------------------------------------------------------------
(* Arbitration.  The invariant below is inductive.  SingleOwner needs only *)
(* the types; the others need each other: that a core waits with a node in *)
(* the list rests on its nodes being one transaction, that an eviction and *)
(* its fetch stay together rests on nobody pushing in front of a node.     *)

BusInv ==
    /\ TypeOK
    /\ SingleOwner
    /\ NoLostRequest
    /\ EvictionThenFetch
    /\ DelayBehindUpgrade
    /\ OneTransactionPerCore

\* The inductive invariant holds of the empty list and the idle cores at the start.
LEMMA InitInv == Init => BusInv
  <1> SUFFICES ASSUME Init PROVE BusInv
    OBVIOUS
  <1>1. TypeOK
    BY InitType
  <1>2. Len(list) = 0 /\ 1..Len(list) = {}
    BY DEF Init
  <1>3. ~is_bus_operating /\ \A c \in Cores : core_operating_state[c] = "idle"
    BY DEF Init
  <1>4. SingleOwner
    BY <1>3 DEF SingleOwner, Owns
  <1>5. NoLostRequest
    BY <1>2, <1>3 DEF NoLostRequest, PendingAt
  <1>6. EvictionThenFetch
    BY <1>2, <1>3 DEF EvictionThenFetch, Owns
  <1>7. DelayBehindUpgrade
    BY <1>2 DEF DelayBehindUpgrade
  <1>8. OneTransactionPerCore
    BY <1>2 DEF OneTransactionPerCore
  <1> QED BY <1>1, <1>4, <1>5, <1>6, <1>7, <1>8 DEF BusInv

\* Between two transactions nobody owns the bus any more once the last one is retired,
\* and nothing else changes for a core.
LEMMA RetiredFacts ==
  ASSUME BusInv, ~is_bus_operating
  PROVE  /\ Retired \in [Cores -> Status]
         /\ \A c \in Cores : Retired[c] \in {"idle", "ready"}
         /\ \A c \in Cores : core_operating_state[c] = "ready" <=> Retired[c] = "ready"
         /\ \A c \in Cores : Retired[c] = "idle" =>
              \/ core_operating_state[c] = "idle"
              \/ Owns(c) /\ c = current_data_on_bus.origid
  <1> USE DEF BusInv
  <1>1. Retired \in [Cores -> Status]
    BY RetiredType
  <1>2. ASSUME NEW c \in Cores
        PROVE  /\ Retired[c] \in {"idle", "ready"}
               /\ core_operating_state[c] = "ready" <=> Retired[c] = "ready"
               /\ Retired[c] = "idle" =>
                    \/ core_operating_state[c] = "idle"
                    \/ Owns(c) /\ c = current_data_on_bus.origid
    <2>1. core_operating_state[c] \in {"idle", "ready", "final"}
      BY DEF TypeOK, Status, SingleOwner
    <2>2. core_operating_state[c] = "final" => c = current_data_on_bus.origid
      BY DEF SingleOwner, Owns
    <2>3. Retired[c] = IF c = current_data_on_bus.origid /\ core_operating_state[c] = "final"
                       THEN "idle" ELSE core_operating_state[c]
      BY DEF Retired
    <2> QED BY <2>1, <2>2, <2>3 DEF Owns
  <1> QED BY <1>1, <1>2

\* A request keeps the invariant: all its nodes are new and stand at the end.
LEMMA RequestInv ==
  ASSUME BusInv, TypeOK', NEW c \in Cores,
         RequestClean(c) \/ RequestDirty(c) \/ RequestUpgrade(c)
  PROVE  BusInv'
  <1> USE DEF BusInv
  <1>1. PICK p \in Seq(Packet) :
          /\ PushNewBusOperations(c, p)
          /\ \/ /\ Len(p) = 1 /\ p[1].origid = c /\ p[1].command \in Fetches
             \/ /\ Len(p) = 2 /\ p[1].origid = c /\ p[1].command = "bus_flush"
                /\ p[2].origid = c /\ p[2].command \in Fetches
             \/ /\ Len(p) = 2 /\ p[1].origid = c /\ p[1].command = "bus_read_exclusive"
                /\ p[2].origid = ErrOriginator /\ p[2].command = "idle"
    BY RequestedPackets
  <1> DEFINE n == Len(list)
  <1>2. /\ n \in Nat /\ Len(p) \in {1, 2} /\ Len(list') = n + Len(p)
        /\ \A i \in 1..n : list'[i] = list[i]
        /\ \A i \in 1..Len(p) : list'[n + i] = p[i]
    BY <1>1, PushFacts DEF PushNewBusOperations, TypeOK
  <1>3. \A i \in 1..Len(list') : i \in 1..n \/ i = n + 1 \/ (i = n + 2 /\ Len(p) = 2)
    <2> HIDE DEF n
    <2>1. Len(list') = n + 1 \/ (Len(p) = 2 /\ Len(list') = n + 2)
      BY <1>2
    <2> QED BY <2>1, <1>2
  <1>4. list'[n + 1] = p[1] /\ (Len(p) = 2 => list'[n + 2] = p[2])
    BY <1>2
  <1>5. /\ core_operating_state[c] = "idle" /\ core_operating_state'[c] = "ready"
        /\ \A k \in Cores \ {c} : core_operating_state'[k] = core_operating_state[k]
        /\ UNCHANGED <<is_bus_operating, current_data_on_bus>>
    BY <1>1 DEF PushNewBusOperations, IsBusBusy, TypeOK
  <1>6. \A k \in Cores : Owns(k)' <=> Owns(k)
    BY <1>5 DEF Owns
  <1>7. \A i \in 1..n : list[i].origid # c
    BY <1>5 DEF NoLostRequest, PendingAt
  <1>8. c # ErrOriginator /\ "bus_flush" \notin Fetches /\ "idle" \notin Fetches
    BY ErrIsNoCore DEF Fetches
  <1> HIDE DEF n
  <1>a. SingleOwner'
    BY <1>5, <1>6 DEF SingleOwner
  <1>b. NoLostRequest'
    <2>1. ASSUME NEW k \in Cores, core_operating_state'[k] = "ready"
          PROVE \E i \in 1..Len(list') : PendingAt(k, i)'
      <3>1. CASE k = c
        <4>1. n + 1 \in 1..Len(list') /\ list'[n + 1].origid = c
          BY <1>1, <1>2, <1>4
        <4> QED BY <4>1, <3>1 DEF PendingAt
      <3>2. CASE k # c
        <4>1. PICK i \in 1..n : list[i].origid = k
          BY <3>2, <2>1, <1>5 DEF NoLostRequest, PendingAt, n
        <4>2. i \in 1..Len(list') /\ list'[i].origid = k
          BY <4>1, <1>2
        <4> QED BY <4>2 DEF PendingAt
      <3> QED BY <3>1, <3>2
    <2>2. ASSUME NEW k \in Cores, core_operating_state'[k] = "idle", NEW i \in 1..Len(list')
          PROVE ~PendingAt(k, i)'
      <3>1. k # c /\ core_operating_state[k] = "idle"
        BY <2>2, <1>5
      <3>2. k # ErrOriginator
        BY ErrIsNoCore
      <3>3. \A j \in 1..n : list[j].origid # k
        BY <3>1 DEF NoLostRequest, PendingAt, n
      <3>4. list'[i].origid # k
        BY <1>1, <1>2, <1>3, <1>4, <3>1, <3>2, <3>3
      <3> QED BY <3>4 DEF PendingAt
    <2> QED BY <2>1, <2>2 DEF NoLostRequest
  <1>c. EvictionThenFetch'
    <2>1. ASSUME NEW i \in 1..Len(list'), list'[i].command = "bus_flush"
          PROVE  /\ i + 1 \in 1..Len(list')
                 /\ list'[i + 1].origid = list'[i].origid
                 /\ list'[i + 1].command \in Fetches
      <3>1. CASE i \in 1..n
        <4>1. i + 1 \in 1..n /\ list[i + 1].origid = list[i].origid
              /\ list[i + 1].command \in Fetches
          BY <3>1, <2>1, <1>2 DEF EvictionThenFetch, n
        <4> QED BY <4>1, <3>1, <1>2
      <3>2. CASE i = n + 1
        <4>1. Len(p) = 2 /\ p[1].origid = c /\ p[2].origid = c /\ p[2].command \in Fetches
          BY <3>2, <2>1, <1>1, <1>4, <1>8
        <4>2. i + 1 = n + 2 /\ i + 1 \in 1..Len(list')
          BY <4>1, <3>2, <1>2
        <4> QED BY <4>1, <4>2, <3>2, <1>4
      <3>3. CASE i = n + 2 /\ Len(p) = 2
        BY <3>3, <2>1, <1>1, <1>4, <1>8
      <3> QED BY <1>3, <3>1, <3>2, <3>3
    <2>2. ASSUME NEW k \in Cores, Owns(k)', current_data_on_bus'.command = "bus_flush"
          PROVE  list' # <<>> /\ list'[1].origid = k /\ list'[1].command \in Fetches
      <3>1. list # <<>> /\ list[1].origid = k /\ list[1].command \in Fetches
        BY <2>2, <1>5, <1>6 DEF EvictionThenFetch
      <3>2. n >= 1 /\ 1 \in 1..n
        BY <3>1, <1>2, EmptySeq DEF n, TypeOK
      <3>3. list' # <<>>
        BY <3>2, <1>2, EmptySeq
      <3> QED BY <3>1, <3>2, <3>3, <1>2
    <2> QED BY <2>1, <2>2 DEF EvictionThenFetch
  <1>d. DelayBehindUpgrade'
    <2> SUFFICES ASSUME NEW i \in 1..Len(list'), list'[i].origid = ErrOriginator
        PROVE  IF i = 1
               THEN \E k \in Cores : Owns(k)' /\ current_data_on_bus'.command = "bus_read_exclusive"
               ELSE /\ list'[i - 1].origid \in Cores
                    /\ list'[i - 1].command = "bus_read_exclusive"
      BY DEF DelayBehindUpgrade
    <2>1. CASE i \in 1..n
      <3>1. IF i = 1
            THEN \E k \in Cores : Owns(k) /\ current_data_on_bus.command = "bus_read_exclusive"
            ELSE /\ list[i - 1].origid \in Cores
                 /\ list[i - 1].command = "bus_read_exclusive"
        BY <2>1, <1>2 DEF DelayBehindUpgrade, n
      <3>2. i # 1 => list'[i - 1] = list[i - 1]
        BY <2>1, <1>2
      <3> QED BY <3>1, <3>2, <1>5, <1>6
    <2>2. CASE i = n + 1
      BY <2>2, <1>1, <1>4, <1>8
    <2>3. CASE i = n + 2 /\ Len(p) = 2
      <3>1. p[1].origid = c /\ p[1].command = "bus_read_exclusive"
        BY <2>3, <1>1, <1>4, <1>8
      <3>2. i # 1 /\ i - 1 = n + 1
        BY <2>3, <1>2
      <3> QED BY <3>1, <3>2, <1>4
    <2> QED BY <1>3, <2>1, <2>2, <2>3
  <1>e. OneTransactionPerCore'
    <2>1. ASSUME NEW i \in 1..Len(list'), NEW j \in 1..Len(list'), i < j,
                 list'[i].origid \in Cores, list'[i].origid = list'[j].origid
          PROVE  j = i + 1 /\ list'[i].command = "bus_flush"
      <3>1. CASE j \in 1..n
        <4>1. i \in 1..n /\ list'[i] = list[i] /\ list'[j] = list[j]
          BY <3>1, <2>1, <1>2
        <4> QED BY <4>1, <3>1, <2>1 DEF OneTransactionPerCore, n
      <3>2. CASE j = n + 1
        <4>1. i \in 1..n /\ list'[i] = list[i] /\ list'[j].origid = c
          BY <3>2, <2>1, <1>1, <1>2, <1>4
        <4> QED BY <4>1, <2>1, <1>7
      <3>3. CASE j = n + 2 /\ Len(p) = 2
        <4>1. list'[j].origid = c /\ p[1].command = "bus_flush"
          BY <3>3, <2>1, <1>1, <1>4, ErrIsNoCore
        <4>2. i \notin 1..n
          BY <4>1, <2>1, <1>2, <1>7
        <4>3. i = n + 1
          BY <4>2, <3>3, <2>1, <1>2
        <4> QED BY <4>1, <4>3, <3>3, <1>2, <1>4
      <3> QED BY <1>3, <3>1, <3>2, <3>3
    <2>2. ASSUME NEW k \in Cores, NEW i \in 1..Len(list'), Owns(k)', PendingAt(k, i)'
          PROVE  i = 1 /\ current_data_on_bus'.command = "bus_flush"
      <3>1. Owns(k) /\ k # c /\ k # ErrOriginator /\ list'[i].origid = k
        BY <2>2, <1>5, <1>6, ErrIsNoCore DEF Owns, PendingAt
      <3>2. i \in 1..n /\ list[i].origid = k
        BY <3>1, <1>1, <1>2, <1>3, <1>4
      <3> QED BY <3>1, <3>2, <1>5 DEF OneTransactionPerCore, PendingAt, n
    <2> QED BY <2>1, <2>2 DEF OneTransactionPerCore
  <1> QED BY <1>a, <1>b, <1>c, <1>d, <1>e

\* Ending a transaction and moving a word leave the list and its owner alone.
LEMMA TransferInv ==
  ASSUME BusInv, TypeOK', OperateWord \/ OperateFinish
  PROVE  BusInv'
  <1> USE DEF BusInv
  <1>1. UNCHANGED <<list, current_data_on_bus>>
    BY DEF OperateWord, OperateFinish
  <1>2. \E c \in Cores : core_operating_state[c] = "operate" /\ c = current_data_on_bus.origid
    BY DEF OperateWord, OperateFinish, SingleOwner, Owns
  <1>3. \A c \in Cores : Owns(c)' <=> Owns(c)
    BY <1>2 DEF OperateWord, OperateFinish, Owns, TypeOK
  <1>4. \A c \in Cores : \A s \in {"idle", "ready"} :
           core_operating_state'[c] = s <=> core_operating_state[c] = s
    BY <1>2 DEF OperateWord, OperateFinish, TypeOK
  <1>5. SingleOwner'
    <2>1. \A c \in Cores : Owns(c)' => current_data_on_bus'.origid = c
      BY <1>1, <1>3 DEF SingleOwner
    <2>2. CASE OperateWord
      BY <2>1, <2>2 DEF OperateWord, SingleOwner
    <2>3. CASE OperateFinish
      <3>1. \A c \in Cores : core_operating_state'[c] # "operate"
        BY <2>3, <1>2 DEF OperateFinish, TypeOK, SingleOwner, Owns
      <3> QED BY <2>1, <2>3, <3>1 DEF OperateFinish, SingleOwner
    <2> QED BY <2>2, <2>3
  <1>6. NoLostRequest'
    BY <1>1, <1>4 DEF NoLostRequest, PendingAt
  <1>7. EvictionThenFetch'
    BY <1>1, <1>3 DEF EvictionThenFetch
  <1>8. DelayBehindUpgrade'
    BY <1>1, <1>3 DEF DelayBehindUpgrade
  <1>9. OneTransactionPerCore'
    BY <1>1, <1>3 DEF OneTransactionPerCore, PendingAt
  <1> QED BY <1>5, <1>6, <1>7, <1>8, <1>9

\* An idle bus finds an empty list: no core waits.
LEMMA IdleInv ==
  ASSUME BusInv, TypeOK', OperateIdle
  PROVE  BusInv'
  <1> USE DEF BusInv
  <1>1. /\ list' = list /\ 1..Len(list) = {} /\ ~is_bus_operating'
        /\ core_operating_state' = Retired
    BY DEF OperateIdle
  <1>2. \A c \in Cores : core_operating_state'[c] = "idle"
    <2> TAKE c \in Cores
    <2>1. core_operating_state[c] # "ready"
      BY <1>1 DEF NoLostRequest
    <2> QED BY <2>1, <1>1, RetiredFacts DEF OperateIdle
  <1>3. SingleOwner'
    BY <1>1, <1>2 DEF SingleOwner, Owns
  <1>4. NoLostRequest'
    BY <1>1, <1>2 DEF NoLostRequest
  <1>5. EvictionThenFetch'
    BY <1>1, <1>2 DEF EvictionThenFetch, Owns
  <1>6. DelayBehindUpgrade'
    BY <1>1 DEF DelayBehindUpgrade
  <1>7. OneTransactionPerCore'
    BY <1>1 DEF OneTransactionPerCore
  <1> QED BY <1>3, <1>4, <1>5, <1>6, <1>7

\* Popping the oldest node: what is left in the list keeps its order and its distance.
LEMMA PopInv ==
  ASSUME BusInv, list # <<>>, list' = Tail(list)
  PROVE  /\ 1 \in 1..Len(list) /\ Head(list) = list[1]
         /\ Len(list) \in Nat /\ Len(list') = Len(list) - 1
         /\ \A i \in 1..Len(list') : i + 1 \in 1..Len(list) /\ list'[i] = list[i + 1]
         /\ \A i \in 1..Len(list) : i # 1 => i - 1 \in 1..Len(list') /\ list'[i - 1] = list[i]
         /\ \A i \in 1..Len(list') : list'[i].command = "bus_flush" =>
               /\ i + 1 \in 1..Len(list')
               /\ list'[i + 1].origid = list'[i].origid
               /\ list'[i + 1].command \in Fetches
         /\ \A i, j \in 1..Len(list') :
               i < j /\ list'[i].origid \in Cores /\ list'[i].origid = list'[j].origid
                  => j = i + 1 /\ list'[i].command = "bus_flush"
  <1> USE DEF BusInv
  <1>1. /\ Head(list) = list[1]
        /\ Len(list) \in Nat /\ Len(list) >= 1
        /\ Len(list') = Len(list) - 1
        /\ \A i \in 1..Len(list') : i + 1 \in 1..Len(list) /\ list'[i] = list[i + 1]
    BY PopFacts DEF TypeOK
  <1>2. ASSUME NEW i \in 1..Len(list), i # 1
        PROVE  i - 1 \in 1..Len(list') /\ list'[i - 1] = list[i]
    <2>1. i - 1 \in 1..Len(list') /\ (i - 1) + 1 = i
      BY <1>1, <1>2
    <2> QED BY <2>1, <1>1
  <1>3. ASSUME NEW i \in 1..Len(list'), list'[i].command = "bus_flush"
        PROVE  /\ i + 1 \in 1..Len(list')
               /\ list'[i + 1].origid = list'[i].origid
               /\ list'[i + 1].command \in Fetches
    <2>1. i + 1 \in 1..Len(list) /\ list[i + 1].command = "bus_flush"
      BY <1>1, <1>3
    <2>2. /\ (i + 1) + 1 \in 1..Len(list)
          /\ list[(i + 1) + 1].origid = list[i + 1].origid
          /\ list[(i + 1) + 1].command \in Fetches
      BY <2>1 DEF EvictionThenFetch
    <2>3. i + 1 \in 1..Len(list')
      BY <2>2, <1>1
    <2> QED BY <2>2, <2>3, <1>1
  <1>4. ASSUME NEW i \in 1..Len(list'), NEW j \in 1..Len(list'), i < j,
               list'[i].origid \in Cores, list'[i].origid = list'[j].origid
        PROVE  j = i + 1 /\ list'[i].command = "bus_flush"
    <2>1. /\ i + 1 \in 1..Len(list) /\ j + 1 \in 1..Len(list)
          /\ list'[i] = list[i + 1] /\ list'[j] = list[j + 1] /\ i + 1 < j + 1
      BY <1>1, <1>4
    <2>2. j + 1 = (i + 1) + 1 /\ list[i + 1].command = "bus_flush"
      BY <2>1, <1>4 DEF OneTransactionPerCore
    <2>3. j = i + 1
      <3>1. i \in Int /\ j \in Int
        BY <1>1
      <3> QED BY <3>1, <2>2
    <2> QED BY <2>1, <2>2, <2>3
  <1>5. \A i, j \in 1..Len(list') :
           i < j /\ list'[i].origid \in Cores /\ list'[i].origid = list'[j].origid
              => j = i + 1 /\ list'[i].command = "bus_flush"
    BY <1>4
  <1>6. /\ 1 \in 1..Len(list)
        /\ \A i \in 1..Len(list) : i # 1 => i - 1 \in 1..Len(list') /\ list'[i - 1] = list[i]
    BY <1>1, <1>2
  <1>7. \A i \in 1..Len(list') : list'[i].command = "bus_flush" =>
               /\ i + 1 \in 1..Len(list')
               /\ list'[i + 1].origid = list'[i].origid
               /\ list'[i + 1].command \in Fetches
    BY <1>3
  <1> QED BY <1>1, <1>5, <1>6, <1>7

\* The container takes a bus cycle in which the last transaction is retired; the next
\* one is not granted yet, so nobody owns the bus.
LEMMA DelayInv ==
  ASSUME BusInv, TypeOK', OperateDelay
  PROVE  BusInv'
  <1> USE DEF BusInv
  <1>1. /\ list # <<>> /\ list' = Tail(list) /\ Head(list).origid = ErrOriginator
        /\ ~is_bus_operating /\ ~is_bus_operating' /\ core_operating_state' = Retired
    BY DEF OperateDelay
  <1>2. \A c \in Cores : ~Owns(c)' /\ core_operating_state'[c] # "operate"
    BY <1>1, RetiredFacts DEF Owns
  <1>3. list[1].origid = ErrOriginator /\ 1 \in 1..Len(list)
    BY <1>1, PopInv
  <1>4. SingleOwner'
    BY <1>1, <1>2 DEF SingleOwner
  <1>5. NoLostRequest'
    <2>1. ASSUME NEW c \in Cores, core_operating_state'[c] = "ready"
          PROVE \E i \in 1..Len(list') : PendingAt(c, i)'
      <3>1. PICK i \in 1..Len(list) : list[i].origid = c
        BY <2>1, <1>1, RetiredFacts DEF NoLostRequest, PendingAt
      <3>2. i # 1
        BY <3>1, <1>3, ErrIsNoCore
      <3>3. i - 1 \in 1..Len(list') /\ list'[i - 1].origid = c
        BY <3>1, <3>2, <1>1, PopInv
      <3> QED BY <3>3 DEF PendingAt
    <2>2. ASSUME NEW c \in Cores, core_operating_state'[c] = "idle", NEW i \in 1..Len(list')
          PROVE ~PendingAt(c, i)'
      <3>1. i + 1 \in 1..Len(list) /\ list'[i] = list[i + 1] /\ i + 1 # 1
        BY <1>1, PopInv
      <3>2. core_operating_state[c] = "idle" \/ Owns(c)
        BY <2>2, <1>1, RetiredFacts
      <3>3. CASE core_operating_state[c] = "idle"
        BY <3>1, <3>3 DEF NoLostRequest, PendingAt
      <3>4. CASE Owns(c)
        BY <3>1, <3>4 DEF OneTransactionPerCore, PendingAt
      <3> QED BY <3>2, <3>3, <3>4
    <2> QED BY <2>1, <2>2 DEF NoLostRequest
  <1>6. EvictionThenFetch'
    <2>1. \A i \in 1..Len(list') : list'[i].command = "bus_flush" =>
               /\ i + 1 \in 1..Len(list')
               /\ list'[i + 1].origid = list'[i].origid
               /\ list'[i + 1].command \in Fetches
      BY <1>1, PopInv
    <2> QED BY <2>1, <1>2 DEF EvictionThenFetch
  <1>7. DelayBehindUpgrade'
    <2> SUFFICES ASSUME NEW i \in 1..Len(list'), list'[i].origid = ErrOriginator
        PROVE  /\ i # 1
               /\ list'[i - 1].origid \in Cores
               /\ list'[i - 1].command = "bus_read_exclusive"
      BY DEF DelayBehindUpgrade
    <2>1. i + 1 \in 1..Len(list) /\ list'[i] = list[i + 1] /\ i + 1 # 1
      BY <1>1, PopInv
    <2>2. list[i].origid \in Cores /\ list[i].command = "bus_read_exclusive"
      BY <2>1 DEF DelayBehindUpgrade
    <2>3. i # 1 /\ i \in 1..Len(list)
      BY <2>1, <2>2, <1>3, ErrIsNoCore
    <2> QED BY <2>2, <2>3, <1>1, PopInv
  <1>8. OneTransactionPerCore'
    <2>1. \A i, j \in 1..Len(list') :
             i < j /\ list'[i].origid \in Cores /\ list'[i].origid = list'[j].origid
                => j = i + 1 /\ list'[i].command = "bus_flush"
      BY <1>1, PopInv
    <2> QED BY <2>1, <1>2 DEF OneTransactionPerCore
  <1> QED BY <1>4, <1>5, <1>6, <1>7, <1>8

\* A grant: the head of the list becomes the owner, and all that it leaves behind is
\* the fetch of its eviction or the container of its ownership request.
LEMMA GrantInv ==
  ASSUME BusInv, TypeOK', OperateGrant
  PROVE  BusInv'
  <1> USE DEF BusInv
  <1> DEFINE c == Head(list).origid
  <1>1. /\ list # <<>> /\ list' = Tail(list) /\ c \in Cores
        /\ current_data_on_bus' = Head(list)
        /\ ~is_bus_operating /\ is_bus_operating'
    BY DEF OperateGrant
  <1>2. /\ core_operating_state'[c] = "operate"
        /\ \A k \in Cores \ {c} : core_operating_state'[k] = Retired[k]
    BY <1>1, RetiredFacts DEF OperateGrant
  <1>3. list[1].origid = c /\ 1 \in 1..Len(list) /\ current_data_on_bus' = list[1]
    BY <1>1, PopInv
  <1> HIDE DEF c
  <1>4. \A k \in Cores : Owns(k)' <=> k = c
    BY <1>1, <1>2, RetiredFacts DEF Owns
  <1>5. SingleOwner'
    <2>1. \A k \in Cores : Owns(k)' => current_data_on_bus'.origid = k
      BY <1>3, <1>4
    <2> QED BY <2>1, <1>1, <1>2 DEF SingleOwner
  <1>6. NoLostRequest'
    <2>1. ASSUME NEW k \in Cores, core_operating_state'[k] = "ready"
          PROVE \E i \in 1..Len(list') : PendingAt(k, i)'
      <3>1. k # c
        BY <2>1, <1>2
      <3>2. PICK i \in 1..Len(list) : list[i].origid = k
        BY <2>1, <3>1, <1>1, <1>2, RetiredFacts DEF NoLostRequest, PendingAt
      <3>3. i # 1
        BY <3>1, <3>2, <1>3
      <3>4. i - 1 \in 1..Len(list') /\ list'[i - 1].origid = k
        BY <3>2, <3>3, <1>1, PopInv
      <3> QED BY <3>4 DEF PendingAt
    <2>2. ASSUME NEW k \in Cores, core_operating_state'[k] = "idle", NEW i \in 1..Len(list')
          PROVE ~PendingAt(k, i)'
      <3>1. k # c
        BY <2>2, <1>2
      <3>2. i + 1 \in 1..Len(list) /\ list'[i] = list[i + 1] /\ i + 1 # 1
        BY <1>1, PopInv
      <3>3. core_operating_state[k] = "idle" \/ Owns(k)
        BY <2>2, <3>1, <1>1, <1>2, RetiredFacts
      <3>4. CASE core_operating_state[k] = "idle"
        BY <3>2, <3>4 DEF NoLostRequest, PendingAt
      <3>5. CASE Owns(k)
        BY <3>2, <3>5 DEF OneTransactionPerCore, PendingAt
      <3> QED BY <3>3, <3>4, <3>5
    <2> QED BY <2>1, <2>2 DEF NoLostRequest
  <1>7. EvictionThenFetch'
    <2>1. \A i \in 1..Len(list') : list'[i].command = "bus_flush" =>
               /\ i + 1 \in 1..Len(list')
               /\ list'[i + 1].origid = list'[i].origid
               /\ list'[i + 1].command \in Fetches
      BY <1>1, PopInv
    <2>2. ASSUME current_data_on_bus'.command = "bus_flush"
          PROVE  list' # <<>> /\ list'[1].origid = c /\ list'[1].command \in Fetches
      <3>1. 2 \in 1..Len(list) /\ list[2].origid = c /\ list[2].command \in Fetches
        BY <2>2, <1>3 DEF EvictionThenFetch
      <3>2. 1 \in 1..Len(list') /\ list'[1] = list[2]
        BY <3>1, <1>1, PopInv
      <3>3. list' # <<>>
        BY <3>2
      <3> QED BY <3>1, <3>2, <3>3
    <2> QED BY <2>1, <2>2, <1>4 DEF EvictionThenFetch
  <1>8. DelayBehindUpgrade'
    <2> SUFFICES ASSUME NEW i \in 1..Len(list'), list'[i].origid = ErrOriginator
        PROVE  IF i = 1
               THEN \E k \in Cores : Owns(k)' /\ current_data_on_bus'.command = "bus_read_exclusive"
               ELSE /\ list'[i - 1].origid \in Cores
                    /\ list'[i - 1].command = "bus_read_exclusive"
      BY DEF DelayBehindUpgrade
    <2>1. i + 1 \in 1..Len(list) /\ list'[i] = list[i + 1] /\ i + 1 # 1 /\ (i + 1) - 1 = i
      BY <1>1, PopInv
    <2>2. list[i].origid \in Cores /\ list[i].command = "bus_read_exclusive"
      BY <2>1 DEF DelayBehindUpgrade
    <2>3. CASE i = 1
      BY <2>2, <2>3, <1>1, <1>3, <1>4
    <2>4. CASE i # 1
      <3>1. i \in 1..Len(list)
        BY <2>1, <1>1, PopInv
      <3> QED BY <2>2, <2>4, <3>1, <1>1, PopInv
    <2> QED BY <2>3, <2>4
  <1>9. OneTransactionPerCore'
    <2>1. \A i, j \in 1..Len(list') :
             i < j /\ list'[i].origid \in Cores /\ list'[i].origid = list'[j].origid
                => j = i + 1 /\ list'[i].command = "bus_flush"
      BY <1>1, PopInv
    <2>2. ASSUME NEW k \in Cores, NEW i \in 1..Len(list'), Owns(k)', PendingAt(k, i)'
          PROVE  i = 1 /\ current_data_on_bus'.command = "bus_flush"
      <3>1. list'[i].origid = c
        BY <2>2, <1>4 DEF PendingAt
      <3>2. i + 1 \in 1..Len(list) /\ list[i + 1].origid = c /\ 1 < i + 1
        BY <3>1, <1>1, PopInv
      <3>3. i + 1 = 1 + 1 /\ list[1].command = "bus_flush"
        BY <3>2, <1>1, <1>3 DEF OneTransactionPerCore
      <3> QED BY <3>3, <1>3
    <2> QED BY <2>1, <2>2 DEF OneTransactionPerCore
  <1> QED BY <1>5, <1>6, <1>7, <1>8, <1>9

\* Every request of a cache and every call of operate_bus preserves the inductive
\* invariant.
LEMMA NextInv == BusInv /\ [Next]_vars => BusInv'
  <1> SUFFICES ASSUME BusInv, [Next]_vars PROVE BusInv'
    OBVIOUS
  <1>1. TypeOK'
    BY NextType DEF BusInv
  <1>2. ASSUME NEW c \in Cores, RequestClean(c) \/ RequestDirty(c) \/ RequestUpgrade(c)
        PROVE BusInv'
    BY <1>1, <1>2, RequestInv
  <1>3. CASE OperateIdle
    BY <1>1, <1>3, IdleInv
  <1>4. CASE OperateDelay
    BY <1>1, <1>4, DelayInv
  <1>5. CASE OperateGrant
    BY <1>1, <1>5, GrantInv
  <1>6. CASE OperateWord \/ OperateFinish
    BY <1>1, <1>6, TransferInv
  <1>7. CASE UNCHANGED vars
    <2> USE <1>7 DEF vars, BusInv
    <2>1. SingleOwner'
      BY DEF SingleOwner, Owns
    <2>2. NoLostRequest'
      BY DEF NoLostRequest, PendingAt
    <2>3. EvictionThenFetch'
      BY DEF EvictionThenFetch, Owns
    <2>4. DelayBehindUpgrade'
      BY DEF DelayBehindUpgrade, Owns
    <2>5. OneTransactionPerCore'
      BY DEF OneTransactionPerCore, Owns, PendingAt
    <2> QED BY <1>1, <2>1, <2>2, <2>3, <2>4, <2>5
  <1> QED BY <1>2, <1>3, <1>4, <1>5, <1>6, <1>7 DEF Next, OperateBus

\* The inductive invariant holds in every reachable state.
LEMMA Invariance == Spec => []BusInv
  <1> QED BY InitInv, NextInv, PTL DEF Spec

-----------------------------------------------------------------------------
(* What the arbiter promises.                                              *)

\* The words of a transaction only ever reach the core that asked for them.
THEOREM SingleOwnerHolds == Spec => []SingleOwner
  <1>1. BusInv => SingleOwner
    BY DEF BusInv
  <1> QED BY <1>1, Invariance, PTL

\* No request is forgotten while its core stalls, and none runs behind the back of a
\* core that believes to have none.
THEOREM NoLostRequestHolds == Spec => []NoLostRequest
  <1>1. BusInv => NoLostRequest
    BY DEF BusInv
  <1> QED BY <1>1, Invariance, PTL

\* Nobody's transaction comes between the eviction of a dirty block and the fetch that
\* takes its line.
THEOREM EvictionThenFetchHolds == Spec => []EvictionThenFetch
  <1>1. BusInv => EvictionThenFetch
    BY DEF BusInv
  <1> QED BY <1>1, Invariance, PTL

\* The idle cycle is spent right after the ownership request it was pushed with.
THEOREM DelayBehindUpgradeHolds == Spec => []DelayBehindUpgrade
  <1>1. BusInv => DelayBehindUpgrade
    BY DEF BusInv
  <1> QED BY <1>1, Invariance, PTL

\* A core has one transaction under way at a time.
THEOREM OneTransactionPerCoreHolds == Spec => []OneTransactionPerCore
  <1>1. BusInv => OneTransactionPerCore
    BY DEF BusInv
  <1> QED BY <1>1, Invariance, PTL

\* The arbitration list is first come, first served: a step may add nodes behind those
\* of a waiting core and take nodes from in front of them, never the reverse.
LEMMA NoOvertakingStep ==
  ASSUME BusInv, [Next]_vars, NEW c \in Cores,
         core_operating_state[c] = "ready", core_operating_state'[c] = "ready"
  PROVE  Ahead(c, list') \subseteq Ahead(c, list)
  <1> USE DEF BusInv
  <1>1. PICK w \in 1..Len(list) : list[w].origid = c
    BY DEF NoLostRequest, PendingAt
  <1>2. CASE list' = list
    BY <1>2
  <1>3. ASSUME NEW k \in Cores, RequestClean(k) \/ RequestDirty(k) \/ RequestUpgrade(k)
        PROVE  Ahead(c, list') \subseteq Ahead(c, list)
    <2>1. PICK p \in Seq(Packet) : PushNewBusOperations(k, p)
      BY <1>3, RequestedPackets
    <2>2. /\ Len(list) \in Nat /\ Len(p) \in Nat /\ Len(list') = Len(list) + Len(p)
          /\ \A i \in 1..Len(list) : list'[i] = list[i]
      BY <2>1, PushFacts DEF PushNewBusOperations, TypeOK
    <2>3. ASSUME NEW i \in Ahead(c, list') PROVE i \in Ahead(c, list)
      <3>1. i \in 1..Len(list') /\ \A j \in 1..i : list'[j].origid # c
        BY <2>3 DEF Ahead
      <3>2. w \in 1..Len(list') /\ list'[w].origid = c
        BY <1>1, <2>2
      <3>3. i < w
        BY <3>1, <3>2
      <3>4. i \in 1..Len(list) /\ \A j \in 1..i : list[j].origid # c
        BY <2>2, <3>1, <3>3
      <3> QED BY <3>4 DEF Ahead
    <2> QED BY <2>3
  <1>4. CASE OperateDelay \/ OperateGrant
    <2>1. list # <<>> /\ list' = Tail(list)
      BY <1>4 DEF OperateDelay, OperateGrant
    <2>2. Head(list).origid # c
      <3>1. CASE OperateDelay
        BY <3>1, ErrIsNoCore DEF OperateDelay
      <3>2. CASE OperateGrant
        <4>1. Head(list).origid \in Cores /\ ~is_bus_operating
              /\ core_operating_state' = [Retired EXCEPT ![Head(list).origid] = "operate"]
          BY <3>2 DEF OperateGrant
        <4>2. core_operating_state'[Head(list).origid] = "operate"
          BY <4>1, RetiredFacts
        <4> QED BY <4>2
      <3> QED BY <1>4, <3>1, <3>2
    <2>3. ASSUME NEW i \in Ahead(c, list') PROVE i \in Ahead(c, list)
      <3>1. i \in 1..Len(list') /\ \A j \in 1..i : list'[j].origid # c
        BY <2>3 DEF Ahead
      <3>2. i \in 1..Len(list) /\ i \in Nat
        BY <2>1, <3>1, PopInv
      <3>3. ASSUME NEW j \in 1..i PROVE list[j].origid # c
        <4>1. CASE j = 1
          BY <4>1, <2>1, <2>2, PopInv
        <4>2. CASE j # 1
          <5>1. j \in 1..Len(list) /\ j - 1 \in 1..i
            BY <4>2, <3>2
          <5> QED BY <5>1, <4>2, <2>1, <3>1, PopInv
        <4> QED BY <4>1, <4>2
      <3> QED BY <3>2, <3>3 DEF Ahead
    <2> QED BY <2>3
  <1>5. OperateIdle \/ OperateWord \/ OperateFinish \/ UNCHANGED vars => list' = list
    BY DEF OperateIdle, OperateWord, OperateFinish, vars
  <1> QED BY <1>2, <1>3, <1>4, <1>5 DEF Next, OperateBus

\* No request is overtaken while its core waits.
THEOREM NoOvertakingHolds == Spec => NoOvertaking
  <1>1. BusInv /\ [Next]_vars =>
          [\A c \in Cores :
             core_operating_state[c] = "ready" /\ core_operating_state'[c] = "ready"
                => Ahead(c, list') \subseteq Ahead(c, list)]_vars
    BY NoOvertakingStep
  <1> QED BY <1>1, Invariance, PTL DEF Spec, NoOvertaking

-----------------------------------------------------------------------------
(* The length of the list.  A core has at most two nodes in it, counting a *)
(* container as a node of the core it makes room for: an eviction and a    *)
(* fetch, or an ownership request and its container.                       *)

\* An ownership request with a container behind it has no eviction in front of it: a core
\* never has all three.
UpgradeWithoutEviction ==
    \A i \in 1..Len(list) :
        list[i].origid = ErrOriginator =>
            /\ i = 2 => \A c \in Cores : Owns(c) => current_data_on_bus.command # "bus_flush"
            /\ i >= 3 => list[i - 2].command # "bus_flush"

\* The list is empty at the start.
LEMMA UpgradeInit == Init => UpgradeWithoutEviction
  <1> SUFFICES ASSUME Init PROVE UpgradeWithoutEviction
    OBVIOUS
  <1>1. 1..Len(list) = {}
    BY DEF Init
  <1> QED BY <1>1 DEF UpgradeWithoutEviction

\* A container is pushed behind a request of its own core, and an eviction is followed by a
\* fetch: no request ends up between the two.
LEMMA UpgradeStep ==
  ASSUME BusInv, BusInv', UpgradeWithoutEviction, [Next]_vars
  PROVE  UpgradeWithoutEviction'
  <1> SUFFICES ASSUME NEW i \in 1..Len(list'), list'[i].origid = ErrOriginator
      PROVE  /\ i = 2 => \A c \in Cores : Owns(c)' => current_data_on_bus'.command # "bus_flush"
             /\ i >= 3 => list'[i - 2].command # "bus_flush"
    BY DEF UpgradeWithoutEviction
  <1>1. ASSUME NEW k \in Cores, RequestClean(k) \/ RequestDirty(k) \/ RequestUpgrade(k)
        PROVE  /\ i = 2 => \A c \in Cores : Owns(c)' => current_data_on_bus'.command # "bus_flush"
               /\ i >= 3 => list'[i - 2].command # "bus_flush"
    <2>1. PICK p \in Seq(Packet) :
            /\ PushNewBusOperations(k, p)
            /\ \/ /\ Len(p) = 1 /\ p[1].origid = k /\ p[1].command \in Fetches
               \/ /\ Len(p) = 2 /\ p[1].origid = k /\ p[1].command = "bus_flush"
                  /\ p[2].origid = k /\ p[2].command \in Fetches
               \/ /\ Len(p) = 2 /\ p[1].origid = k /\ p[1].command = "bus_read_exclusive"
                  /\ p[2].origid = ErrOriginator /\ p[2].command = "idle"
      BY <1>1, RequestedPackets
    <2> DEFINE n == Len(list)
    <2>2. /\ n \in Nat /\ Len(p) \in {1, 2} /\ Len(list') = n + Len(p)
          /\ \A j \in 1..n : list'[j] = list[j]
          /\ \A j \in 1..Len(p) : list'[n + j] = p[j]
      BY <2>1, PushFacts DEF PushNewBusOperations, TypeOK, BusInv
    <2>3. k # ErrOriginator
      BY ErrIsNoCore
    <2>4. /\ \A c \in Cores : Owns(c)' => Owns(c)
          /\ current_data_on_bus' = current_data_on_bus
      BY <2>1 DEF PushNewBusOperations, Owns, BusInv, TypeOK
    <2> HIDE DEF n
    <2>5. CASE i \in 1..n
      <3>1. /\ i = 2 => \A c \in Cores : Owns(c) => current_data_on_bus.command # "bus_flush"
            /\ i >= 3 => list[i - 2].command # "bus_flush"
        BY <2>5, <2>2 DEF UpgradeWithoutEviction, n
      <3>2. i >= 3 => list'[i - 2] = list[i - 2]
        BY <2>5, <2>2
      <3> QED BY <3>1, <3>2, <2>4
    <2>6. CASE i \notin 1..n
      <3>1. i = n + 2
        <4>1. i = n + 1 \/ (i = n + 2 /\ Len(p) = 2)
          <5>1. Len(list') = n + 1 \/ (Len(p) = 2 /\ Len(list') = n + 2)
            BY <2>2
          <5> QED BY <5>1, <2>6, <2>2
        <4>2. list'[n + 1].origid = k
          BY <2>1, <2>2
        <4> QED BY <4>1, <4>2, <2>3
      <3>2. i >= 3 => list'[i - 2] = list[n] /\ n \in 1..n
        BY <3>1, <2>2
      <3>3. n \in 1..n => list[n].command # "bus_flush"
        BY <2>2 DEF EvictionThenFetch, BusInv, n
      <3>4. n = 0 => \A c \in Cores : Owns(c) => current_data_on_bus.command # "bus_flush"
        BY DEF EvictionThenFetch, BusInv, n
      <3> QED BY <3>1, <3>2, <3>3, <3>4, <2>2, <2>4
    <2> QED BY <2>5, <2>6
  <1>2. CASE OperateDelay \/ OperateGrant
    <2>1. list # <<>> /\ list' = Tail(list) /\ current_data_on_bus' = Head(list)
      BY <1>2 DEF OperateDelay, OperateGrant
    <2>2. /\ i + 1 \in 1..Len(list) /\ list'[i] = list[i + 1] /\ Head(list) = list[1]
          /\ i \in 1..Len(list')
      BY <2>1, PopInv
    <2>3. i >= 2 => list[i - 1].command # "bus_flush"
      <3>1. i >= 2 => i + 1 >= 3 /\ (i + 1) - 2 = i - 1
        BY <2>2
      <3> QED BY <3>1, <2>2 DEF UpgradeWithoutEviction
    <2>4. i >= 3 => list'[i - 2] = list[i - 1]
      <3>1. i >= 3 => i - 2 \in 1..Len(list') /\ (i - 2) + 1 = i - 1
        BY <2>2
      <3> QED BY <3>1, <2>1, PopInv
    <2>5. i = 2 => current_data_on_bus'.command # "bus_flush"
      BY <2>1, <2>2, <2>3
    <2> QED BY <2>3, <2>4, <2>5, <2>2
  <1>3. CASE OperateIdle
    <2>1. list = <<>> /\ list' = list
      BY <1>3 DEF OperateIdle
    <2> QED BY <2>1
  <1>4. CASE OperateWord \/ OperateFinish \/ UNCHANGED vars
    <2>1. list' = list /\ current_data_on_bus' = current_data_on_bus
      BY <1>4 DEF OperateWord, OperateFinish, vars
    <2>2. \A c \in Cores : Owns(c)' => Owns(c)
      <3>1. CASE OperateFinish
        <4>1. \E c \in Cores : core_operating_state[c] = "operate"
                                 /\ c = current_data_on_bus.origid
          BY <3>1 DEF OperateFinish, BusInv, SingleOwner, Owns
        <4> QED BY <3>1, <4>1 DEF OperateFinish, Owns, BusInv, TypeOK
      <3>2. CASE OperateWord \/ UNCHANGED vars
        BY <3>2 DEF OperateWord, vars, Owns
      <3> QED BY <1>4, <3>1, <3>2
    <2> QED BY <2>1, <2>2 DEF UpgradeWithoutEviction
  <1> QED BY <1>1, <1>2, <1>3, <1>4 DEF Next, OperateBus

\* The core a node belongs to: its originator, or for a container the originator of the
\* request in front of it.
HolderOf(i) ==
    IF list[i].origid # ErrOriginator THEN list[i].origid
    ELSE IF i = 1 THEN current_data_on_bus.origid ELSE list[i - 1].origid

\* Every core has two places: one for an eviction or a container, one for a fetch.
IsFirst(i) == list[i].origid = ErrOriginator \/ list[i].command = "bus_flush"
PlaceOf(i) == IF IsFirst(i) THEN 2 * HolderOf(i) + 1 ELSE 2 * HolderOf(i) + 2

\* A container makes room for a core whose ownership request stands in front of it or has
\* the bus.
LEMMA ContainerHolder ==
  ASSUME BusInv, NEW i \in 1..Len(list), list[i].origid = ErrOriginator
  PROVE  /\ HolderOf(i) \in Cores
         /\ i = 1 => Owns(HolderOf(i)) /\ current_data_on_bus.command = "bus_read_exclusive"
         /\ i # 1 => /\ i - 1 \in 1..Len(list) /\ list[i - 1].origid = HolderOf(i)
                     /\ list[i - 1].command = "bus_read_exclusive"
  <1> USE DEF BusInv
  <1>1. CASE i = 1
    <2>1. PICK c \in Cores : Owns(c) /\ current_data_on_bus.command = "bus_read_exclusive"
      BY <1>1 DEF DelayBehindUpgrade
    <2>2. current_data_on_bus.origid = c
      BY <2>1 DEF SingleOwner
    <2> QED BY <1>1, <2>1, <2>2 DEF HolderOf
  <1>2. CASE i # 1
    <2>1. list[i - 1].origid \in Cores /\ list[i - 1].command = "bus_read_exclusive"
      BY <1>2 DEF DelayBehindUpgrade
    <2>2. Len(list) \in Nat
      BY LenProperties DEF TypeOK
    <2> QED BY <1>2, <2>1, <2>2 DEF HolderOf
  <1> QED BY <1>1, <1>2

\* No two nodes share a place.
LEMMA PlacesDiffer ==
  ASSUME BusInv, UpgradeWithoutEviction,
         NEW i \in 1..Len(list), NEW j \in 1..Len(list), i < j,
         HolderOf(i) = HolderOf(j), IsFirst(i) <=> IsFirst(j)
  PROVE  FALSE
  <1> USE DEF BusInv
  <1>1. i \in Int /\ j \in Int /\ Len(list) \in Nat
    BY LenProperties DEF TypeOK
  <1>2. \A k \in 1..Len(list) : list[k].origid \in Cores \/ list[k].origid = ErrOriginator
    <2> TAKE k \in 1..Len(list)
    <2>1. list[k] \in Packet
      BY ElementOfSeq DEF TypeOK
    <2> QED BY <2>1 DEF Packet
  <1>3. ASSUME NEW k \in 1..Len(list), NEW l \in 1..Len(list), k < l,
               list[k].origid \in Cores, list[k].origid = list[l].origid
        PROVE  l = k + 1 /\ list[k].command = "bus_flush" /\ list[l].command \in Fetches
    BY <1>3 DEF OneTransactionPerCore, EvictionThenFetch
  <1>4. \A c \in Cores : \A k \in 1..Len(list) :
           Owns(c) /\ list[k].origid = c => current_data_on_bus.command = "bus_flush"
    BY DEF OneTransactionPerCore, PendingAt
  <1>5. "bus_flush" \notin Fetches
    BY DEF Fetches
  <1>6. CASE list[i].origid # ErrOriginator /\ list[j].origid # ErrOriginator
    <2>1. list[i].origid = list[j].origid /\ list[i].origid \in Cores
      BY <1>2, <1>6 DEF HolderOf
    <2>2. list[i].command = "bus_flush" /\ list[j].command \in Fetches
      BY <2>1, <1>3
    <2> QED BY <2>2, <1>5, <1>6 DEF IsFirst
  <1>7. CASE list[i].origid # ErrOriginator /\ list[j].origid = ErrOriginator
    <2>1. /\ j # 1 /\ j - 1 \in 1..Len(list) /\ list[j - 1].origid = list[i].origid
          /\ list[j - 1].command = "bus_read_exclusive"
      <3>1. j # 1
        BY <1>1
      <3>2. HolderOf(j) = list[i].origid
        BY <1>7 DEF HolderOf
      <3>3. j # 1 => /\ j - 1 \in 1..Len(list) /\ list[j - 1].origid = HolderOf(j)
                     /\ list[j - 1].command = "bus_read_exclusive"
        BY <1>7, ContainerHolder
      <3> QED BY <3>1, <3>2, <3>3
    <2>2. list[i].command = "bus_flush" /\ list[i].origid \in Cores
      BY <1>2, <1>7 DEF IsFirst
    <2>3. i < j - 1
      BY <1>1, <2>1, <2>2
    <2>4. j - 1 = i + 1
      BY <2>1, <2>2, <2>3, <1>3
    <2>5. j >= 3 /\ j - 2 = i
      BY <2>4, <1>1
    <2> QED BY <2>2, <2>5, <1>7 DEF UpgradeWithoutEviction
  <1>8. CASE list[i].origid = ErrOriginator /\ list[j].origid # ErrOriginator
    <2>1. list[j].origid = HolderOf(i) /\ HolderOf(i) \in Cores
      BY <1>8, ContainerHolder DEF HolderOf
    <2>2. CASE i = 1
      BY <2>1, <2>2, <1>4, <1>8, ContainerHolder
    <2>3. CASE i # 1
      <3>1. i - 1 \in 1..Len(list) /\ list[i - 1].origid = HolderOf(i) /\ i - 1 < j
        BY <2>3, <1>1, <1>8, ContainerHolder
      <3>2. j = (i - 1) + 1
        BY <3>1, <2>1, <1>3
      <3> QED BY <3>2, <1>1
    <2> QED BY <2>2, <2>3
  <1>9. CASE list[i].origid = ErrOriginator /\ list[j].origid = ErrOriginator
    <2>1. /\ j - 1 \in 1..Len(list) /\ list[j - 1].origid = HolderOf(i)
          /\ HolderOf(i) \in Cores
      <3>1. j # 1
        BY <1>1
      <3> QED BY <3>1, <1>9, ContainerHolder
    <2>2. CASE i = 1
      BY <2>1, <2>2, <1>4, <1>9, ContainerHolder
    <2>3. CASE i # 1
      <3>1. i - 1 \in 1..Len(list) /\ list[i - 1].origid = HolderOf(i) /\ i - 1 < j - 1
        BY <2>3, <1>1, <1>9, ContainerHolder
      <3>2. j - 1 = (i - 1) + 1
        BY <3>1, <2>1, <1>3
      <3>3. list[i].origid \in Cores
        BY <3>2, <2>1, <1>1
      <3> QED BY <3>3, <1>9, ErrIsNoCore
    <2> QED BY <2>2, <2>3
  <1> QED BY <1>6, <1>7, <1>8, <1>9

\* Nodes go to different places, and there are two for each core.
LEMMA Bounded == BusInv /\ UpgradeWithoutEviction => ListBounded
  <1> SUFFICES ASSUME BusInv, UpgradeWithoutEviction PROVE ListBounded
    OBVIOUS
  <1>1. Len(list) \in Nat
    BY LenProperties DEF BusInv, TypeOK
  <1>2. CORES_NUMBER \in Nat
    BY CoresAssumption
  <1> DEFINE n == Len(list)
             m == 2 * CORES_NUMBER
             f == [i \in 1..n |-> PlaceOf(i)]
  <1>3. \A i \in 1..n : HolderOf(i) \in Cores
    <2> TAKE i \in 1..n
    <2>1. list[i] \in Packet
      BY ElementOfSeq DEF BusInv, TypeOK
    <2>2. list[i].origid \in Cores \/ list[i].origid = ErrOriginator
      BY <2>1 DEF Packet
    <2> QED BY <2>2, ContainerHolder DEF HolderOf
  <1>4. \A i \in 1..n : PlaceOf(i) \in 1..m
    <2> TAKE i \in 1..n
    <2>1. HolderOf(i) \in 0..(CORES_NUMBER - 1)
      BY <1>3 DEF Cores
    <2> QED BY <2>1, <1>2 DEF PlaceOf
  <1>5. ASSUME NEW i \in 1..n, NEW j \in 1..n, i < j, PlaceOf(i) = PlaceOf(j)
        PROVE  FALSE
    <2>1. HolderOf(i) \in 0..(CORES_NUMBER - 1) /\ HolderOf(j) \in 0..(CORES_NUMBER - 1)
      BY <1>3 DEF Cores
    <2>2. HolderOf(i) = HolderOf(j) /\ (IsFirst(i) <=> IsFirst(j))
      BY <2>1, <1>2, <1>5 DEF PlaceOf
    <2> QED BY <2>2, <1>5, PlacesDiffer
  <1>6. f \in Injection(1..n, 1..m)
    <2>1. f \in [1..n -> 1..m]
      BY <1>4
    <2>2. ASSUME NEW i \in 1..n, NEW j \in 1..n, f[i] = f[j]
          PROVE  i = j
      <3>1. PlaceOf(i) = PlaceOf(j)
        BY <2>2
      <3>2. ~(i < j) /\ ~(j < i)
        BY <3>1, <1>5
      <3> QED BY <3>2, <1>1
    <2> HIDE DEF f
    <2> QED BY <2>1, <2>2 DEF Injection, IsInjective
  <1>7. /\ IsFiniteSet(1..m) /\ Cardinality(1..m) = m /\ Cardinality(1..n) = n
    <2>1. ASSUME NEW k \in Nat PROVE IsFiniteSet(1..k) /\ Cardinality(1..k) = k
      <3>1. IsFiniteSet(1..k) /\ Cardinality(1..k) = IF 1 > k THEN 0 ELSE k - 1 + 1
        BY FS_Interval
      <3> QED BY <3>1
    <2>2. m \in Nat /\ n \in Nat
      BY <1>1, <1>2
    <2> QED BY <2>1, <2>2
  <1>8. Cardinality(1..n) <= Cardinality(1..m)
    BY <1>6, <1>7, FS_Injection
  <1> QED BY <1>7, <1>8 DEF ListBounded

\* The list never has more than two nodes for each core: the memory that a push allocates
\* is bounded, although the code does not check it.
THEOREM ListBoundedHolds == Spec => []ListBounded
  <1>1. Init => UpgradeWithoutEviction
    BY UpgradeInit
  <1>2. BusInv /\ UpgradeWithoutEviction /\ [Next]_vars => UpgradeWithoutEviction'
    BY NextInv, UpgradeStep
  <1> QED BY <1>1, <1>2, Bounded, Invariance, PTL DEF Spec

=============================================================================
