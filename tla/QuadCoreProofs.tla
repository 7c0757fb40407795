--------------------------- MODULE QuadCoreProofs ---------------------------
(***************************************************************************)
(* Theorems about QuadCore.tla, for every number of cores, every size of a *)
(* block, every delay of main memory and all programs.  What is proved of  *)
(* a step is proved of a call of operate_bus or of a cache whatever the    *)
(* program, so that Simulator.tla can rely on it as well.                  *)
(***************************************************************************)
EXTENDS QuadCore, SequenceTheorems, WellFoundedInduction, TLAPS

P == INSTANCE BusProofs WITH
        list <- [i \in DOMAIN list |-> Control(list[i])],
        current_data_on_bus <- Control(current_data_on_bus)

-----------------------------------------------------------------------------
(* Constants and the smallest core.                                        *)

\* The sizes are positive, and neither main memory nor the error originator has the number
\* of a core.
LEMMA ConstantFacts ==
  /\ CORES_NUMBER \in Nat /\ CORES_NUMBER >= 1
  /\ BLOCK_SIZE \in Nat /\ BLOCK_SIZE >= 1
  /\ MEMORY_DELAY_TO_FIRST_BYTE \in Nat /\ MEMORY_DELAY_TO_FIRST_BYTE >= 1
  /\ 0 \in Cores /\ 0 \in Offsets /\ Cores \subseteq Nat
  /\ \A c \in Cores : c # ErrOriginator /\ c # MainMemory
  <1>1. /\ CORES_NUMBER \in Nat /\ CORES_NUMBER >= 1 /\ CORES_NUMBER < 65535
        /\ BLOCK_SIZE \in Nat /\ BLOCK_SIZE >= 1
        /\ MEMORY_DELAY_TO_FIRST_BYTE \in Nat /\ MEMORY_DELAY_TO_FIRST_BYTE >= 1
    BY CacheAssumption, MemoryAssumption
  <1>2. 0 \in Cores /\ 0 \in Offsets /\ Cores \subseteq Nat
    BY <1>1 DEF Cores, Offsets
  <1>3. \A c \in Cores : c # 65535 /\ c # CORES_NUMBER
    BY <1>1 DEF Cores
  <1> QED BY <1>1, <1>2, <1>3 DEF ErrOriginator, MainMemory

\* A set of cores has a smallest one: the first that is asked.
LEMMA MinFacts ==
  ASSUME NEW T \in SUBSET Nat, T # {}
  PROVE  Min(T) \in T /\ \A x \in T : Min(T) <= x
  <1> DEFINE R == {ss \in Nat \X Nat : ss[1] < ss[2]}
  <1>1. IsWellFoundedOn(R, Nat)
    BY NatLessThanWellFounded, Zenon DEF OpToRel
  <1>2. PICK x \in T : \A y \in T : ~(<<y, x>> \in R)
    <2> HIDE DEF R
    <2> QED BY <1>1, WFMin, Zenon
  <1>3. ASSUME NEW y \in T PROVE x <= y
    <2>1. x \in Nat /\ y \in Nat
      OBVIOUS
    <2>2. <<y, x>> \notin R
      BY <1>2
    <2>3. ~(y < x)
      BY <2>1, <2>2
    <2> QED BY <2>1, <2>3
  <1> QED BY <1>3, Zenon DEF Min

\* The container is a packet.
LEMMA DelayType == Delay \in BusPacket
  <1>1. Blocks # {}
    <2>1. PICK i \in Indexes : TRUE
      BY MemoryAssumption
    <2>2. [tag |-> 0, index |-> i] \in Blocks
      BY MemoryAssumption DEF Blocks
    <2> QED BY <2>2
  <1>2. (CHOOSE b \in Blocks : TRUE) \in Blocks
    BY <1>1
  <1>3. 0 \in Data
    BY MemoryAssumption
  <1> QED BY <1>2, <1>3 DEF Delay, BusPacket

-----------------------------------------------------------------------------
(* What a call does.  A cache is called with an access to any address, as  *)
(* the programs may bring it up.                                           *)

MachineVars == <<memoryVars, cacheVars, busVars>>
AnyAccess == [op : {"lw", "sw"}, address : Addresses]

MachineStep ==
    \/ BusIdle \/ BusDelay \/ BusGrant \/ BusContinue
    \/ \E c \in Cores : \E r \in AnyAccess : Access(c, r)
    \/ UNCHANGED MachineVars

\* The types of the variables that the calls change.
MachineType ==
    /\ MemoryTypeOK
    /\ CacheTypeOK
    /\ list \in Seq(BusPacket)
    /\ core_operating_state \in [Cores -> {"idle", "ready", "operate", "final"}]
    /\ is_bus_operating \in BOOLEAN
    /\ current_data_on_bus \in BusPacket
    /\ offset_of_address \in Offsets
    /\ flag_for_initial_shared \in BOOLEAN

\* The addresses of the programs are addresses.
LEMMA AccessType ==
  ASSUME NEW c \in Cores, NEW r \in Accesses(c)
  PROVE  r \in AnyAccess /\ r # None
  <1>1. Loads[c] \subseteq Addresses /\ Stores[c] \subseteq Addresses
    BY QuadCoreAssumption
  <1>2. r \in AnyAccess
    BY <1>1 DEF Accesses, AnyAccess
  <1>3. r.op # "none"
    BY <1>2 DEF AnyAccess
  <1> QED BY <1>2, <1>3 DEF None

\* Every step of the main loop is such a call, or leaves bus, caches and memory alone.
LEMMA NextIsMachineStep == TypeOK /\ [Next]_vars => MachineStep
  <1> SUFFICES ASSUME TypeOK, [Next]_vars PROVE MachineStep
    OBVIOUS
  <1>1. CASE OperateBus
    BY <1>1 DEF OperateBus, MachineStep
  <1>2. ASSUME NEW c \in Cores, OperateCore(c) PROVE MachineStep
    <2>1. CASE MemStage(c)
      <3>1. PICK r \in Upcoming(c) : Access(c, r)
        BY <2>1 DEF MemStage
      <3>2. r \in Accesses(c)
        BY DEF Upcoming, TypeOK
      <3> QED BY <3>1, <3>2, AccessType DEF MachineStep
    <2>2. CASE NoAccess(c)
      BY <2>2 DEF NoAccess, MachineStep, MachineVars
    <2> QED BY <1>2, <2>1, <2>2 DEF OperateCore
  <1>3. CASE UNCHANGED vars
    BY <1>3 DEF vars, MachineStep, MachineVars
  <1> QED BY <1>1, <1>2, <1>3 DEF Next

\* Two nodes pushed one after the other.
LEMMA TwoPackets ==
  ASSUME NEW e, NEW f PROVE <<e>> \o <<f>> = <<e, f>>
  <1> DEFINE T == {e, f}
             s == <<e>> \o <<f>>
             t == <<e, f>>
  <1>1. t \in Seq(T) /\ Len(t) = 2 /\ t[1] = e /\ t[2] = f
    OBVIOUS
  <1>2. s \in Seq(T) /\ Len(s) = 2 /\ s[1] = e /\ s[2] = f
    OBVIOUS
  <1>3. \A i \in 1..Len(s) : s[i] = t[i]
    <2> HIDE DEF s, t
    <2> QED BY <1>1, <1>2
  <1> HIDE DEF s, t
  <1>4. s = t
    BY <1>1, <1>2, <1>3, SeqEqual, Zenon
  <1> QED BY <1>4 DEF s, t

\* What a cache pushes for an access to block b: the fetch, the eviction and the fetch, or
\* the ownership request and the container.
Requested(c, b, offset, packets) ==
    \E command \in {"bus_read", "bus_read_exclusive"} :
        \/ /\ tsram[c][b.index].mesi # "modified" /\ ~Holds(c, b)
           /\ packets = <<Fetch(c, command, b)>>
        \/ /\ tsram[c][b.index].mesi = "modified" /\ ~Holds(c, b)
           /\ packets = << [origid |-> c, command |-> "bus_flush",
                            block |-> [tag |-> tsram[c][b.index].tag, index |-> b.index],
                            data |-> dsram[c][b.index][offset]],
                           Fetch(c, command, b) >>
        \/ /\ command = "bus_read_exclusive" /\ HoldsIn(c, b, {"shared"})
           /\ packets = <<Fetch(c, command, b), Delay>>

\* An access changes nothing but the request, pushes packets, or writes its cache.
LEMMA AccessCases ==
  ASSUME MachineType, NEW c \in Cores, NEW r \in AnyAccess, Access(c, r)
  PROVE  \/ UNCHANGED MachineVars
         \/ /\ ~IsBusBusy(c)
            /\ \E packets : /\ Requested(c, r.address.block, r.address.offset, packets)
                            /\ Push(c, packets)
         \/ \E word \in Data : WriteHit(c, r, word)
  <1> DEFINE b == r.address.block
             o == r.address.offset
  <1>1. CASE TurnedAway(c, r) \/ ReadHit(c, r)
    BY <1>1 DEF TurnedAway, ReadHit, MachineVars
  <1>2. ASSUME NEW command \in {"bus_read", "bus_read_exclusive"}, ~Holds(c, b)
        PROVE Requested(c, b, o, Eviction(c, b, o) \o <<Fetch(c, command, b)>>)
    <2> DEFINE f == Fetch(c, command, b)
               e == [origid |-> c, command |-> "bus_flush",
                     block |-> [tag |-> tsram[c][b.index].tag, index |-> b.index],
                     data |-> dsram[c][b.index][o]]
    <2>1. CASE tsram[c][b.index].mesi # "modified"
      <3>1. Eviction(c, b, o) \o <<f>> = <<f>>
        <4>1. Eviction(c, b, o) = <<>>
          BY <2>1 DEF Eviction
        <4> HIDE DEF f
        <4> QED BY <4>1
      <3> QED BY <3>1, <2>1, <1>2, Zenon DEF Requested
    <2>2. CASE tsram[c][b.index].mesi = "modified"
      <3>1. Eviction(c, b, o) \o <<f>> = <<e, f>>
        <4>1. Eviction(c, b, o) = <<e>>
          BY <2>2 DEF Eviction
        <4> HIDE DEF f, e
        <4> QED BY <4>1, TwoPackets, Zenon
      <3> QED BY <3>1, <2>2, <1>2, Zenon DEF Requested
    <2> QED BY <2>1, <2>2
  <1>3. CASE ReadMiss(c, r)
    BY <1>3, <1>2, Zenon DEF ReadMiss
  <1>4. CASE WriteMiss(c, r)
    BY <1>4, <1>2, Zenon DEF WriteMiss
  <1>5. CASE WriteUpgrade(c, r)
    <2>1. Requested(c, b, o, <<Fetch(c, "bus_read_exclusive", b), Delay>>)
      BY <1>5, Zenon DEF WriteUpgrade, Requested
    <2> QED BY <1>5, <2>1, Zenon DEF WriteUpgrade
  <1> QED BY <1>1, <1>3, <1>4, <1>5 DEF Access, Refused

-----------------------------------------------------------------------------
(* Type correctness.                                                       *)

\* Memory ends its operation at the latest with the call that moves the last word.
TimerBound ==
    is_memory_operation => main_memory_response_time <= MEMORY_DELAY_TO_LAST_BYTE_OF_WORD

\* Retiring a transaction keeps every status a status.
LEMMA RetiredType ==
  MachineType => Retired \in [Cores -> {"idle", "ready", "operate", "final"}]
  BY DEF MachineType, Retired

\* The stray write behind the status array leaves a word in every place.
LEMMA ContentType == MachineType => Content \in [Blocks -> [Offsets -> Data]]
  <1> SUFFICES ASSUME MachineType PROVE Content \in [Blocks -> [Offsets -> Data]]
    OBVIOUS
  <1>1. memory \in [Blocks -> [Offsets -> Data]]
    BY DEF MachineType, MemoryTypeOK
  <1>2. 0 \in Data
    BY MemoryAssumption
  <1>3. \A b \in Blocks : [o \in Offsets |->
            IF [block |-> b, offset |-> o] \in ErrCell /\ memory[b][o] = final_state
            THEN 0 ELSE memory[b][o]] \in [Offsets -> Data]
    BY <1>1, <1>2
  <1> QED BY <1>1, <1>3 DEF Content

\* The parts of a packet and of its block.
LEMMA PacketParts ==
  ASSUME NEW p \in BusPacket
  PROVE  /\ p.block \in Blocks /\ p.data \in Data
         /\ p.block.tag \in Tags /\ p.block.index \in Indexes
         /\ p.origid \in Cores \cup {ErrOriginator}
         /\ p.command \in {"idle", "bus_read", "bus_read_exclusive", "bus_flush"}
         /\ p = [origid |-> p.origid, command |-> p.command, block |-> p.block, data |-> p.data]
  BY DEF BusPacket, Blocks

\* The first cache that has the block is a cache.
LEMMA ReactingFacts ==
  ASSUME NEW p, Reacting(p) # {}
  PROVE  /\ Min(Reacting(p)) \in Cores /\ Min(Reacting(p)) \in Reacting(p)
         /\ \A k \in Reacting(p) : Min(Reacting(p)) <= k
  <1>1. Reacting(p) \in SUBSET Nat /\ Reacting(p) \subseteq Cores
    <2>1. Reacting(p) \subseteq Cores
      BY DEF Reacting
    <2>2. Cores \subseteq Nat
      BY ConstantFacts
    <2> QED BY <2>1, <2>2
  <1>2. Min(Reacting(p)) \in Reacting(p) /\ \A k \in Reacting(p) : Min(Reacting(p)) <= k
    BY <1>1, MinFacts
  <1> QED BY <1>1, <1>2

\* Snooping keeps the types: it replaces the packet by a flush and the state of a line.
LEMMA SnoopType ==
  ASSUME MachineType, NEW p \in BusPacket, NEW offset \in Offsets
  PROVE  /\ SnoopedPacket(p, offset) \in BusPacket
         /\ SnoopedTags(p, offset) \in [Cores -> [Indexes -> Line]]
  <1> DEFINE k == Min(Reacting(p))
             i == p.block.index
  <1>1. i \in Indexes
    BY PacketParts
  <1>2. /\ tsram \in [Cores -> [Indexes -> Line]]
        /\ dsram \in [Cores -> [Indexes -> [Offsets -> Data]]]
    BY DEF MachineType, CacheTypeOK
  <1>3. CASE Reacting(p) = {}
    BY <1>2, <1>3 DEF SnoopedPacket, SnoopedTags
  <1>4. CASE Reacting(p) # {}
    <2>1. k \in Cores
      BY <1>4, ReactingFacts
    <2>2. tsram[k][i] \in Line /\ dsram[k][i][offset] \in Data
      BY <2>1, <1>1, <1>2
    <2>3. SnoopedState(tsram[k][i].mesi, p.command) \in Mesi
      BY <2>2 DEF SnoopedState, Line, Mesi
    <2> HIDE DEF k, i
    <2>4. SnoopedPacket(p, offset) \in BusPacket
      <3>1. [p EXCEPT !.origid = k, !.command = "bus_flush", !.data = dsram[k][i][offset]]
              \in BusPacket
        BY <2>1, <2>2 DEF BusPacket
      <3> QED BY <3>1 DEF SnoopedPacket, k, i
    <2>5. [tsram EXCEPT ![k][i].mesi = SnoopedState(@, p.command)]
            \in [Cores -> [Indexes -> Line]]
      BY <2>1, <2>2, <2>3, <1>1, <1>2 DEF Line
    <2>6. SnoopedTags(p, offset) \in [Cores -> [Indexes -> Line]]
      BY <2>5, <1>2, <1>4 DEF SnoopedTags, k, i
    <2> QED BY <2>4, <2>6
  <1> QED BY <1>3, <1>4

\* The answer of memory keeps the types.
LEMMA StoredType ==
  ASSUME NEW p \in BusPacket, NEW offset \in Offsets,
         NEW content \in [Blocks -> [Offsets -> Data]]
  PROVE  Stored(p, content, offset) \in [Blocks -> [Offsets -> Data]]
  BY PacketParts DEF Stored

\* What is on the bus is a word, and nothing of the block's address changes.
LEMMA SuppliedFacts ==
  ASSUME NEW p \in BusPacket, NEW offset \in Offsets,
         NEW content \in [Blocks -> [Offsets -> Data]]
  PROVE  /\ Supplied(p, content, offset, MainMemory).data \in Data
         /\ Supplied(p, content, offset, MainMemory).block = p.block
         /\ Supplied(p, content, offset, MainMemory).command = "bus_flush"
         /\ Supplied(p, content, offset, MainMemory).origid =
              IF p.command = "bus_flush" THEN p.origid ELSE MainMemory
  <1>1. p.block \in Blocks /\ p.data \in Data
    BY PacketParts
  <1>2. content[p.block][offset] \in Data
    BY <1>1
  <1> QED BY <1>1, <1>2 DEF Supplied, BusPacket

\* The answer to the originator keeps the types of its cache.
LEMMA AnsweredType ==
  ASSUME NEW tags \in [Cores -> [Indexes -> Line]], NEW c \in Cores, NEW p,
         p.block \in Blocks, p.data \in Data, NEW offset \in Offsets, NEW shared \in BOOLEAN,
         dsram \in [Cores -> [Indexes -> [Offsets -> Data]]]
  PROVE  /\ AnsweredTags(tags, c, p, offset, shared) \in [Cores -> [Indexes -> Line]]
         /\ AnsweredWords(c, p, offset) \in [Cores -> [Indexes -> [Offsets -> Data]]]
  <1>1. p.block.tag \in Tags /\ p.block.index \in Indexes
    BY DEF Blocks
  <1>2. tags[c][p.block.index].mesi \in Mesi
    BY <1>1 DEF Line
  <1>3. [tag |-> p.block.tag,
         mesi |-> IF offset # BLOCK_SIZE - 1 THEN tags[c][p.block.index].mesi
                  ELSE IF shared THEN "shared" ELSE "exclusive"] \in Line
    BY <1>1, <1>2 DEF Line, Mesi
  <1>4. AnsweredTags(tags, c, p, offset, shared) \in [Cores -> [Indexes -> Line]]
    BY <1>1, <1>3 DEF AnsweredTags
  <1>5. AnsweredWords(c, p, offset) \in [Cores -> [Indexes -> [Offsets -> Data]]]
    BY <1>1 DEF AnsweredWords
  <1> QED BY <1>4, <1>5

\* The timer stays within its bound and stops at it.
LEMMA TimerFacts ==
  ASSUME MachineType, TimerBound, NEW direct, TimerStep(direct)
  PROVE  /\ is_memory_operation' \in BOOLEAN
         /\ main_memory_response_time' \in 0..(MEMORY_DELAY_TO_LAST_BYTE_OF_WORD + 1)
         /\ TimerBound'
  <1> DEFINE time == ResponseTime(direct)
             last == MEMORY_DELAY_TO_LAST_BYTE_OF_WORD
  <1>1. last \in Nat /\ last >= MEMORY_DELAY_TO_FIRST_BYTE
    BY ConstantFacts DEF MEMORY_DELAY_TO_LAST_BYTE_OF_WORD
  <1>2. time \in Nat /\ time <= last
    BY <1>1, ConstantFacts DEF ResponseTime, TimerBound, MachineType, MemoryTypeOK
  <1>3. /\ is_memory_operation' = (time # last)
        /\ main_memory_response_time' = time + 1
    BY DEF TimerStep
  <1> HIDE DEF time
  <1>4. is_memory_operation' \in BOOLEAN
    BY <1>3
  <1>5. main_memory_response_time' \in 0..(last + 1)
    BY <1>1, <1>2, <1>3
  <1>6. ASSUME is_memory_operation' PROVE main_memory_response_time' <= last
    <2>1. time # last
      BY <1>3, <1>6
    <2> QED BY <1>1, <1>2, <1>3, <2>1
  <1> QED BY <1>4, <1>5, <1>6 DEF TimerBound, MEMORY_DELAY_TO_LAST_BYTE_OF_WORD

\* A cycle of a transaction keeps the types.
LEMMA CycleType ==
  ASSUME MachineType, TimerBound,
         NEW t \in BusPacket, t.origid \in Cores, NEW offset \in Offsets, NEW flag \in BOOLEAN,
         CycleOf(t, offset, flag)
  PROVE  /\ MemoryTypeOK' /\ CacheTypeOK' /\ TimerBound'
         /\ core_operating_state' \in [Cores -> {"idle", "ready", "operate", "final"}]
         /\ is_bus_operating' \in BOOLEAN
         /\ offset_of_address' \in Offsets
         /\ flag_for_initial_shared' \in BOOLEAN
  <1>1. Content \in [Blocks -> [Offsets -> Data]]
    BY ContentType
  <1>2. Retired \in [Cores -> {"idle", "ready", "operate", "final"}]
    BY RetiredType
  <1>3. /\ tsram \in [Cores -> [Indexes -> Line]]
        /\ dsram \in [Cores -> [Indexes -> [Offsets -> Data]]]
    BY DEF MachineType, CacheTypeOK
  <1>4. CASE HoldBack(t, offset, flag)
    <2>1. /\ core_operating_state' \in [Cores -> {"idle", "ready", "operate", "final"}]
          /\ is_bus_operating' \in BOOLEAN
          /\ offset_of_address' \in Offsets
          /\ flag_for_initial_shared' \in BOOLEAN
      BY <1>2, <1>4 DEF HoldBack
    <2>2. MemoryTypeOK' /\ TimerBound'
      BY <1>1, <1>4 DEF HoldBack, MachineType, MemoryTypeOK, TimerBound
    <2>3. CacheTypeOK'
      BY <1>4 DEF HoldBack, MachineType, CacheTypeOK, cacheVars
    <2> QED BY <2>1, <2>2, <2>3
  <1>5. CASE AwaitMemory(t, offset, flag)
    <2>1. /\ core_operating_state' \in [Cores -> {"idle", "ready", "operate", "final"}]
          /\ is_bus_operating' \in BOOLEAN
          /\ offset_of_address' \in Offsets
          /\ flag_for_initial_shared' \in BOOLEAN
      BY <1>2, <1>5 DEF AwaitMemory
    <2>2. TimerStep(Changed(t.origid, t.block)) /\ memory' = Content
      BY <1>5 DEF AwaitMemory
    <2>3. MemoryTypeOK' /\ TimerBound'
      BY <1>1, <2>2, TimerFacts DEF MemoryTypeOK
    <2>4. CacheTypeOK'
      BY <1>3, <1>5, SnoopType DEF AwaitMemory, CacheTypeOK
    <2> QED BY <2>1, <2>3, <2>4
  <1>6. CASE MoveWord(t, offset, flag)
    <2> DEFINE shared  == Sharers(t.origid, t.block) # {}
               snooped == SnoopedPacket(t, offset)
               word    == Supplied(snooped, Content, offset, MainMemory)
    <2>1. /\ core_operating_state' \in [Cores -> {"idle", "ready", "operate", "final"}]
          /\ is_bus_operating' \in BOOLEAN
          /\ flag_for_initial_shared' \in BOOLEAN
      BY <1>2, <1>6 DEF MoveWord
    <2>2. offset_of_address' \in Offsets
      BY <1>6, ConstantFacts DEF MoveWord, Offsets
    <2>3. /\ TimerStep(Changed(t.origid, t.block))
          /\ memory' = Stored(snooped, Content, offset)
          /\ tsram' = AnsweredTags(SnoopedTags(t, offset), t.origid, word, offset, shared)
          /\ dsram' = AnsweredWords(t.origid, word, offset)
      BY <1>6 DEF MoveWord
    <2>4. snooped \in BusPacket /\ SnoopedTags(t, offset) \in [Cores -> [Indexes -> Line]]
      BY SnoopType
    <2>5. shared \in BOOLEAN
      OBVIOUS
    <2> HIDE DEF shared, snooped
    <2>6. memory' \in [Blocks -> [Offsets -> Data]]
      BY <1>1, <2>3, <2>4, StoredType
    <2>7. MemoryTypeOK' /\ TimerBound'
      BY <2>3, <2>6, TimerFacts DEF MemoryTypeOK
    <2>8. word.block \in Blocks /\ word.data \in Data
      BY <1>1, <2>4, SuppliedFacts, PacketParts
    <2> HIDE DEF word
    <2>9. CacheTypeOK'
      BY <1>3, <2>3, <2>4, <2>5, <2>8, AnsweredType DEF CacheTypeOK
    <2> QED BY <2>1, <2>2, <2>7, <2>9
  <1> QED BY <1>4, <1>5, <1>6 DEF CycleOf

\* What is pushed for an access is two packets at most.
LEMMA RequestedType ==
  ASSUME MachineType, NEW c \in Cores, NEW b \in Blocks, NEW offset \in Offsets,
         NEW packets, Requested(c, b, offset, packets)
  PROVE  packets \in Seq(BusPacket)
  <1>1. PICK command \in {"bus_read", "bus_read_exclusive"} :
          \/ packets = <<Fetch(c, command, b)>>
          \/ packets = << [origid |-> c, command |-> "bus_flush",
                           block |-> [tag |-> tsram[c][b.index].tag, index |-> b.index],
                           data |-> dsram[c][b.index][offset]],
                          Fetch(c, command, b) >>
          \/ packets = <<Fetch(c, command, b), Delay>>
    BY Zenon DEF Requested
  <1>2. Fetch(c, command, b) \in BusPacket
    BY MemoryAssumption DEF Fetch, BusPacket
  <1>3. [origid |-> c, command |-> "bus_flush",
         block |-> [tag |-> tsram[c][b.index].tag, index |-> b.index],
         data |-> dsram[c][b.index][offset]] \in BusPacket
    <2>1. b.index \in Indexes
      BY DEF Blocks
    <2>2. tsram[c][b.index].tag \in Tags /\ dsram[c][b.index][offset] \in Data
      BY <2>1 DEF MachineType, CacheTypeOK, Line
    <2> QED BY <2>1, <2>2 DEF BusPacket, Blocks
  <1>4. Delay \in BusPacket
    BY DelayType
  <1>5. \A e, f \in BusPacket : <<e>> \in Seq(BusPacket) /\ <<e, f>> \in Seq(BusPacket)
    OBVIOUS
  <1> QED BY <1>1, <1>2, <1>3, <1>4, <1>5, Zenon

\* An access is to a word of a block.
LEMMA AnyAccessParts ==
  ASSUME NEW r \in AnyAccess
  PROVE  /\ r.op \in {"lw", "sw"}
         /\ r.address.block \in Blocks /\ r.address.offset \in Offsets
         /\ r.address.block.tag \in Tags /\ r.address.block.index \in Indexes
  BY DEF AnyAccess, Addresses, Blocks

\* The start has the types: nothing is in the caches, and memory holds any content.
LEMMA StartType ==
  ASSUME NEW content \in [Blocks -> [Offsets -> Data]], Start(content)
  PROVE  MachineType /\ TimerBound
  <1>1. MemoryTypeOK /\ TimerBound
    <2>1. MEMORY_DELAY_TO_LAST_BYTE_OF_WORD \in Nat
      BY ConstantFacts DEF MEMORY_DELAY_TO_LAST_BYTE_OF_WORD
    <2>2. 0 \in 0..(MEMORY_DELAY_TO_LAST_BYTE_OF_WORD + 1)
      BY <2>1
    <2>3. memory = content /\ is_memory_operation = FALSE /\ main_memory_response_time = 0
      BY DEF Start, MemoryInit
    <2> QED BY <2>2, <2>3 DEF MemoryTypeOK, TimerBound
  <1>2. CacheTypeOK
    <2>1. [tag |-> 0, mesi |-> "invalid"] \in Line /\ 0 \in Data
      BY MemoryAssumption DEF Line, Mesi
    <2> QED BY <2>1 DEF Start, CacheInit, CacheTypeOK
  <1>3. current_data_on_bus \in BusPacket
    BY DelayType, ConstantFacts DEF Start, BusPacket
  <1>4. list \in Seq(BusPacket)
    BY EmptySeq DEF Start
  <1> QED BY <1>1, <1>2, <1>3, <1>4, ConstantFacts DEF Start, MachineType

\* The packet that operate_bus carries on with is a core's.
OperatingFor == is_bus_operating => current_data_on_bus.origid \in Cores

\* No call leaves the types.
LEMMA StepType ==
  ASSUME MachineType, TimerBound, OperatingFor, MachineStep
  PROVE  MachineType' /\ TimerBound'
  <1>1. Content \in [Blocks -> [Offsets -> Data]]
    BY ContentType
  <1>2. Retired \in [Cores -> {"idle", "ready", "operate", "final"}]
    BY RetiredType
  <1>3. list # <<>> => Head(list) \in BusPacket /\ Tail(list) \in Seq(BusPacket)
    BY HeadTailProperties DEF MachineType
  <1>4. CASE BusIdle
    <2>1. current_data_on_bus' \in BusPacket
      BY <1>4 DEF BusIdle, MachineType, BusPacket
    <2>2. MemoryTypeOK' /\ TimerBound'
      BY <1>1, <1>4 DEF BusIdle, MachineType, MemoryTypeOK, TimerBound
    <2>3. CacheTypeOK'
      BY <1>4 DEF BusIdle, MachineType, CacheTypeOK, cacheVars
    <2> QED BY <1>2, <1>4, <2>1, <2>2, <2>3 DEF BusIdle, MachineType
  <1>5. CASE BusDelay
    <2>1. current_data_on_bus' \in BusPacket /\ list' \in Seq(BusPacket)
      BY <1>3, <1>5 DEF BusDelay, Pop
    <2>2. MemoryTypeOK' /\ TimerBound'
      BY <1>1, <1>5 DEF BusDelay, MachineType, MemoryTypeOK, TimerBound
    <2>3. CacheTypeOK'
      BY <1>5 DEF BusDelay, MachineType, CacheTypeOK, cacheVars
    <2> QED BY <1>2, <1>5, <2>1, <2>2, <2>3 DEF BusDelay, MachineType
  <1>6. CASE BusGrant
    <2>1. /\ current_data_on_bus' \in BusPacket /\ list' \in Seq(BusPacket)
          /\ Head(list) \in BusPacket /\ Head(list).origid \in Cores
          /\ CycleOf(Head(list), 0, TRUE)
      BY <1>3, <1>6 DEF BusGrant, Pop
    <2>2. 0 \in Offsets
      BY ConstantFacts
    <2> QED BY <2>1, <2>2, CycleType DEF MachineType
  <1>7. CASE BusContinue
    <2>1. /\ current_data_on_bus' \in BusPacket /\ list' \in Seq(BusPacket)
          /\ current_data_on_bus.origid \in Cores
          /\ CycleOf(current_data_on_bus, offset_of_address, flag_for_initial_shared)
      BY <1>7 DEF BusContinue, MachineType, OperatingFor
    <2>2. /\ current_data_on_bus \in BusPacket /\ offset_of_address \in Offsets
          /\ flag_for_initial_shared \in BOOLEAN
      BY DEF MachineType
    <2> QED BY <2>1, <2>2, CycleType DEF MachineType
  <1>8. ASSUME NEW c \in Cores, NEW r \in AnyAccess, Access(c, r)
        PROVE  MachineType' /\ TimerBound'
    <2>1. CASE UNCHANGED MachineVars
      BY <2>1 DEF MachineVars, memoryVars, cacheVars, busVars, MachineType, TimerBound,
                  MemoryTypeOK, CacheTypeOK
    <2>2. ASSUME NEW packets, Requested(c, r.address.block, r.address.offset, packets),
                 Push(c, packets)
          PROVE  MachineType' /\ TimerBound'
      <3>1. packets \in Seq(BusPacket)
        BY <2>2, RequestedType, AnyAccessParts
      <3>2. list' \in Seq(BusPacket)
        BY <2>2, <3>1, ConcatProperties DEF Push, MachineType
      <3> QED BY <2>2, <3>2 DEF Push, memoryVars, cacheVars, MachineType, TimerBound,
                                MemoryTypeOK, CacheTypeOK
    <2>3. ASSUME NEW word \in Data, WriteHit(c, r, word)
          PROVE  MachineType' /\ TimerBound'
      <3>1. CacheTypeOK'
        <4>1. /\ tsram \in [Cores -> [Indexes -> Line]]
              /\ dsram \in [Cores -> [Indexes -> [Offsets -> Data]]]
          BY DEF MachineType, CacheTypeOK
        <4>2. r.address.block.index \in Indexes /\ r.address.offset \in Offsets
          BY AnyAccessParts
        <4>3. dsram' \in [Cores -> [Indexes -> [Offsets -> Data]]]
          BY <2>3, <4>1, <4>2 DEF WriteHit
        <4>4. tsram' \in [Cores -> [Indexes -> Line]]
          <5>1. \A line \in Line : [line EXCEPT !.mesi = "modified"] \in Line
            BY DEF Line, Mesi
          <5> QED BY <2>3, <4>1, <4>2, <5>1 DEF WriteHit
        <4> QED BY <4>3, <4>4 DEF CacheTypeOK
      <3> QED BY <2>3, <3>1 DEF WriteHit, memoryVars, busVars, MachineType, TimerBound,
                                MemoryTypeOK
    <2> QED BY <1>8, <2>1, <2>2, <2>3, AccessCases
  <1>9. CASE UNCHANGED MachineVars
    BY <1>9 DEF MachineVars, memoryVars, cacheVars, busVars, MachineType, TimerBound,
                MemoryTypeOK, CacheTypeOK
  <1> QED BY <1>4, <1>5, <1>6, <1>7, <1>8, <1>9 DEF MachineStep

-----------------------------------------------------------------------------
(* Bus and main memory count in step.                                      *)

\* Memory has moved as many words as the bus counts.
LEMMA WordsInStep ==
  ASSUME MachineType, TransferInStep, NEW direct, is_bus_operating,
         direct \/ is_memory_operation \/ ~Answers(direct)
  PROVE  /\ ResponseTime(direct) \in Nat
         /\ ~Answers(direct) => offset_of_address = 0
         /\ Answers(direct) => ResponseTime(direct) = MEMORY_DELAY_TO_FIRST_BYTE + offset_of_address
  <1> DEFINE delay == MEMORY_DELAY_TO_FIRST_BYTE
  <1>1. /\ delay \in Nat /\ offset_of_address \in Nat /\ main_memory_response_time \in Nat
        /\ is_memory_operation \in BOOLEAN
    BY ConstantFacts DEF MachineType, MemoryTypeOK, Offsets
  <1>2. CASE is_memory_operation
    <2>1. ResponseTime(direct) = main_memory_response_time
      BY <1>2 DEF ResponseTime
    <2>2. main_memory_response_time > delay => offset_of_address = main_memory_response_time - delay
      BY <1>2 DEF TransferInStep
    <2>3. offset_of_address > 0 => main_memory_response_time > delay
      BY DEF TransferInStep
    <2> HIDE DEF delay
    <2> QED BY <1>1, <2>1, <2>2, <2>3 DEF Answers, delay
  <1>3. CASE ~is_memory_operation
    <2>1. offset_of_address = 0
      BY <1>1, <1>3 DEF TransferInStep
    <2>2. ResponseTime(direct) = IF direct THEN delay ELSE 0
      BY <1>3 DEF ResponseTime
    <2> QED BY <1>1, <1>3, <2>1, <2>2 DEF Answers
  <1> QED BY <1>2, <1>3

\* Memory answers in no call that grants the bus: its timer has to start first.
LEMMA NoWordWhenGranted ==
  ASSUME MachineType, TransferInStep, ~is_bus_operating, NEW t, NEW offset
  PROVE  ~MoveWord(t, offset, TRUE)
  <1> SUFFICES ASSUME MoveWord(t, offset, TRUE) PROVE FALSE
    OBVIOUS
  <1>1. ~is_memory_operation
    BY DEF TransferInStep
  <1>2. ~Changed(t.origid, t.block) /\ Answers(Changed(t.origid, t.block))
    BY DEF MoveWord
  <1>3. ResponseTime(Changed(t.origid, t.block)) = 0
    BY <1>1, <1>2 DEF ResponseTime
  <1> QED BY <1>2, <1>3, ConstantFacts DEF Answers

\* The cycles of one transaction keep bus and memory in step.
LEMMA CycleTransfer ==
  ASSUME MachineType, TransferInStep, NEW t, NEW flag,
         \/ is_bus_operating /\ CycleOf(t, offset_of_address, flag)
         \/ ~is_bus_operating /\ CycleOf(t, 0, TRUE)
  PROVE  TransferInStep'
  <1> DEFINE delay == MEMORY_DELAY_TO_FIRST_BYTE
             changed == Changed(t.origid, t.block)
  <1>1. /\ delay \in Nat /\ delay >= 1 /\ BLOCK_SIZE \in Nat /\ BLOCK_SIZE >= 1
        /\ offset_of_address \in Nat /\ offset_of_address <= BLOCK_SIZE - 1
    BY ConstantFacts DEF MachineType, Offsets
  <1>2. CASE is_bus_operating /\ HoldBack(t, offset_of_address, flag)
    <2>1. /\ UNCHANGED <<is_memory_operation, main_memory_response_time, offset_of_address>>
          /\ is_bus_operating' = TRUE
      BY <1>2 DEF HoldBack
    <2> QED BY <2>1, <1>2 DEF TransferInStep
  <1>3. CASE ~is_bus_operating /\ HoldBack(t, 0, TRUE)
    <2>1. /\ UNCHANGED <<is_memory_operation, main_memory_response_time>>
          /\ is_bus_operating' = TRUE /\ offset_of_address' = 0
      BY <1>3 DEF HoldBack
    <2>2. ~is_memory_operation
      BY <1>3 DEF TransferInStep
    <2> QED BY <2>1, <2>2 DEF TransferInStep
  <1>4. CASE AwaitMemory(t, 0, TRUE) \/ (is_bus_operating /\ AwaitMemory(t, offset_of_address, flag))
    <2>1. ~Answers(changed) /\ TimerStep(changed) /\ is_bus_operating' = TRUE
      BY <1>4 DEF AwaitMemory
    <2>2. offset_of_address' = 0
      BY <1>4, <2>1, WordsInStep DEF AwaitMemory
    <2>3. ResponseTime(changed) \in Nat
      BY ConstantFacts DEF ResponseTime, MachineType, MemoryTypeOK
    <2>4. main_memory_response_time' <= delay
      BY <1>1, <2>1, <2>3 DEF Answers, TimerStep
    <2>5. main_memory_response_time' \in Nat
      BY <2>1, <2>3 DEF TimerStep
    <2>6. ~(main_memory_response_time' > delay) /\ ~(offset_of_address' > 0)
      BY <1>1, <2>2, <2>4, <2>5
    <2> QED BY <2>1, <2>6 DEF TransferInStep
  <1>5. CASE is_bus_operating /\ MoveWord(t, offset_of_address, flag)
    <2>1. Answers(changed) /\ TimerStep(changed)
      BY <1>5 DEF MoveWord
    <2>2. changed \/ is_memory_operation
      BY <1>1, <2>1 DEF Answers, ResponseTime
    <2>3. ResponseTime(changed) = delay + offset_of_address
      BY <1>5, <2>1, <2>2, WordsInStep
    <2>4. main_memory_response_time' = delay + offset_of_address + 1
      BY <2>1, <2>3 DEF TimerStep
    <2>5. is_memory_operation' = (delay + offset_of_address # delay + BLOCK_SIZE - 1)
      BY <2>1, <2>3 DEF TimerStep, MEMORY_DELAY_TO_LAST_BYTE_OF_WORD
    <2>6. /\ offset_of_address' = IF offset_of_address = BLOCK_SIZE - 1
                                  THEN offset_of_address ELSE offset_of_address + 1
          /\ is_bus_operating' = (offset_of_address # BLOCK_SIZE - 1)
      BY <1>5 DEF MoveWord
    <2> HIDE DEF delay, changed
    <2>7. CASE offset_of_address = BLOCK_SIZE - 1
      <3>1. ~is_memory_operation' /\ ~is_bus_operating'
        BY <1>1, <2>5, <2>6, <2>7
      <3> QED BY <3>1 DEF TransferInStep
    <2>8. CASE offset_of_address # BLOCK_SIZE - 1
      <3>1. is_memory_operation' /\ is_bus_operating'
        <4>1. delay + offset_of_address # delay + BLOCK_SIZE - 1
          BY <1>1, <2>8
        <4> QED BY <4>1, <2>5, <2>6, <2>8, Zenon
      <3>2. offset_of_address' = offset_of_address + 1
        BY <2>6, <2>8
      <3>3. main_memory_response_time' > delay
            /\ offset_of_address' = main_memory_response_time' - delay
        BY <1>1, <2>4, <3>2
      <3> QED BY <3>1, <3>3 DEF TransferInStep, delay
    <2> QED BY <2>7, <2>8
  <1>6. ~is_bus_operating => ~MoveWord(t, 0, TRUE)
    BY NoWordWhenGranted
  <1> QED BY <1>2, <1>3, <1>4, <1>5, <1>6 DEF CycleOf

\* No call brings bus and memory out of step.
LEMMA StepTransfer ==
  ASSUME MachineType, TransferInStep, MachineStep
  PROVE  TransferInStep'
  <1>1. CASE BusIdle \/ BusDelay
    BY <1>1 DEF BusIdle, BusDelay, TransferInStep
  <1>2. CASE BusGrant
    BY <1>2, CycleTransfer DEF BusGrant
  <1>3. CASE BusContinue
    BY <1>3, CycleTransfer DEF BusContinue
  <1>4. ASSUME NEW c \in Cores, NEW r \in AnyAccess, Access(c, r)
        PROVE  TransferInStep'
    <2>1. UNCHANGED <<is_bus_operating, offset_of_address, memoryVars>>
      BY <1>4, AccessCases DEF Push, WriteHit, MachineVars, busVars
    <2> QED BY <2>1 DEF memoryVars, TransferInStep
  <1>5. CASE UNCHANGED MachineVars
    BY <1>5 DEF MachineVars, memoryVars, busVars, TransferInStep
  <1> QED BY <1>1, <1>2, <1>3, <1>4, <1>5 DEF MachineStep

\* No transaction runs at the start.
LEMMA StartTransfer ==
  ASSUME NEW content, Start(content)
  PROVE  TransferInStep
  BY DEF Start, MemoryInit, TransferInStep

-----------------------------------------------------------------------------
(* The machine implements the arbiter of Bus.tla.                          *)

\* The list without blocks and data, as the arbiter sees it.
Controls(l) == [i \in DOMAIN l |-> Control(l[i])]

\* A packet without block and data is a packet of the arbiter.
LEMMA ControlFacts ==
  ASSUME NEW p \in BusPacket
  PROVE  /\ Control(p) \in P!Packet
         /\ Control(p).origid = p.origid /\ Control(p).command = p.command
  BY DEF Control, BusPacket, P!Packet, P!Commands, P!Fetches, P!Cores, Cores,
         P!ErrOriginator, ErrOriginator

\* Node by node, the arbiter's list is the machine's.
LEMMA ControlsFacts ==
  ASSUME NEW l \in Seq(BusPacket)
  PROVE  /\ Controls(l) \in Seq(P!Packet)
         /\ Len(Controls(l)) = Len(l) /\ Len(l) \in Nat
         /\ \A i \in 1..Len(l) : l[i] \in BusPacket /\ Controls(l)[i] = Control(l[i])
  <1>1. Len(l) \in Nat /\ DOMAIN l = 1..Len(l) /\ \A i \in 1..Len(l) : l[i] \in BusPacket
    BY LenProperties, ElementOfSeq
  <1>2. \A i \in 1..Len(l) : Control(l[i]) \in P!Packet
    BY <1>1, ControlFacts
  <1>3. Controls(l) = [i \in 1..Len(l) |-> Control(l[i])]
    BY <1>1 DEF Controls
  <1>4. Controls(l) \in [1..Len(l) -> P!Packet]
    BY <1>2, <1>3
  <1>5. Controls(l) \in Seq(P!Packet) /\ Len(Controls(l)) = Len(l)
    BY <1>1, <1>3, <1>4
  <1> QED BY <1>1, <1>3, <1>5

\* The oldest node and the others, as BusProofs.tla has them.
LEMMA PopNode ==
  ASSUME NEW T, NEW l \in Seq(T), l # <<>>
  PROVE  /\ Head(l) \in T /\ Head(l) = l[1]
         /\ Tail(l) \in Seq(T)
         /\ Len(l) \in Nat /\ Len(l) >= 1
         /\ Len(Tail(l)) = Len(l) - 1
         /\ \A i \in 1..Len(Tail(l)) : i + 1 \in 1..Len(l) /\ Tail(l)[i] = l[i + 1]
  BY P!PopFacts, CacheAssumption, MemoryAssumption
  DEF P!CoresAssumption, P!BlockSizeAssumption

\* Popping a node pops it from both lists.
LEMMA ControlsPop ==
  ASSUME NEW l \in Seq(BusPacket)
  PROVE  /\ Controls(l) = <<>> <=> l = <<>>
         /\ l # <<>> => /\ Head(l) \in BusPacket /\ Tail(l) \in Seq(BusPacket)
                        /\ Head(Controls(l)) = Control(Head(l))
                        /\ Tail(Controls(l)) = Controls(Tail(l))
  <1>1. /\ Controls(l) \in Seq(P!Packet) /\ Len(Controls(l)) = Len(l) /\ Len(l) \in Nat
        /\ \A i \in 1..Len(l) : l[i] \in BusPacket /\ Controls(l)[i] = Control(l[i])
    BY ControlsFacts
  <1>2. Controls(l) = <<>> <=> l = <<>>
    BY <1>1, EmptySeq
  <1>3. ASSUME l # <<>>
        PROVE  /\ Head(l) \in BusPacket /\ Tail(l) \in Seq(BusPacket)
               /\ Head(Controls(l)) = Control(Head(l))
               /\ Tail(Controls(l)) = Controls(Tail(l))
    <2> DEFINE c == Controls(l)
               t == Tail(l)
    <2>1. /\ Head(l) \in BusPacket /\ Head(l) = l[1] /\ t \in Seq(BusPacket)
          /\ Len(l) >= 1 /\ Len(t) = Len(l) - 1
          /\ \A i \in 1..Len(t) : i + 1 \in 1..Len(l) /\ t[i] = l[i + 1]
      BY <1>3, PopNode
    <2>2. /\ Head(c) = c[1] /\ Tail(c) \in Seq(P!Packet)
          /\ Len(Tail(c)) = Len(c) - 1
          /\ \A i \in 1..Len(Tail(c)) : Tail(c)[i] = c[i + 1]
      BY <1>1, <1>2, <1>3, PopNode
    <2>3. /\ Controls(t) \in Seq(P!Packet) /\ Len(Controls(t)) = Len(t)
          /\ \A i \in 1..Len(t) : Controls(t)[i] = Control(t[i])
      BY <2>1, ControlsFacts
    <2> HIDE DEF c, t
    <2>4. \A i \in 1..Len(Tail(c)) : Tail(c)[i] = Controls(t)[i]
      <3> TAKE i \in 1..Len(Tail(c))
      <3>1. i \in 1..Len(t) /\ i + 1 \in 1..Len(l)
        BY <1>1, <2>1, <2>2 DEF c
      <3>2. Tail(c)[i] = Control(l[i + 1])
        BY <1>1, <2>2, <3>1 DEF c
      <3> QED BY <2>1, <2>3, <3>1, <3>2
    <2>5. Len(Tail(c)) = Len(Controls(t))
      BY <1>1, <2>1, <2>2, <2>3 DEF c
    <2>6. Tail(c) = Controls(t)
      BY <2>2, <2>3, <2>4, <2>5, SeqEqual, Zenon
    <2>7. Head(c) = Control(Head(l))
      BY <1>1, <2>1, <2>2 DEF c
    <2> QED BY <2>1, <2>6, <2>7 DEF c, t
  <1> QED BY <1>2, <1>3

\* Pushing packets pushes them to both lists.
LEMMA ControlsPush ==
  ASSUME NEW l \in Seq(BusPacket), NEW m \in Seq(BusPacket)
  PROVE  Controls(l \o m) = Controls(l) \o Controls(m)
  <1> DEFINE s == Controls(l \o m)
             t == Controls(l) \o Controls(m)
  <1>1. /\ Controls(l) \in Seq(P!Packet) /\ Len(Controls(l)) = Len(l) /\ Len(l) \in Nat
        /\ \A i \in 1..Len(l) : Controls(l)[i] = Control(l[i])
    BY ControlsFacts
  <1>2. /\ Controls(m) \in Seq(P!Packet) /\ Len(Controls(m)) = Len(m) /\ Len(m) \in Nat
        /\ \A i \in 1..Len(m) : Controls(m)[i] = Control(m[i])
    BY ControlsFacts
  <1>3. /\ l \o m \in Seq(BusPacket) /\ Len(l \o m) = Len(l) + Len(m)
        /\ \A i \in 1..(Len(l) + Len(m)) :
             (l \o m)[i] = IF i <= Len(l) THEN l[i] ELSE m[i - Len(l)]
    BY ConcatProperties
  <1>4. /\ s \in Seq(P!Packet) /\ Len(s) = Len(l) + Len(m)
        /\ \A i \in 1..(Len(l) + Len(m)) : s[i] = Control((l \o m)[i])
    <2>1. /\ Controls(l \o m) \in Seq(P!Packet) /\ Len(Controls(l \o m)) = Len(l \o m)
          /\ \A i \in 1..Len(l \o m) : Controls(l \o m)[i] = Control((l \o m)[i])
      BY <1>3, ControlsFacts, Zenon
    <2> QED BY <2>1, <1>3
  <1>5. /\ t \in Seq(P!Packet) /\ Len(t) = Len(l) + Len(m)
        /\ \A i \in 1..(Len(l) + Len(m)) :
             t[i] = IF i <= Len(l) THEN Controls(l)[i] ELSE Controls(m)[i - Len(l)]
    <2> DEFINE x == Controls(l)
               y == Controls(m)
    <2>1. x \in Seq(P!Packet) /\ y \in Seq(P!Packet) /\ Len(x) = Len(l) /\ Len(y) = Len(m)
      BY <1>1, <1>2
    <2> HIDE DEF x, y
    <2>2. /\ x \o y \in Seq(P!Packet) /\ Len(x \o y) = Len(x) + Len(y)
          /\ \A i \in 1..(Len(x) + Len(y)) :
               (x \o y)[i] = IF i <= Len(x) THEN x[i] ELSE y[i - Len(x)]
      BY <2>1, ConcatProperties
    <2> QED BY <2>1, <2>2 DEF x, y
  <1>6. \A i \in 1..Len(s) : s[i] = t[i]
    <2> HIDE DEF s, t
    <2> TAKE i \in 1..Len(s)
    <2>1. i \in 1..(Len(l) + Len(m))
      BY <1>4
    <2>2. CASE i <= Len(l)
      <3>1. i \in 1..Len(l)
        BY <1>1, <2>1, <2>2
      <3> QED BY <1>1, <1>3, <1>4, <1>5, <2>1, <2>2, <3>1
    <2>3. CASE ~(i <= Len(l))
      <3>1. i - Len(l) \in 1..Len(m)
        BY <1>1, <1>2, <2>1, <2>3
      <3> QED BY <1>2, <1>3, <1>4, <1>5, <2>1, <2>3, <3>1
    <2> QED BY <2>2, <2>3
  <1> HIDE DEF s, t
  <1>7. s = t
    BY <1>4, <1>5, <1>6, SeqEqual, Zenon
  <1> QED BY <1>7 DEF s, t

MachineInv ==
    /\ MachineType
    /\ TimerBound
    /\ TransferInStep
    /\ P!BusInv
    /\ P!UpgradeWithoutEviction

\* A running transaction is a core's that is not retired yet: no status changes before its
\* last word.
LEMMA OwnerFacts ==
  ASSUME MachineType, P!BusInv, is_bus_operating
  PROVE  /\ current_data_on_bus.origid \in Cores
         /\ core_operating_state[current_data_on_bus.origid] = "operate"
         /\ Retired = core_operating_state
  <1>1. Control(current_data_on_bus).origid = current_data_on_bus.origid
    BY DEF Control
  <1>2. PICK c \in Cores : core_operating_state[c] = "operate" /\ c = current_data_on_bus.origid
    BY <1>1 DEF P!BusInv, P!SingleOwner, P!Owns, P!Cores, Cores
  <1>3. \A k \in Cores : Retired[k] = core_operating_state[k]
    BY <1>2 DEF Retired
  <1>4. Retired = core_operating_state
    BY <1>3 DEF Retired, MachineType
  <1> QED BY <1>2, <1>4

\* The machine retires what the arbiter retires.
LEMMA SameRetired == Retired = P!Retired
  BY DEF Retired, P!Retired, Control, Cores, P!Cores

\* An idle call of operate_bus and the one that pops the container are the arbiter's.
LEMMA IdleRefines ==
  ASSUME MachineType, BusIdle \/ BusDelay
  PROVE  P!Next
  <1>1. list \in Seq(BusPacket) /\ current_data_on_bus \in BusPacket
    BY DEF MachineType
  <1>2. CASE BusIdle
    <2>1. /\ ~is_bus_operating /\ list = <<>> /\ list' = list
          /\ current_data_on_bus' = [current_data_on_bus EXCEPT !.origid = ErrOriginator]
          /\ core_operating_state' = Retired
          /\ UNCHANGED <<is_bus_operating, offset_of_address>>
      BY <1>2 DEF BusIdle
    <2>2. Controls(list) = <<>> /\ Controls(list') = Controls(list)
      BY <1>1, <2>1, ControlsPop
    <2>3. Control(current_data_on_bus')
            = [Control(current_data_on_bus) EXCEPT !.origid = P!ErrOriginator]
      BY <1>1, <2>1 DEF Control, BusPacket, ErrOriginator, P!ErrOriginator
    <2>4. P!OperateIdle
      BY <2>1, <2>2, <2>3, SameRetired DEF P!OperateIdle, Controls
    <2> QED BY <2>4 DEF P!Next, P!OperateBus
  <1>3. CASE BusDelay
    <2>1. /\ ~is_bus_operating /\ list # <<>>
          /\ list' = Tail(list) /\ current_data_on_bus' = Head(list)
          /\ Head(list).origid = ErrOriginator
          /\ core_operating_state' = Retired
          /\ UNCHANGED <<is_bus_operating, offset_of_address>>
      BY <1>3 DEF BusDelay, Pop
    <2>2. /\ Controls(list) # <<>> /\ Controls(list') = Tail(Controls(list))
          /\ Control(current_data_on_bus') = Head(Controls(list))
      BY <1>1, <2>1, ControlsPop
    <2>3. Head(Controls(list)).origid = P!ErrOriginator
      BY <1>1, <2>1, ControlsPop, ControlFacts DEF ErrOriginator, P!ErrOriginator
    <2>4. P!OperateDelay
      BY <2>1, <2>2, <2>3, SameRetired DEF P!OperateDelay, Controls
    <2> QED BY <2>4 DEF P!Next, P!OperateBus
  <1> QED BY <1>2, <1>3

\* The call that pops a transaction grants the bus and moves no word.
LEMMA GrantRefines ==
  ASSUME MachineType, TransferInStep, BusGrant
  PROVE  P!Next
  <1> DEFINE t == Head(list)
  <1>1. list \in Seq(BusPacket)
    BY DEF MachineType
  <1>2. /\ ~is_bus_operating /\ list # <<>>
        /\ list' = Tail(list) /\ current_data_on_bus' = t
        /\ t.origid \in Cores /\ CycleOf(t, 0, TRUE)
    BY DEF BusGrant, Pop
  <1>3. /\ core_operating_state' = [Retired EXCEPT ![t.origid] = "operate"]
        /\ is_bus_operating' = TRUE /\ offset_of_address' = 0
    BY <1>2, NoWordWhenGranted DEF CycleOf, HoldBack, AwaitMemory
  <1>4. /\ Controls(list) # <<>> /\ Controls(list') = Tail(Controls(list))
        /\ Head(Controls(list)) = Control(t) /\ t \in BusPacket
    BY <1>1, <1>2, ControlsPop
  <1>5. Head(Controls(list)).origid = t.origid /\ t.origid \in P!Cores
    BY <1>2, <1>4, ControlFacts DEF Cores, P!Cores
  <1>6. Control(current_data_on_bus') = Head(Controls(list))
    BY <1>2, <1>4
  <1> HIDE DEF t
  <1>7. P!OperateGrant
    BY <1>2, <1>3, <1>4, <1>5, <1>6, SameRetired DEF P!OperateGrant, Controls
  <1> QED BY <1>7 DEF P!Next, P!OperateBus

\* The cycles of a running transaction move words for the arbiter, or nothing.
LEMMA ContinueRefines ==
  ASSUME MachineType, P!BusInv, BusContinue
  PROVE  P!Next \/ UNCHANGED P!vars
  <1> DEFINE t == current_data_on_bus
             o == offset_of_address
             S == core_operating_state
  <1>1. /\ is_bus_operating /\ UNCHANGED <<list, current_data_on_bus>>
        /\ CycleOf(t, o, flag_for_initial_shared)
    BY DEF BusContinue
  <1>2. t.origid \in Cores /\ S[t.origid] = "operate" /\ Retired = S
    BY <1>1, OwnerFacts
  <1>3. Control(t).origid = t.origid /\ o \in Nat /\ o <= BLOCK_SIZE - 1 /\ BLOCK_SIZE \in Nat
    BY ConstantFacts DEF Control, MachineType, Offsets
  <1>4. Controls(list') = Controls(list) /\ Control(current_data_on_bus') = Control(t)
    BY <1>1
  <1>5. [Retired EXCEPT ![t.origid] = "operate"] = S
    <2>1. S \in [Cores -> {"idle", "ready", "operate", "final"}]
      BY DEF MachineType
    <2> HIDE DEF t, S
    <2> QED BY <1>2, <2>1
  <1>6. CASE \/ HoldBack(t, o, flag_for_initial_shared)
             \/ AwaitMemory(t, o, flag_for_initial_shared)
    <2>1. /\ core_operating_state' = S
          /\ is_bus_operating' = is_bus_operating /\ offset_of_address' = offset_of_address
      BY <1>1, <1>5, <1>6 DEF HoldBack, AwaitMemory, MachineType
    <2> QED BY <2>1, <1>4 DEF P!vars, Controls
  <1>7. CASE MoveWord(t, o, flag_for_initial_shared)
    <2>1. /\ offset_of_address' = IF o = BLOCK_SIZE - 1 THEN o ELSE o + 1
          /\ core_operating_state' =
               [Retired EXCEPT ![t.origid] = IF o = BLOCK_SIZE - 1 THEN "final" ELSE "operate"]
          /\ is_bus_operating' = (o # BLOCK_SIZE - 1)
      BY <1>7 DEF MoveWord
    <2>2. CASE o = BLOCK_SIZE - 1
      <3>1. /\ offset_of_address' = o
            /\ core_operating_state' = [S EXCEPT ![Control(t).origid] = "final"]
            /\ is_bus_operating' = FALSE
        BY <2>1, <2>2, <1>2, <1>3
      <3>2. P!OperateFinish
        BY <3>1, <2>2, <1>1, <1>4 DEF P!OperateFinish, Controls
      <3> QED BY <3>2 DEF P!Next, P!OperateBus
    <2>3. CASE o # BLOCK_SIZE - 1
      <3>1. /\ offset_of_address' = o + 1 /\ o < BLOCK_SIZE - 1
            /\ core_operating_state' = S
        BY <2>1, <2>3, <1>3, <1>5
      <3>2. is_bus_operating' = TRUE
        BY <2>1, <2>3
      <3>3. is_bus_operating' = is_bus_operating
        BY <3>2, <1>1 DEF MachineType
      <3>4. P!OperateWord
        BY <3>1, <3>3, <1>1, <1>4 DEF P!OperateWord, Controls
      <3> QED BY <3>4 DEF P!Next, P!OperateBus
    <2> QED BY <2>2, <2>3
  <1> QED BY <1>1, <1>6, <1>7 DEF CycleOf

\* One packet, or two, as the arbiter sees them.
LEMMA ControlsOfFew ==
  ASSUME NEW e \in BusPacket, NEW f \in BusPacket
  PROVE  /\ Controls(<<e>>) = <<Control(e)>>
         /\ Controls(<<e, f>>) = <<Control(e), Control(f)>>
  <1> DEFINE x == Control(e)
             y == Control(f)
             s == <<e, f>>
             t == <<x, y>>
  <1>1. x \in P!Packet /\ y \in P!Packet
    BY ControlFacts
  <1>2. Controls(<<e>>) = <<x>>
    BY DEF Controls
  <1>3. s \in Seq(BusPacket) /\ Len(s) = 2 /\ s[1] = e /\ s[2] = f
    OBVIOUS
  <1>4. /\ Controls(s) \in Seq(P!Packet) /\ Len(Controls(s)) = Len(s)
        /\ \A i \in 1..Len(s) : Controls(s)[i] = Control(s[i])
    BY <1>3, ControlsFacts
  <1>5. t \in Seq(P!Packet) /\ Len(t) = 2 /\ t[1] = x /\ t[2] = y
    <2> HIDE DEF x, y
    <2> QED BY <1>1
  <1> HIDE DEF s, t
  <1>6. \A i \in 1..Len(t) : Controls(s)[i] = t[i]
    <2>1. Controls(s)[1] = x /\ Controls(s)[2] = y
      BY <1>3, <1>4
    <2> QED BY <1>5, <2>1
  <1>7. Controls(s) = t
    BY <1>3, <1>4, <1>5, <1>6, SeqEqual, Zenon
  <1> QED BY <1>2, <1>7 DEF s, t

\* A request is one of the arbiter's: for a clean line, for a modified one, or for a shared
\* one.
LEMMA RequestRefines ==
  ASSUME MachineType, NEW c \in Cores, NEW b \in Blocks, NEW offset \in Offsets,
         NEW packets, Requested(c, b, offset, packets), ~IsBusBusy(c), Push(c, packets)
  PROVE  P!Next
  <1> DEFINE e == [origid |-> c, command |-> "bus_flush",
                   block |-> [tag |-> tsram[c][b.index].tag, index |-> b.index],
                   data |-> dsram[c][b.index][offset]]
  <1>1. c \in P!Cores
    BY DEF Cores, P!Cores
  <1>2. /\ list \in Seq(BusPacket) /\ packets \in Seq(BusPacket)
        /\ \A s \in Seq(BusPacket) : s = packets => Controls(list') = Controls(list) \o Controls(s)
    BY RequestedType, ControlsPush DEF MachineType, Push
  <1>3. P!PushNewBusOperations(c, Controls(packets))
    <2>1. /\ Controls(list') = Controls(list) \o Controls(packets)
          /\ core_operating_state' = [core_operating_state EXCEPT ![c] = "ready"]
          /\ UNCHANGED <<is_bus_operating, current_data_on_bus, offset_of_address>>
      BY <1>2 DEF Push
    <2>2. Control(current_data_on_bus') = Control(current_data_on_bus)
      BY <2>1
    <2>3. ~P!IsBusBusy(c)
      BY DEF IsBusBusy, P!IsBusBusy
    <2> QED BY <2>1, <2>2, <2>3 DEF P!PushNewBusOperations, Controls
  <1>4. PICK command \in {"bus_read", "bus_read_exclusive"} :
          \/ packets = <<Fetch(c, command, b)>>
          \/ packets = <<e, Fetch(c, command, b)>>
          \/ command = "bus_read_exclusive" /\ packets = <<Fetch(c, command, b), Delay>>
    BY Zenon DEF Requested
  <1> DEFINE f == Fetch(c, command, b)
  <1>5. f \in BusPacket /\ Control(f) = P!NewPacket(c, command) /\ command \in P!Fetches
    BY MemoryAssumption DEF Fetch, BusPacket, Control, P!NewPacket, P!Fetches
  <1>6. e \in BusPacket /\ Control(e) = P!NewPacket(c, "bus_flush")
    <2>1. b.index \in Indexes
      BY DEF Blocks
    <2>2. tsram[c][b.index].tag \in Tags /\ dsram[c][b.index][offset] \in Data
      BY <2>1 DEF MachineType, CacheTypeOK, Line
    <2>3. e \in BusPacket
      BY <2>1, <2>2 DEF BusPacket, Blocks
    <2> QED BY <2>3 DEF Control, P!NewPacket
  <1>7. Delay \in BusPacket /\ Control(Delay) = P!Delay
    BY DelayType DEF Delay, Control, P!Delay, P!NewPacket, ErrOriginator, P!ErrOriginator
  <1> HIDE DEF e, f
  <1>8. CASE packets = <<f>>
    <2>1. P!PushNewBusOperations(c, <<P!NewPacket(c, command)>>)
      BY <1>3, <1>5, <1>8, ControlsOfFew
    <2>2. P!RequestClean(c)
      BY <1>5, <2>1, Zenon DEF P!RequestClean
    <2> QED BY <1>1, <2>2 DEF P!Next
  <1>9. CASE packets = <<e, f>>
    <2>1. P!PushNewBusOperations(c, <<P!NewPacket(c, "bus_flush"), P!NewPacket(c, command)>>)
      BY <1>3, <1>5, <1>6, <1>9, ControlsOfFew
    <2>2. P!RequestDirty(c)
      BY <1>5, <2>1, Zenon DEF P!RequestDirty
    <2> QED BY <1>1, <2>2 DEF P!Next
  <1>10. CASE command = "bus_read_exclusive" /\ packets = <<f, Delay>>
    <2>1. P!PushNewBusOperations(c, <<P!NewPacket(c, "bus_read_exclusive"), P!Delay>>)
      BY <1>3, <1>5, <1>7, <1>10, ControlsOfFew
    <2>2. P!RequestUpgrade(c)
      BY <2>1 DEF P!RequestUpgrade
    <2> QED BY <1>1, <2>2 DEF P!Next
  <1> QED BY <1>4, <1>8, <1>9, <1>10 DEF f

\* Every call is a step of the arbiter, or none.
LEMMA StepRefines ==
  ASSUME MachineType, TransferInStep, P!BusInv, MachineStep
  PROVE  [P!Next]_(P!vars)
  <1>1. CASE BusIdle \/ BusDelay
    BY <1>1, IdleRefines
  <1>2. CASE BusGrant
    BY <1>2, GrantRefines
  <1>3. CASE BusContinue
    BY <1>3, ContinueRefines
  <1>4. ASSUME NEW c \in Cores, NEW r \in AnyAccess, Access(c, r)
        PROVE  P!Next \/ UNCHANGED P!vars
    <2>1. CASE UNCHANGED MachineVars
      BY <2>1 DEF MachineVars, busVars, P!vars
    <2>2. ASSUME NEW packets, Requested(c, r.address.block, r.address.offset, packets),
                 ~IsBusBusy(c), Push(c, packets)
          PROVE  P!Next
      BY <2>2, RequestRefines, AnyAccessParts
    <2>3. ASSUME NEW word, WriteHit(c, r, word) PROVE UNCHANGED P!vars
      BY <2>3 DEF WriteHit, busVars, P!vars
    <2> QED BY <1>4, <2>1, <2>2, <2>3, AccessCases
  <1>5. CASE UNCHANGED MachineVars
    BY <1>5 DEF MachineVars, busVars, P!vars
  <1> QED BY <1>1, <1>2, <1>3, <1>4, <1>5 DEF MachineStep

\* The start of the machine is the arbiter's.
LEMMA StartRefines ==
  ASSUME NEW content, Start(content)
  PROVE  P!Init
  <1>1. Controls(list) = <<>>
    BY DEF Start, Controls
  <1>2. Control(current_data_on_bus) = P!NewPacket(0, "idle")
    BY DEF Start, Delay, Control, P!NewPacket
  <1> QED BY <1>1, <1>2 DEF Start, P!Init, Controls, Cores, P!Cores

\* The invariant holds at the start, whatever memory holds.
LEMMA StartInv ==
  ASSUME NEW content \in [Blocks -> [Offsets -> Data]], Start(content)
  PROVE  MachineInv
  <1>1. P!Init
    BY StartRefines
  <1>2. P!BusInv
    BY <1>1, P!InitInv, CacheAssumption, MemoryAssumption
    DEF P!CoresAssumption, P!BlockSizeAssumption
  <1>3. P!UpgradeWithoutEviction
    BY <1>1, P!UpgradeInit, CacheAssumption, MemoryAssumption
    DEF P!CoresAssumption, P!BlockSizeAssumption
  <1> QED BY <1>2, <1>3, StartType, StartTransfer DEF MachineInv

\* Every call keeps the invariant.
LEMMA StepInv ==
  ASSUME MachineInv, MachineStep
  PROVE  MachineInv'
  <1>1. MachineType /\ TimerBound /\ TransferInStep /\ P!BusInv /\ P!UpgradeWithoutEviction
    BY DEF MachineInv
  <1>2. OperatingFor
    BY <1>1, OwnerFacts DEF OperatingFor
  <1>3. MachineType' /\ TimerBound' /\ TransferInStep'
    BY <1>1, <1>2, StepType, StepTransfer
  <1>4. [P!Next]_(P!vars)
    BY <1>1, StepRefines
  <1>5. P!BusInv'
    BY <1>1, <1>4, P!NextInv, CacheAssumption, MemoryAssumption
    DEF P!CoresAssumption, P!BlockSizeAssumption
  <1>6. P!UpgradeWithoutEviction'
    BY <1>1, <1>4, <1>5, P!UpgradeStep, CacheAssumption, MemoryAssumption
    DEF P!CoresAssumption, P!BlockSizeAssumption
  <1> QED BY <1>3, <1>5, <1>6 DEF MachineInv

-----------------------------------------------------------------------------
(* The theorems of the main loop.                                          *)

\* What the programs bring up, and whose turn it is.
ProgramType ==
    /\ \A c \in Cores : request[c] \in Accesses(c) \cup {None}
    /\ request = [c \in Cores |-> request[c]]
    /\ turn \in 0..CORES_NUMBER

\* The same of programs that may access all addresses.
LoopType ==
    /\ \A c \in Cores : request[c] \in AnyAccess \cup {None}
    /\ request = [c \in Cores |-> request[c]]
    /\ turn \in 0..CORES_NUMBER

\* The types of the main loop are those of the calls and those of the programs.
LEMMA TypeParts == MachineType /\ ProgramType => TypeOK
  BY DEF MachineType, ProgramType, TypeOK

\* Every turn has a successor.
LEMMA TurnType ==
  ASSUME turn \in 0..CORES_NUMBER, NextTurn
  PROVE  turn' \in 0..CORES_NUMBER
  <1>1. CORES_NUMBER \in Nat
    BY ConstantFacts
  <1>2. turn + 1 \in Nat /\ turn' = (turn + 1) % (CORES_NUMBER + 1)
    BY <1>1 DEF NextTurn
  <1> QED BY <1>1, <1>2

\* A step repeats the access of a core, brings up a new one, or ends it.
LEMMA ProgramStep ==
  ASSUME ProgramType, [Next]_vars
  PROVE  ProgramType'
  <1>1. CASE OperateBus
    BY <1>1, TurnType DEF OperateBus, ProgramType
  <1>2. ASSUME NEW c \in Cores, OperateCore(c) PROVE ProgramType'
    <2>1. turn' \in 0..CORES_NUMBER
      BY <1>2, TurnType DEF OperateCore, ProgramType
    <2>2. CASE NoAccess(c)
      BY <2>1, <2>2 DEF NoAccess, ProgramType
    <2>3. CASE MemStage(c)
      <3>1. PICK r \in Upcoming(c) : Access(c, r)
        BY <2>3 DEF MemStage
      <3>2. r \in Accesses(c)
        BY DEF Upcoming, ProgramType
      <3>3. request' = [request EXCEPT ![c] = r] \/ request' = [request EXCEPT ![c] = None]
        BY <3>1 DEF Access, Refused, TurnedAway, ReadMiss, WriteUpgrade, WriteMiss, ReadHit,
                    WriteHit, Stall, Succeed
      <3> QED BY <2>1, <3>2, <3>3 DEF ProgramType
    <2> QED BY <1>2, <2>2, <2>3 DEF OperateCore
  <1>3. CASE UNCHANGED vars
    BY <1>3 DEF vars, ProgramType
  <1> QED BY <1>1, <1>2, <1>3 DEF Next

\* The main loop starts with the zeros of its static variables.
LEMMA InitLoop == Init => MachineInv /\ ProgramType
  <1> SUFFICES ASSUME Init PROVE MachineInv /\ ProgramType
    OBVIOUS
  <1>1. [b \in Blocks |-> [o \in Offsets |-> 0]] \in [Blocks -> [Offsets -> Data]]
    BY MemoryAssumption
  <1>2. MachineInv
    BY <1>1, StartInv DEF Init
  <1>3. ProgramType
    BY ConstantFacts DEF Init, Start, ProgramType
  <1> QED BY <1>2, <1>3

\* The main loop keeps the invariant of the calls.
LEMMA NextLoop ==
  ASSUME MachineInv, ProgramType, [Next]_vars
  PROVE  MachineInv' /\ ProgramType'
  <1>1. TypeOK
    BY TypeParts DEF MachineInv
  <1> QED BY <1>1, NextIsMachineStep, StepInv, ProgramStep

\* Bus, caches, memory and programs are as the invariant says at all times.
LEMMA LoopInv == Spec => [](MachineInv /\ ProgramType)
  <1>1. MachineInv /\ ProgramType /\ [Next]_vars => (MachineInv /\ ProgramType)'
    BY NextLoop
  <1> QED BY <1>1, InitLoop, PTL DEF Spec

\* Bus, caches, memory and the memory stages keep their types.
THEOREM TypeCorrect == Spec => []TypeOK
  <1>1. MachineInv /\ ProgramType => TypeOK
    BY TypeParts DEF MachineInv
  <1> QED BY <1>1, LoopInv, PTL

\* The timer of main memory (main.c) and the word counter of the bus (bus.c) count in step,
\* whatever the delay and the size of a block.
THEOREM TransferInStepHolds == Spec => []TransferInStep
  <1>1. MachineInv /\ ProgramType => TransferInStep
    BY DEF MachineInv
  <1> QED BY <1>1, LoopInv, PTL

\* The two instances of Bus.tla define the same steps.
LEMMA SameArbiter ==
  /\ P!Init => B!Init
  /\ [P!Next]_(P!vars) => [B!Next]_(B!vars)
  <1>1. P!Init => B!Init
    BY DEF P!Init, B!Init, P!NewPacket, B!NewPacket, P!Cores, B!Cores
  <1>2. P!vars = B!vars /\ (UNCHANGED P!vars => UNCHANGED B!vars)
    BY DEF P!vars, B!vars
  <1>3. P!Retired = B!Retired
    BY DEF P!Retired, B!Retired, P!Cores, B!Cores
  <1>4. P!Cores = B!Cores /\ P!ErrOriginator = B!ErrOriginator
    BY SMT DEF P!Cores, B!Cores, P!ErrOriginator, B!ErrOriginator
  <1>5. P!OperateBus => B!OperateBus
    <2>1. P!OperateIdle => B!OperateIdle
      BY <1>3, <1>4 DEF P!OperateIdle, B!OperateIdle
    <2>2. P!OperateDelay => B!OperateDelay
      BY <1>3, <1>4 DEF P!OperateDelay, B!OperateDelay
    <2>3. P!OperateGrant => B!OperateGrant
      BY <1>3, <1>4 DEF P!OperateGrant, B!OperateGrant
    <2>4. P!OperateWord => B!OperateWord
      BY <1>3, <1>4 DEF P!OperateWord, B!OperateWord
    <2>5. P!OperateFinish => B!OperateFinish
      BY <1>3, <1>4 DEF P!OperateFinish, B!OperateFinish
    <2> QED BY <2>1, <2>2, <2>3, <2>4, <2>5 DEF P!OperateBus, B!OperateBus
  <1>6. ASSUME NEW c, NEW packets, P!PushNewBusOperations(c, packets)
        PROVE  B!PushNewBusOperations(c, packets)
    BY <1>6 DEF P!PushNewBusOperations, B!PushNewBusOperations, P!IsBusBusy, B!IsBusBusy
  <1>7. ASSUME NEW c \in P!Cores, P!RequestClean(c) \/ P!RequestDirty(c) \/ P!RequestUpgrade(c)
        PROVE  B!Next
    <2>1. c \in B!Cores
      BY <1>4
    <2>2. P!Fetches = B!Fetches /\ P!Delay = B!Delay
          /\ \A command : P!NewPacket(c, command) = B!NewPacket(c, command)
      BY <1>4 DEF P!Fetches, B!Fetches, P!Delay, B!Delay, P!NewPacket, B!NewPacket
    <2>3. B!RequestClean(c) \/ B!RequestDirty(c) \/ B!RequestUpgrade(c)
      BY <1>6, <1>7, <2>2 DEF P!RequestClean, P!RequestDirty, P!RequestUpgrade,
         B!RequestClean, B!RequestDirty, B!RequestUpgrade
    <2> QED BY <2>1, <2>3 DEF B!Next
  <1>8. P!Next => B!Next
    BY <1>5, <1>7 DEF P!Next, B!Next
  <1> QED BY <1>1, <1>2, <1>8

\* The machine starts as the arbiter of Bus.tla does, and each of its steps is one of the
\* arbiter's or leaves the arbiter alone: all of Arbitration but its fairness.
THEOREM ImplementsArbiter == Spec => B!Init /\ [][B!Next]_(B!vars)
  <1>1. Init => B!Init
    BY StartRefines, SameArbiter DEF Init
  <1>2. ASSUME MachineInv, ProgramType, [Next]_vars
        PROVE  [B!Next]_(B!vars)
    <2>1. TypeOK
      BY <1>2, TypeParts DEF MachineInv
    <2>2. [P!Next]_(P!vars)
      BY <1>2, <2>1, NextIsMachineStep, StepRefines DEF MachineInv
    <2> QED BY <2>2, SameArbiter
  <1> QED BY <1>1, <1>2, LoopInv, PTL DEF Spec

\* What BusProofs.tla proves of the arbiter is true of the bus of the machine: one owner, no
\* request lost, an eviction before its fetch and a container behind its request, one
\* transaction for each core, and a list of two nodes for each core at most.
THEOREM ArbiterHolds ==
  Spec => [](/\ B!SingleOwner /\ B!NoLostRequest /\ B!EvictionThenFetch
             /\ B!DelayBehindUpgrade /\ B!OneTransactionPerCore /\ B!ListBounded)
  <1>1. ASSUME MachineInv
        PROVE  /\ B!SingleOwner /\ B!NoLostRequest /\ B!EvictionThenFetch
               /\ B!DelayBehindUpgrade /\ B!OneTransactionPerCore /\ B!ListBounded
    <2>1. P!BusInv /\ P!UpgradeWithoutEviction
      BY <1>1 DEF MachineInv
    <2>2. P!ListBounded
      BY <2>1, P!Bounded, CacheAssumption, MemoryAssumption
      DEF P!CoresAssumption, P!BlockSizeAssumption
    <2>3. P!Cores = B!Cores /\ P!ErrOriginator = B!ErrOriginator /\ P!Fetches = B!Fetches
      BY SMT DEF P!Cores, B!Cores, P!ErrOriginator, B!ErrOriginator, P!Fetches, B!Fetches
    <2>4. \A c : P!Owns(c) <=> B!Owns(c)
      BY DEF P!Owns, B!Owns
    <2>5. \A c, i : P!PendingAt(c, i) <=> B!PendingAt(c, i)
      BY DEF P!PendingAt, B!PendingAt
    <2>6. B!SingleOwner
      BY <2>1, <2>3, <2>4 DEF P!BusInv, P!SingleOwner, B!SingleOwner
    <2>7. B!NoLostRequest
      BY <2>1, <2>3, <2>5 DEF P!BusInv, P!NoLostRequest, B!NoLostRequest
    <2>8. B!EvictionThenFetch
      BY <2>1, <2>3, <2>4 DEF P!BusInv, P!EvictionThenFetch, B!EvictionThenFetch
    <2>9. B!DelayBehindUpgrade
      BY <2>1, <2>3, <2>4 DEF P!BusInv, P!DelayBehindUpgrade, B!DelayBehindUpgrade
    <2>10. B!OneTransactionPerCore
      BY <2>1, <2>3, <2>4, <2>5 DEF P!BusInv, P!OneTransactionPerCore, B!OneTransactionPerCore
    <2>11. B!ListBounded
      BY <2>2 DEF P!ListBounded, B!ListBounded
    <2> QED BY <2>6, <2>7, <2>8, <2>9, <2>10, <2>11
  <1> QED BY <1>1, LoopInv, PTL

-----------------------------------------------------------------------------
(* A single writer.  The inductive invariant.                              *)

\* Every transaction of a core has a command; only containers are idle.
RealCommands ==
    /\ \A i \in 1..Len(list) : list[i].origid \in Cores => list[i].command # "idle"
    /\ is_bus_operating => current_data_on_bus.command # "idle"

\* An eviction and the fetch behind it are for the same line.
EvictionSameLine ==
    /\ \A i \in 1..Len(list) :
           list[i].command = "bus_flush" => list[i + 1].block.index = list[i].block.index
    /\ \A c \in Cores :
           P!Owns(c) /\ current_data_on_bus.command = "bus_flush"
               => list[1].block.index = current_data_on_bus.block.index

\* The line i of core c is being refilled: from the first cycle of the transaction to the
\* last word, and between an eviction and its fetch.
Moving(c, i) ==
    /\ c = current_data_on_bus.origid
    /\ i = current_data_on_bus.block.index
    /\ \/ is_bus_operating
       \/ core_operating_state[c] = "final" /\ current_data_on_bus.command = "bus_flush"

\* SingleWriter, of all lines that are not being refilled, whatever their cores wait for.
SettledSingleWriter ==
    \A c, k \in Cores : \A b \in Blocks :
        c # k /\ ~Moving(c, b.index) /\ ~Moving(k, b.index)
              /\ HoldsIn(c, b, {"exclusive", "modified"})
            => ~Holds(k, b)

WriterInv == MachineInv /\ RealCommands /\ EvictionSameLine /\ SettledSingleWriter

-----------------------------------------------------------------------------
(* The nodes of the list.                                                  *)

\* The nodes in the list keep their places and the new ones follow them.
LEMMA PushNodes ==
  ASSUME NEW T, NEW l \in Seq(T), NEW m \in Seq(T)
  PROVE  /\ l \o m \in Seq(T)
         /\ Len(l \o m) = Len(l) + Len(m)
         /\ Len(l) \in Nat /\ Len(m) \in Nat
         /\ \A i \in 1..Len(l) : (l \o m)[i] = l[i]
         /\ \A i \in 1..Len(m) : (l \o m)[Len(l) + i] = m[i]
  BY P!PushFacts, CacheAssumption, MemoryAssumption
  DEF P!CoresAssumption, P!BlockSizeAssumption

\* What is pushed for an access: a flush is followed by a fetch for the same line.
LEMMA RequestedNodes ==
  ASSUME MachineType, NEW c \in Cores, NEW b \in Blocks, NEW offset \in Offsets,
         NEW packets, Requested(c, b, offset, packets)
  PROVE  /\ packets \in Seq(BusPacket) /\ Len(packets) \in {1, 2}
         /\ \A i \in 1..Len(packets) : packets[i].origid \in Cores => packets[i].command # "idle"
         /\ packets[Len(packets)].command # "bus_flush"
         /\ Len(packets) = 2 /\ packets[1].command = "bus_flush"
              => packets[2].block.index = packets[1].block.index
  <1> DEFINE e == [origid |-> c, command |-> "bus_flush",
                   block |-> [tag |-> tsram[c][b.index].tag, index |-> b.index],
                   data |-> dsram[c][b.index][offset]]
  <1>1. packets \in Seq(BusPacket)
    BY RequestedType
  <1>2. PICK command \in {"bus_read", "bus_read_exclusive"} :
          \/ packets = <<Fetch(c, command, b)>>
          \/ packets = <<e, Fetch(c, command, b)>>
          \/ packets = <<Fetch(c, command, b), Delay>>
    BY Zenon DEF Requested
  <1> DEFINE f == Fetch(c, command, b)
  <1>3. f.origid = c /\ f.command \notin {"idle", "bus_flush"} /\ f.block.index = b.index
    BY DEF Fetch
  <1>4. e.origid = c /\ e.command = "bus_flush" /\ e.block.index = b.index
    OBVIOUS
  <1>5. Delay.origid \notin Cores /\ Delay.command = "idle"
    <2>1. Delay.origid = ErrOriginator /\ Delay.command = "idle"
      BY DEF Delay
    <2> QED BY <2>1, ConstantFacts
  <1> HIDE DEF e, f
  <1>6. CASE packets = <<f>>
    BY <1>1, <1>3, <1>6
  <1>7. CASE packets = <<e, f>>
    <2>1. Len(packets) = 2 /\ packets[1] = e /\ packets[2] = f
      BY <1>7
    <2> QED BY <1>1, <1>3, <1>4, <2>1
  <1>8. CASE packets = <<f, Delay>>
    <2>1. Len(packets) = 2 /\ packets[1] = f /\ packets[2] = Delay
      BY <1>8
    <2> QED BY <1>1, <1>3, <1>5, <2>1
  <1> QED BY <1>2, <1>6, <1>7, <1>8 DEF f

\* The arbiter's invariant, of the machine's own list: an eviction has its fetch behind it,
\* also when it has the bus.
LEMMA EvictionNodes ==
  ASSUME MachineType, P!BusInv
  PROVE  /\ \A i \in 1..Len(list) : list[i].command = "bus_flush" => i + 1 \in 1..Len(list)
         /\ \A c \in Cores : P!Owns(c) /\ current_data_on_bus.command = "bus_flush"
              => list # <<>> /\ 1 \in 1..Len(list) /\ list[1].origid = c
  <1>1. /\ Len(Controls(list)) = Len(list) /\ Len(list) \in Nat
        /\ \A i \in 1..Len(list) : list[i] \in BusPacket /\ Controls(list)[i] = Control(list[i])
    BY ControlsFacts DEF MachineType
  <1>2. \A i \in 1..Len(list) : /\ Controls(list)[i].command = list[i].command
                                /\ Controls(list)[i].origid = list[i].origid
    BY <1>1, ControlFacts
  <1>3. Control(current_data_on_bus).command = current_data_on_bus.command
    BY DEF Control
  <1>4. /\ \A i \in 1..Len(Controls(list)) :
             Controls(list)[i].command = "bus_flush" => i + 1 \in 1..Len(Controls(list))
        /\ \A c \in Cores : P!Owns(c) /\ Control(current_data_on_bus).command = "bus_flush"
             => Controls(list) # <<>> /\ Controls(list)[1].origid = c
    BY DEF P!BusInv, P!EvictionThenFetch, Controls, P!Cores, Cores
  <1>5. \A i \in 1..Len(list) : list[i].command = "bus_flush" => i + 1 \in 1..Len(list)
    BY <1>1, <1>2, <1>4
  <1>6. ASSUME NEW c \in Cores, P!Owns(c), current_data_on_bus.command = "bus_flush"
        PROVE  list # <<>> /\ 1 \in 1..Len(list) /\ list[1].origid = c
    <2>1. Controls(list) # <<>> /\ Controls(list)[1].origid = c
      BY <1>3, <1>4, <1>6
    <2>2. list # <<>>
      BY <2>1, ControlsPop DEF MachineType
    <2>3. 1 \in 1..Len(list)
      BY <2>2, <1>1, EmptySeq DEF MachineType
    <2> QED BY <2>1, <2>2, <2>3, <1>2
  <1> QED BY <1>5, <1>6

\* While no transaction runs, nobody owns the bus once the last one is retired.
LEMMA NobodyOwns ==
  ASSUME MachineType, P!BusInv, ~is_bus_operating
  PROVE  \A c \in Cores : Retired[c] \in {"idle", "ready"}
  <1>1. \A c \in P!Cores : P!Retired[c] \in {"idle", "ready"}
    BY P!RetiredFacts, CacheAssumption, MemoryAssumption
    DEF P!CoresAssumption, P!BlockSizeAssumption
  <1> QED BY <1>1, SameRetired DEF P!Cores, Cores

-----------------------------------------------------------------------------
(* Commands and evictions.                                                 *)

\* Popping: the nodes of the list move up by one place.
LEMMA Popped ==
  ASSUME MachineType, Pop
  PROVE  /\ current_data_on_bus' = list[1] /\ Head(list) = list[1] /\ list[1] \in BusPacket
         /\ 1 \in 1..Len(list) /\ Len(list) \in Nat /\ Len(list') = Len(list) - 1
         /\ \A i \in 1..Len(list') : i + 1 \in 1..Len(list) /\ list'[i] = list[i + 1]
  <1>1. list \in Seq(BusPacket) /\ list # <<>> /\ list' = Tail(list)
        /\ current_data_on_bus' = Head(list)
    BY DEF MachineType, Pop
  <1>2. /\ Head(list) \in BusPacket /\ Head(list) = list[1]
        /\ Len(list) \in Nat /\ Len(list) >= 1
        /\ Len(Tail(list)) = Len(list) - 1
        /\ \A i \in 1..Len(Tail(list)) : i + 1 \in 1..Len(list) /\ Tail(list)[i] = list[i + 1]
    BY <1>1, PopNode
  <1> QED BY <1>1, <1>2

\* A cycle of a running transaction gives the bus to nobody else.
LEMMA ContinueOwns ==
  ASSUME MachineType, P!BusInv, BusContinue
  PROVE  /\ \A c \in Cores : P!Owns(c)' => P!Owns(c)
         /\ UNCHANGED <<list, current_data_on_bus>>
         /\ is_bus_operating
  <1> DEFINE t == current_data_on_bus
             S == core_operating_state
  <1>1. is_bus_operating /\ UNCHANGED <<list, current_data_on_bus>>
        /\ CycleOf(t, offset_of_address, flag_for_initial_shared)
    BY DEF BusContinue
  <1>2. t.origid \in Cores /\ S[t.origid] = "operate" /\ Retired = S
    BY <1>1, OwnerFacts
  <1>3. PICK s : core_operating_state' = [Retired EXCEPT ![t.origid] = s]
    BY <1>1 DEF CycleOf, HoldBack, AwaitMemory, MoveWord
  <1>4. ASSUME NEW c \in Cores, P!Owns(c)' PROVE P!Owns(c)
    <2>1. CASE c = t.origid
      BY <2>1, <1>2 DEF P!Owns
    <2>2. CASE c # t.origid
      <3>1. core_operating_state'[c] = S[c]
        BY <2>2, <1>2, <1>3 DEF MachineType
      <3> QED BY <3>1, <1>4 DEF P!Owns
    <2> QED BY <2>1, <2>2
  <1> QED BY <1>1, <1>4

\* The call that grants the bus gives it to the originator of the node it pops.
LEMMA GrantOwns ==
  ASSUME MachineType, P!BusInv, TransferInStep, BusGrant
  PROVE  /\ \A c \in Cores : P!Owns(c)' => c = list[1].origid
         /\ ~is_bus_operating /\ is_bus_operating' /\ list[1].origid \in Cores
         /\ \/ UNCHANGED tsram
            \/ tsram' = SnoopedTags(list[1], 0)
  <1> DEFINE t == Head(list)
  <1>1. ~is_bus_operating /\ Pop /\ t.origid \in Cores /\ CycleOf(t, 0, TRUE)
    BY DEF BusGrant
  <1>2. list[1] = t
    BY <1>1, Popped
  <1>3. HoldBack(t, 0, TRUE) \/ AwaitMemory(t, 0, TRUE)
    BY <1>1, NoWordWhenGranted DEF CycleOf
  <1> HIDE DEF t
  <1>4. /\ core_operating_state' = [Retired EXCEPT ![t.origid] = "operate"]
        /\ is_bus_operating' = TRUE
        /\ UNCHANGED tsram \/ tsram' = SnoopedTags(t, 0)
    BY <1>3 DEF HoldBack, AwaitMemory, cacheVars
  <1>5. ASSUME NEW c \in Cores, P!Owns(c)' PROVE c = t.origid
    <2>1. c # t.origid => core_operating_state'[c] = Retired[c]
      BY <1>4, RetiredType
    <2>2. Retired[c] \in {"idle", "ready"}
      BY <1>1, NobodyOwns
    <2> QED BY <2>1, <2>2, <1>5 DEF P!Owns
  <1> QED BY <1>1, <1>2, <1>4, <1>5

\* Only requests change the list from the end, and they keep commands and evictions in
\* order.
LEMMA PushCommands ==
  ASSUME MachineType, P!BusInv, RealCommands, EvictionSameLine,
         NEW c \in Cores, NEW b \in Blocks, NEW offset \in Offsets,
         NEW packets, Requested(c, b, offset, packets), ~IsBusBusy(c), Push(c, packets)
  PROVE  RealCommands' /\ EvictionSameLine'
  <1> DEFINE n == Len(list)
  <1>1. /\ packets \in Seq(BusPacket) /\ Len(packets) \in {1, 2}
        /\ \A i \in 1..Len(packets) : packets[i].origid \in Cores => packets[i].command # "idle"
        /\ packets[Len(packets)].command # "bus_flush"
        /\ Len(packets) = 2 /\ packets[1].command = "bus_flush"
             => packets[2].block.index = packets[1].block.index
    BY RequestedNodes
  <1>2. /\ n \in Nat /\ Len(list') = n + Len(packets)
        /\ \A i \in 1..n : list'[i] = list[i]
        /\ \A i \in 1..Len(packets) : list'[n + i] = packets[i]
    BY <1>1, PushNodes DEF Push, MachineType
  <1>3. /\ core_operating_state' = [core_operating_state EXCEPT ![c] = "ready"]
        /\ UNCHANGED <<is_bus_operating, current_data_on_bus>>
    BY DEF Push
  <1>4. \A k \in Cores : P!Owns(k)' => P!Owns(k)
    BY <1>3 DEF P!Owns, MachineType
  <1> HIDE DEF n
  <1>5. \A i \in 1..Len(list') : i \in 1..n \/ (i - n \in 1..Len(packets) /\ list'[i] = packets[i - n])
    <2> TAKE i \in 1..Len(list')
    <2>1. CASE i <= n
      BY <1>2, <2>1
    <2>2. CASE ~(i <= n)
      <3>1. i - n \in 1..Len(packets) /\ n + (i - n) = i
        BY <1>1, <1>2, <2>2
      <3> QED BY <3>1, <1>2
    <2> QED BY <2>1, <2>2
  <1>6. RealCommands'
    <2>1. ASSUME NEW i \in 1..Len(list'), list'[i].origid \in Cores PROVE list'[i].command # "idle"
      BY <2>1, <1>1, <1>2, <1>5 DEF RealCommands, n
    <2> QED BY <2>1, <1>3 DEF RealCommands
  <1>7. ASSUME NEW i \in 1..Len(list'), list'[i].command = "bus_flush"
        PROVE  list'[i + 1].block.index = list'[i].block.index
    <2>1. CASE i \in 1..n
      <3>1. i + 1 \in 1..n
        BY <2>1, <1>2, <1>7, EvictionNodes DEF n
      <3>2. list[i + 1].block.index = list[i].block.index
        BY <2>1, <1>2, <1>7 DEF EvictionSameLine, n
      <3> QED BY <2>1, <3>1, <3>2, <1>2
    <2>2. CASE i - n \in 1..Len(packets) /\ list'[i] = packets[i - n]
      <3>1. packets[i - n].command = "bus_flush"
        BY <2>2, <1>7
      <3>2. i - n = 1 /\ Len(packets) = 2
        <4>1. i - n # Len(packets)
          BY <3>1, <1>1
        <4> QED BY <4>1, <2>2, <1>1, <1>2
      <3>3. list'[n + 1] = packets[1] /\ list'[n + 2] = packets[2]
        BY <3>2, <1>2
      <3>4. i = n + 1 /\ i + 1 = n + 2
        BY <3>2, <1>2
      <3> QED BY <3>1, <3>2, <3>3, <3>4, <1>1
    <2> QED BY <2>1, <2>2, <1>5
  <1>8. ASSUME NEW k \in Cores, P!Owns(k)', current_data_on_bus'.command = "bus_flush"
        PROVE  list'[1].block.index = current_data_on_bus'.block.index
    <2>1. P!Owns(k) /\ current_data_on_bus' = current_data_on_bus
      BY <1>3, <1>4, <1>8
    <2>2. 1 \in 1..n /\ list[1].block.index = current_data_on_bus.block.index
      BY <2>1, <1>8, EvictionNodes DEF EvictionSameLine, n
    <2> QED BY <2>1, <2>2, <1>2
  <1> QED BY <1>6, <1>7, <1>8 DEF EvictionSameLine

\* No call leaves a transaction without a command, or an eviction of another line than its
\* fetch.
LEMMA StepCommands ==
  ASSUME MachineInv, RealCommands, EvictionSameLine, MachineStep
  PROVE  RealCommands' /\ EvictionSameLine'
  <1> USE DEF MachineInv
  <1>1. CASE BusIdle
    <2>1. ~is_bus_operating /\ ~is_bus_operating' /\ list' = <<>> /\ core_operating_state' = Retired
      BY <1>1 DEF BusIdle
    <2>2. \A c \in Cores : ~P!Owns(c)'
      BY <2>1, NobodyOwns DEF P!Owns
    <2>3. 1..Len(list') = {}
      BY <2>1
    <2> QED BY <2>1, <2>2, <2>3 DEF RealCommands, EvictionSameLine
  <1>2. CASE BusDelay \/ BusGrant
    <2>1. Pop /\ ~is_bus_operating
      BY <1>2 DEF BusDelay, BusGrant
    <2>2. /\ current_data_on_bus' = list[1] /\ 1 \in 1..Len(list)
          /\ Len(list) \in Nat /\ Len(list') = Len(list) - 1
          /\ \A i \in 1..Len(list') : i + 1 \in 1..Len(list) /\ list'[i] = list[i + 1]
      BY <2>1, Popped
    <2>3. \A i \in 1..Len(list') : list'[i].origid \in Cores => list'[i].command # "idle"
      BY <2>2 DEF RealCommands
    <2>4. ASSUME NEW i \in 1..Len(list'), list'[i].command = "bus_flush"
          PROVE  list'[i + 1].block.index = list'[i].block.index
      <3>1. i + 1 \in 1..Len(list) /\ list'[i] = list[i + 1]
        BY <2>2
      <3>2. (i + 1) + 1 \in 1..Len(list) /\ list[(i + 1) + 1].block.index = list[i + 1].block.index
        BY <3>1, <2>4, EvictionNodes DEF EvictionSameLine
      <3>3. i + 1 \in 1..Len(list')
        BY <3>2, <2>2
      <3> QED BY <3>1, <3>2, <3>3, <2>2
    <2>5. CASE BusDelay
      <3>1. ~is_bus_operating' /\ core_operating_state' = Retired
        BY <2>1, <2>5 DEF BusDelay
      <3>2. \A c \in Cores : ~P!Owns(c)'
        BY <2>1, <3>1, NobodyOwns DEF P!Owns
      <3> QED BY <2>3, <2>4, <3>1, <3>2 DEF RealCommands, EvictionSameLine
    <2>6. CASE BusGrant
      <3>1. list[1].origid \in Cores
        BY <2>6, GrantOwns
      <3>2. RealCommands'
        BY <2>2, <2>3, <3>1 DEF RealCommands
      <3>3. ASSUME current_data_on_bus'.command = "bus_flush"
            PROVE  list'[1].block.index = current_data_on_bus'.block.index
        <4>1. 1 + 1 \in 1..Len(list) /\ list[1 + 1].block.index = list[1].block.index
          BY <2>2, <3>3, EvictionNodes DEF EvictionSameLine
        <4>2. 1 \in 1..Len(list')
          BY <4>1, <2>2
        <4> QED BY <4>1, <4>2, <2>2
      <3> QED BY <2>4, <3>2, <3>3 DEF EvictionSameLine
    <2> QED BY <1>2, <2>5, <2>6
  <1>3. CASE BusContinue
    BY <1>3, ContinueOwns DEF RealCommands, EvictionSameLine
  <1>4. ASSUME NEW c \in Cores, NEW r \in AnyAccess, Access(c, r)
        PROVE  RealCommands' /\ EvictionSameLine'
    <2>1. CASE UNCHANGED MachineVars
      BY <2>1 DEF MachineVars, busVars, RealCommands, EvictionSameLine, P!Owns
    <2>2. ASSUME NEW packets, Requested(c, r.address.block, r.address.offset, packets),
                 ~IsBusBusy(c), Push(c, packets)
          PROVE  RealCommands' /\ EvictionSameLine'
      BY <2>2, PushCommands, AnyAccessParts
    <2>3. ASSUME NEW word, WriteHit(c, r, word)
          PROVE  RealCommands' /\ EvictionSameLine'
      BY <2>3 DEF WriteHit, busVars, RealCommands, EvictionSameLine, P!Owns
    <2> QED BY <1>4, <2>1, <2>2, <2>3, AccessCases
  <1>5. CASE UNCHANGED MachineVars
    BY <1>5 DEF MachineVars, busVars, RealCommands, EvictionSameLine, P!Owns
  <1> QED BY <1>1, <1>2, <1>3, <1>4, <1>5 DEF MachineStep

-----------------------------------------------------------------------------
(* Lines.                                                                  *)

\* In tags the lines are as in tsram, or without some of their rights.
Weaker(tags) ==
    \A c \in Cores : \A i \in Indexes :
        /\ tags[c][i].tag = tsram[c][i].tag
        /\ tags[c][i].mesi # "invalid" => tsram[c][i].mesi # "invalid"
        /\ tags[c][i].mesi \in {"exclusive", "modified"}
             => tsram[c][i].mesi \in {"exclusive", "modified"}

\* Snooping takes rights away and gives none.
LEMMA SnoopWeakens ==
  ASSUME MachineType, NEW t \in BusPacket, NEW offset \in Offsets
  PROVE  Weaker(SnoopedTags(t, offset))
  <1> DEFINE k == Min(Reacting(t))
             i == t.block.index
             n == SnoopedState(tsram[k][i].mesi, t.command)
  <1>1. tsram \in [Cores -> [Indexes -> Line]]
    BY DEF MachineType, CacheTypeOK
  <1>2. CASE SnoopedTags(t, offset) = tsram
    BY <1>2 DEF Weaker
  <1>3. CASE SnoopedTags(t, offset) # tsram
    <2>1. Reacting(t) # {} /\ SnoopedTags(t, offset) = [tsram EXCEPT ![k][i].mesi = n]
      BY <1>3 DEF SnoopedTags
    <2>2. k \in Cores /\ i \in Indexes
      BY <2>1, ReactingFacts, PacketParts
    <2>3. n \in {"invalid", "shared", tsram[k][i].mesi}
          /\ (tsram[k][i].mesi = "invalid" => n = "invalid")
      BY DEF SnoopedState
    <2> HIDE DEF k, i, n
    <2>4. /\ \A c \in Cores : \A j \in Indexes :
                c # k \/ j # i => SnoopedTags(t, offset)[c][j] = tsram[c][j]
          /\ SnoopedTags(t, offset)[k][i] = [tsram[k][i] EXCEPT !.mesi = n]
      BY <1>1, <2>1, <2>2
    <2>5. /\ [tsram[k][i] EXCEPT !.mesi = n].tag = tsram[k][i].tag
          /\ [tsram[k][i] EXCEPT !.mesi = n].mesi = n
      BY <1>1, <2>2 DEF Line
    <2> QED BY <2>3, <2>4, <2>5 DEF Weaker
  <1> QED BY <1>2, <1>3

\* When lines only lose rights and no refill ends, nothing can go wrong.
LEMMA WeakerSettled ==
  ASSUME SettledSingleWriter, Weaker(tsram'),
         \A c \in Cores : \A i \in Indexes : Moving(c, i) => Moving(c, i)'
  PROVE  SettledSingleWriter'
  <1> SUFFICES ASSUME NEW c \in Cores, NEW k \in Cores, NEW b \in Blocks,
                      c # k, ~Moving(c, b.index)', ~Moving(k, b.index)',
                      HoldsIn(c, b, {"exclusive", "modified"})', Holds(k, b)'
               PROVE  FALSE
    BY DEF SettledSingleWriter
  <1>1. b.index \in Indexes
    BY DEF Blocks
  <1>2. ~Moving(c, b.index) /\ ~Moving(k, b.index)
    BY <1>1
  <1>3. HoldsIn(c, b, {"exclusive", "modified"}) /\ Holds(k, b)
    BY <1>1 DEF Weaker, HoldsIn, Holds
  <1> QED BY <1>2, <1>3 DEF SettledSingleWriter

\* A word changes, besides what snooping does, the line that is being refilled: that of a
\* fetch is given its block, and with the last word it becomes shared or exclusive.
LEMMA WordTags ==
  ASSUME MachineType, NEW t \in BusPacket, t.origid \in Cores, NEW offset \in Offsets,
         NEW flag, MoveWord(t, offset, flag)
  PROVE  /\ \A c \in Cores : \A i \in Indexes :
              c # t.origid \/ i # t.block.index => tsram'[c][i] = SnoopedTags(t, offset)[c][i]
         /\ tsram'[t.origid][t.block.index].mesi \in
              {SnoopedTags(t, offset)[t.origid][t.block.index].mesi,
               IF Sharers(t.origid, t.block) # {} THEN "shared" ELSE "exclusive"}
         /\ t.command \in {"bus_read", "bus_read_exclusive"}
              => tsram'[t.origid][t.block.index].tag = t.block.tag
         /\ t.command \in {"bus_read", "bus_read_exclusive"} /\ offset = BLOCK_SIZE - 1
              => tsram'[t.origid][t.block.index] =
                   [tag |-> t.block.tag,
                    mesi |-> IF Sharers(t.origid, t.block) # {} THEN "shared" ELSE "exclusive"]
  <1> DEFINE shared  == Sharers(t.origid, t.block) # {}
             snooped == SnoopedPacket(t, offset)
             word    == Supplied(snooped, Content, offset, MainMemory)
             tags    == SnoopedTags(t, offset)
  <1>1. tsram' = AnsweredTags(tags, t.origid, word, offset, shared)
    BY DEF MoveWord
  <1>2. snooped \in BusPacket /\ tags \in [Cores -> [Indexes -> Line]]
    BY SnoopType
  <1>3. Content \in [Blocks -> [Offsets -> Data]]
    BY ContentType
  <1>4. snooped.block = t.block /\ t.block.index \in Indexes
    BY PacketParts DEF SnoopedPacket, BusPacket
  <1>5. /\ word.block = t.block
        /\ word.origid = IF snooped.command = "bus_flush" THEN snooped.origid ELSE MainMemory
    BY <1>2, <1>3, <1>4, SuppliedFacts
  <1>6. t.command # "bus_flush" => word.origid # t.origid
    <2> SUFFICES ASSUME t.command # "bus_flush" PROVE word.origid # t.origid
      OBVIOUS
    <2>1. CASE snooped = t
      BY <2>1, <1>5, ConstantFacts
    <2>2. CASE snooped # t
      <3> DEFINE k == Min(Reacting(t))
      <3>1. /\ Reacting(t) # {}
            /\ snooped = [t EXCEPT !.origid = k, !.command = "bus_flush",
                                   !.data = dsram[k][t.block.index][offset]]
        BY <2>2 DEF SnoopedPacket
      <3>2. k \in Reacting(t)
        BY <3>1, ReactingFacts
      <3>3. k # t.origid
        BY <3>2 DEF Reacting
      <3> HIDE DEF k
      <3>4. snooped.origid = k /\ snooped.command = "bus_flush"
        BY <3>1 DEF BusPacket
      <3> QED BY <3>3, <3>4, <1>5
    <2> QED BY <2>1, <2>2
  <1> HIDE DEF shared, snooped, word, tags
  <1>7. CASE word.origid = t.origid
    BY <1>1, <1>6, <1>7 DEF AnsweredTags, tags
  <1>8. CASE word.origid # t.origid
    <2>1. tsram' = [tags EXCEPT ![t.origid][t.block.index] =
                      [tag |-> t.block.tag,
                       mesi |-> IF offset # BLOCK_SIZE - 1 THEN @.mesi
                                ELSE IF shared THEN "shared" ELSE "exclusive"]]
      BY <1>1, <1>5, <1>8 DEF AnsweredTags
    <2>2. \A c \in Cores : \A i \in Indexes :
              c # t.origid \/ i # t.block.index => tsram'[c][i] = tags[c][i]
      BY <2>1, <1>2, <1>4
    <2>3. tsram'[t.origid][t.block.index] =
            [tag |-> t.block.tag,
             mesi |-> IF offset # BLOCK_SIZE - 1 THEN tags[t.origid][t.block.index].mesi
                      ELSE IF shared THEN "shared" ELSE "exclusive"]
      BY <2>1, <1>2, <1>4
    <2>4. tsram'[t.origid][t.block.index].mesi \in
            {tags[t.origid][t.block.index].mesi, IF shared THEN "shared" ELSE "exclusive"}
      BY <2>3
    <2>5. offset = BLOCK_SIZE - 1 =>
            tsram'[t.origid][t.block.index] =
              [tag |-> t.block.tag, mesi |-> IF shared THEN "shared" ELSE "exclusive"]
      BY <2>3
    <2>6. tsram'[t.origid][t.block.index].tag = t.block.tag
      BY <2>3
    <2> QED BY <2>2, <2>4, <2>5, <2>6 DEF tags, shared
  <1> QED BY <1>7, <1>8

\* The last word of a fetch: its block is exclusive only when nobody else holds it, and
\* when it is shared the one that could write it has just lost the right.
LEMMA LastWordSettled ==
  ASSUME MachineType, SettledSingleWriter, is_bus_operating,
         current_data_on_bus.origid \in Cores,
         current_data_on_bus.command \in {"bus_read", "bus_read_exclusive"},
         MoveWord(current_data_on_bus, BLOCK_SIZE - 1, flag_for_initial_shared)
  PROVE  SettledSingleWriter'
  <1> PICK t : t = current_data_on_bus
    OBVIOUS
  <1> PICK c0, i0 : c0 = t.origid /\ i0 = t.block.index
    OBVIOUS
  <1> DEFINE last == BLOCK_SIZE - 1
             states == {"exclusive", "modified"}
  <1> SUFFICES ASSUME NEW c \in Cores, NEW k \in Cores, NEW b \in Blocks,
                      c # k, HoldsIn(c, b, {"exclusive", "modified"})', Holds(k, b)'
               PROVE  FALSE
    BY DEF SettledSingleWriter
  <1>1. t \in BusPacket /\ last \in Offsets
    BY ConstantFacts DEF MachineType, Offsets
  <1>2. b.index \in Indexes /\ i0 \in Indexes
    BY <1>1, PacketParts DEF Blocks
  <1>3. /\ \A n \in Cores : \A i \in Indexes :
              n # c0 \/ i # i0 => tsram'[n][i] = SnoopedTags(t, last)[n][i]
        /\ tsram'[c0][i0] = [tag |-> t.block.tag,
                             mesi |-> IF Sharers(c0, t.block) # {} THEN "shared" ELSE "exclusive"]
    <2>1. PICK flag : flag = flag_for_initial_shared
      OBVIOUS
    <2>2. MoveWord(t, last, flag) /\ t.origid \in Cores
          /\ t.command \in {"bus_read", "bus_read_exclusive"}
      BY <2>1
    <2> HIDE DEF last
    <2>3. /\ \A n \in Cores : \A i \in Indexes :
                n # t.origid \/ i # t.block.index => tsram'[n][i] = SnoopedTags(t, last)[n][i]
          /\ last = BLOCK_SIZE - 1 => tsram'[t.origid][t.block.index] =
               [tag |-> t.block.tag,
                mesi |-> IF Sharers(t.origid, t.block) # {} THEN "shared" ELSE "exclusive"]
      BY <1>1, <2>2, WordTags
    <2> QED BY <2>3 DEF last
  <1>4. Weaker(SnoopedTags(t, last))
    BY <1>1, SnoopWeakens
  <1>5. \A n \in Cores : n # c0 \/ b.index # i0 =>
          /\ Holds(n, b)' => Holds(n, b)
          /\ HoldsIn(n, b, states)' => HoldsIn(n, b, states)
    BY <1>2, <1>3, <1>4 DEF Weaker, Holds, HoldsIn
  <1>6. b.index = i0 /\ Holds(c0, b)' => b = t.block
    <2> SUFFICES ASSUME b.index = i0, Holds(c0, b)' PROVE b = t.block
      OBVIOUS
    <2>1. b.tag = t.block.tag
      BY <1>3 DEF Holds
    <2> QED BY <2>1, <1>1, PacketParts DEF Blocks
  <1>7. \A n, m \in Cores : n # m /\ (b.index # i0 \/ (n # c0 /\ m # c0)) =>
          ~(HoldsIn(n, b, states) /\ Holds(m, b))
    BY DEF SettledSingleWriter, Moving
  <1>8. HoldsIn(c, b, states)' => Holds(c, b)'
    BY DEF HoldsIn
  <1>9. CASE b.index # i0 \/ (c # c0 /\ k # c0)
    BY <1>5, <1>7, <1>9
  <1>10. CASE b.index = i0 /\ c = c0
    <2>1. b = t.block
      BY <1>6, <1>8, <1>10
    <2>2. Sharers(c0, t.block) = {}
      BY <1>3, <1>10 DEF HoldsIn
    <2>3. Holds(k, b)
      BY <1>5, <1>10
    <2> QED BY <2>1, <2>2, <2>3, <1>10 DEF Sharers
  <1>11. CASE b.index = i0 /\ k = c0
    <2>1. b = t.block
      BY <1>6, <1>11
    <2>2. HoldsIn(c, b, states)
      BY <1>5, <1>11
    <2>3. \A n \in Reacting(t) : n \in Cores /\ n # c0 /\ Holds(n, b)
      BY <2>1 DEF Reacting
    <2>4. c \in Reacting(t)
      BY <2>1, <2>2, <1>11 DEF Reacting, HoldsIn
    <2>5. \A n \in Reacting(t) : n = c
      BY <2>2, <2>3, <1>7, <1>11
    <2>6. Min(Reacting(t)) = c
      <3>1. Min(Reacting(t)) \in Reacting(t)
        BY <2>4, ReactingFacts
      <3> QED BY <3>1, <2>5
    <2>7. SnoopedTags(t, last) = [tsram EXCEPT ![c][i0].mesi = SnoopedState(@, t.command)]
      BY <2>4, <2>6 DEF SnoopedTags
    <2>8. SnoopedState(tsram[c][i0].mesi, t.command) \in {"invalid", "shared"}
      BY <2>2, <1>11 DEF SnoopedState, HoldsIn
    <2>9. SnoopedTags(t, last)[c][i0].mesi = SnoopedState(tsram[c][i0].mesi, t.command)
      <3>1. tsram \in [Cores -> [Indexes -> Line]]
        BY DEF MachineType, CacheTypeOK
      <3> DEFINE n == SnoopedState(tsram[c][i0].mesi, t.command)
      <3>2. SnoopedTags(t, last) = [tsram EXCEPT ![c][i0].mesi = n]
        BY <2>7
      <3> HIDE DEF n, last
      <3>3. SnoopedTags(t, last)[c][i0] = [tsram[c][i0] EXCEPT !.mesi = n]
        BY <3>1, <3>2, <1>2
      <3>4. [tsram[c][i0] EXCEPT !.mesi = n].mesi = n
        BY <3>1, <1>2 DEF Line
      <3> QED BY <3>3, <3>4 DEF n
    <2>10. tsram'[c][i0] = SnoopedTags(t, last)[c][i0]
      BY <1>2, <1>3, <1>11
    <2>11. tsram'[c][i0].mesi \in {"invalid", "shared"}
      BY <2>8, <2>9, <2>10
    <2> QED BY <2>11, <1>11 DEF HoldsIn
  <1> QED BY <1>9, <1>10, <1>11

\* A cycle of a running transaction.
LEMMA ContinueSettled ==
  ASSUME MachineInv, RealCommands, SettledSingleWriter, BusContinue
  PROVE  SettledSingleWriter'
  <1> USE DEF MachineInv
  <1> DEFINE t == current_data_on_bus
             o == offset_of_address
             flag == flag_for_initial_shared
  <1>1. /\ is_bus_operating /\ UNCHANGED <<list, current_data_on_bus>>
        /\ CycleOf(t, o, flag)
    BY DEF BusContinue
  <1>2. t.origid \in Cores /\ Retired = core_operating_state /\ t \in BusPacket /\ o \in Offsets
    BY <1>1, OwnerFacts DEF MachineType
  <1>3. CASE HoldBack(t, o, flag) \/ AwaitMemory(t, o, flag)
    <2>1. is_bus_operating' = TRUE
      BY <1>3 DEF HoldBack, AwaitMemory
    <2>2. tsram' = tsram \/ tsram' = SnoopedTags(t, o)
      BY <1>3 DEF HoldBack, AwaitMemory, cacheVars
    <2>3. Weaker(tsram')
      BY <1>2, <2>2, SnoopWeakens DEF Weaker
    <2>4. \A c \in Cores : \A i \in Indexes : Moving(c, i) => Moving(c, i)'
      BY <1>1, <2>1 DEF Moving
    <2> QED BY <2>3, <2>4, WeakerSettled
  <1>4. CASE MoveWord(t, o, flag)
    <2>1. /\ core_operating_state' =
               [core_operating_state EXCEPT ![t.origid] =
                  IF o = BLOCK_SIZE - 1 THEN "final" ELSE "operate"]
          /\ is_bus_operating' = (o # BLOCK_SIZE - 1)
      BY <1>2, <1>4 DEF MoveWord
    <2>2. CASE o # BLOCK_SIZE - 1 \/ t.command = "bus_flush"
      <3>1. is_bus_operating' \/ (core_operating_state'[t.origid] = "final" /\ t.command = "bus_flush")
        <4>1. CASE o # BLOCK_SIZE - 1
          BY <2>1, <4>1
        <4>2. CASE o = BLOCK_SIZE - 1 /\ t.command = "bus_flush"
          <5>1. core_operating_state'[t.origid] = "final"
            BY <2>1, <4>2, <1>2 DEF MachineType
          <5> QED BY <5>1, <4>2
        <4> QED BY <2>2, <4>1, <4>2
      <3>2. \A c \in Cores : \A i \in Indexes :
              Moving(c, i)' <=> c = t.origid /\ i = t.block.index
        BY <1>1, <3>1 DEF Moving
      <3>3. \A c \in Cores : \A i \in Indexes :
              Moving(c, i) <=> c = t.origid /\ i = t.block.index
        BY <1>1 DEF Moving
      <3>4. /\ \A c \in Cores : \A i \in Indexes :
                 c # t.origid \/ i # t.block.index => tsram'[c][i] = SnoopedTags(t, o)[c][i]
            /\ Weaker(SnoopedTags(t, o))
        BY <1>2, <1>4, WordTags, SnoopWeakens
      <3> SUFFICES ASSUME NEW c \in Cores, NEW k \in Cores, NEW b \in Blocks,
                          c # k, ~Moving(c, b.index)', ~Moving(k, b.index)',
                          HoldsIn(c, b, {"exclusive", "modified"})', Holds(k, b)'
                   PROVE  FALSE
        BY DEF SettledSingleWriter
      <3>5. b.index \in Indexes
        BY DEF Blocks
      <3>6. ~Moving(c, b.index) /\ ~Moving(k, b.index)
        BY <3>2, <3>3, <3>5
      <3>7. HoldsIn(c, b, {"exclusive", "modified"}) /\ Holds(k, b)
        BY <3>2, <3>4, <3>5 DEF Weaker, HoldsIn, Holds
      <3> QED BY <3>6, <3>7 DEF SettledSingleWriter
    <2>3. CASE o = BLOCK_SIZE - 1 /\ t.command # "bus_flush"
      <3>1. t.command \in {"bus_read", "bus_read_exclusive"}
        BY <2>3, <1>1, <1>2, PacketParts DEF RealCommands
      <3> QED BY <3>1, <2>3, <1>1, <1>2, <1>4, LastWordSettled
    <2> QED BY <2>2, <2>3
  <1> QED BY <1>1, <1>3, <1>4 DEF CycleOf

\* Every call keeps the invariant.
LEMMA StepWriter ==
  ASSUME WriterInv, MachineStep
  PROVE  WriterInv'
  <1> USE DEF WriterInv
  <1>1. MachineInv' /\ RealCommands' /\ EvictionSameLine'
    BY StepInv, StepCommands
  <1>2. MachineType /\ P!BusInv /\ TransferInStep
    BY DEF MachineInv
  <1>3. Weaker(tsram)
    BY DEF Weaker
  <1>4. \A c \in Cores : core_operating_state[c] = "final" => P!Owns(c)
    BY DEF P!Owns
  <1>5. ASSUME BusIdle \/ BusDelay PROVE SettledSingleWriter'
    <2>1. UNCHANGED tsram /\ ~is_bus_operating
      BY <1>5 DEF BusIdle, BusDelay, cacheVars
    <2>2. ASSUME NEW c \in Cores, NEW i \in Indexes, Moving(c, i) PROVE FALSE
      <3>1. P!Owns(c) /\ current_data_on_bus.command = "bus_flush"
        BY <1>4, <2>1, <2>2 DEF Moving
      <3>2. list # <<>> /\ list[1].origid = c
        BY <1>2, <3>1, EvictionNodes
      <3>3. BusDelay /\ list[1].origid = ErrOriginator
        BY <1>2, <1>5, <3>2, Popped DEF BusIdle, BusDelay
      <3> QED BY <3>2, <3>3, ConstantFacts
    <2> QED BY <1>3, <2>1, <2>2, WeakerSettled
  <1>6. ASSUME BusGrant PROVE SettledSingleWriter'
    <2>1. /\ ~is_bus_operating /\ is_bus_operating' /\ list[1].origid \in Cores
          /\ UNCHANGED tsram \/ tsram' = SnoopedTags(list[1], 0)
      BY <1>2, <1>6, GrantOwns
    <2>2. current_data_on_bus' = list[1] /\ list[1] \in BusPacket
      BY <1>2, <1>6, Popped DEF BusGrant
    <2>3. Weaker(tsram')
      BY <1>2, <1>3, <2>1, <2>2, SnoopWeakens, ConstantFacts DEF Weaker
    <2>4. ASSUME NEW c \in Cores, NEW i \in Indexes, Moving(c, i) PROVE Moving(c, i)'
      <3>1. P!Owns(c) /\ current_data_on_bus.command = "bus_flush" /\ i = current_data_on_bus.block.index
        BY <1>4, <2>1, <2>4 DEF Moving
      <3>2. list[1].origid = c /\ list[1].block.index = i
        BY <1>2, <3>1, EvictionNodes DEF EvictionSameLine
      <3> QED BY <2>1, <2>2, <3>2 DEF Moving
    <2> QED BY <2>3, <2>4, WeakerSettled
  <1>7. ASSUME BusContinue PROVE SettledSingleWriter'
    BY <1>7, ContinueSettled
  <1>8. ASSUME UNCHANGED MachineVars PROVE SettledSingleWriter'
    <2>1. UNCHANGED <<tsram, busVars>>
      BY <1>8 DEF MachineVars, cacheVars
    <2>2. Weaker(tsram')
      BY <1>3, <2>1
    <2>3. \A k \in Cores : \A j \in Indexes : Moving(k, j) => Moving(k, j)'
      BY <2>1 DEF busVars, Moving
    <2> QED BY <2>2, <2>3, WeakerSettled
  <1>9. ASSUME NEW c \in Cores, NEW r \in AnyAccess, Access(c, r)
        PROVE  SettledSingleWriter'
    <2>1. CASE UNCHANGED MachineVars
      BY <2>1, <1>8
    <2>2. ASSUME NEW packets, ~IsBusBusy(c), Push(c, packets)
          PROVE  SettledSingleWriter'
      <3>1. /\ core_operating_state' = [core_operating_state EXCEPT ![c] = "ready"]
            /\ core_operating_state[c] = "idle"
            /\ UNCHANGED <<tsram, is_bus_operating, current_data_on_bus>>
        BY <2>2 DEF Push, IsBusBusy, cacheVars
      <3>2. \A k \in Cores : core_operating_state[k] = "final" => core_operating_state'[k] = "final"
        BY <1>2, <3>1 DEF MachineType
      <3>3. \A k \in Cores : \A i \in Indexes : Moving(k, i) => Moving(k, i)'
        BY <3>1, <3>2 DEF Moving
      <3> QED BY <1>3, <3>1, <3>3, WeakerSettled
    <2>3. ASSUME NEW word, WriteHit(c, r, word)
          PROVE  SettledSingleWriter'
      <3> DEFINE i == r.address.block.index
      <3>1. /\ tsram' = [tsram EXCEPT ![c][i].mesi = "modified"]
            /\ tsram[c][i].mesi \in {"exclusive", "modified"}
            /\ UNCHANGED busVars
        BY <2>3 DEF WriteHit, HoldsIn
      <3>2. i \in Indexes /\ tsram \in [Cores -> [Indexes -> Line]]
        BY <1>2, AnyAccessParts DEF MachineType, CacheTypeOK
      <3> HIDE DEF i
      <3>3. Weaker(tsram')
        BY <3>1, <3>2 DEF Weaker, Line
      <3>4. \A k \in Cores : \A j \in Indexes : Moving(k, j) => Moving(k, j)'
        BY <3>1 DEF busVars, Moving
      <3> QED BY <3>3, <3>4, WeakerSettled
    <2> QED BY <1>2, <1>9, <2>1, <2>2, <2>3, AccessCases
  <1>10. SettledSingleWriter'
    BY <1>5, <1>6, <1>7, <1>8, <1>9 DEF MachineStep
  <1> QED BY <1>1, <1>10

\* The caches are empty at the start.
LEMMA StartWriter ==
  ASSUME NEW content \in [Blocks -> [Offsets -> Data]], Start(content)
  PROVE  WriterInv
  <1>1. MachineInv
    BY StartInv
  <1>2. RealCommands /\ EvictionSameLine
    <2>1. 1..Len(list) = {} /\ ~is_bus_operating
      BY DEF Start
    <2>2. \A c \in Cores : ~P!Owns(c)
      BY DEF Start, P!Owns
    <2> QED BY <2>1, <2>2 DEF RealCommands, EvictionSameLine
  <1>3. \A c \in Cores : \A b \in Blocks : ~Holds(c, b)
    BY DEF Start, CacheInit, Holds, Blocks
  <1>4. SettledSingleWriter
    <2> SUFFICES ASSUME NEW c \in Cores, NEW k \in Cores, NEW b \in Blocks,
                        c # k, ~Moving(c, b.index), ~Moving(k, b.index),
                        HoldsIn(c, b, {"exclusive", "modified"}), Holds(k, b)
                 PROVE  FALSE
      BY Zenon DEF SettledSingleWriter
    <2> QED BY <1>3
  <1> QED BY <1>1, <1>2, <1>4 DEF WriterInv

-----------------------------------------------------------------------------
(* The theorem.                                                            *)

\* The lines of a core that may use its cache are not being refilled.
LEMMA WriterIsSingle == WriterInv => SingleWriter
  <1> SUFFICES ASSUME WriterInv PROVE SingleWriter
    OBVIOUS
  <1>1. ASSUME NEW c \in Cores, Usable(c), NEW i \in Indexes PROVE ~Moving(c, i)
    <2>1. is_bus_operating => core_operating_state[current_data_on_bus.origid] = "operate"
      BY OwnerFacts DEF WriterInv, MachineInv
    <2> QED BY <1>1, <2>1 DEF Usable, Moving
  <1>2. \A b \in Blocks : b.index \in Indexes
    BY DEF Blocks
  <1> QED BY <1>1, <1>2 DEF SingleWriter, WriterInv, SettledSingleWriter

\* While a core may write a block without asking the bus, no other core may use a copy of
\* it.
THEOREM SingleWriterHolds == Spec => []SingleWriter
  <1>1. Init => WriterInv
    <2>1. [b \in Blocks |-> [o \in Offsets |-> 0]] \in [Blocks -> [Offsets -> Data]]
      BY MemoryAssumption
    <2> QED BY <2>1, StartWriter DEF Init
  <1>2. WriterInv /\ MachineInv /\ ProgramType /\ [Next]_vars => WriterInv'
    <2> SUFFICES ASSUME WriterInv, MachineInv, ProgramType, [Next]_vars PROVE WriterInv'
      OBVIOUS
    <2>1. TypeOK
      BY TypeParts DEF MachineInv
    <2> QED BY <2>1, NextIsMachineStep, StepWriter
  <1> QED BY <1>1, <1>2, LoopInv, WriterIsSingle, PTL DEF Spec

=============================================================================
