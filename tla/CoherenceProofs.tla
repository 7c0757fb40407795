-------------------------- MODULE CoherenceProofs --------------------------
(***************************************************************************)
(* Until one of the two races of Coherence.tla happens, every copy and     *)
(* main memory hold the values stored last, for every number of cores, all *)
(* caches, block sizes, delays and programs.  The build must not place     *)
(* main memory behind core_operating_state (ErrCell is empty): the stray   *)
(* write of operate_bus is a matter of its own.  Without write sharing     *)
(* the races do not happen.                                                *)
(***************************************************************************)
EXTENDS Coherence, QuadCoreProofs

-----------------------------------------------------------------------------
(* The inductive invariant.  t is the transaction that is under way, or    *)
(* the container when there is none, and offset the next word it moves.    *)

\* Line i of core c is the one that t refills.
Target(t, c, i) == c = t.origid /\ i = t.block.index

\* All copies but those in the line of t hold the values stored last.
CopiesCurrent(t) ==
    \A c \in Cores : \A b \in Blocks :
        Holds(c, b) /\ ~Target(t, c, b.index) => dsram[c][b.index] = latest[b]

\* So does main memory of the blocks that no cache has modified; a line that still has the
\* state of its old block does not count.
MemoryCurrent(t) ==
    \A b \in Blocks :
        (\A c \in Cores : HoldsIn(c, b, {"modified"})
              => c = t.origid /\ b = t.block /\ t.command # "bus_flush")
        => memory[b] = latest[b]

\* SingleWriter, of all lines but that of t.
WriterBut(t) ==
    \A c, k \in Cores : \A b \in Blocks :
        c # k /\ ~Target(t, c, b.index) /\ ~Target(t, k, b.index)
              /\ HoldsIn(c, b, {"exclusive", "modified"})
            => ~Holds(k, b)

\* While t evicts its block, some cache has it modified.  If that is the cache of its core,
\* nobody else has it, and the words that have moved are in main memory.
Evicting(t, offset) ==
    /\ \E h \in Cores : HoldsIn(h, t.block, {"modified"})
    /\ tsram[t.origid][t.block.index].mesi \in {"exclusive", "modified"} =>
         /\ HoldsIn(t.origid, t.block, {"modified"})
         /\ \A k \in Cores \ {t.origid} : ~Holds(k, t.block)
         /\ dsram[t.origid][t.block.index] = latest[t.block]
         /\ \A o \in Offsets : o < offset => memory[t.block][o] = latest[t.block][o]

\* While t fetches its block: a modified block that it replaces has been evicted; once
\* memory counts, no other cache can come to modify the block; the words that have moved
\* are those stored last.
Filling(t, offset) ==
    /\ \A b \in Blocks :
         b.index = t.block.index /\ b # t.block /\ HoldsIn(t.origid, b, {"modified"}) =>
           /\ memory[b] = latest[b]
           /\ \A k \in Cores \ {t.origid} : ~Holds(k, b)
    /\ is_memory_operation =>
         \A k \in Cores \ {t.origid} : ~HoldsIn(k, t.block, {"exclusive"})
    /\ is_memory_operation /\ main_memory_response_time < MEMORY_DELAY_TO_FIRST_BYTE =>
         \A k \in Cores \ {t.origid} : ~HoldsIn(k, t.block, {"modified"})
    /\ \A o \in Offsets : o < offset =>
         /\ dsram[t.origid][t.block.index][o] = latest[t.block][o]
         /\ memory[t.block][o] = latest[t.block][o]

Lines(t) == CopiesCurrent(t) /\ MemoryCurrent(t)

Transfer(t, offset) ==
    /\ Lines(t)
    /\ t.command = "bus_flush" => Evicting(t, offset)
    /\ t.command # "bus_flush" => Filling(t, offset)

\* An eviction has ended, the fetch behind it has not got the bus.
Evicted == \E c \in Cores : P!Owns(c) /\ current_data_on_bus.command = "bus_flush"

\* What waits for the bus: a line that may be written to is the one its eviction is for, and
\* is not the one a fetch is for; a modified line that is fetched into is evicted before.
Waiting(i) ==
    LET p == list[i]
        line == tsram[p.origid][p.block.index]
    IN  /\ p.command = "bus_flush" /\ line.mesi \in {"exclusive", "modified"}
             => HoldsIn(p.origid, p.block, {"modified"})
        /\ p.command # "bus_flush" => ~HoldsIn(p.origid, p.block, {"exclusive", "modified"})
        /\ p.command # "bus_flush" /\ line.mesi = "modified"
             => IF i = 1 THEN P!Owns(p.origid) /\ current_data_on_bus.command = "bus_flush"
                ELSE list[i - 1].command = "bus_flush"

WaitingLines == \A i \in 1..Len(list) : list[i].origid \in Cores => Waiting(i)

DataInv ==
    /\ WaitingLines
    /\ is_bus_operating => Transfer(current_data_on_bus, offset_of_address)
    /\ ~is_bus_operating /\ Evicted => Transfer(current_data_on_bus, BLOCK_SIZE)
    /\ ~is_bus_operating /\ ~Evicted => Lines(Delay)

LatestType == latest \in [Blocks -> [Offsets -> Data]]

CoherenceInv == WriterInv /\ LatestType /\ (raced = {} => DataInv)

-----------------------------------------------------------------------------
(* What a cycle does to lines and words.                                   *)

\* Snooping changes one line at most: that of the first cache with the block, which becomes
\* shared or invalid; a modified one changes with the last word only.
LEMMA SnoopStates ==
  ASSUME MachineType, NEW t \in BusPacket, NEW offset \in Offsets,
         NEW c \in Cores, NEW i \in Indexes
  PROVE  /\ SnoopedTags(t, offset)[c][i].tag = tsram[c][i].tag
         /\ \/ SnoopedTags(t, offset)[c][i].mesi = tsram[c][i].mesi
            \/ /\ SnoopedTags(t, offset)[c][i].mesi \in {"shared", "invalid"}
               /\ tsram[c][i].mesi # "invalid"
               /\ c \in Reacting(t) /\ i = t.block.index /\ t.command # "bus_flush"
               /\ tsram[c][i].mesi = "modified" => offset = BLOCK_SIZE - 1
  <1> DEFINE k == Min(Reacting(t))
             j == t.block.index
             n == SnoopedState(tsram[k][j].mesi, t.command)
  <1>1. tsram \in [Cores -> [Indexes -> Line]]
    BY DEF MachineType, CacheTypeOK
  <1>2. CASE SnoopedTags(t, offset) = tsram
    BY <1>2
  <1>3. CASE SnoopedTags(t, offset) # tsram
    <2>1. /\ Reacting(t) # {} /\ SnoopedTags(t, offset) = [tsram EXCEPT ![k][j].mesi = n]
          /\ tsram[k][j].mesi = "modified" => offset = BLOCK_SIZE - 1
      BY <1>3 DEF SnoopedTags
    <2>2. k \in Cores /\ j \in Indexes /\ k \in Reacting(t)
      BY <2>1, ReactingFacts, PacketParts
    <2>3. tsram[k][j].mesi # "invalid"
      BY <2>2 DEF Reacting, Holds
    <2>4. n = tsram[k][j].mesi \/ (n \in {"shared", "invalid"} /\ t.command # "bus_flush")
      BY DEF SnoopedState
    <2> HIDE DEF k, j, n
    <2>5. /\ c # k \/ i # j => SnoopedTags(t, offset)[c][i] = tsram[c][i]
          /\ SnoopedTags(t, offset)[k][j] = [tsram[k][j] EXCEPT !.mesi = n]
      BY <1>1, <2>1, <2>2
    <2>6. /\ [tsram[k][j] EXCEPT !.mesi = n].tag = tsram[k][j].tag
          /\ [tsram[k][j] EXCEPT !.mesi = n].mesi = n
      BY <1>1, <2>2 DEF Line
    <2>7. CASE c # k \/ i # j
      BY <2>5, <2>7
    <2>8. CASE c = k /\ i = j
      BY <2>1, <2>2, <2>3, <2>4, <2>5, <2>6, <2>8 DEF j
    <2> QED BY <2>7, <2>8
  <1> QED BY <1>2, <1>3

\* The only cache with the block gives it up or shares it, at once or with the last word.
LEMMA SnoopOnly ==
  ASSUME MachineType, NEW t \in BusPacket, NEW offset \in Offsets,
         t.command \in {"bus_read", "bus_read_exclusive"},
         NEW c \in Cores, c \in Reacting(t), \A n \in Reacting(t) : n = c,
         tsram[c][t.block.index].mesi = "modified" => offset = BLOCK_SIZE - 1
  PROVE  SnoopedTags(t, offset)[c][t.block.index].mesi \in {"shared", "invalid"}
  <1> DEFINE i == t.block.index
             n == SnoopedState(tsram[c][i].mesi, t.command)
  <1>1. tsram \in [Cores -> [Indexes -> Line]] /\ i \in Indexes
    BY PacketParts DEF MachineType, CacheTypeOK
  <1>2. Min(Reacting(t)) = c
    <2>1. Min(Reacting(t)) \in Reacting(t)
      BY ReactingFacts
    <2> QED BY <2>1
  <1>3. SnoopedTags(t, offset) = [tsram EXCEPT ![c][i].mesi = n]
    BY <1>2 DEF SnoopedTags
  <1>4. n \in {"shared", "invalid"}
    BY DEF SnoopedState, Reacting, Holds
  <1> HIDE DEF i, n
  <1>5. SnoopedTags(t, offset)[c][i] = [tsram[c][i] EXCEPT !.mesi = n]
    BY <1>1, <1>3
  <1>6. [tsram[c][i] EXCEPT !.mesi = n].mesi = n
    BY <1>1 DEF Line
  <1> QED BY <1>4, <1>5, <1>6 DEF i

\* An eviction changes no state of a line that snoops it.
LEMMA SnoopedFlush ==
  ASSUME MachineType, NEW t \in BusPacket, t.command = "bus_flush", NEW offset \in Offsets
  PROVE  SnoopedTags(t, offset) = tsram
  <1> DEFINE k == Min(Reacting(t))
             i == t.block.index
             n == SnoopedState(tsram[k][i].mesi, t.command)
  <1> SUFFICES ASSUME SnoopedTags(t, offset) # tsram PROVE FALSE
    OBVIOUS
  <1>1. Reacting(t) # {} /\ SnoopedTags(t, offset) = [tsram EXCEPT ![k][i].mesi = n]
    BY DEF SnoopedTags
  <1>2. k \in Cores /\ i \in Indexes /\ tsram \in [Cores -> [Indexes -> Line]]
    BY <1>1, ReactingFacts, PacketParts DEF MachineType, CacheTypeOK
  <1>3. n = tsram[k][i].mesi
    BY DEF SnoopedState
  <1> HIDE DEF k, i, n
  <1>4. [tsram[k][i] EXCEPT !.mesi = n] = tsram[k][i]
    BY <1>2, <1>3 DEF Line
  <1>5. [tsram EXCEPT ![k][i].mesi = n] = tsram
    BY <1>2, <1>4
  <1> QED BY <1>1, <1>5

\* Words change in the line of the transaction only, and in main memory only in its block.
LEMMA WordPlaces ==
  ASSUME MachineType, NEW t \in BusPacket, t.origid \in Cores, NEW offset \in Offsets,
         NEW flag, MoveWord(t, offset, flag)
  PROVE  /\ \A c \in Cores : \A i \in Indexes :
              c # t.origid \/ i # t.block.index => dsram'[c][i] = dsram[c][i]
         /\ \A b \in Blocks : b # t.block => memory'[b] = Content[b]
  <1> DEFINE snooped == SnoopedPacket(t, offset)
             word    == Supplied(snooped, Content, offset, MainMemory)
  <1>1. dsram' = AnsweredWords(t.origid, word, offset) /\ memory' = Stored(snooped, Content, offset)
    BY DEF MoveWord
  <1>2. snooped \in BusPacket /\ Content \in [Blocks -> [Offsets -> Data]]
    BY SnoopType, ContentType
  <1>3. snooped.block = t.block /\ t.block.index \in Indexes /\ t.block \in Blocks
    BY PacketParts DEF SnoopedPacket, BusPacket
  <1>4. word.block = t.block
    BY <1>2, <1>3, SuppliedFacts
  <1>5. dsram \in [Cores -> [Indexes -> [Offsets -> Data]]]
    BY DEF MachineType, CacheTypeOK
  <1> HIDE DEF snooped, word
  <1>6. \A c \in Cores : \A i \in Indexes :
              c # t.origid \/ i # t.block.index => dsram'[c][i] = dsram[c][i]
    BY <1>1, <1>3, <1>4, <1>5 DEF AnsweredWords
  <1>7. \A b \in Blocks : b # t.block => memory'[b] = Content[b]
    BY <1>1, <1>2, <1>3 DEF Stored
  <1> QED BY <1>6, <1>7

\* Without main memory behind the status array, operate_bus leaves it alone.
LEMMA NoStrayWrite ==
  ASSUME ErrCell = {}, MachineType
  PROVE  Content = memory
  <1>1. memory \in [Blocks -> [Offsets -> Data]]
    BY DEF MachineType, MemoryTypeOK
  <1>2. \A b \in Blocks : [o \in Offsets |->
            IF [block |-> b, offset |-> o] \in ErrCell /\ memory[b][o] = final_state
            THEN 0 ELSE memory[b][o]] = memory[b]
    BY <1>1
  <1>3. [b \in Blocks |-> [o \in Offsets |->
            IF [block |-> b, offset |-> o] \in ErrCell /\ memory[b][o] = final_state
            THEN 0 ELSE memory[b][o]]] = memory
    BY <1>1, <1>2
  <1> QED BY <1>3 DEF Content

\* The container asks for no line.
LEMMA DelayTargets == \A c \in Cores : \A i : ~Target(Delay, c, i)
  <1>1. Delay.origid = ErrOriginator
    BY DEF Delay
  <1> QED BY <1>1, ConstantFacts DEF Target

\* Two blocks of one line differ in their tags.
LEMMA SameBlock ==
  ASSUME NEW b \in Blocks, NEW e \in Blocks, b.index = e.index, b.tag = e.tag
  PROVE  b = e
  BY DEF Blocks

-----------------------------------------------------------------------------
(* The cycles of a fetch.                                                  *)

\* A cycle in which nothing moves and nobody snoops.
LEMMA HeldBack ==
  ASSUME ErrCell = {}, MachineType, NEW t, NEW offset, NEW flag,
         Transfer(t, offset), HoldBack(t, offset, flag), UNCHANGED latest
  PROVE  Transfer(t, offset)'
  <1>1. UNCHANGED <<tsram, dsram, memory, latest, is_memory_operation, main_memory_response_time>>
    BY NoStrayWrite DEF HoldBack, cacheVars
  <1>2. \A c, b, s : Holds(c, b)' = Holds(c, b) /\ HoldsIn(c, b, s)' = HoldsIn(c, b, s)
    BY <1>1 DEF Holds, HoldsIn
  <1>3. CopiesCurrent(t)' /\ MemoryCurrent(t)'
    BY <1>1, <1>2 DEF Transfer, Lines, CopiesCurrent, MemoryCurrent, Target
  <1>4. Evicting(t, offset) => Evicting(t, offset)'
    BY <1>1, <1>2 DEF Evicting
  <1>5. Filling(t, offset) => Filling(t, offset)'
    BY <1>1, <1>2 DEF Filling
  <1> QED BY <1>3, <1>4, <1>5 DEF Transfer, Lines

\* A core that may write the block of a fetch is the only one to snoop it, and the cache
\* answers at once when the block is modified.
LEMMA OnlyHolder ==
  ASSUME MachineType, NEW t \in BusPacket, t.origid \in Cores,
         t.command \in {"bus_read", "bus_read_exclusive"}, WriterBut(t),
         NEW k \in Cores, k # t.origid, HoldsIn(k, t.block, {"exclusive", "modified"})
  PROVE  /\ k \in Reacting(t) /\ \A n \in Reacting(t) : n = k
         /\ HoldsIn(k, t.block, {"modified"}) => Changed(t.origid, t.block)
  <1>1. \A n \in Cores : n # t.origid /\ Holds(n, t.block) => n = k
    <2> SUFFICES ASSUME NEW n \in Cores, n # t.origid, Holds(n, t.block), n # k PROVE FALSE
      OBVIOUS
    <2>1. t.block \in Blocks
      BY PacketParts
    <2> QED BY <2>1 DEF WriterBut, Target
  <1>2. k \in Reacting(t) /\ \A n \in Reacting(t) : n = k
    BY <1>1 DEF Reacting, HoldsIn
  <1>3. \A s \in Sharers(t.origid, t.block) : k <= s
    <2>1. \A s \in Sharers(t.origid, t.block) : s = k
      BY <1>1 DEF Sharers
    <2>2. k \in Nat
      BY ConstantFacts
    <2> QED BY <2>1, <2>2
  <1>4. HoldsIn(k, t.block, {"modified"}) => Changed(t.origid, t.block)
    BY <1>3 DEF Changed, HoldsIn
  <1> QED BY <1>2, <1>4

\* While memory is awaited, no other cache has the block modified.
LEMMA NobodyModified ==
  ASSUME MachineType, NEW t \in BusPacket, t.origid \in Cores, NEW offset, NEW flag,
         t.command \in {"bus_read", "bus_read_exclusive"}, WriterBut(t),
         Filling(t, offset), AwaitMemory(t, offset, flag), NEW k \in Cores, k # t.origid
  PROVE  ~HoldsIn(k, t.block, {"modified"})
  <1> SUFFICES ASSUME HoldsIn(k, t.block, {"modified"}) PROVE FALSE
    OBVIOUS
  <1>1. HoldsIn(k, t.block, {"exclusive", "modified"})
    BY DEF HoldsIn
  <1>2. Changed(t.origid, t.block)
    BY <1>1, OnlyHolder
  <1>3. ~Answers(Changed(t.origid, t.block))
    BY DEF AwaitMemory
  <1>4. main_memory_response_time \in Nat /\ MEMORY_DELAY_TO_FIRST_BYTE \in Nat
    BY ConstantFacts DEF MachineType, MemoryTypeOK
  <1>5. is_memory_operation /\ main_memory_response_time < MEMORY_DELAY_TO_FIRST_BYTE
    BY <1>2, <1>3, <1>4 DEF Answers, ResponseTime
  <1> QED BY <1>5 DEF Filling

\* A cycle of a fetch in which memory is awaited.
LEMMA FetchAwaits ==
  ASSUME ErrCell = {}, MachineType, NEW t \in BusPacket, t.origid \in Cores,
         NEW offset \in Offsets, NEW flag,
         t.command \in {"bus_read", "bus_read_exclusive"}, WriterBut(t),
         Transfer(t, offset), AwaitMemory(t, offset, flag), UNCHANGED latest
  PROVE  Transfer(t, offset)'
  <1> USE DEF Transfer, Lines
  <1>1. /\ UNCHANGED <<dsram, memory, latest>> /\ tsram' = SnoopedTags(t, offset)
    BY NoStrayWrite DEF AwaitMemory
  <1>2. t.block \in Blocks /\ t.block.index \in Indexes /\ \A b \in Blocks : b.index \in Indexes
    BY PacketParts DEF Blocks
  <1>3. \A c \in Cores : \A i \in Indexes :
          /\ tsram'[c][i].tag = tsram[c][i].tag
          /\ \/ tsram'[c][i].mesi = tsram[c][i].mesi
             \/ /\ tsram'[c][i].mesi \in {"shared", "invalid"}
                /\ tsram[c][i].mesi # "invalid"
                /\ c \in Reacting(t) /\ i = t.block.index
    BY <1>1, SnoopStates
  <1>4. ASSUME NEW c \in Cores, NEW b \in Blocks
        PROVE  /\ Holds(c, b)' => Holds(c, b)
               /\ HoldsIn(c, b, {"modified"})' => HoldsIn(c, b, {"modified"})
               /\ HoldsIn(c, b, {"exclusive"})' => HoldsIn(c, b, {"exclusive"})
    BY <1>2, <1>3 DEF Holds, HoldsIn
  <1>5. \A k \in Cores \ {t.origid} : ~HoldsIn(k, t.block, {"modified"})
    BY NobodyModified
  <1>6. ASSUME NEW c \in Cores, NEW b \in Blocks, HoldsIn(c, b, {"modified"})
        PROVE  HoldsIn(c, b, {"modified"})'
    <2>1. CASE tsram'[c][b.index].mesi = tsram[c][b.index].mesi
      BY <1>2, <1>3, <1>6, <2>1 DEF Holds, HoldsIn
    <2>2. CASE c \in Reacting(t) /\ b.index = t.block.index
      <3>1. c # t.origid /\ Holds(c, t.block)
        BY <2>2 DEF Reacting
      <3>2. b = t.block
        BY <1>2, <1>6, <2>2, <3>1, SameBlock DEF Holds, HoldsIn
      <3> QED BY <1>5, <1>6, <3>1, <3>2
    <2> QED BY <1>2, <1>3, <2>1, <2>2
  <1>7. CopiesCurrent(t)'
    BY <1>1, <1>4 DEF CopiesCurrent, Target
  <1>8. MemoryCurrent(t)'
    BY <1>1, <1>6 DEF MemoryCurrent
  <1>9. ASSUME NEW k \in Cores, k # t.origid PROVE ~HoldsIn(k, t.block, {"exclusive"})'
    <2> SUFFICES ASSUME HoldsIn(k, t.block, {"exclusive"})' PROVE FALSE
      OBVIOUS
    <2>1. HoldsIn(k, t.block, {"exclusive"})
      BY <1>2, <1>4
    <2>2. HoldsIn(k, t.block, {"exclusive", "modified"}) /\ tsram[k][t.block.index].mesi # "modified"
      BY <2>1 DEF HoldsIn
    <2>3. tsram'[k][t.block.index].mesi \in {"shared", "invalid"}
      <3>1. k \in Reacting(t) /\ \A n \in Reacting(t) : n = k
        BY <1>9, <2>2, OnlyHolder
      <3> QED BY <1>1, <2>2, <3>1, SnoopOnly
    <2> QED BY <2>3 DEF HoldsIn
  <1>10. Filling(t, offset)'
    <2>1. ASSUME NEW b \in Blocks, b.index = t.block.index, b # t.block,
                 HoldsIn(t.origid, b, {"modified"})'
          PROVE  memory'[b] = latest'[b] /\ \A k \in Cores \ {t.origid} : ~Holds(k, b)'
      <3>1. HoldsIn(t.origid, b, {"modified"})
        BY <1>4, <2>1
      <3> QED BY <1>1, <1>4, <2>1, <3>1 DEF Filling
    <2>2. \A k \in Cores \ {t.origid} : ~HoldsIn(k, t.block, {"modified"})'
      BY <1>2, <1>4, <1>5
    <2>3. \A o \in Offsets : o < offset =>
            /\ dsram'[t.origid][t.block.index][o] = latest'[t.block][o]
            /\ memory'[t.block][o] = latest'[t.block][o]
      BY <1>1 DEF Filling
    <2> QED BY <1>9, <2>1, <2>2, <2>3 DEF Filling
  <1> QED BY <1>7, <1>8, <1>10

\* Whoever supplies it, the word of a fetch is the one stored last; main memory has it, and
\* the cache of the originator takes it.
LEMMA FetchedWord ==
  ASSUME ErrCell = {}, MachineType, LatestType, NEW t \in BusPacket, t.origid \in Cores,
         NEW offset \in Offsets, NEW flag,
         t.command \in {"bus_read", "bus_read_exclusive"}, WriterBut(t),
         Lines(t), MoveWord(t, offset, flag)
  PROVE  /\ dsram' = [dsram EXCEPT ![t.origid][t.block.index][offset] = latest[t.block][offset]]
         /\ memory' = memory \/ memory' = [memory EXCEPT ![t.block][offset] = latest[t.block][offset]]
         /\ memory'[t.block][offset] = latest[t.block][offset]
  <1> DEFINE snooped == SnoopedPacket(t, offset)
             word    == Supplied(snooped, memory, offset, MainMemory)
             value   == latest[t.block][offset]
             i       == t.block.index
  <1> USE DEF Lines
  <1>1. dsram' = AnsweredWords(t.origid, word, offset) /\ memory' = Stored(snooped, memory, offset)
    BY NoStrayWrite DEF MoveWord
  <1>2. /\ t.block \in Blocks /\ i \in Indexes /\ memory \in [Blocks -> [Offsets -> Data]]
        /\ t.block.tag \in Tags
    BY PacketParts DEF MachineType, MemoryTypeOK
  <1>3. CASE \E k \in Cores \ {t.origid} : HoldsIn(k, t.block, {"modified"})
    <2>1. PICK k \in Cores : k # t.origid /\ HoldsIn(k, t.block, {"modified"})
      BY <1>3
    <2>2. HoldsIn(k, t.block, {"exclusive", "modified"}) /\ Holds(k, t.block)
          /\ tsram[k][i].mesi = "modified"
      BY <2>1 DEF HoldsIn
    <2>3. k \in Reacting(t) /\ \A n \in Reacting(t) : n = k
      BY <2>1, <2>2, OnlyHolder
    <2>4. Min(Reacting(t)) = k /\ Reacting(t) # {}
      <3>1. Min(Reacting(t)) \in Reacting(t)
        BY <2>3, ReactingFacts
      <3> QED BY <2>3, <3>1
    <2>5. dsram[k][i] = latest[t.block]
      BY <1>2, <2>1, <2>2 DEF CopiesCurrent, Target
    <2>6. snooped = [t EXCEPT !.origid = k, !.command = "bus_flush", !.data = value]
      BY <2>2, <2>4, <2>5 DEF SnoopedPacket
    <2> HIDE DEF snooped, value
    <2>7. /\ snooped.command = "bus_flush" /\ snooped.origid = k
          /\ snooped.block = t.block /\ snooped.data = value
      BY <2>6 DEF BusPacket
    <2>8. word = snooped
      BY <2>7 DEF Supplied
    <2> HIDE DEF word
    <2>9. dsram' = [dsram EXCEPT ![t.origid][t.block.index][offset] = value]
      BY <1>1, <2>1, <2>7, <2>8 DEF AnsweredWords
    <2>10. memory' = [memory EXCEPT ![t.block][offset] = value]
      BY <1>1, <2>7 DEF Stored
    <2>11. memory'[t.block][offset] = value
      BY <1>2, <2>10
    <2> QED BY <2>9, <2>10, <2>11 DEF value
  <1>4. CASE ~\E k \in Cores \ {t.origid} : HoldsIn(k, t.block, {"modified"})
    <2>1. memory[t.block] = latest[t.block]
      BY <1>2, <1>4 DEF MemoryCurrent
    <2>2. snooped = t
      <3>1. CASE Reacting(t) = {}
        BY <3>1 DEF SnoopedPacket
      <3>2. CASE Reacting(t) # {}
        <4>1. Min(Reacting(t)) \in Cores /\ Min(Reacting(t)) \in Reacting(t)
          BY <3>2, ReactingFacts
        <4>2. tsram[Min(Reacting(t))][i].mesi # "modified"
          BY <4>1, <1>4 DEF Reacting, HoldsIn
        <4> QED BY <4>2 DEF SnoopedPacket
      <3> QED BY <3>1, <3>2
    <2> HIDE DEF snooped, value
    <2>3. /\ word.origid = MainMemory /\ word.block = t.block
          /\ word.data = memory[t.block][offset]
      BY <2>2 DEF Supplied, BusPacket
    <2> HIDE DEF word
    <2>4. word.origid # t.origid
      BY <2>3, ConstantFacts
    <2>5. dsram' = [dsram EXCEPT ![t.origid][t.block.index][offset] = value]
      BY <1>1, <2>1, <2>3, <2>4 DEF AnsweredWords, value
    <2>6. memory' = memory
      BY <1>1, <2>2 DEF Stored
    <2> QED BY <2>1, <2>5, <2>6 DEF value
  <1> QED BY <1>3, <1>4

\* What holds after a word of a fetch, the last one or not: the lines that are not refilled,
\* the blocks that are not fetched, and the words that have moved.
LEMMA FetchedLines ==
  ASSUME ErrCell = {}, MachineType, LatestType, NEW t \in BusPacket, t.origid \in Cores,
         NEW offset \in Offsets, NEW flag,
         t.command \in {"bus_read", "bus_read_exclusive"}, WriterBut(t),
         Transfer(t, offset), MoveWord(t, offset, flag), UNCHANGED latest
  PROVE  /\ CopiesCurrent(t)'
         /\ \A b \in Blocks : b # t.block /\ (\A c \in Cores : ~HoldsIn(c, b, {"modified"})')
              => memory'[b] = latest[b]
         /\ \A o \in Offsets : o < offset + 1 =>
              /\ dsram'[t.origid][t.block.index][o] = latest[t.block][o]
              /\ memory'[t.block][o] = latest[t.block][o]
  <1> USE DEF Transfer, Lines
  <1> DEFINE i == t.block.index
  <1>1. /\ t.block \in Blocks /\ i \in Indexes /\ \A b \in Blocks : b.index \in Indexes
    BY PacketParts DEF Blocks
  <1>2. /\ memory \in [Blocks -> [Offsets -> Data]]
        /\ dsram \in [Cores -> [Indexes -> [Offsets -> Data]]]
    BY DEF MachineType, MemoryTypeOK, CacheTypeOK
  <1>3. \A c \in Cores : \A j \in Indexes :
          c # t.origid \/ j # i =>
            /\ tsram'[c][j] = SnoopedTags(t, offset)[c][j]
            /\ dsram'[c][j] = dsram[c][j]
    BY WordTags, WordPlaces
  <1>4. CopiesCurrent(t)'
    <2> SUFFICES ASSUME NEW c \in Cores, NEW b \in Blocks, Holds(c, b)', ~Target(t, c, b.index)
                 PROVE  dsram'[c][b.index] = latest'[b]
      BY DEF CopiesCurrent, Target
    <2>1. c # t.origid \/ b.index # i
      BY DEF Target
    <2>2. Holds(c, b)
      BY <1>1, <1>3, <2>1, SnoopStates DEF Holds
    <2> QED BY <1>1, <1>3, <2>1, <2>2 DEF CopiesCurrent
  <1>5. ASSUME NEW b \in Blocks, b # t.block, \A c \in Cores : ~HoldsIn(c, b, {"modified"})'
        PROVE  memory'[b] = latest[b]
    <2>1. memory'[b] = memory[b]
      BY <1>5, WordPlaces, NoStrayWrite
    <2>2. CASE b.index = i /\ HoldsIn(t.origid, b, {"modified"})
      BY <1>5, <2>1, <2>2 DEF Filling
    <2>3. CASE ~(b.index = i /\ HoldsIn(t.origid, b, {"modified"}))
      <3>1. ASSUME NEW c \in Cores, HoldsIn(c, b, {"modified"}) PROVE FALSE
        <4>1. c # t.origid \/ b.index # i
          BY <2>3, <3>1
        <4>2. ~(c \in Reacting(t) /\ b.index = i)
          BY <1>1, <1>5, <3>1, SameBlock DEF Reacting, Holds, HoldsIn
        <4>3. /\ SnoopedTags(t, offset)[c][b.index].mesi = tsram[c][b.index].mesi
              /\ SnoopedTags(t, offset)[c][b.index].tag = tsram[c][b.index].tag
          BY <1>1, <4>2, SnoopStates
        <4>4. HoldsIn(c, b, {"modified"})'
          BY <1>1, <1>3, <3>1, <4>1, <4>3 DEF Holds, HoldsIn
        <4> QED BY <4>4, <1>5
      <3> QED BY <3>1, <2>1 DEF MemoryCurrent
    <2> QED BY <2>2, <2>3
  <1>6. ASSUME NEW o \in Offsets, o < offset + 1
        PROVE  /\ dsram'[t.origid][i][o] = latest[t.block][o]
               /\ memory'[t.block][o] = latest[t.block][o]
    <2> DEFINE value == latest[t.block][offset]
    <2>1. /\ dsram' = [dsram EXCEPT ![t.origid][i][offset] = value]
          /\ memory' = memory \/ memory' = [memory EXCEPT ![t.block][offset] = value]
          /\ memory'[t.block][offset] = value
      BY FetchedWord
    <2>2. o < offset \/ o = offset
      BY <1>6 DEF Offsets
    <2>3. dsram'[t.origid][i][offset] = value
      <3> HIDE DEF value, i
      <3> QED BY <1>1, <1>2, <2>1
    <2>4. o # offset => /\ dsram'[t.origid][i][o] = dsram[t.origid][i][o]
                        /\ memory'[t.block][o] = memory[t.block][o]
      <3> HIDE DEF value, i
      <3> QED BY <1>1, <1>2, <2>1
    <2> QED BY <2>1, <2>2, <2>3, <2>4 DEF Filling
  <1> QED BY <1>4, <1>5, <1>6

\* A word of a fetch that is not the last one.
LEMMA FetchMoves ==
  ASSUME ErrCell = {}, MachineType, LatestType, NEW t \in BusPacket, t.origid \in Cores,
         NEW offset \in Offsets, offset # BLOCK_SIZE - 1, NEW flag,
         t.command \in {"bus_read", "bus_read_exclusive"}, WriterBut(t),
         Transfer(t, offset), MoveWord(t, offset, flag), UNCHANGED latest
  PROVE  Transfer(t, offset + 1)'
  <1>1. Lines(t)
    BY DEF Transfer
  <1>2. /\ dsram' = [dsram EXCEPT ![t.origid][t.block.index][offset] = latest[t.block][offset]]
        /\ memory' = memory \/ memory' = [memory EXCEPT ![t.block][offset] = latest[t.block][offset]]
        /\ memory'[t.block][offset] = latest[t.block][offset]
    BY <1>1, FetchedWord
  <1> USE DEF Transfer, Lines
  <1> DEFINE i == t.block.index
  <1>3. /\ t.block \in Blocks /\ i \in Indexes /\ \A b \in Blocks : b.index \in Indexes
    BY PacketParts DEF Blocks
  <1>4. /\ CopiesCurrent(t)'
        /\ \A b \in Blocks : b # t.block /\ (\A c \in Cores : ~HoldsIn(c, b, {"modified"})')
              => memory'[b] = latest'[b]
        /\ \A o \in Offsets : o < offset + 1 =>
              /\ dsram'[t.origid][t.block.index][o] = latest'[t.block][o]
              /\ memory'[t.block][o] = latest'[t.block][o]
    BY FetchedLines
  <1>5. /\ \A c \in Cores : \A j \in Indexes :
              c # t.origid \/ j # i => tsram'[c][j] = SnoopedTags(t, offset)[c][j]
        /\ tsram'[t.origid][i].tag = t.block.tag
    BY WordTags
  <1>6. MemoryCurrent(t)'
    <2> SUFFICES ASSUME NEW b \in Blocks,
                        \A c \in Cores : HoldsIn(c, b, {"modified"})'
                          => c = t.origid /\ b = t.block
                 PROVE  memory'[b] = latest'[b]
      BY DEF MemoryCurrent
    <2>1. CASE b # t.block
      BY <1>4, <2>1
    <2>2. CASE b = t.block
      <3>1. ASSUME NEW c \in Cores, c # t.origid, HoldsIn(c, b, {"modified"}) PROVE FALSE
        <4>1. /\ SnoopedTags(t, offset)[c][i].mesi = tsram[c][i].mesi
              /\ SnoopedTags(t, offset)[c][i].tag = tsram[c][i].tag
          BY <1>3, <2>2, <3>1, SnoopStates DEF HoldsIn
        <4>2. HoldsIn(c, b, {"modified"})'
          BY <1>3, <1>5, <2>2, <3>1, <4>1 DEF Holds, HoldsIn
        <4> QED BY <3>1, <4>2
      <3>2. memory[b] = latest[b]
        BY <2>2, <3>1 DEF MemoryCurrent
      <3>3. memory'[b] = memory[b]
        <4>1. memory \in [Blocks -> [Offsets -> Data]]
          BY DEF MachineType, MemoryTypeOK
        <4>2. CASE memory' = memory
          BY <4>2
        <4>3. CASE memory' = [memory EXCEPT ![t.block][offset] = latest[t.block][offset]]
          <5> DEFINE value == latest[t.block][offset]
          <5>1. value = memory[t.block][offset]
            BY <2>2, <3>2
          <5>2. memory' = [memory EXCEPT ![t.block][offset] = value]
            BY <4>3
          <5> HIDE DEF value
          <5> QED BY <1>3, <4>1, <5>1, <5>2
        <4> QED BY <1>2, <4>2, <4>3
      <3> QED BY <3>2, <3>3
    <2> QED BY <2>1, <2>2
  <1>7. Filling(t, offset + 1)'
    <2>1. \A b \in Blocks : b.index = i /\ b # t.block => ~HoldsIn(t.origid, b, {"modified"})'
      BY <1>3, <1>5, SameBlock DEF Holds, HoldsIn
    <2>2. ASSUME NEW k \in Cores, k # t.origid, HoldsIn(k, t.block, {"exclusive"})' PROVE FALSE
      <3>1. tsram'[k][i] = SnoopedTags(t, offset)[k][i]
        BY <1>3, <1>5, <2>2
      <3>2. HoldsIn(k, t.block, {"exclusive"})
        BY <1>3, <2>2, <3>1, SnoopStates DEF Holds, HoldsIn
      <3>3. HoldsIn(k, t.block, {"exclusive", "modified"}) /\ tsram[k][i].mesi # "modified"
        BY <3>2 DEF HoldsIn
      <3>4. k \in Reacting(t) /\ \A n \in Reacting(t) : n = k
        BY <2>2, <3>3, OnlyHolder
      <3>5. SnoopedTags(t, offset)[k][i].mesi \in {"shared", "invalid"}
        BY <3>3, <3>4, SnoopOnly
      <3> QED BY <2>2, <3>1, <3>5 DEF HoldsIn
    <2>3. ~(main_memory_response_time' < MEMORY_DELAY_TO_FIRST_BYTE)
      <3> DEFINE time == ResponseTime(Changed(t.origid, t.block))
      <3>1. time >= MEMORY_DELAY_TO_FIRST_BYTE /\ main_memory_response_time' = time + 1
        BY DEF MoveWord, Answers, TimerStep
      <3>2. time \in Nat /\ MEMORY_DELAY_TO_FIRST_BYTE \in Nat
        BY ConstantFacts DEF ResponseTime, MachineType, MemoryTypeOK
      <3> HIDE DEF time
      <3> QED BY <3>1, <3>2
    <2> QED BY <1>4, <2>1, <2>2, <2>3 DEF Filling
  <1> QED BY <1>4, <1>6, <1>7

\* The last word of a fetch.
LEMMA FetchEnds ==
  ASSUME ErrCell = {}, MachineType, LatestType, NEW t \in BusPacket, t.origid \in Cores,
         NEW flag, t.command \in {"bus_read", "bus_read_exclusive"}, WriterBut(t),
         Transfer(t, BLOCK_SIZE - 1), MoveWord(t, BLOCK_SIZE - 1, flag), UNCHANGED latest,
         CacheTypeOK', MemoryTypeOK'
  PROVE  Lines(Delay)'
  <1> DEFINE i == t.block.index
             last == BLOCK_SIZE - 1
  <1>1. /\ t.block \in Blocks /\ i \in Indexes /\ \A b \in Blocks : b.index \in Indexes
    BY PacketParts DEF Blocks
  <1>2. last \in Offsets /\ \A o \in Offsets : o < last + 1
    BY ConstantFacts DEF Offsets
  <1>3. /\ CopiesCurrent(t)'
        /\ \A b \in Blocks : b # t.block /\ (\A c \in Cores : ~HoldsIn(c, b, {"modified"})')
              => memory'[b] = latest'[b]
        /\ \A o \in Offsets : /\ dsram'[t.origid][t.block.index][o] = latest'[t.block][o]
                              /\ memory'[t.block][o] = latest'[t.block][o]
    BY <1>2, FetchedLines
  <1>4. tsram'[t.origid][i].tag = t.block.tag
    BY <1>2, WordTags
  <1>5. /\ dsram'[t.origid][i] \in [Offsets -> Data]
        /\ memory'[t.block] \in [Offsets -> Data] /\ latest'[t.block] \in [Offsets -> Data]
    BY <1>1 DEF CacheTypeOK, MemoryTypeOK, LatestType
  <1>6. dsram'[t.origid][i] = latest'[t.block] /\ memory'[t.block] = latest'[t.block]
    BY <1>3, <1>5
  <1>7. CopiesCurrent(Delay)'
    <2> SUFFICES ASSUME NEW c \in Cores, NEW b \in Blocks, Holds(c, b)'
                 PROVE  dsram'[c][b.index] = latest'[b]
      BY DEF CopiesCurrent
    <2>1. CASE Target(t, c, b.index)
      <3>1. b = t.block
        BY <1>1, <1>4, <2>1, SameBlock DEF Target, Holds
      <3> QED BY <1>6, <2>1, <3>1 DEF Target
    <2>2. CASE ~Target(t, c, b.index)
      BY <1>3, <2>2 DEF CopiesCurrent, Target
    <2> QED BY <2>1, <2>2
  <1>8. MemoryCurrent(Delay)'
    <2> SUFFICES ASSUME NEW b \in Blocks, \A c \in Cores : ~HoldsIn(c, b, {"modified"})'
                 PROVE  memory'[b] = latest'[b]
      <3>1. \A c \in Cores : c # Delay.origid
        BY DelayTargets, ConstantFacts DEF Delay
      <3> QED BY <3>1 DEF MemoryCurrent
    <2> QED BY <1>3, <1>6
  <1> QED BY <1>7, <1>8 DEF Lines

-----------------------------------------------------------------------------
(* The cycles of an eviction.                                              *)

\* A cycle of an eviction in which memory is awaited.
LEMMA EvictionAwaits ==
  ASSUME ErrCell = {}, MachineType, NEW t \in BusPacket, NEW offset \in Offsets, NEW flag,
         t.command = "bus_flush",
         Transfer(t, offset), AwaitMemory(t, offset, flag), UNCHANGED latest
  PROVE  Transfer(t, offset)'
  <1>1. UNCHANGED <<tsram, dsram, memory, latest>>
    BY NoStrayWrite, SnoopedFlush DEF AwaitMemory
  <1>2. \A c, b, s : Holds(c, b)' = Holds(c, b) /\ HoldsIn(c, b, s)' = HoldsIn(c, b, s)
    BY <1>1 DEF Holds, HoldsIn
  <1>3. CopiesCurrent(t)' /\ MemoryCurrent(t)'
    BY <1>1, <1>2 DEF Transfer, Lines, CopiesCurrent, MemoryCurrent, Target
  <1>4. Evicting(t, offset)'
    BY <1>1, <1>2 DEF Transfer, Evicting
  <1> QED BY <1>3, <1>4 DEF Transfer, Lines

\* The cache of an originator that has its block modified evicts it itself: the word goes to
\* main memory, the caches stay as they are.
LEMMA EvictedWord ==
  ASSUME ErrCell = {}, MachineType, LatestType, NEW t \in BusPacket, t.origid \in Cores,
         NEW offset \in Offsets, NEW flag, t.command = "bus_flush",
         tsram[t.origid][t.block.index].mesi \in {"exclusive", "modified"},
         Evicting(t, offset), MoveWord(t, offset, flag)
  PROVE  /\ UNCHANGED <<tsram, dsram>>
         /\ memory' = [memory EXCEPT ![t.block][offset] = latest[t.block][offset]]
  <1> DEFINE snooped == SnoopedPacket(t, offset)
             word    == Supplied(snooped, memory, offset, MainMemory)
             value   == latest[t.block][offset]
             i       == t.block.index
  <1>1. /\ dsram' = AnsweredWords(t.origid, word, offset) /\ memory' = Stored(snooped, memory, offset)
        /\ tsram' = AnsweredTags(tsram, t.origid, word, offset, Sharers(t.origid, t.block) # {})
    BY NoStrayWrite, SnoopedFlush DEF MoveWord
  <1>2. /\ HoldsIn(t.origid, t.block, {"modified"})
        /\ \A k \in Cores \ {t.origid} : ~Holds(k, t.block)
        /\ dsram[t.origid][i] = latest[t.block]
    BY DEF Evicting
  <1>3. t.origid \in Reacting(t) /\ \A n \in Reacting(t) : n = t.origid
    BY <1>2 DEF Reacting, HoldsIn
  <1>4. Min(Reacting(t)) = t.origid /\ Reacting(t) # {}
    <2>1. Min(Reacting(t)) \in Reacting(t)
      BY <1>3, ReactingFacts
    <2> QED BY <1>3, <2>1
  <1>5. tsram[t.origid][i].mesi = "modified"
    BY <1>2 DEF HoldsIn
  <1>6. snooped = [t EXCEPT !.origid = t.origid, !.command = "bus_flush", !.data = value]
    BY <1>2, <1>4, <1>5 DEF SnoopedPacket
  <1> HIDE DEF snooped, value
  <1>7. /\ snooped.command = "bus_flush" /\ snooped.origid = t.origid
        /\ snooped.block = t.block /\ snooped.data = value
    BY <1>6 DEF BusPacket
  <1>8. word = snooped
    BY <1>7 DEF Supplied
  <1> HIDE DEF word
  <1>9. tsram' = tsram /\ dsram' = dsram
    BY <1>1, <1>7, <1>8 DEF AnsweredTags, AnsweredWords
  <1>10. memory' = [memory EXCEPT ![t.block][offset] = value]
    BY <1>1, <1>7 DEF Stored
  <1> QED BY <1>9, <1>10 DEF value

\* A step leaves the line that the eviction t is for as it is, or without the right to write.
EvictedLine(t) ==
    \/ tsram'[t.origid][t.block.index] = tsram[t.origid][t.block.index]
    \/ tsram'[t.origid][t.block.index].mesi \notin {"exclusive", "modified"}

\* Every word of an eviction does so: it changes the line only if another cache has the block.
LEMMA EvictedLines ==
  ASSUME ErrCell = {}, MachineType, LatestType, NEW t \in BusPacket, t.origid \in Cores,
         NEW offset \in Offsets, NEW flag, t.command = "bus_flush",
         Transfer(t, offset), MoveWord(t, offset, flag)
  PROVE  EvictedLine(t)
  <1> DEFINE i == t.block.index
  <1>1. Evicting(t, offset)
    BY DEF Transfer
  <1>2. CASE tsram[t.origid][i].mesi \in {"exclusive", "modified"}
    BY <1>1, <1>2, EvictedWord DEF EvictedLine
  <1>3. CASE tsram[t.origid][i].mesi \notin {"exclusive", "modified"}
    <2>1. PICK h \in Cores : HoldsIn(h, t.block, {"modified"})
      BY <1>1 DEF Evicting
    <2>2. h # t.origid /\ Holds(h, t.block)
      BY <1>3, <2>1 DEF HoldsIn
    <2>3. Sharers(t.origid, t.block) # {}
      BY <2>2 DEF Sharers
    <2>4. tsram'[t.origid][i].mesi \in {tsram[t.origid][i].mesi, "shared"}
      BY <2>3, WordTags, SnoopedFlush
    <2> QED BY <1>3, <2>4 DEF EvictedLine
  <1> QED BY <1>2, <1>3

\* A word of an eviction, the last one or not.
LEMMA EvictionMoves ==
  ASSUME ErrCell = {}, MachineType, LatestType, NEW t \in BusPacket, t.origid \in Cores,
         NEW offset \in Offsets, NEW flag, t.command = "bus_flush",
         Transfer(t, offset), MoveWord(t, offset, flag), UNCHANGED latest
  PROVE  Transfer(t, offset + 1)'
  <1> DEFINE i == t.block.index
             mine == tsram[t.origid][i].mesi \in {"exclusive", "modified"}
  <1>1. /\ t.block \in Blocks /\ i \in Indexes /\ \A b \in Blocks : b.index \in Indexes
    BY PacketParts DEF Blocks
  <1>2. \A c \in Cores : \A j \in Indexes :
          c # t.origid \/ j # i => tsram'[c][j] = tsram[c][j] /\ dsram'[c][j] = dsram[c][j]
    <2>1. SnoopedTags(t, offset) = tsram
      BY SnoopedFlush
    <2>2. \A c \in Cores : \A j \in Indexes :
            c # t.origid \/ j # i => tsram'[c][j] = SnoopedTags(t, offset)[c][j]
      BY WordTags
    <2>3. \A c \in Cores : \A j \in Indexes :
            c # t.origid \/ j # i => dsram'[c][j] = dsram[c][j]
      BY WordPlaces
    <2> QED BY <2>1, <2>2, <2>3
  <1>3. /\ CopiesCurrent(t) /\ MemoryCurrent(t) /\ Evicting(t, offset)
    BY DEF Transfer, Lines
  <1>4. mine => /\ UNCHANGED <<tsram, dsram>>
                /\ memory' = [memory EXCEPT ![t.block][offset] = latest[t.block][offset]]
    BY <1>3, EvictedWord, Zenon
  <1>5. PICK h \in Cores : /\ HoldsIn(h, t.block, {"modified"})
                           /\ h = t.origid => mine
    BY <1>3 DEF Evicting, HoldsIn
  <1>6. HoldsIn(h, t.block, {"modified"})'
    <2>1. h = t.origid => UNCHANGED tsram
      BY <1>4, <1>5
    <2>2. tsram'[h][i] = tsram[h][i]
      BY <1>1, <1>2, <2>1
    <2> QED BY <1>5, <2>2 DEF HoldsIn, Holds
  <1>7. ~mine => tsram'[t.origid][i].mesi \notin {"exclusive", "modified"}
    BY EvictedLines DEF EvictedLine
  <1>8. CopiesCurrent(t)'
    <2> SUFFICES ASSUME NEW c \in Cores, NEW b \in Blocks, Holds(c, b)', ~Target(t, c, b.index)
                 PROVE  dsram'[c][b.index] = latest'[b]
      BY DEF CopiesCurrent, Target
    <2>1. c # t.origid \/ b.index # i
      BY DEF Target
    <2>2. Holds(c, b)
      BY <1>1, <1>2, <2>1 DEF Holds
    <2> QED BY <1>1, <1>2, <1>3, <2>1, <2>2 DEF CopiesCurrent
  <1>9. MemoryCurrent(t)'
    <2> SUFFICES ASSUME NEW b \in Blocks, \A c \in Cores : ~HoldsIn(c, b, {"modified"})'
                 PROVE  memory'[b] = latest'[b]
      BY DEF MemoryCurrent
    <2>1. b # t.block
      BY <1>6
    <2>2. memory'[b] = memory[b]
      BY <2>1, WordPlaces, NoStrayWrite
    <2>3. ASSUME NEW c \in Cores, HoldsIn(c, b, {"modified"}) PROVE FALSE
      <3>1. c = t.origid /\ b.index = i
        <4> SUFFICES ASSUME c # t.origid \/ b.index # i PROVE FALSE
          OBVIOUS
        <4>1. HoldsIn(c, b, {"modified"})'
          BY <1>1, <1>2, <2>3 DEF HoldsIn, Holds
        <4> QED BY <4>1
      <3>2. HoldsIn(t.origid, t.block, {"modified"})
        BY <1>3, <2>3, <3>1 DEF Evicting, HoldsIn
      <3> QED BY <1>1, <2>1, <2>3, <3>1, <3>2, SameBlock DEF HoldsIn, Holds
    <2> QED BY <1>3, <2>2, <2>3 DEF MemoryCurrent
  <1>10. Evicting(t, offset + 1)'
    <2> SUFFICES ASSUME tsram'[t.origid][i].mesi \in {"exclusive", "modified"}
                 PROVE  /\ HoldsIn(t.origid, t.block, {"modified"})'
                        /\ \A k \in Cores \ {t.origid} : ~Holds(k, t.block)'
                        /\ dsram'[t.origid][i] = latest'[t.block]
                        /\ \A o \in Offsets : o < offset + 1 =>
                              memory'[t.block][o] = latest'[t.block][o]
      BY <1>6 DEF Evicting
    <2>1. mine
      BY <1>7
    <2>2. /\ UNCHANGED <<tsram, dsram>>
          /\ memory' = [memory EXCEPT ![t.block][offset] = latest[t.block][offset]]
      BY <1>4, <2>1
    <2>3. /\ HoldsIn(t.origid, t.block, {"modified"})'
          /\ \A k \in Cores \ {t.origid} : ~Holds(k, t.block)'
          /\ dsram'[t.origid][i] = latest'[t.block]
      BY <1>3, <2>1, <2>2 DEF Evicting, HoldsIn, Holds
    <2>4. ASSUME NEW o \in Offsets, o < offset + 1
          PROVE  memory'[t.block][o] = latest'[t.block][o]
      <3>1. memory \in [Blocks -> [Offsets -> Data]]
        BY DEF MachineType, MemoryTypeOK
      <3>2. o < offset \/ o = offset
        BY <2>4 DEF Offsets
      <3>3. o < offset => memory[t.block][o] = latest[t.block][o]
        BY <1>3, <2>1 DEF Evicting
      <3> DEFINE value == latest[t.block][offset]
      <3>4. memory' = [memory EXCEPT ![t.block][offset] = value]
        BY <2>2
      <3> HIDE DEF value
      <3>5. memory'[t.block][o] = IF o = offset THEN value ELSE memory[t.block][o]
        BY <1>1, <3>1, <3>4
      <3> QED BY <3>2, <3>3, <3>5 DEF value
    <2> QED BY <2>3, <2>4
  <1> QED BY <1>8, <1>9, <1>10 DEF Transfer, Lines

-----------------------------------------------------------------------------
(* The cycles of any transaction.                                          *)

\* A cycle in which memory is awaited.
LEMMA Awaits ==
  ASSUME ErrCell = {}, MachineType, NEW t \in BusPacket, t.origid \in Cores,
         t.command # "idle", NEW offset \in Offsets, NEW flag, WriterBut(t),
         Transfer(t, offset), AwaitMemory(t, offset, flag), UNCHANGED latest
  PROVE  Transfer(t, offset)'
  <1>1. t.command \in {"bus_read", "bus_read_exclusive", "bus_flush"}
    BY PacketParts
  <1> QED BY <1>1, FetchAwaits, EvictionAwaits

\* Whatever a cycle does, the invariant of its transaction holds afterwards, or, after the
\* last word of a fetch, that of the bus without one.
LEMMA CycleData ==
  ASSUME ErrCell = {}, MachineType, LatestType, NEW t \in BusPacket, t.origid \in Cores,
         t.command # "idle", NEW offset \in Offsets, NEW flag, WriterBut(t),
         Transfer(t, offset), CycleOf(t, offset, flag), UNCHANGED latest,
         CacheTypeOK', MemoryTypeOK'
  PROVE  \/ is_bus_operating' = TRUE /\ offset_of_address' = offset /\ Transfer(t, offset)'
         \/ is_bus_operating' = TRUE /\ offset_of_address' = offset + 1 /\ Transfer(t, offset + 1)'
         \/ is_bus_operating' = FALSE /\ t.command = "bus_flush" /\ Transfer(t, BLOCK_SIZE)'
         \/ is_bus_operating' = FALSE /\ t.command # "bus_flush" /\ Lines(Delay)'
  <1>1. t.command \in {"bus_read", "bus_read_exclusive", "bus_flush"}
    BY PacketParts
  <1>2. CASE HoldBack(t, offset, flag)
    <2>1. Transfer(t, offset)'
      BY <1>2, HeldBack
    <2> QED BY <1>2, <2>1 DEF HoldBack
  <1>3. CASE AwaitMemory(t, offset, flag)
    <2>1. Transfer(t, offset)'
      BY <1>3, Awaits
    <2> QED BY <1>3, <2>1 DEF AwaitMemory
  <1>4. CASE MoveWord(t, offset, flag)
    <2>1. /\ offset = BLOCK_SIZE - 1 => is_bus_operating' = FALSE
          /\ offset # BLOCK_SIZE - 1 => is_bus_operating' = TRUE /\ offset_of_address' = offset + 1
      BY <1>4 DEF MoveWord
    <2>2. CASE t.command = "bus_flush"
      <3>1. Transfer(t, offset + 1)'
        BY <1>4, <2>2, EvictionMoves
      <3>2. CASE offset # BLOCK_SIZE - 1
        BY <2>1, <3>1, <3>2
      <3>3. CASE offset = BLOCK_SIZE - 1
        <4>1. offset + 1 = BLOCK_SIZE
          BY <3>3, ConstantFacts
        <4>2. Transfer(t, BLOCK_SIZE)'
          BY <3>1, <4>1
        <4> QED BY <2>1, <2>2, <3>3, <4>2
      <3> QED BY <3>2, <3>3
    <2>3. CASE t.command # "bus_flush"
      <3>1. t.command \in {"bus_read", "bus_read_exclusive"}
        BY <1>1, <2>3
      <3>2. CASE offset # BLOCK_SIZE - 1
        BY <1>4, <2>1, <3>1, <3>2, FetchMoves
      <3>3. CASE offset = BLOCK_SIZE - 1
        <4>1. /\ Transfer(t, BLOCK_SIZE - 1) /\ MoveWord(t, BLOCK_SIZE - 1, flag)
          BY <1>4, <3>3
        <4>2. Lines(Delay)'
          BY <3>1, <4>1, FetchEnds
        <4> QED BY <2>1, <2>3, <3>3, <4>2
      <3> QED BY <3>2, <3>3
    <2> QED BY <2>2, <2>3
  <1> QED BY <1>2, <1>3, <1>4 DEF CycleOf

\* SingleWriter, of what the transaction on the bus leaves alone, and of all lines when
\* there is none.
LEMMA WriterButs ==
  ASSUME SettledSingleWriter
  PROVE  /\ WriterBut(current_data_on_bus)
         /\ ~is_bus_operating /\ ~Evicted => \A t : WriterBut(t)
  <1>1. \A b \in Blocks : b.index \in Indexes
    BY DEF Blocks
  <1>2. \A c \in Cores : \A i \in Indexes : Moving(c, i) => Target(current_data_on_bus, c, i)
    BY DEF Moving, Target
  <1>3. WriterBut(current_data_on_bus)
    BY <1>1, <1>2 DEF SettledSingleWriter, WriterBut
  <1>4. ASSUME ~is_bus_operating, ~Evicted PROVE \A t : WriterBut(t)
    <2>1. \A c \in Cores : \A i \in Indexes : ~Moving(c, i)
      BY <1>4 DEF Moving, Evicted, P!Owns
    <2> QED BY <1>1, <2>1 DEF SettledSingleWriter, WriterBut
  <1> QED BY <1>3, <1>4

\* The arbiter's invariant, of the machine's own list: what a core that owns the bus and one
\* that is idle have in it, and what is behind an eviction.
LEMMA OwnerNodes ==
  ASSUME MachineType, P!BusInv
  PROVE  /\ \A i \in 1..Len(list) : list[i].command = "bus_flush"
              => /\ i + 1 \in 1..Len(list) /\ list[i + 1].origid = list[i].origid
                 /\ list[i + 1].command # "bus_flush"
         /\ \A c \in Cores : P!Owns(c) => c = current_data_on_bus.origid
         /\ \A c \in Cores : P!Owns(c) /\ current_data_on_bus.command = "bus_flush"
              => 1 \in 1..Len(list) /\ list[1].origid = c /\ list[1].command # "bus_flush"
         /\ \A c \in Cores : \A i \in 1..Len(list) :
              P!Owns(c) /\ list[i].origid = c => i = 1 /\ current_data_on_bus.command = "bus_flush"
         /\ \A c \in Cores : \A i \in 1..Len(list) :
              core_operating_state[c] = "idle" => list[i].origid # c
  <1> DEFINE L == Controls(list)
             cur == Control(current_data_on_bus)
  <1>1. /\ Len(L) = Len(list) /\ Len(list) \in Nat
        /\ \A i \in 1..Len(list) : list[i] \in BusPacket /\ L[i] = Control(list[i])
    BY ControlsFacts DEF MachineType
  <1>2. \A i \in 1..Len(list) : L[i].command = list[i].command /\ L[i].origid = list[i].origid
    BY <1>1, ControlFacts
  <1>3. cur.command = current_data_on_bus.command /\ cur.origid = current_data_on_bus.origid
    BY DEF Control
  <1>4. /\ \A i \in 1..Len(L) : L[i].command = "bus_flush"
             => /\ i + 1 \in 1..Len(L) /\ L[i + 1].origid = L[i].origid
                /\ L[i + 1].command # "bus_flush"
        /\ \A c \in Cores : P!Owns(c) => cur.origid = c
        /\ \A c \in Cores : P!Owns(c) /\ cur.command = "bus_flush"
             => L # <<>> /\ L[1].origid = c /\ L[1].command # "bus_flush"
        /\ \A c \in Cores : \A i \in 1..Len(L) :
             P!Owns(c) /\ L[i].origid = c => i = 1 /\ cur.command = "bus_flush"
        /\ \A c \in Cores : \A i \in 1..Len(L) : core_operating_state[c] = "idle" => L[i].origid # c
    BY DEF P!BusInv, P!EvictionThenFetch, P!SingleOwner, P!OneTransactionPerCore,
           P!NoLostRequest, P!PendingAt, P!Fetches, Controls, P!Cores, Cores
  <1>5. L # <<>> => 1 \in 1..Len(list)
    <2>1. L # <<>> => list # <<>>
      BY ControlsPop DEF MachineType
    <2> QED BY <1>1, <2>1, EmptySeq DEF MachineType
  <1> HIDE DEF L, cur
  <1>6. ASSUME NEW i \in 1..Len(list), list[i].command = "bus_flush"
        PROVE  /\ i + 1 \in 1..Len(list) /\ list[i + 1].origid = list[i].origid
               /\ list[i + 1].command # "bus_flush"
    <2>1. i \in 1..Len(L) /\ L[i].command = "bus_flush"
      BY <1>1, <1>2, <1>6
    <2>2. /\ i + 1 \in 1..Len(L) /\ L[i + 1].origid = L[i].origid
          /\ L[i + 1].command # "bus_flush"
      BY <1>4, <2>1
    <2>3. i + 1 \in 1..Len(list)
      BY <1>1, <2>2
    <2> QED BY <1>2, <2>2, <2>3
  <1>7. \A c \in Cores : P!Owns(c) => c = current_data_on_bus.origid
    BY <1>3, <1>4
  <1>8. \A c \in Cores : P!Owns(c) /\ current_data_on_bus.command = "bus_flush"
          => 1 \in 1..Len(list) /\ list[1].origid = c /\ list[1].command # "bus_flush"
    BY <1>2, <1>3, <1>4, <1>5
  <1>9. \A c \in Cores : \A i \in 1..Len(list) :
          /\ P!Owns(c) /\ list[i].origid = c => i = 1 /\ current_data_on_bus.command = "bus_flush"
          /\ core_operating_state[c] = "idle" => list[i].origid # c
    BY <1>1, <1>2, <1>3, <1>4
  <1> QED BY <1>6, <1>7, <1>8, <1>9

-----------------------------------------------------------------------------
(* A transaction gets the bus.                                             *)

\* An eviction has ended: its originator is the next to get the bus, for the same line, and
\* main memory has what it evicted.
LEMMA AfterEviction ==
  ASSUME MachineInv, EvictionSameLine, LatestType, DataInv, WriterBut(current_data_on_bus),
         ~is_bus_operating, Evicted, NEW t \in BusPacket, t = list[1]
  PROVE  /\ t.origid \in Cores /\ t.command # "bus_flush"
         /\ WriterBut(t) /\ Transfer(t, 0)
  <1> DEFINE e == current_data_on_bus
             i == t.block.index
  <1>1. MachineType /\ P!BusInv /\ TransferInStep
    BY DEF MachineInv
  <1>2. PICK c \in Cores : P!Owns(c) /\ e.command = "bus_flush"
    BY DEF Evicted
  <1>3. /\ c = e.origid /\ t.origid = c /\ t.command # "bus_flush" /\ 1 \in 1..Len(list)
        /\ e.block.index = i
    BY <1>1, <1>2, OwnerNodes DEF EvictionSameLine
  <1>4. e.block \in Blocks /\ t.block \in Blocks /\ i \in Indexes
    BY <1>1, PacketParts DEF MachineType
  <1>5. CopiesCurrent(e) /\ MemoryCurrent(e) /\ Evicting(e, BLOCK_SIZE)
    BY <1>2 DEF DataInv, Transfer, Lines
  <1>6. ~HoldsIn(t.origid, t.block, {"exclusive", "modified"})
    BY <1>3 DEF DataInv, WaitingLines, Waiting
  <1>7. WriterBut(t) /\ CopiesCurrent(t)
    BY <1>3, <1>5 DEF WriterBut, CopiesCurrent, Target
  <1>8. MemoryCurrent(t)
    <2> SUFFICES ASSUME NEW b \in Blocks,
                        \A k \in Cores : HoldsIn(k, b, {"modified"}) => k = t.origid /\ b = t.block
                 PROVE  memory[b] = latest[b]
      BY DEF MemoryCurrent
    <2>1. \A k \in Cores : ~HoldsIn(k, b, {"modified"})
      BY <1>6 DEF HoldsIn
    <2> QED BY <1>5, <2>1 DEF MemoryCurrent
  <1>9. Filling(t, 0)
    <2>1. ~is_memory_operation
      BY <1>1 DEF TransferInStep
    <2>2. \A o \in Offsets : ~(o < 0)
      BY ConstantFacts DEF Offsets
    <2>3. ASSUME NEW b \in Blocks, b.index = i, HoldsIn(t.origid, b, {"modified"})
          PROVE  memory[b] = latest[b] /\ \A k \in Cores \ {t.origid} : ~Holds(k, b)
      <3>1. tsram[e.origid][e.block.index].mesi \in {"exclusive", "modified"}
        <4>1. tsram[t.origid][b.index].mesi = "modified"
          BY <2>3 DEF HoldsIn
        <4>2. t.origid = e.origid /\ b.index = e.block.index
          BY <1>3, <2>3
        <4> QED BY <4>1, <4>2
      <3> HIDE DEF e, i
      <3>2. /\ HoldsIn(e.origid, e.block, {"modified"})
            /\ \A k \in Cores \ {e.origid} : ~Holds(k, e.block)
            /\ \A o \in Offsets : o < BLOCK_SIZE => memory[e.block][o] = latest[e.block][o]
        BY <1>5, <3>1 DEF Evicting
      <3>3. b = e.block
        <4>1. tsram[e.origid][e.block.index].tag = e.block.tag
          BY <3>2 DEF HoldsIn, Holds
        <4>2. tsram[t.origid][b.index].tag = b.tag
          BY <2>3 DEF HoldsIn, Holds
        <4>3. t.origid = e.origid /\ b.index = e.block.index
          BY <1>3, <2>3
        <4> QED BY <1>4, <4>1, <4>2, <4>3, SameBlock
      <3>4. \A o \in Offsets : o < BLOCK_SIZE
        BY ConstantFacts DEF Offsets
      <3>5. memory[b] \in [Offsets -> Data] /\ latest[b] \in [Offsets -> Data]
        BY <1>1 DEF MachineType, MemoryTypeOK, LatestType
      <3>6. memory[b] = latest[b]
        BY <3>2, <3>3, <3>4, <3>5
      <3> QED BY <1>3, <3>2, <3>3, <3>6
    <2> QED BY <2>1, <2>2, <2>3 DEF Filling
  <1> QED BY <1>3, <1>7, <1>8, <1>9 DEF Transfer, Lines

\* Nothing is under way: the oldest transaction starts from lines that are up to date, and
\* an eviction from a block that some cache has modified.
LEMMA FromTheList ==
  ASSUME MachineInv, DataInv, ~is_bus_operating, ~Evicted, ~StaleEviction, list # <<>>,
         NEW t \in BusPacket, t = list[1], t = Head(list), 1 \in 1..Len(list),
         t.origid \in Cores, WriterBut(Delay)
  PROVE  Transfer(t, 0)
  <1> DEFINE i == t.block.index
  <1>1. MachineType /\ TransferInStep
    BY DEF MachineInv
  <1>2. t.block \in Blocks /\ i \in Indexes
    BY PacketParts
  <1>3. CopiesCurrent(Delay) /\ MemoryCurrent(Delay) /\ Waiting(1)
    BY DEF DataInv, Lines, WaitingLines
  <1>4. /\ \A c \in Cores : \A b \in Blocks : Holds(c, b) => dsram[c][b.index] = latest[b]
        /\ \A b \in Blocks : (\A c \in Cores : ~HoldsIn(c, b, {"modified"})) => memory[b] = latest[b]
    BY <1>3, DelayTargets DEF CopiesCurrent, MemoryCurrent
  <1>5. CopiesCurrent(t)
    BY <1>4 DEF CopiesCurrent
  <1>6. t.command # "bus_flush" => ~HoldsIn(t.origid, t.block, {"exclusive", "modified"})
    BY <1>3 DEF Waiting
  <1>7. MemoryCurrent(t)
    <2> SUFFICES ASSUME NEW b \in Blocks,
                        \A k \in Cores : HoldsIn(k, b, {"modified"})
                          => k = t.origid /\ b = t.block /\ t.command # "bus_flush"
                 PROVE  memory[b] = latest[b]
      BY DEF MemoryCurrent
    <2>1. \A k \in Cores : ~HoldsIn(k, b, {"modified"})
      BY <1>6 DEF HoldsIn
    <2> QED BY <1>4, <2>1
  <1>8. \A o \in Offsets : ~(o < 0)
    BY ConstantFacts DEF Offsets
  <1>9. ASSUME t.command = "bus_flush" PROVE Evicting(t, 0)
    <2>1. \E h \in Cores : HoldsIn(h, t.block, {"modified"})
      BY <1>9 DEF StaleEviction
    <2>2. ASSUME tsram[t.origid][i].mesi \in {"exclusive", "modified"}
          PROVE  /\ HoldsIn(t.origid, t.block, {"modified"})
                 /\ \A k \in Cores \ {t.origid} : ~Holds(k, t.block)
                 /\ dsram[t.origid][i] = latest[t.block]
      <3>1. HoldsIn(t.origid, t.block, {"modified"})
        BY <1>3, <1>9, <2>2 DEF Waiting
      <3>2. HoldsIn(t.origid, t.block, {"exclusive", "modified"}) /\ Holds(t.origid, t.block)
        BY <3>1 DEF HoldsIn
      <3>3. \A k \in Cores \ {t.origid} : ~Holds(k, t.block)
        BY <1>2, <3>2, DelayTargets DEF WriterBut
      <3> QED BY <1>2, <1>4, <3>1, <3>2, <3>3
    <2> QED BY <1>8, <2>1, <2>2 DEF Evicting
  <1>10. ASSUME t.command # "bus_flush" PROVE Filling(t, 0)
    <2>1. ~is_memory_operation
      BY <1>1 DEF TransferInStep
    <2>2. tsram[t.origid][i].mesi # "modified"
      BY <1>3, <1>10 DEF Waiting, Evicted
    <2>3. \A b \in Blocks : b.index = i => ~HoldsIn(t.origid, b, {"modified"})
      BY <2>2 DEF HoldsIn
    <2> QED BY <1>8, <2>1, <2>3 DEF Filling
  <1> QED BY <1>5, <1>7, <1>9, <1>10 DEF Transfer, Lines

-----------------------------------------------------------------------------
(* What waits for the bus.                                                 *)

\* A node of the list, wherever a step leaves it: its line has not come to be writable, and
\* what is in front of it or on the bus still is.
LEMMA WaitingKept ==
  ASSUME NEW i, NEW j, list'[i] = list[j], Waiting(j),
         LET o == list[j].origid
             k == list[j].block.index
         IN  \/ tsram'[o][k] = tsram[o][k]
             \/ tsram'[o][k].mesi \notin {"exclusive", "modified"},
         LET o == list[j].origid
             k == list[j].block.index
         IN  (IF j = 1 THEN P!Owns(o) /\ current_data_on_bus.command = "bus_flush"
              ELSE list[j - 1].command = "bus_flush")
               /\ list[j].command # "bus_flush" /\ tsram[o][k].mesi = "modified"
             => IF i = 1 THEN /\ core_operating_state'[o] \in {"operate", "final"}
                              /\ current_data_on_bus'.command = "bus_flush"
                ELSE list'[i - 1].command = "bus_flush"
  PROVE  Waiting(i)'
  <1> DEFINE p == list[j]
             k == p.block.index
             front == IF i = 1 THEN /\ core_operating_state'[p.origid] \in {"operate", "final"}
                                    /\ current_data_on_bus'.command = "bus_flush"
                      ELSE list'[i - 1].command = "bus_flush"
  <1>1. /\ p.command = "bus_flush" /\ tsram[p.origid][k].mesi \in {"exclusive", "modified"}
             => HoldsIn(p.origid, p.block, {"modified"})
        /\ p.command # "bus_flush" => ~HoldsIn(p.origid, p.block, {"exclusive", "modified"})
        /\ p.command # "bus_flush" /\ tsram[p.origid][k].mesi = "modified" => front
    BY DEF Waiting
  <1>2. \/ tsram'[p.origid][k] = tsram[p.origid][k]
        \/ tsram'[p.origid][k].mesi \notin {"exclusive", "modified"}
    OBVIOUS
  <1>3. Waiting(i)' <=>
          /\ p.command = "bus_flush" /\ tsram'[p.origid][k].mesi \in {"exclusive", "modified"}
               => tsram'[p.origid][k].tag = p.block.tag /\ tsram'[p.origid][k].mesi # "invalid"
                  /\ tsram'[p.origid][k].mesi \in {"modified"}
          /\ p.command # "bus_flush" =>
               ~(/\ tsram'[p.origid][k].tag = p.block.tag /\ tsram'[p.origid][k].mesi # "invalid"
                 /\ tsram'[p.origid][k].mesi \in {"exclusive", "modified"})
          /\ p.command # "bus_flush" /\ tsram'[p.origid][k].mesi = "modified" => front
    BY DEF Waiting, HoldsIn, Holds, P!Owns
  <1>4. \A s : HoldsIn(p.origid, p.block, s) <=>
          /\ tsram[p.origid][k].tag = p.block.tag /\ tsram[p.origid][k].mesi # "invalid"
          /\ tsram[p.origid][k].mesi \in s
    BY DEF HoldsIn, Holds
  <1> HIDE DEF p, k, front
  <1> QED BY <1>1, <1>2, <1>3, <1>4

\* Snooping leaves a line as it is or takes the right to write away.
LEMMA SnoopKeeps ==
  ASSUME MachineType, NEW t \in BusPacket, NEW offset \in Offsets,
         NEW c \in Cores, NEW i \in Indexes
  PROVE  \/ SnoopedTags(t, offset)[c][i] = tsram[c][i]
         \/ SnoopedTags(t, offset)[c][i].mesi \notin {"exclusive", "modified"}
  <1> DEFINE tags == SnoopedTags(t, offset)
  <1> SUFFICES \/ tags[c][i] = tsram[c][i]
               \/ tags[c][i].mesi \notin {"exclusive", "modified"}
    OBVIOUS
  <1>1. tsram \in [Cores -> [Indexes -> Line]] /\ tags \in [Cores -> [Indexes -> Line]]
    BY SnoopType DEF MachineType, CacheTypeOK
  <1>2. /\ tags[c][i].tag = tsram[c][i].tag
        /\ tags[c][i].mesi = tsram[c][i].mesi \/ tags[c][i].mesi \in {"shared", "invalid"}
    BY SnoopStates
  <1> HIDE DEF tags
  <1>3. tsram[c][i] \in Line /\ tags[c][i] \in Line
    BY <1>1
  <1>4. CASE tags[c][i].mesi = tsram[c][i].mesi
    BY <1>2, <1>3, <1>4 DEF Line
  <1>5. CASE tags[c][i].mesi \in {"shared", "invalid"}
    BY <1>5
  <1> QED BY <1>2, <1>4, <1>5

\* A transaction is popped and, unless it is a container, gets its first cycle.
LEMMA PopWaiting ==
  ASSUME MachineInv, WaitingLines, ~is_bus_operating, Pop,
         \/ UNCHANGED tsram
         \/ list[1].origid \in Cores /\ tsram' = SnoopedTags(list[1], 0),
         list[1].origid \in Cores => core_operating_state'[list[1].origid] = "operate"
  PROVE  WaitingLines'
  <1>1. MachineType /\ P!BusInv
    BY DEF MachineInv
  <1>2. /\ current_data_on_bus' = list[1] /\ list[1] \in BusPacket /\ 1 \in 1..Len(list)
        /\ \A i \in 1..Len(list') : i + 1 \in 1..Len(list) /\ list'[i] = list[i + 1]
    BY <1>1, Popped
  <1>3. SUFFICES ASSUME NEW i \in 1..Len(list'), list'[i].origid \in Cores PROVE Waiting(i)'
    BY DEF WaitingLines
  <1>4. i \in Nat /\ i >= 1 /\ i + 1 # 1 /\ (i + 1) - 1 = i
    BY <1>1, <1>2 DEF MachineType
  <1>5. list'[i] = list[i + 1] /\ i + 1 \in 1..Len(list) /\ Waiting(i + 1)
        /\ list[i + 1] \in BusPacket /\ i \in 1..Len(list)
    BY <1>1, <1>2, <1>3, <1>4 DEF WaitingLines, MachineType
  <1> DEFINE o == list[i + 1].origid
             k == list[i + 1].block.index
  <1>6. o \in Cores /\ k \in Indexes
    BY <1>3, <1>5, PacketParts
  <1>7. \/ tsram'[o][k] = tsram[o][k]
        \/ tsram'[o][k].mesi \notin {"exclusive", "modified"}
    <2>1. CASE UNCHANGED tsram
      BY <2>1
    <2>2. CASE tsram' = SnoopedTags(list[1], 0)
      <3>1. 0 \in Offsets
        BY ConstantFacts
      <3> HIDE DEF o, k
      <3> QED BY <1>1, <1>2, <1>6, <2>2, <3>1, SnoopKeeps
    <2> QED BY <2>1, <2>2
  <1>8. ASSUME list[i].command = "bus_flush"
        PROVE  IF i = 1 THEN /\ core_operating_state'[o] \in {"operate", "final"}
                             /\ current_data_on_bus'.command = "bus_flush"
               ELSE list'[i - 1].command = "bus_flush"
    <2>1. CASE i = 1
      <3>1. list[1].origid = o
        BY <1>1, <1>8, <1>5, <2>1, OwnerNodes
      <3>2. core_operating_state'[o] = "operate"
        BY <1>6, <3>1
      <3> QED BY <1>2, <1>8, <2>1, <3>2
    <2>2. CASE i # 1
      <3>1. i - 1 \in 1..Len(list') /\ (i - 1) + 1 = i
        BY <1>1, <1>2, <1>4, <2>2, Popped
      <3>2. list'[i - 1] = list[i]
        BY <1>2, <3>1
      <3> QED BY <1>8, <2>2, <3>2
    <2> QED BY <2>1, <2>2
  <1> QED BY <1>4, <1>5, <1>7, <1>8, WaitingKept

\* A cycle of a running transaction leaves the list alone.  The line it refills is waited
\* for by its own fetch only, when it is an eviction.
LEMMA ContinueWaiting ==
  ASSUME MachineInv, EvictionSameLine, ErrCell = {}, LatestType, DataInv, BusContinue
  PROVE  WaitingLines'
  <1>1. MachineType /\ P!BusInv
    BY DEF MachineInv
  <1>2. PICK t \in BusPacket : t = current_data_on_bus
    BY <1>1 DEF MachineType
  <1>3. PICK offset \in Offsets : offset = offset_of_address
    BY <1>1 DEF MachineType
  <1>4. PICK flag : flag = flag_for_initial_shared
    OBVIOUS
  <1>5. /\ is_bus_operating /\ t.origid \in Cores /\ core_operating_state[t.origid] = "operate"
        /\ UNCHANGED <<list, current_data_on_bus>> /\ CycleOf(t, offset, flag)
    BY <1>1, <1>2, <1>3, <1>4, OwnerFacts DEF BusContinue
  <1>6. Transfer(t, offset)
    BY <1>2, <1>3, <1>5 DEF DataInv
  <1>7. core_operating_state'[t.origid] \in {"operate", "final"}
    BY <1>1, <1>5, RetiredType DEF CycleOf, HoldBack, AwaitMemory, MoveWord
  <1>8. SUFFICES ASSUME NEW i \in 1..Len(list), list[i].origid \in Cores PROVE Waiting(i)'
    BY <1>5 DEF WaitingLines
  <1> DEFINE o == list[i].origid
             k == list[i].block.index
  <1>9. list[i] \in BusPacket /\ Waiting(i) /\ o \in Cores /\ k \in Indexes
    BY <1>1, <1>8, PacketParts DEF MachineType, DataInv, WaitingLines
  <1>10. P!Owns(o) => core_operating_state'[o] \in {"operate", "final"}
    <2>1. P!Owns(o) => o = t.origid
      BY <1>1, <1>2, <1>9, OwnerNodes
    <2> QED BY <1>7, <2>1
  <1>11. \/ tsram'[o][k] = tsram[o][k]
         \/ tsram'[o][k].mesi \notin {"exclusive", "modified"}
    <2>1. CASE tsram'[o][k] = SnoopedTags(t, offset)[o][k]
      <3> HIDE DEF o, k
      <3> QED BY <1>1, <1>9, <2>1, SnoopKeeps
    <2>2. CASE HoldBack(t, offset, flag)
      BY <2>2 DEF HoldBack, cacheVars
    <2>3. CASE AwaitMemory(t, offset, flag)
      BY <2>1, <2>3 DEF AwaitMemory
    <2>4. CASE MoveWord(t, offset, flag)
      <3>1. CASE o # t.origid \/ k # t.block.index
        <4>1. tsram'[o][k] = SnoopedTags(t, offset)[o][k]
          BY <1>1, <1>5, <1>9, <2>4, <3>1, WordTags
        <4> QED BY <2>1, <4>1
      <3>2. CASE o = t.origid /\ k = t.block.index
        <4>1. P!Owns(o) /\ list[i].origid = o
          BY <1>5, <3>2 DEF P!Owns
        <4>2. t.command = "bus_flush"
          BY <1>1, <1>2, <1>9, <4>1, OwnerNodes
        <4>3. EvictedLine(t)
          BY <1>1, <1>5, <1>6, <2>4, <4>2, EvictedLines
        <4> QED BY <3>2, <4>3 DEF EvictedLine
      <3> QED BY <3>1, <3>2
    <2> QED BY <1>5, <2>2, <2>3, <2>4 DEF CycleOf
  <1> QED BY <1>5, <1>9, <1>10, <1>11, WaitingKept

\* A cache pushes what it needs: the eviction of the line it has modified at the index, the
\* fetch of a block it may not write.
LEMMA PushWaiting ==
  ASSUME MachineType, WaitingLines, NEW c \in Cores, NEW b \in Blocks, NEW offset \in Offsets,
         NEW packets, Requested(c, b, offset, packets), ~IsBusBusy(c), Push(c, packets)
  PROVE  WaitingLines'
  <1> DEFINE n == Len(list)
             line == tsram[c][b.index]
             e == [origid |-> c, command |-> "bus_flush",
                   block |-> [tag |-> line.tag, index |-> b.index],
                   data |-> dsram[c][b.index][offset]]
  <1>1. packets \in Seq(BusPacket) /\ Len(packets) \in {1, 2}
    BY RequestedNodes
  <1>2. /\ n \in Nat /\ Len(list') = n + Len(packets)
        /\ \A i \in 1..n : list'[i] = list[i]
        /\ \A i \in 1..Len(packets) : list'[n + i] = packets[i]
    BY <1>1, PushNodes DEF Push, MachineType
  <1>3. /\ core_operating_state' = [core_operating_state EXCEPT ![c] = "ready"]
        /\ core_operating_state[c] = "idle"
        /\ UNCHANGED <<tsram, current_data_on_bus>>
    BY DEF Push, cacheVars, IsBusBusy, MachineType
  <1>4. PICK command \in {"bus_read", "bus_read_exclusive"} :
          \/ line.mesi # "modified" /\ ~Holds(c, b) /\ packets = <<Fetch(c, command, b)>>
          \/ line.mesi = "modified" /\ ~Holds(c, b) /\ packets = <<e, Fetch(c, command, b)>>
          \/ HoldsIn(c, b, {"shared"}) /\ packets = <<Fetch(c, command, b), Delay>>
    BY Zenon DEF Requested
  <1> DEFINE f == Fetch(c, command, b)
  <1>5. f.origid = c /\ f.command \in {"bus_read", "bus_read_exclusive"} /\ f.block = b
    BY DEF Fetch
  <1>6. /\ e.origid = c /\ e.command = "bus_flush"
        /\ e.block.tag = line.tag /\ e.block.index = b.index
    OBVIOUS
  <1>7. SUFFICES ASSUME NEW i \in 1..Len(list'), list'[i].origid \in Cores PROVE Waiting(i)'
    BY DEF WaitingLines
  <1>8. CASE i \in 1..n
    <2>1. Waiting(i) /\ list'[i] = list[i]
      BY <1>2, <1>7, <1>8 DEF WaitingLines
    <2>2. i # 1 => list'[i - 1] = list[i - 1]
      BY <1>2, <1>8
    <2>3. ASSUME NEW o \in Cores, P!Owns(o)
          PROVE  core_operating_state'[o] \in {"operate", "final"}
      BY <1>3, <2>3 DEF P!Owns, MachineType
    <2> QED BY <1>3, <1>7, <2>1, <2>2, <2>3, WaitingKept
  <1> HIDE DEF e, f, line
  <1>9. ASSUME list'[i] = f, line.mesi \notin {"exclusive", "modified"} \/ ~Holds(c, b),
               line.mesi = "modified" => i # 1 /\ list'[i - 1] = e
        PROVE  Waiting(i)'
    <2>1. ~HoldsIn(c, b, {"exclusive", "modified"})
      BY <1>9 DEF HoldsIn, line
    <2>2. ~HoldsIn(list[i].origid, list[i].block, {"exclusive", "modified"})'
      BY <1>3, <1>5, <1>9, <2>1 DEF HoldsIn, Holds
    <2>3. tsram'[list'[i].origid][list'[i].block.index].mesi = "modified" => line.mesi = "modified"
      BY <1>3, <1>5, <1>9 DEF line
    <2> QED BY <1>5, <1>6, <1>9, <2>2, <2>3 DEF Waiting
  <1>10. ASSUME list'[i] = e, line.mesi = "modified" PROVE Waiting(i)'
    <2>1. HoldsIn(list[i].origid, list[i].block, {"modified"})'
      BY <1>3, <1>6, <1>10 DEF HoldsIn, Holds, line
    <2> QED BY <1>6, <1>10, <2>1 DEF Waiting
  <1>11. CASE i \notin 1..n
    <2>1. /\ i - n \in 1..Len(packets) /\ n + (i - n) = i
      BY <1>1, <1>2, <1>7, <1>11
    <2>2. list'[i] = packets[i - n]
      BY <1>2, <2>1
    <2>3. CASE line.mesi # "modified" /\ ~Holds(c, b) /\ packets = <<f>>
      <3>1. list'[i] = f
        BY <2>1, <2>2, <2>3
      <3> QED BY <1>9, <2>3, <3>1
    <2>4. CASE line.mesi = "modified" /\ ~Holds(c, b) /\ packets = <<e, f>>
      <3>1. Len(packets) = 2 /\ packets[1] = e /\ packets[2] = f
        BY <2>4
      <3>2. CASE i - n = 1
        BY <1>10, <2>2, <2>4, <3>1, <3>2
      <3>3. CASE i - n = 2
        <4>1. list'[n + 1] = e /\ i - 1 = n + 1 /\ i # 1
          BY <1>2, <2>1, <3>1, <3>3
        <4> QED BY <1>9, <2>2, <2>4, <3>1, <3>3, <4>1
      <3> QED BY <1>2, <2>1, <3>1, <3>2, <3>3
    <2>5. CASE HoldsIn(c, b, {"shared"}) /\ packets = <<f, Delay>>
      <3>1. Len(packets) = 2 /\ packets[1] = f /\ packets[2] = Delay
        BY <2>5
      <3>2. Delay.origid \notin Cores
        <4>1. Delay.origid = ErrOriginator
          BY DEF Delay
        <4> QED BY <4>1, ConstantFacts
      <3>3. list'[i] = f
        BY <1>2, <1>7, <2>1, <2>2, <3>1, <3>2
      <3>4. line.mesi = "shared"
        BY <2>5 DEF HoldsIn, line
      <3> QED BY <1>9, <3>3, <3>4
    <2> QED BY <1>4, <2>3, <2>4, <2>5 DEF e, f, line
  <1> QED BY <1>8, <1>11

-----------------------------------------------------------------------------
(* A core stores into a line that it may write.                            *)

\* What a write hit does to a line, a word and the history.
StoreHit(c, b, o, word) ==
    /\ HoldsIn(c, b, {"exclusive", "modified"})
    /\ tsram' = [tsram EXCEPT ![c][b.index].mesi = "modified"]
    /\ dsram' = [dsram EXCEPT ![c][b.index][o] = word]
    /\ latest' = [latest EXCEPT ![b][o] = dsram'[c][b.index][o]]
    /\ UNCHANGED <<memory, is_memory_operation, main_memory_response_time>>

\* A store makes the line modified and changes one word of it.
LEMMA StoreFacts ==
  ASSUME MachineType, LatestType, NEW c \in Cores, NEW b \in Blocks, NEW o \in Offsets,
         NEW word \in Data, StoreHit(c, b, o, word)
  PROVE  /\ \A k \in Cores : \A j \in Indexes : k # c \/ j # b.index =>
              tsram'[k][j] = tsram[k][j] /\ dsram'[k][j] = dsram[k][j]
         /\ \A e \in Blocks : e # b => latest'[e] = latest[e]
         /\ \A x \in Offsets : x # o => latest'[b][x] = latest[b][x]
         /\ dsram[c][b.index] = latest[b] => dsram'[c][b.index] = latest'[b]
         /\ \A k \in Cores : \A e \in Blocks :
              /\ Holds(k, e)' <=> Holds(k, e)
              /\ HoldsIn(k, e, {"exclusive"})' => HoldsIn(k, e, {"exclusive"})
              /\ HoldsIn(k, e, {"modified"}) => HoldsIn(k, e, {"modified"})'
              /\ HoldsIn(k, e, {"modified"})' => HoldsIn(k, e, {"modified"}) \/ (k = c /\ e = b)
         /\ HoldsIn(c, b, {"modified"})'
  <1> DEFINE i == b.index
  <1>1. i \in Indexes /\ \A e \in Blocks : e.index \in Indexes
    BY DEF Blocks
  <1>2. /\ tsram \in [Cores -> [Indexes -> Line]]
        /\ dsram \in [Cores -> [Indexes -> [Offsets -> Data]]]
        /\ latest \in [Blocks -> [Offsets -> Data]]
    BY DEF MachineType, CacheTypeOK, LatestType
  <1>3. /\ tsram' = [tsram EXCEPT ![c][i].mesi = "modified"]
        /\ dsram' = [dsram EXCEPT ![c][i][o] = word]
        /\ latest' = [latest EXCEPT ![b][o] = dsram'[c][i][o]]
        /\ tsram[c][i].tag = b.tag /\ tsram[c][i].mesi \in {"exclusive", "modified"}
    BY DEF StoreHit, HoldsIn, Holds
  <1> HIDE DEF i
  <1>4. /\ \A k \in Cores : \A j \in Indexes : k # c \/ j # i =>
             tsram'[k][j] = tsram[k][j] /\ dsram'[k][j] = dsram[k][j]
        /\ tsram'[c][i] = [tsram[c][i] EXCEPT !.mesi = "modified"]
        /\ dsram'[c][i] = [dsram[c][i] EXCEPT ![o] = word]
    BY <1>1, <1>2, <1>3
  <1>5. dsram'[c][i][o] = word
    BY <1>1, <1>2, <1>4
  <1>6. /\ \A e \in Blocks : e # b => latest'[e] = latest[e]
        /\ latest'[b] = [latest[b] EXCEPT ![o] = word]
    BY <1>2, <1>3, <1>5
  <1>7. tsram'[c][i].tag = b.tag /\ tsram'[c][i].mesi = "modified"
    BY <1>1, <1>2, <1>3, <1>4 DEF Line
  <1>8. \A x \in Offsets : x # o => latest'[b][x] = latest[b][x]
    BY <1>2, <1>6
  <1>9. ASSUME NEW k \in Cores, NEW e \in Blocks
        PROVE  /\ Holds(k, e)' <=> Holds(k, e)
               /\ HoldsIn(k, e, {"exclusive"})' => HoldsIn(k, e, {"exclusive"})
               /\ HoldsIn(k, e, {"modified"}) => HoldsIn(k, e, {"modified"})'
               /\ HoldsIn(k, e, {"modified"})' => HoldsIn(k, e, {"modified"}) \/ (k = c /\ e = b)
    <2>1. CASE k # c \/ e.index # i
      <3>1. tsram'[k][e.index] = tsram[k][e.index]
        BY <1>1, <1>4, <2>1
      <3> QED BY <3>1 DEF HoldsIn, Holds
    <2>2. CASE k = c /\ e.index = i
      <3>1. e.tag = b.tag => e = b
        BY <2>2, SameBlock DEF i
      <3> QED BY <1>3, <1>7, <2>2, <3>1 DEF HoldsIn, Holds
    <2> QED BY <2>1, <2>2
  <1>10. HoldsIn(c, b, {"modified"})'
    BY <1>7 DEF HoldsIn, Holds, i
  <1>11. dsram[c][i] = latest[b] => dsram'[c][i] = latest'[b]
    BY <1>4, <1>6
  <1> QED BY <1>4, <1>6, <1>8, <1>9, <1>10, <1>11 DEF i

\* Of all lines but the one that is refilled, and of main memory: the line of the store is
\* the only copy of its block.
LEMMA StoreLines ==
  ASSUME MachineType, LatestType, NEW c \in Cores, NEW b \in Blocks, NEW o \in Offsets,
         NEW word \in Data, StoreHit(c, b, o, word), NEW t, c # t.origid, WriterBut(t), Lines(t)
  PROVE  Lines(t)'
  <1>1. CopiesCurrent(t)'
    <2> SUFFICES ASSUME NEW k \in Cores, NEW e \in Blocks, Holds(k, e)', ~Target(t, k, e.index)
                 PROVE  dsram'[k][e.index] = latest'[e]
      BY DEF CopiesCurrent, Target
    <2>1. Holds(k, e)
      BY StoreFacts
    <2>2. dsram[k][e.index] = latest[e]
      BY <2>1 DEF Lines, CopiesCurrent
    <2>3. e.index \in Indexes
      BY DEF Blocks
    <2>4. CASE e = b
      <3>1. k = c
        BY <2>1, <2>4 DEF WriterBut, Target, StoreHit
      <3> QED BY <2>2, <2>4, <3>1, StoreFacts
    <2>5. CASE e # b
      <3>1. k # c \/ e.index # b.index
        BY <2>1, <2>5, SameBlock DEF StoreHit, HoldsIn, Holds
      <3>2. dsram'[k][e.index] = dsram[k][e.index] /\ latest'[e] = latest[e]
        BY <2>3, <2>5, <3>1, StoreFacts
      <3> QED BY <2>2, <3>2
    <2> QED BY <2>4, <2>5
  <1>2. MemoryCurrent(t)'
    <2> SUFFICES ASSUME NEW e \in Blocks,
                        \A k \in Cores : HoldsIn(k, e, {"modified"})'
                          => k = t.origid /\ e = t.block /\ t.command # "bus_flush"
                 PROVE  memory'[e] = latest'[e]
      BY DEF MemoryCurrent
    <2>1. e # b
      BY StoreFacts
    <2>2. \A k \in Cores : HoldsIn(k, e, {"modified"})
            => k = t.origid /\ e = t.block /\ t.command # "bus_flush"
      BY StoreFacts
    <2>3. memory[e] = latest[e]
      BY <2>2 DEF Lines, MemoryCurrent
    <2> QED BY <2>1, <2>3, StoreFacts DEF StoreHit
  <1> QED BY <1>1, <1>2 DEF Lines

\* A store keeps the invariant of the transaction of another core, unless it hits a word
\* that the transaction has fetched already.
LEMMA StoreTransfer ==
  ASSUME MachineType, LatestType, NEW c \in Cores, NEW b \in Blocks, NEW o \in Offsets,
         NEW word \in Data, StoreHit(c, b, o, word), NEW t \in BusPacket, NEW offset,
         t.origid \in Cores, c # t.origid, WriterBut(t), Transfer(t, offset),
         ~(t.command # "bus_flush" /\ t.block = b /\ o < offset)
  PROVE  Transfer(t, offset)'
  <1> DEFINE i == t.block.index
  <1>1. Lines(t)'
    BY StoreLines DEF Transfer
  <1>2. t.block \in Blocks /\ i \in Indexes
    BY PacketParts
  <1>3. tsram'[t.origid][i] = tsram[t.origid][i] /\ dsram'[t.origid][i] = dsram[t.origid][i]
    BY <1>2, StoreFacts
  <1>4. Holds(c, b) /\ UNCHANGED <<memory, is_memory_operation, main_memory_response_time>>
    BY DEF StoreHit, HoldsIn
  <1>5. ASSUME Evicting(t, offset) PROVE Evicting(t, offset)'
    <2>1. \E h \in Cores : HoldsIn(h, t.block, {"modified"})'
      BY <1>2, <1>5, StoreFacts DEF Evicting
    <2>2. ASSUME tsram'[t.origid][i].mesi \in {"exclusive", "modified"}
          PROVE  /\ HoldsIn(t.origid, t.block, {"modified"})'
                 /\ \A k \in Cores \ {t.origid} : ~Holds(k, t.block)'
                 /\ dsram'[t.origid][i] = latest'[t.block]
                 /\ \A x \in Offsets : x < offset => memory'[t.block][x] = latest'[t.block][x]
      <3>1. /\ HoldsIn(t.origid, t.block, {"modified"})
            /\ \A k \in Cores \ {t.origid} : ~Holds(k, t.block)
            /\ dsram[t.origid][i] = latest[t.block]
            /\ \A x \in Offsets : x < offset => memory[t.block][x] = latest[t.block][x]
        BY <1>3, <1>5, <2>2 DEF Evicting
      <3>2. b # t.block
        BY <1>4, <3>1
      <3>3. latest'[t.block] = latest[t.block]
        BY <1>2, <3>2, StoreFacts
      <3> QED BY <1>2, <1>3, <1>4, <3>1, <3>3, StoreFacts
    <2> QED BY <2>1, <2>2 DEF Evicting
  <1>6. ASSUME t.command # "bus_flush", Filling(t, offset) PROVE Filling(t, offset)'
    <2>1. ASSUME NEW e \in Blocks, e.index = i, e # t.block, HoldsIn(t.origid, e, {"modified"})'
          PROVE  memory'[e] = latest'[e] /\ \A k \in Cores \ {t.origid} : ~Holds(k, e)'
      <3>1. HoldsIn(t.origid, e, {"modified"})
        BY <2>1, StoreFacts
      <3>2. memory[e] = latest[e] /\ \A k \in Cores \ {t.origid} : ~Holds(k, e)
        BY <1>6, <2>1, <3>1 DEF Filling
      <3>3. e # b
        BY <1>4, <3>2
      <3> QED BY <1>4, <3>2, <3>3, StoreFacts
    <2>2. ASSUME is_memory_operation', NEW k \in Cores \ {t.origid}
          PROVE  ~HoldsIn(k, t.block, {"exclusive"})'
      BY <1>2, <1>4, <1>6, <2>2, StoreFacts DEF Filling
    <2>3. ASSUME is_memory_operation', main_memory_response_time' < MEMORY_DELAY_TO_FIRST_BYTE,
                 NEW k \in Cores \ {t.origid}
          PROVE  ~HoldsIn(k, t.block, {"modified"})'
      <3>1. ~HoldsIn(k, t.block, {"modified"}) /\ ~HoldsIn(k, t.block, {"exclusive"})
        BY <1>4, <1>6, <2>3 DEF Filling
      <3>2. ~HoldsIn(k, t.block, {"exclusive", "modified"})
        BY <3>1 DEF HoldsIn
      <3>3. ~(k = c /\ t.block = b)
        BY <3>2 DEF StoreHit
      <3> QED BY <1>2, <3>1, <3>3, StoreFacts
    <2>4. ASSUME NEW x \in Offsets, x < offset
          PROVE  /\ dsram'[t.origid][i][x] = latest'[t.block][x]
                 /\ memory'[t.block][x] = latest'[t.block][x]
      <3>1. t.block # b \/ x # o
        BY <1>6, <2>4
      <3>2. latest'[t.block][x] = latest[t.block][x]
        BY <1>2, <3>1, StoreFacts
      <3> QED BY <1>3, <1>4, <1>6, <2>4, <3>2 DEF Filling
    <2> QED BY <2>1, <2>2, <2>3, <2>4 DEF Filling
  <1> QED BY <1>1, <1>5, <1>6 DEF Transfer

-----------------------------------------------------------------------------
(* Every call keeps the invariant, unless it is one of the races.          *)

\* What is known of a packet that is put on the bus.
LEMMA OnTheBus ==
  ASSUME NEW t, NEW offset, current_data_on_bus' = t, Transfer(t, offset)'
  PROVE  /\ offset_of_address' = offset => Transfer(current_data_on_bus, offset_of_address)'
         /\ offset = BLOCK_SIZE => Transfer(current_data_on_bus, BLOCK_SIZE)'
  BY DEF Transfer, Lines, CopiesCurrent, MemoryCurrent, Evicting, Filling, Target

\* Nobody's transaction: no eviction has ended, or its fetch would be the next to be popped.
LEMMA IdleData ==
  ASSUME ErrCell = {}, MachineInv, DataInv, BusIdle \/ BusDelay, UNCHANGED latest
  PROVE  DataInv'
  <1>1. MachineType /\ P!BusInv
    BY DEF MachineInv
  <1>2. /\ ~is_bus_operating /\ ~is_bus_operating'
        /\ UNCHANGED <<tsram, dsram, memory, latest>> /\ core_operating_state' = Retired
    BY <1>1, NoStrayWrite DEF BusIdle, BusDelay, cacheVars
  <1>3. ~Evicted
    <2> SUFFICES ASSUME NEW c \in Cores, P!Owns(c), current_data_on_bus.command = "bus_flush"
                 PROVE  FALSE
      BY DEF Evicted
    <2>1. list # <<>> /\ list[1].origid = c
      BY <1>1, EvictionNodes
    <2>2. BusDelay /\ list[1].origid = ErrOriginator
      BY <1>1, <2>1, Popped DEF BusIdle, BusDelay
    <2> QED BY <2>1, <2>2, ConstantFacts
  <1>4. ~Evicted'
    <2>1. \A c \in Cores : core_operating_state'[c] \in {"idle", "ready"}
      BY <1>1, <1>2, NobodyOwns
    <2> QED BY <2>1 DEF Evicted, P!Owns
  <1>5. Lines(Delay)'
    <2>1. CopiesCurrent(Delay) /\ MemoryCurrent(Delay)
      BY <1>2, <1>3 DEF DataInv, Lines
    <2> QED BY <1>2, <2>1, DelayTargets DEF Lines, CopiesCurrent, MemoryCurrent, Holds, HoldsIn, Delay
  <1>6. WaitingLines'
    <2>1. CASE BusIdle
      <3>1. list = <<>> /\ list' = list
        BY <2>1 DEF BusIdle
      <3>2. 1..Len(list') = {}
        BY <3>1
      <3> QED BY <3>2 DEF WaitingLines
    <2>2. CASE BusDelay
      <3>1. Pop /\ list[1].origid \notin Cores
        BY <1>1, <2>2, Popped, ConstantFacts DEF BusDelay
      <3> QED BY <1>2, <3>1, PopWaiting DEF DataInv
    <2> QED BY <2>1, <2>2
  <1> QED BY <1>2, <1>4, <1>5, <1>6 DEF DataInv

\* The oldest transaction gets the bus.
LEMMA GrantData ==
  ASSUME ErrCell = {}, WriterInv, LatestType, DataInv, BusGrant, ~StaleEviction, UNCHANGED latest,
         MachineType'
  PROVE  DataInv'
  <1>1. MachineInv /\ RealCommands /\ EvictionSameLine /\ SettledSingleWriter
    BY DEF WriterInv
  <1>2. MachineType /\ P!BusInv /\ TransferInStep
    BY <1>1 DEF MachineInv
  <1>3. /\ list # <<>> /\ Head(list) = list[1] /\ list[1] \in BusPacket /\ 1 \in 1..Len(list)
        /\ current_data_on_bus' = list[1] /\ list[1].origid \in Cores /\ Pop
        /\ ~is_bus_operating /\ is_bus_operating' /\ CycleOf(list[1], 0, TRUE)
    BY <1>2, Popped, GrantOwns DEF BusGrant, Pop
  <1>4. PICK t \in BusPacket : t = list[1]
    BY <1>3
  <1>5. WriterBut(t) /\ Transfer(t, 0)
    <2>1. CASE Evicted
      BY <1>1, <1>3, <1>4, <2>1, AfterEviction, WriterButs
    <2>2. CASE ~Evicted
      <3>1. WriterBut(Delay) /\ WriterBut(t)
        BY <1>1, <1>3, <2>2, WriterButs
      <3> QED BY <1>1, <1>3, <1>4, <2>2, <3>1, FromTheList
    <2> QED BY <2>1, <2>2
  <1>6. HoldBack(t, 0, TRUE) \/ AwaitMemory(t, 0, TRUE)
    BY <1>2, <1>3, <1>4, NoWordWhenGranted DEF CycleOf
  <1>7. core_operating_state'[t.origid] = "operate" /\ offset_of_address' = 0
    BY <1>2, <1>3, <1>4, <1>6, RetiredType DEF HoldBack, AwaitMemory
  <1>8. Transfer(t, 0)'
    <2>1. t.command # "idle" /\ t.origid \in Cores /\ 0 \in Offsets
      BY <1>1, <1>3, <1>4, ConstantFacts DEF RealCommands
    <2>2. CASE HoldBack(t, 0, TRUE)
      BY <1>2, <1>5, <2>2, HeldBack
    <2>3. CASE AwaitMemory(t, 0, TRUE)
      BY <1>2, <1>5, <2>1, <2>3, Awaits
    <2> QED BY <1>6, <2>2, <2>3
  <1>9. Transfer(current_data_on_bus, offset_of_address)'
    BY <1>3, <1>4, <1>7, <1>8, OnTheBus
  <1>10. WaitingLines'
    <2>1. UNCHANGED tsram \/ tsram' = SnoopedTags(list[1], 0)
      BY <1>2, GrantOwns
    <2> QED BY <1>1, <1>3, <1>4, <1>7, <2>1, PopWaiting DEF DataInv
  <1> QED BY <1>3, <1>9, <1>10 DEF DataInv

\* The running transaction gets its next cycle.
LEMMA ContinueData ==
  ASSUME ErrCell = {}, WriterInv, LatestType, DataInv, BusContinue, UNCHANGED latest,
         MachineType'
  PROVE  DataInv'
  <1>1. MachineInv /\ RealCommands /\ EvictionSameLine /\ SettledSingleWriter
    BY DEF WriterInv
  <1>2. MachineType /\ P!BusInv /\ CacheTypeOK' /\ MemoryTypeOK'
    BY <1>1 DEF MachineInv, MachineType
  <1>3. PICK t \in BusPacket : t = current_data_on_bus
    BY <1>2 DEF MachineType
  <1>4. PICK offset \in Offsets : offset = offset_of_address
    BY <1>2 DEF MachineType
  <1>5. PICK flag : flag = flag_for_initial_shared
    OBVIOUS
  <1>6. /\ is_bus_operating /\ t.origid \in Cores /\ t.command # "idle"
        /\ current_data_on_bus' = t /\ CycleOf(t, offset, flag)
    BY <1>1, <1>2, <1>3, <1>4, <1>5, OwnerFacts DEF BusContinue, RealCommands
  <1>7. WriterBut(t) /\ Transfer(t, offset)
    BY <1>1, <1>3, <1>4, <1>6, WriterButs DEF DataInv
  <1>8. \/ is_bus_operating' = TRUE /\ offset_of_address' = offset /\ Transfer(t, offset)'
        \/ is_bus_operating' = TRUE /\ offset_of_address' = offset + 1 /\ Transfer(t, offset + 1)'
        \/ is_bus_operating' = FALSE /\ t.command = "bus_flush" /\ Transfer(t, BLOCK_SIZE)'
        \/ is_bus_operating' = FALSE /\ t.command # "bus_flush" /\ Lines(Delay)'
    BY <1>2, <1>6, <1>7, CycleData
  <1>9. WaitingLines'
    BY <1>1, ContinueWaiting
  <1>10. CASE is_bus_operating' = TRUE /\ offset_of_address' = offset /\ Transfer(t, offset)'
    <2>1. Transfer(current_data_on_bus, offset_of_address)'
      BY <1>6, <1>10, OnTheBus
    <2> QED BY <1>9, <1>10, <2>1 DEF DataInv
  <1>11. CASE is_bus_operating' = TRUE /\ offset_of_address' = offset + 1 /\ Transfer(t, offset + 1)'
    <2>1. Transfer(current_data_on_bus, offset_of_address)'
      BY <1>6, <1>11, OnTheBus
    <2> QED BY <1>9, <1>11, <2>1 DEF DataInv
  <1>12. CASE is_bus_operating' = FALSE /\ t.command = "bus_flush" /\ Transfer(t, BLOCK_SIZE)'
    <2>1. Transfer(current_data_on_bus, BLOCK_SIZE)'
      BY <1>6, <1>12, OnTheBus
    <2>2. MoveWord(t, offset, flag)
      BY <1>6, <1>12 DEF CycleOf, HoldBack, AwaitMemory
    <2>3. core_operating_state'[t.origid] \in {"operate", "final"}
      BY <1>2, <1>6, <2>2, RetiredType DEF MoveWord
    <2>4. Evicted'
      BY <1>6, <1>12, <2>3 DEF Evicted, P!Owns
    <2> QED BY <1>9, <1>12, <2>1, <2>4 DEF DataInv
  <1>13. CASE is_bus_operating' = FALSE /\ t.command # "bus_flush" /\ Lines(Delay)'
    <2>1. ~Evicted'
      BY <1>6, <1>13 DEF Evicted
    <2> QED BY <1>9, <1>13, <2>1 DEF DataInv
  <1> QED BY <1>8, <1>10, <1>11, <1>12, <1>13

\* Nothing that the lines and words depend on has changed.
LEMMA SameLines ==
  ASSUME UNCHANGED <<memoryVars, cacheVars, latest, is_bus_operating, current_data_on_bus,
                     offset_of_address>>
  PROVE  /\ Transfer(current_data_on_bus, offset_of_address)
              => Transfer(current_data_on_bus, offset_of_address)'
         /\ Transfer(current_data_on_bus, BLOCK_SIZE) => Transfer(current_data_on_bus, BLOCK_SIZE)'
         /\ Lines(Delay) => Lines(Delay)'
  <1>1. UNCHANGED <<tsram, dsram, memory, latest, is_memory_operation, main_memory_response_time,
                    is_bus_operating, current_data_on_bus, offset_of_address>>
    BY DEF memoryVars, cacheVars
  <1>2. \A c, b, s : Holds(c, b)' = Holds(c, b) /\ HoldsIn(c, b, s)' = HoldsIn(c, b, s)
    BY <1>1 DEF Holds, HoldsIn
  <1>3. ASSUME NEW t, NEW offset, Transfer(t, offset) PROVE Transfer(t, offset)'
    <2>1. CopiesCurrent(t)' /\ MemoryCurrent(t)'
      BY <1>1, <1>2, <1>3 DEF Transfer, Lines, CopiesCurrent, MemoryCurrent, Target
    <2>2. Evicting(t, offset) => Evicting(t, offset)'
      BY <1>1, <1>2 DEF Evicting
    <2>3. Filling(t, offset) => Filling(t, offset)'
      BY <1>1, <1>2 DEF Filling
    <2> QED BY <1>3, <2>1, <2>2, <2>3 DEF Transfer, Lines
  <1>4. PICK t : t = current_data_on_bus
    OBVIOUS
  <1>5. PICK offset : offset = offset_of_address
    OBVIOUS
  <1>6. Transfer(t, offset) => Transfer(current_data_on_bus, offset_of_address)'
    BY <1>1, <1>3, <1>4, <1>5, OnTheBus
  <1>7. Transfer(t, BLOCK_SIZE) => Transfer(current_data_on_bus, BLOCK_SIZE)'
    BY <1>1, <1>3, <1>4, OnTheBus
  <1>8. Lines(Delay) => Lines(Delay)'
    <2> SUFFICES ASSUME Lines(Delay) PROVE Lines(Delay)'
      OBVIOUS
    <2> QED BY <1>1, <1>2 DEF Lines, CopiesCurrent, MemoryCurrent, Target, Delay
  <1> QED BY <1>4, <1>5, <1>6, <1>7, <1>8

\* A cache pushes its requests.
LEMMA PushData ==
  ASSUME MachineType, DataInv, NEW c \in Cores, NEW b \in Blocks, NEW offset \in Offsets,
         NEW packets, Requested(c, b, offset, packets), ~IsBusBusy(c), Push(c, packets),
         UNCHANGED latest
  PROVE  DataInv'
  <1>1. /\ UNCHANGED <<memoryVars, cacheVars, latest, is_bus_operating, current_data_on_bus,
                       offset_of_address>>
        /\ core_operating_state' = [core_operating_state EXCEPT ![c] = "ready"]
        /\ core_operating_state[c] = "idle"
    BY DEF Push, IsBusBusy
  <1>2. WaitingLines'
    BY PushWaiting DEF DataInv
  <1>3. Evicted' <=> Evicted
    <2>1. \A k \in Cores : core_operating_state'[k] \in {"operate", "final"}
                         <=> core_operating_state[k] \in {"operate", "final"}
      BY <1>1 DEF MachineType
    <2> QED BY <1>1, <2>1 DEF Evicted, P!Owns
  <1> QED BY <1>1, <1>2, <1>3, SameLines DEF DataInv

\* Bus, caches and memory are left alone.
LEMMA SameData ==
  ASSUME DataInv, UNCHANGED MachineVars, UNCHANGED latest
  PROVE  DataInv'
  <1>1. UNCHANGED <<memoryVars, cacheVars, latest, is_bus_operating, current_data_on_bus,
                    offset_of_address, list, core_operating_state, tsram>>
    BY DEF MachineVars, busVars, cacheVars
  <1>2. WaitingLines'
    <2> SUFFICES ASSUME NEW i \in 1..Len(list), list[i].origid \in Cores, Waiting(i)
                 PROVE  Waiting(i)'
      BY <1>1 DEF WaitingLines, DataInv
    <2> QED BY <1>1 DEF Waiting, HoldsIn, Holds, P!Owns
  <1>3. Evicted' <=> Evicted
    BY <1>1 DEF Evicted, P!Owns
  <1> QED BY <1>1, <1>2, <1>3, SameLines DEF DataInv

\* A core whose cache is not busy stores a word: no node of the list is its own, and the
\* transaction on the bus is another core's.
LEMMA StoreData ==
  ASSUME WriterInv, LatestType, DataInv, NEW c \in Cores, NEW r \in AnyAccess, NEW word \in Data,
         WriteHit(c, r, word), ~LateWrite(c, r),
         latest' = [latest EXCEPT ![r.address.block][r.address.offset]
                                    = dsram'[c][r.address.block.index][r.address.offset]]
  PROVE  DataInv'
  <1> DEFINE b == r.address.block
             o == r.address.offset
  <1>1. MachineInv /\ EvictionSameLine /\ SettledSingleWriter
    BY DEF WriterInv
  <1>2. MachineType /\ P!BusInv
    BY <1>1 DEF MachineInv
  <1>3. b \in Blocks /\ o \in Offsets
    BY AnyAccessParts
  <1>4. /\ core_operating_state[c] = "idle" /\ StoreHit(c, b, o, word)
        /\ UNCHANGED <<list, core_operating_state, is_bus_operating, current_data_on_bus,
                       offset_of_address>>
    BY DEF WriteHit, IsBusBusy, StoreHit, busVars, memoryVars
  <1> HIDE DEF b, o
  <1>5. PICK t \in BusPacket : t = current_data_on_bus
    BY <1>2 DEF MachineType
  <1>6. PICK offset : offset = offset_of_address
    OBVIOUS
  <1>7. WriterBut(t) /\ (~is_bus_operating /\ ~Evicted => WriterBut(Delay))
    BY <1>1, <1>5, WriterButs
  <1>8. Evicted' <=> Evicted
    BY <1>4 DEF Evicted, P!Owns
  <1>9. ASSUME is_bus_operating PROVE Transfer(current_data_on_bus, offset_of_address)'
    <2>1. t.origid \in Cores /\ c # t.origid
      BY <1>2, <1>4, <1>5, <1>9, OwnerFacts
    <2>2. Transfer(t, offset)
      BY <1>5, <1>6, <1>9 DEF DataInv
    <2>3. ~(t.command # "bus_flush" /\ t.block = b /\ o < offset)
      BY <1>5, <1>6, <1>9, <2>1 DEF LateWrite, b, o
    <2>4. Transfer(t, offset)'
      BY <1>2, <1>3, <1>4, <1>7, <2>1, <2>2, <2>3, StoreTransfer
    <2> QED BY <1>4, <1>5, <1>6, <2>4, OnTheBus
  <1>10. ASSUME ~is_bus_operating, Evicted PROVE Transfer(current_data_on_bus, BLOCK_SIZE)'
    <2>1. PICK k \in Cores : P!Owns(k) /\ current_data_on_bus.command = "bus_flush"
      BY <1>10 DEF Evicted
    <2>2. t.origid = k /\ c # k /\ t.command = "bus_flush"
      BY <1>2, <1>4, <1>5, <2>1, OwnerNodes DEF P!Owns
    <2>3. Transfer(t, BLOCK_SIZE)
      BY <1>5, <1>10 DEF DataInv
    <2>4. Transfer(t, BLOCK_SIZE)'
      BY <1>2, <1>3, <1>4, <1>7, <2>1, <2>2, <2>3, StoreTransfer
    <2> QED BY <1>4, <1>5, <2>4, OnTheBus
  <1>11. ASSUME ~is_bus_operating, ~Evicted PROVE Lines(Delay)'
    <2>1. PICK d : d = Delay
      OBVIOUS
    <2>2. c # d.origid
      <3>1. Delay.origid = ErrOriginator
        BY DEF Delay
      <3> QED BY <2>1, <3>1, ConstantFacts
    <2>3. Lines(d)'
      BY <1>2, <1>3, <1>4, <1>7, <1>11, <2>1, <2>2, StoreLines DEF DataInv
    <2> QED BY <2>1, <2>3 DEF Lines, CopiesCurrent, MemoryCurrent, Target, Delay
  <1>12. WaitingLines'
    <2> SUFFICES ASSUME NEW i \in 1..Len(list), list[i].origid \in Cores PROVE Waiting(i)'
      BY <1>4 DEF WaitingLines
    <2>1. /\ Waiting(i) /\ list'[i] = list[i] /\ (i # 1 => list'[i - 1] = list[i - 1])
          /\ list[i] \in BusPacket
      BY <1>2, <1>4 DEF DataInv, WaitingLines, MachineType
    <2>2. list[i].origid # c /\ list[i].block.index \in Indexes
      BY <1>2, <1>4, <2>1, OwnerNodes, PacketParts
    <2>3. tsram'[list[i].origid][list[i].block.index] = tsram[list[i].origid][list[i].block.index]
      BY <1>2, <1>3, <1>4, <2>2, StoreFacts
    <2>4. P!Owns(list[i].origid) => core_operating_state'[list[i].origid] \in {"operate", "final"}
      BY <1>4 DEF P!Owns
    <2> QED BY <1>4, <2>1, <2>3, <2>4, WaitingKept
  <1> QED BY <1>4, <1>8, <1>9, <1>10, <1>11, <1>12 DEF DataInv

-----------------------------------------------------------------------------
(* The theorem.                                                            *)

\* The history observes the main loop without touching it.
LEMMA HistoryObserves == [CoherenceNext]_allVars => [Next]_vars
  <1>1. ObserveBus => OperateBus
    BY DEF ObserveBus
  <1>2. \A c \in Cores : ObserveCore(c) => OperateCore(c)
    BY DEF ObserveCore, OperateCore, MemStage
  <1>3. UNCHANGED allVars => UNCHANGED vars
    BY DEF allVars
  <1> QED BY <1>1, <1>2, <1>3 DEF CoherenceNext, Next

\* A call of operate_bus stores nothing.
LEMMA ObserveBusData ==
  ASSUME ErrCell = {}, WriterInv, LatestType, raced = {} => DataInv, ObserveBus, MachineType'
  PROVE  LatestType' /\ (raced' = {} => DataInv')
  <1>1. UNCHANGED latest
    BY DEF ObserveBus
  <1>2. LatestType'
    BY <1>1 DEF LatestType
  <1>3. ASSUME raced' = {} PROVE DataInv'
    <2>1. raced = {} /\ ~StaleEviction
      BY <1>3 DEF ObserveBus
    <2>2. DataInv
      BY <2>1
    <2>3. BusIdle \/ BusDelay \/ BusGrant \/ BusContinue
      BY DEF ObserveBus, OperateBus
    <2>4. MachineInv
      BY DEF WriterInv
    <2> QED BY <1>1, <2>1, <2>2, <2>3, <2>4, IdleData, GrantData, ContinueData
  <1> QED BY <1>2, <1>3

\* An access of a memory stage, whatever the program: it stores when it is a store and has
\* succeeded.
LEMMA ObserveAccessData ==
  ASSUME ErrCell = {}, WriterInv, request = [k \in Cores |-> request[k]], LatestType,
         raced = {} => DataInv, NEW c \in Cores, NEW r \in AnyAccess,
         Access(c, r), ObserveAccess(c, r), MachineType'
  PROVE  LatestType' /\ (raced' = {} => DataInv')
  <1> DEFINE b == r.address.block
             o == r.address.offset
  <1>1. MachineType
    BY DEF WriterInv, MachineInv
  <1>2. b \in Blocks /\ o \in Offsets /\ r # None
    BY AnyAccessParts DEF None
  <1>3. CASE Refused(c, r) \/ ReadHit(c, r)
    <2>1. request' = [request EXCEPT ![c] = r] \/ r.op = "lw"
      BY <1>3 DEF Refused, TurnedAway, ReadMiss, WriteUpgrade, WriteMiss, ReadHit, Stall
    <2>2. request'[c] # None \/ r.op # "sw"
      BY <1>2, <2>1
    <2>3. UNCHANGED history /\ UNCHANGED latest
      BY <2>2 DEF ObserveAccess, history
    <2>4. ~\E word \in Data : WriteHit(c, r, word)
      <3>1. CASE TurnedAway(c, r) \/ ReadHit(c, r) \/ ReadMiss(c, r)
        BY <3>1 DEF TurnedAway, ReadHit, ReadMiss, WriteHit
      <3>2. CASE WriteUpgrade(c, r) \/ WriteMiss(c, r)
        BY <3>2 DEF WriteUpgrade, WriteMiss, WriteHit, HoldsIn
      <3> QED BY <1>3, <3>1, <3>2 DEF Refused
    <2>5. \/ UNCHANGED MachineVars
          \/ /\ ~IsBusBusy(c)
             /\ \E packets : Requested(c, b, o, packets) /\ Push(c, packets)
      BY <1>1, <2>4, AccessCases
    <2>6. DataInv => DataInv'
      BY <1>1, <1>2, <2>3, <2>5, SameData, PushData
    <2> QED BY <2>3, <2>6 DEF history, LatestType
  <1>4. ASSUME NEW word \in Data, WriteHit(c, r, word)
        PROVE  LatestType' /\ (raced' = {} => DataInv')
    <2>1. request'[c] = None /\ r.op = "sw"
      BY <1>4 DEF WriteHit, Succeed
    <2>2. /\ latest' = [latest EXCEPT ![b][o] = dsram'[c][b.index][o]]
          /\ raced' = IF LateWrite(c, r) THEN raced \cup {"late_write"} ELSE raced
      BY <2>1 DEF ObserveAccess
    <2>3. dsram'[c][b.index][o] \in Data
      BY <1>2 DEF MachineType, CacheTypeOK, Blocks
    <2>4. LatestType'
      <3> DEFINE value == dsram'[c][b.index][o]
      <3> HIDE DEF value, b, o
      <3> SUFFICES latest' \in [Blocks -> [Offsets -> Data]]
        BY DEF LatestType
      <3> QED BY <1>2, <2>2, <2>3 DEF LatestType, value
    <2>5. raced' = {} => raced = {} /\ ~LateWrite(c, r)
      BY <2>2
    <2> QED BY <1>4, <2>2, <2>4, <2>5, StoreData
  <1> QED BY <1>3, <1>4 DEF Access

\* A memory stage does its access, if it has one.
LEMMA ObserveCoreData ==
  ASSUME ErrCell = {}, WriterInv, ProgramType, LatestType, raced = {} => DataInv,
         NEW c \in Cores, ObserveCore(c), MachineType'
  PROVE  LatestType' /\ (raced' = {} => DataInv')
  <1>1. CASE NoAccess(c) /\ UNCHANGED history
    <2>1. UNCHANGED MachineVars /\ UNCHANGED latest
      BY <1>1 DEF NoAccess, MachineVars, history
    <2>2. DataInv => DataInv'
      BY <2>1, SameData DEF WriterInv, MachineInv
    <2> QED BY <1>1, <2>2 DEF history, LatestType
  <1>2. ASSUME NEW r \in Upcoming(c), Access(c, r), ObserveAccess(c, r)
        PROVE  LatestType' /\ (raced' = {} => DataInv')
    <2>1. r \in AnyAccess /\ request = [k \in Cores |-> request[k]]
      BY AccessType DEF Upcoming, ProgramType
    <2> QED BY <1>2, <2>1, ObserveAccessData
  <1> QED BY <1>1, <1>2 DEF ObserveCore

\* Every step of the main loop, and of the history, keeps the invariant.
LEMMA CoherenceStep ==
  ASSUME ErrCell = {}, CoherenceInv, ProgramType, [CoherenceNext]_allVars
  PROVE  CoherenceInv' /\ ProgramType'
  <1>1. WriterInv /\ LatestType /\ (raced = {} => DataInv) /\ MachineInv
    BY DEF CoherenceInv, WriterInv
  <1>2. [Next]_vars /\ TypeOK
    BY <1>1, HistoryObserves, TypeParts DEF MachineInv
  <1>3. WriterInv' /\ ProgramType'
    BY <1>1, <1>2, NextIsMachineStep, StepWriter, NextLoop
  <1>4. MachineType'
    BY <1>3 DEF WriterInv, MachineInv
  <1>5. LatestType' /\ (raced' = {} => DataInv')
    <2>1. CASE ObserveBus
      BY <1>1, <1>4, <2>1, ObserveBusData
    <2>2. ASSUME NEW c \in Cores, ObserveCore(c)
          PROVE  LatestType' /\ (raced' = {} => DataInv')
      BY <1>1, <1>4, <2>2, ObserveCoreData
    <2>3. CASE UNCHANGED allVars
      <3>1. UNCHANGED MachineVars /\ UNCHANGED latest /\ UNCHANGED raced
        BY <2>3 DEF allVars, vars, history, MachineVars
      <3>2. DataInv => DataInv'
        BY <3>1, SameData
      <3> QED BY <1>1, <3>1, <3>2 DEF LatestType
    <2> QED BY <2>1, <2>2, <2>3 DEF CoherenceNext
  <1> QED BY <1>3, <1>5 DEF CoherenceInv

\* At the start the caches are empty and main memory, whatever it is loaded with, holds what
\* counts as stored.
LEMMA LoadedStart ==
  ASSUME NEW content \in [Blocks -> [Offsets -> Data]], Start(content), NothingStored
  PROVE  CoherenceInv
  <1>1. WriterInv
    BY StartWriter
  <1>2. LatestType
    BY <1>1 DEF NothingStored, LatestType, WriterInv, MachineInv, MachineType, MemoryTypeOK
  <1>3. DataInv
    <2>1. list = <<>> /\ ~is_bus_operating /\ core_operating_state = [c \in Cores |-> "idle"]
      BY DEF Start
    <2>2. ~Evicted
      BY <2>1 DEF Evicted, P!Owns
    <2>3. 1..Len(list) = {}
      BY <2>1
    <2>4. \A c \in Cores : \A b \in Blocks : ~Holds(c, b)
      BY DEF Start, CacheInit, Holds, Blocks
    <2>5. Lines(Delay)
      BY <2>4 DEF NothingStored, Lines, CopiesCurrent, MemoryCurrent
    <2> QED BY <2>1, <2>2, <2>3, <2>5 DEF DataInv, WaitingLines
  <1> QED BY <1>1, <1>2, <1>3 DEF CoherenceInv

\* QuadCore.tla starts with zeros.
LEMMA CoherenceStart == CoherenceInit => CoherenceInv /\ ProgramType
  <1>1. [b \in Blocks |-> [o \in Offsets |-> 0]] \in [Blocks -> [Offsets -> Data]]
    BY MemoryAssumption
  <1> QED BY <1>1, LoadedStart, InitLoop DEF CoherenceInit, Init

\* The core of the transaction on the bus may not touch its cache.
LEMMA DataIsCoherent == CoherenceInv => CoherentUnlessRaced
  <1> SUFFICES ASSUME CoherenceInv, raced = {} PROVE Coherent
    BY DEF CoherentUnlessRaced
  <1>1. DataInv /\ MachineType /\ P!BusInv
    BY DEF CoherenceInv, WriterInv, MachineInv
  <1>2. PICK t : /\ Lines(t)
                 /\ \A c \in Cores : Usable(c) => c # t.origid
    <2>1. CASE is_bus_operating
      <3>1. Lines(current_data_on_bus)
        BY <1>1, <2>1 DEF DataInv, Transfer
      <3>2. core_operating_state[current_data_on_bus.origid] = "operate"
        BY <1>1, <2>1, OwnerFacts
      <3> QED BY <3>1, <3>2 DEF Usable
    <2>2. CASE ~is_bus_operating /\ Evicted
      <3>1. Lines(current_data_on_bus)
        BY <1>1, <2>2 DEF DataInv, Transfer
      <3>2. PICK k \in Cores : P!Owns(k)
        BY <2>2 DEF Evicted
      <3>3. k = current_data_on_bus.origid
        BY <1>1, <3>2, OwnerNodes
      <3> QED BY <3>1, <3>2, <3>3 DEF Usable, P!Owns
    <2>3. CASE ~is_bus_operating /\ ~Evicted
      <3>1. Lines(Delay)
        BY <1>1, <2>3 DEF DataInv
      <3>2. Delay.origid = ErrOriginator
        BY DEF Delay
      <3> QED BY <3>1, <3>2, ConstantFacts
    <2> QED BY <2>1, <2>2, <2>3
  <1>3. CurrentCopies
    BY <1>2 DEF CurrentCopies, Lines, CopiesCurrent, Target
  <1>4. CurrentMemory
    BY <1>2 DEF CurrentMemory, Lines, MemoryCurrent
  <1> QED BY <1>3, <1>4 DEF Coherent

\* Until a store hits a word that has already moved to another core, or an eviction gets the
\* bus when nobody has its block modified any more, every copy that a core may read holds
\* the values stored last, and so does main memory, of every block that no cache has
\* modified.
THEOREM CoherentHolds ==
  ASSUME ErrCell = {}
  PROVE  CoherenceSpec => []CoherentUnlessRaced
  <1>1. CoherenceInit => CoherenceInv /\ ProgramType
    BY CoherenceStart
  <1>2. CoherenceInv /\ ProgramType /\ [CoherenceNext]_allVars => (CoherenceInv /\ ProgramType)'
    BY CoherenceStep
  <1>3. CoherenceInv => CoherentUnlessRaced
    BY DataIsCoherent
  <1> QED BY <1>1, <1>2, <1>3, PTL DEF CoherenceSpec

-----------------------------------------------------------------------------
(* Programs without write sharing: neither of the races can happen.        *)

\* The blocks of a set of addresses.
BlocksOf(addresses) == {a.block : a \in addresses}

\* No core accesses a block that another one stores to.
NoWriteSharing ==
    \A c, k \in Cores :
        c # k => BlocksOf(Stores[c]) \cap BlocksOf(Loads[k] \cup Stores[k]) = {}

\* A core fetches blocks of its program and evicts those it stores to.
OwnRequest(p) ==
    /\ p.block \in BlocksOf(Loads[p.origid] \cup Stores[p.origid])
    /\ p.command = "bus_flush" => p.block \in BlocksOf(Stores[p.origid])

OwnRequests ==
    /\ \A i \in 1..Len(list) : list[i].origid \in Cores => OwnRequest(list[i])
    /\ is_bus_operating => OwnRequest(current_data_on_bus)

\* The line i of core c is being filled; its state is still that of its old block.
Refilled(c, i) ==
    /\ is_bus_operating
    /\ current_data_on_bus.command # "bus_flush"
    /\ Target(current_data_on_bus, c, i)

\* What a core has modified is a block that it stores to.
OwnModified ==
    \A c \in Cores : \A b \in Blocks :
        HoldsIn(c, b, {"modified"}) /\ ~Refilled(c, b.index) => b \in BlocksOf(Stores[c])

\* A block whose eviction waits for the bus is still modified.
EvictionsModified ==
    \A i \in 1..Len(list) : list[i].command = "bus_flush" =>
        list[i].origid \in Cores /\ HoldsIn(list[i].origid, list[i].block, {"modified"})

PrivateInv == OwnRequests /\ OwnModified /\ EvictionsModified

\* A word of an eviction leaves the line its tag or gives it the tag of the eviction.
LEMMA EvictionTag ==
  ASSUME MachineType, NEW t \in BusPacket, t.origid \in Cores, t.command = "bus_flush",
         NEW offset \in Offsets, NEW flag, MoveWord(t, offset, flag)
  PROVE  tsram'[t.origid][t.block.index].tag
           \in {tsram[t.origid][t.block.index].tag, t.block.tag}
  <1> DEFINE snooped == SnoopedPacket(t, offset)
             shared == Sharers(t.origid, t.block) # {}
             i == t.block.index
             o == t.origid
  <1>1. snooped.block = t.block /\ snooped.command = "bus_flush"
    BY PacketParts DEF SnoopedPacket, BusPacket
  <1>2. Supplied(snooped, Content, offset, MainMemory) = snooped
    BY <1>1 DEF Supplied
  <1>3. tsram' = AnsweredTags(tsram, o, snooped, offset, shared)
    BY <1>2, SnoopedFlush DEF MoveWord
  <1>4. tsram \in [Cores -> [Indexes -> Line]] /\ i \in Indexes /\ t.block.tag \in Tags
    BY PacketParts DEF MachineType, CacheTypeOK
  <1>5. CASE tsram' = tsram
    BY <1>5
  <1>6. CASE tsram' # tsram
    <2>1. PICK mesi : tsram' = [tsram EXCEPT ![o][i] = [tag |-> t.block.tag, mesi |-> mesi]]
      BY <1>1, <1>3, <1>6 DEF AnsweredTags
    <2> DEFINE line == [tag |-> t.block.tag, mesi |-> mesi]
    <2>2. line.tag = t.block.tag
      OBVIOUS
    <2>3. tsram' = [tsram EXCEPT ![o][i] = line]
      BY <2>1
    <2> HIDE DEF line, i
    <2>4. tsram'[o][i] = line
      BY <1>4, <2>3
    <2> QED BY <2>2, <2>4 DEF i
  <1> QED BY <1>5, <1>6

\* What a cycle of t leaves modified had been so, but for the line that t is for: there an
\* eviction may leave its own block, and a fetch changes the state with its last word.
LEMMA CycleModified ==
  ASSUME MachineType, NEW t \in BusPacket, t.origid \in Cores, t.command # "idle",
         NEW offset \in Offsets, NEW flag, CycleOf(t, offset, flag),
         NEW c \in Cores, NEW b \in Blocks, HoldsIn(c, b, {"modified"})'
  PROVE  /\ Target(t, c, b.index) /\ t.command # "bus_flush" => is_bus_operating' = TRUE
         /\ ~Target(t, c, b.index) \/ t.command = "bus_flush"
              => HoldsIn(c, b, {"modified"}) \/ (c = t.origid /\ b = t.block)
  <1> DEFINE i == b.index
             tags == SnoopedTags(t, offset)
  <1>1. i \in Indexes /\ t.block \in Blocks /\ t.block.index \in Indexes
    BY PacketParts DEF Blocks
  <1>2. tsram'[c][i].tag = b.tag /\ tsram'[c][i].mesi = "modified"
    BY DEF HoldsIn, Holds
  <1>3. ASSUME tsram'[c][i] = tags[c][i] PROVE HoldsIn(c, b, {"modified"})
    <2>1. tags[c][i].tag = tsram[c][i].tag /\ tags[c][i].mesi = tsram[c][i].mesi
      BY <1>1, <1>2, <1>3, SnoopStates
    <2> QED BY <1>2, <1>3, <2>1 DEF HoldsIn, Holds
  <1>4. CASE HoldBack(t, offset, flag)
    <2>1. is_bus_operating' = TRUE /\ tsram' = tsram
      BY <1>4 DEF HoldBack, cacheVars
    <2> QED BY <1>2, <2>1 DEF HoldsIn, Holds
  <1>5. CASE AwaitMemory(t, offset, flag)
    <2>1. is_bus_operating' = TRUE /\ tsram' = tags
      BY <1>5 DEF AwaitMemory
    <2> QED BY <1>3, <2>1
  <1>6. CASE MoveWord(t, offset, flag)
    <2>1. CASE ~Target(t, c, i)
      <3>1. tsram'[c][i] = tags[c][i]
        BY <1>1, <1>6, <2>1, WordTags DEF Target
      <3> QED BY <1>3, <2>1, <3>1
    <2>2. CASE Target(t, c, i) /\ t.command # "bus_flush"
      <3>1. t.command \in {"bus_read", "bus_read_exclusive"}
        BY <2>2, PacketParts
      <3>2. ASSUME offset = BLOCK_SIZE - 1 PROVE FALSE
        <4>1. tsram'[t.origid][t.block.index] =
                [tag |-> t.block.tag,
                 mesi |-> IF Sharers(t.origid, t.block) # {} THEN "shared" ELSE "exclusive"]
          BY <1>6, <3>1, <3>2, WordTags
        <4>2. tsram'[c][i] = tsram'[t.origid][t.block.index]
          BY <2>2 DEF Target
        <4>3. tsram'[c][i].mesi \in {"shared", "exclusive"}
          BY <4>1, <4>2
        <4> QED BY <1>2, <4>3
      <3>3. is_bus_operating' = TRUE
        BY <1>6, <3>2 DEF MoveWord
      <3> QED BY <2>2, <3>3
    <2>3. CASE Target(t, c, i) /\ t.command = "bus_flush"
      <3>1. tsram'[c][i].mesi \in {tags[c][i].mesi, "shared", "exclusive"} /\ tags = tsram
        BY <1>6, <2>3, WordTags, SnoopedFlush DEF Target
      <3>2. tsram[c][i].mesi = "modified"
        BY <1>2, <3>1
      <3>3. tsram'[c][i].tag \in {tsram[c][i].tag, t.block.tag}
        BY <1>6, <2>3, EvictionTag DEF Target
      <3>4. CASE tsram'[c][i].tag = tsram[c][i].tag
        BY <1>2, <2>3, <3>2, <3>4 DEF HoldsIn, Holds
      <3>5. CASE tsram'[c][i].tag = t.block.tag
        BY <1>1, <1>2, <2>3, <3>5, SameBlock DEF Target
      <3> QED BY <2>3, <3>3, <3>4, <3>5
    <2> QED BY <2>1, <2>2, <2>3
  <1> QED BY <1>4, <1>5, <1>6 DEF CycleOf

\* So modified blocks stay those that their cores store to.
LEMMA CycleOwn ==
  ASSUME MachineType, OwnModified, NEW t \in BusPacket, t.origid \in Cores, t.command # "idle",
         NEW offset \in Offsets, NEW flag, CycleOf(t, offset, flag), OwnRequest(t),
         current_data_on_bus' = t, is_bus_operating => current_data_on_bus = t
  PROVE  OwnModified'
  <1> SUFFICES ASSUME NEW c \in Cores, NEW b \in Blocks,
                      HoldsIn(c, b, {"modified"})', ~Refilled(c, b.index)'
               PROVE  b \in BlocksOf(Stores[c])
    BY DEF OwnModified
  <1>1. ~Target(t, c, b.index) \/ t.command = "bus_flush"
    <2> SUFFICES ASSUME Target(t, c, b.index), t.command # "bus_flush" PROVE FALSE
      OBVIOUS
    <2>1. is_bus_operating' = TRUE
      BY CycleModified
    <2> QED BY <2>1 DEF Refilled, Target
  <1>2. ~Refilled(c, b.index)
    BY <1>1 DEF Refilled
  <1>3. HoldsIn(c, b, {"modified"}) \/ (c = t.origid /\ b = t.block)
    BY <1>1, CycleModified
  <1>4. CASE HoldsIn(c, b, {"modified"})
    BY <1>2, <1>4 DEF OwnModified
  <1>5. CASE c = t.origid /\ b = t.block
    <2>1. t.command = "bus_flush"
      BY <1>1, <1>5 DEF Target
    <2> QED BY <1>5, <2>1 DEF OwnRequest
  <1> QED BY <1>3, <1>4, <1>5

\* A block that a core has modified stays so in cycles of others, for other blocks.
LEMMA CycleLeaves ==
  ASSUME MachineType, NEW t \in BusPacket, t.origid \in Cores,
         NEW offset \in Offsets, NEW flag, CycleOf(t, offset, flag),
         NEW c \in Cores, NEW b \in Blocks, HoldsIn(c, b, {"modified"}), c # t.origid,
         t.block # b \/ t.command = "bus_flush"
  PROVE  HoldsIn(c, b, {"modified"})'
  <1> DEFINE i == b.index
             tags == SnoopedTags(t, offset)
  <1>1. i \in Indexes /\ t.block \in Blocks
    BY PacketParts DEF Blocks
  <1>2. tsram'[c][i] \in {tsram[c][i], tags[c][i]}
    BY <1>1, WordTags DEF CycleOf, HoldBack, AwaitMemory, cacheVars
  <1>3. tags[c][i].tag = tsram[c][i].tag /\ tags[c][i].mesi = tsram[c][i].mesi
    <2> SUFFICES ASSUME tags[c][i].mesi # tsram[c][i].mesi PROVE FALSE
      BY <1>1, SnoopStates
    <2>1. c \in Reacting(t) /\ i = t.block.index /\ t.command # "bus_flush"
      BY <1>1, SnoopStates
    <2>2. tsram[c][i].tag = t.block.tag /\ tsram[c][i].tag = b.tag
      BY <2>1 DEF Reacting, HoldsIn, Holds
    <2> QED BY <1>1, <2>1, <2>2, SameBlock
  <1> QED BY <1>2, <1>3 DEF HoldsIn, Holds

\* The eviction of a core is the first of its nodes: behind another node of the core, or
\* while the core has the bus, there is none.
LEMMA EvictionAlone ==
  ASSUME MachineType, P!BusInv, NEW j \in 1..Len(list), list[j].command = "bus_flush",
         list[j].origid \in Cores
  PROVE  /\ \A i \in 1..Len(list) : i < j => list[i].origid # list[j].origid
         /\ ~P!Owns(list[j].origid)
  <1> DEFINE L == Controls(list)
             c == list[j].origid
  <1>1. /\ Len(L) = Len(list) /\ Len(list) \in Nat
        /\ \A i \in 1..Len(list) : list[i] \in BusPacket /\ L[i] = Control(list[i])
    BY ControlsFacts DEF MachineType
  <1>2. \A i \in 1..Len(list) : L[i].command = list[i].command /\ L[i].origid = list[i].origid
    BY <1>1, ControlFacts
  <1>3. \A i, k \in 1..Len(L) :
           i < k /\ L[i].origid \in Cores /\ L[i].origid = L[k].origid
             => k = i + 1 /\ L[i].command = "bus_flush"
    BY DEF P!BusInv, P!OneTransactionPerCore, Controls, P!Cores, Cores
  <1>4. /\ j + 1 \in 1..Len(list) /\ list[j + 1].origid = c
        /\ P!Owns(c) => j = 1 /\ current_data_on_bus.command = "bus_flush"
        /\ P!Owns(c) /\ current_data_on_bus.command = "bus_flush" => list[1].command # "bus_flush"
    BY OwnerNodes
  <1> HIDE DEF L
  <1>5. ASSUME NEW i \in 1..Len(list), i < j, list[i].origid = c PROVE FALSE
    <2>1. L[i].origid = L[j + 1].origid /\ L[i].origid \in Cores
      BY <1>2, <1>4, <1>5
    <2>2. j + 1 = i + 1
      BY <1>1, <1>3, <1>4, <1>5, <2>1
    <2> QED BY <1>1, <1>5, <2>2
  <1> QED BY <1>4, <1>5

\* A transaction is popped, and gets its first cycle unless it is a container.
LEMMA PopOwn ==
  ASSUME MachineInv, PrivateInv, NoWriteSharing, Pop, ~is_bus_operating,
         \/ UNCHANGED tsram /\ is_bus_operating' = FALSE
         \/ /\ list[1].origid \in Cores /\ list[1].command # "idle" /\ is_bus_operating' = TRUE
            /\ CycleOf(list[1], 0, TRUE)
  PROVE  PrivateInv'
  <1>1. MachineType /\ P!BusInv
    BY DEF MachineInv
  <1>2. /\ current_data_on_bus' = list[1] /\ list[1] \in BusPacket /\ 1 \in 1..Len(list)
        /\ \A i \in 1..Len(list') : i + 1 \in 1..Len(list) /\ list'[i] = list[i + 1]
    BY <1>1, Popped
  <1>3. PICK t \in BusPacket : t = list[1]
    BY <1>2
  <1>4. t.origid \in Cores => OwnRequest(t)
    BY <1>2, <1>3 DEF PrivateInv, OwnRequests
  <1>5. CASE UNCHANGED tsram /\ is_bus_operating' = FALSE
    <2>1. \A c, b, s : HoldsIn(c, b, s)' = HoldsIn(c, b, s)
      BY <1>5 DEF HoldsIn, Holds
    <2>2. OwnModified'
      BY <1>5, <2>1 DEF PrivateInv, OwnModified, Refilled
    <2>3. EvictionsModified'
      <3> SUFFICES ASSUME NEW i \in 1..Len(list'), list'[i].command = "bus_flush"
                   PROVE  /\ list'[i].origid \in Cores
                          /\ HoldsIn(list[i].origid, list[i].block, {"modified"})'
        BY DEF EvictionsModified
      <3>1. PICK p : p = list'[i]
        OBVIOUS
      <3>2. p.origid \in Cores /\ HoldsIn(p.origid, p.block, {"modified"})
        BY <1>2, <3>1 DEF PrivateInv, EvictionsModified
      <3> QED BY <2>1, <3>1, <3>2 DEF HoldsIn, Holds
    <2>4. OwnRequests'
      BY <1>2, <1>5 DEF PrivateInv, OwnRequests, OwnRequest
    <2> QED BY <2>2, <2>3, <2>4 DEF PrivateInv
  <1>6. CASE /\ list[1].origid \in Cores /\ list[1].command # "idle" /\ is_bus_operating' = TRUE
             /\ CycleOf(list[1], 0, TRUE)
    <2>1. /\ t.origid \in Cores /\ t.command # "idle" /\ is_bus_operating' = TRUE
          /\ CycleOf(t, 0, TRUE) /\ OwnRequest(t) /\ 0 \in Offsets
      BY <1>3, <1>4, <1>6, ConstantFacts
    <2>2. OwnModified'
      BY <1>1, <1>2, <1>3, <2>1, CycleOwn DEF PrivateInv
    <2>3. OwnRequests'
      BY <1>2, <1>3, <2>1 DEF PrivateInv, OwnRequests, OwnRequest
    <2>4. EvictionsModified'
      <3> SUFFICES ASSUME NEW i \in 1..Len(list'), list'[i].command = "bus_flush"
                   PROVE  /\ list'[i].origid \in Cores
                          /\ HoldsIn(list[i].origid, list[i].block, {"modified"})'
        BY DEF EvictionsModified
      <3>1. PICK j \in 1..Len(list) : list'[i] = list[j] /\ j = i + 1
        BY <1>2
      <3>2. PICK p \in BusPacket : p = list[j]
        BY <1>1, <3>1 DEF MachineType
      <3>3. /\ p.command = "bus_flush" /\ p.origid \in Cores /\ p.block \in Blocks
            /\ HoldsIn(p.origid, p.block, {"modified"}) /\ OwnRequest(p)
        BY <3>1, <3>2, PacketParts DEF PrivateInv, EvictionsModified, OwnRequests
      <3>4. p.origid # t.origid
        <4>1. 1 < j
          BY <1>1, <3>1, Popped
        <4> QED BY <1>1, <1>2, <1>3, <3>1, <3>2, <3>3, <4>1, EvictionAlone
      <3>5. t.block # p.block
        BY <2>1, <3>3, <3>4 DEF OwnRequest, NoWriteSharing
      <3>6. HoldsIn(p.origid, p.block, {"modified"})'
        BY <1>1, <2>1, <3>3, <3>4, <3>5, CycleLeaves
      <3> QED BY <3>1, <3>2, <3>3, <3>6 DEF HoldsIn, Holds
    <2> QED BY <2>2, <2>3, <2>4 DEF PrivateInv
  <1> QED BY <1>5, <1>6

\* A transaction goes on: its core has no eviction in the list.
LEMMA ContinueOwn ==
  ASSUME WriterInv, PrivateInv, NoWriteSharing, BusContinue
  PROVE  PrivateInv'
  <1>1. MachineType /\ P!BusInv
    BY DEF WriterInv, MachineInv
  <1>2. PICK t \in BusPacket : t = current_data_on_bus
    BY <1>1 DEF MachineType
  <1>3. PICK offset \in Offsets : offset = offset_of_address
    BY <1>1 DEF MachineType
  <1>4. PICK flag : flag = flag_for_initial_shared
    OBVIOUS
  <1>5. /\ is_bus_operating /\ t.origid \in Cores /\ core_operating_state[t.origid] = "operate"
        /\ UNCHANGED <<list, current_data_on_bus>> /\ CycleOf(t, offset, flag)
        /\ t.command # "idle"
    BY <1>1, <1>2, <1>3, <1>4, OwnerFacts DEF BusContinue, WriterInv, RealCommands
  <1>6. OwnRequest(t)
    BY <1>2, <1>5 DEF PrivateInv, OwnRequests
  <1>7. OwnRequests'
    BY <1>2, <1>5, <1>6 DEF PrivateInv, OwnRequests, OwnRequest
  <1>8. OwnModified'
    BY <1>1, <1>2, <1>5, <1>6, CycleOwn DEF PrivateInv
  <1>9. EvictionsModified'
    <2> SUFFICES ASSUME NEW i \in 1..Len(list), list[i].command = "bus_flush"
                 PROVE  /\ list[i].origid \in Cores
                        /\ HoldsIn(list[i].origid, list[i].block, {"modified"})'
      BY <1>5 DEF EvictionsModified
    <2>1. PICK p \in BusPacket : p = list[i]
      BY <1>1 DEF MachineType
    <2>2. /\ p.command = "bus_flush" /\ p.origid \in Cores /\ p.block \in Blocks
          /\ HoldsIn(p.origid, p.block, {"modified"}) /\ OwnRequest(p)
      BY <2>1, PacketParts DEF PrivateInv, EvictionsModified, OwnRequests
    <2>3. p.origid # t.origid
      <3>1. ~P!Owns(p.origid)
        BY <1>1, <2>1, <2>2, EvictionAlone
      <3> QED BY <1>5, <2>2, <3>1 DEF P!Owns
    <2>4. t.block # p.block
      BY <1>5, <1>6, <2>2, <2>3 DEF OwnRequest, NoWriteSharing
    <2>5. HoldsIn(p.origid, p.block, {"modified"})'
      BY <1>1, <1>5, <2>2, <2>3, <2>4, CycleLeaves
    <2> QED BY <1>5, <2>1, <2>2, <2>5 DEF HoldsIn, Holds
  <1> QED BY <1>7, <1>8, <1>9 DEF PrivateInv

\* A core that is not busy refills no line.
LEMMA IdleFills ==
  ASSUME MachineType, P!BusInv, NEW c \in Cores, core_operating_state[c] = "idle"
  PROVE  \A i : ~Refilled(c, i)
  <1>1. is_bus_operating => core_operating_state[current_data_on_bus.origid] = "operate"
    BY OwnerFacts
  <1> QED BY <1>1 DEF Refilled, Target

\* A core pushes requests for blocks of its program, and the eviction of a block that it
\* has modified.
LEMMA PushOwn ==
  ASSUME MachineType, P!BusInv, PrivateInv, NEW c \in Cores, NEW b \in Blocks,
         NEW offset \in Offsets, b \in BlocksOf(Loads[c] \cup Stores[c]),
         NEW packets, Requested(c, b, offset, packets), ~IsBusBusy(c), Push(c, packets)
  PROVE  PrivateInv'
  <1> DEFINE n == Len(list)
             line == tsram[c][b.index]
             old == [tag |-> line.tag, index |-> b.index]
             e == [origid |-> c, command |-> "bus_flush", block |-> old,
                   data |-> dsram[c][b.index][offset]]
  <1>1. packets \in Seq(BusPacket) /\ Len(packets) \in {1, 2}
    BY RequestedNodes
  <1>2. /\ n \in Nat /\ Len(list') = n + Len(packets)
        /\ \A i \in 1..n : list'[i] = list[i]
        /\ \A i \in 1..Len(packets) : list'[n + i] = packets[i]
    BY <1>1, PushNodes DEF Push, MachineType
  <1>3. /\ core_operating_state[c] = "idle"
        /\ UNCHANGED <<tsram, is_bus_operating, current_data_on_bus>>
    BY DEF Push, cacheVars, IsBusBusy
  <1>4. PICK command \in {"bus_read", "bus_read_exclusive"} :
          \/ packets = <<Fetch(c, command, b)>>
          \/ line.mesi = "modified" /\ packets = <<e, Fetch(c, command, b)>>
          \/ packets = <<Fetch(c, command, b), Delay>>
    BY Zenon DEF Requested
  <1> DEFINE f == Fetch(c, command, b)
  <1>5. f.command # "bus_flush" /\ OwnRequest(f)
    BY DEF Fetch, OwnRequest
  <1>6. ASSUME line.mesi = "modified"
        PROVE  e.origid = c /\ e.block = old /\ OwnRequest(e) /\ HoldsIn(c, old, {"modified"})
    <2>1. line \in Line /\ b.index \in Indexes
      BY DEF MachineType, CacheTypeOK, Blocks
    <2>2. old \in Blocks /\ old.tag = line.tag /\ old.index = b.index
      BY <2>1 DEF Line, Blocks
    <2>3. HoldsIn(c, old, {"modified"})
      BY <1>6, <2>2 DEF HoldsIn, Holds
    <2>4. old \in BlocksOf(Stores[c])
      BY <1>3, <2>2, <2>3, IdleFills DEF PrivateInv, OwnModified
    <2>5. old \in BlocksOf(Loads[c] \cup Stores[c])
      BY <2>4 DEF BlocksOf
    <2> QED BY <2>3, <2>4, <2>5 DEF OwnRequest
  <1>7. Delay.origid \notin Cores /\ Delay.command = "idle"
    <2>1. Delay.origid = ErrOriginator /\ Delay.command = "idle"
      BY DEF Delay
    <2> QED BY <2>1, ConstantFacts
  <1>8. e.command = "bus_flush"
    OBVIOUS
  <1> HIDE DEF e, f, old, line
  <1>9. \A i \in 1..Len(list') : i \notin 1..n =>
            \/ list'[i] = f \/ list'[i] = Delay
            \/ list'[i] = e /\ line.mesi = "modified"
    <2> SUFFICES ASSUME NEW i \in 1..Len(list'), i \notin 1..n
                 PROVE  \/ list'[i] = f \/ list'[i] = Delay
                        \/ list'[i] = e /\ line.mesi = "modified"
      OBVIOUS
    <2>1. i - n \in 1..Len(packets) /\ n + (i - n) = i
      BY <1>1, <1>2
    <2>2. list'[i] = packets[i - n]
      BY <1>2, <2>1
    <2>3. CASE packets = <<f>>
      BY <2>1, <2>2, <2>3
    <2>4. CASE line.mesi = "modified" /\ packets = <<e, f>>
      <3>1. Len(packets) = 2 /\ packets[1] = e /\ packets[2] = f
        BY <2>4
      <3> QED BY <1>2, <2>1, <2>2, <2>4, <3>1
    <2>5. CASE packets = <<f, Delay>>
      <3>1. Len(packets) = 2 /\ packets[1] = f /\ packets[2] = Delay
        BY <2>5
      <3> QED BY <1>2, <2>1, <2>2, <3>1
    <2> QED BY <1>4, <2>3, <2>4, <2>5 DEF e, f, old, line
  <1>10. OwnModified'
    BY <1>3 DEF PrivateInv, OwnModified, HoldsIn, Holds, Refilled, Target
  <1>11. OwnRequests'
    <2>1. ASSUME NEW i \in 1..Len(list'), list'[i].origid \in Cores PROVE OwnRequest(list[i])'
      <3>1. PICK p : p = list'[i]
        OBVIOUS
      <3>2. OwnRequest(p)
        BY <1>2, <1>5, <1>6, <1>7, <1>9, <2>1, <3>1 DEF PrivateInv, OwnRequests
      <3> QED BY <3>1, <3>2 DEF OwnRequest
    <2>2. is_bus_operating' => OwnRequest(current_data_on_bus)'
      BY <1>3 DEF PrivateInv, OwnRequests, OwnRequest
    <2> QED BY <2>1, <2>2 DEF OwnRequests
  <1>12. EvictionsModified'
    <2> SUFFICES ASSUME NEW i \in 1..Len(list'), list'[i].command = "bus_flush"
                 PROVE  /\ list'[i].origid \in Cores
                        /\ HoldsIn(list[i].origid, list[i].block, {"modified"})'
      BY DEF EvictionsModified
    <2>1. PICK p : p = list'[i]
      OBVIOUS
    <2>2. p.origid \in Cores /\ HoldsIn(p.origid, p.block, {"modified"})
      BY <1>2, <1>5, <1>6, <1>7, <1>9, <2>1 DEF PrivateInv, EvictionsModified
    <2> QED BY <1>3, <2>1, <2>2 DEF HoldsIn, Holds
  <1> QED BY <1>10, <1>11, <1>12 DEF PrivateInv

\* A core stores to a block of its program; other caches and the list stay as they are.
LEMMA StoreOwn ==
  ASSUME MachineType, P!BusInv, PrivateInv, NEW c \in Cores, NEW r, NEW word,
         r.address.block \in Blocks, r.address.block \in BlocksOf(Stores[c]),
         WriteHit(c, r, word)
  PROVE  PrivateInv'
  <1> DEFINE b == r.address.block
             i == b.index
  <1>1. /\ HoldsIn(c, b, {"exclusive", "modified"}) /\ core_operating_state[c] = "idle"
        /\ tsram' = [tsram EXCEPT ![c][i].mesi = "modified"]
        /\ UNCHANGED <<list, is_bus_operating, current_data_on_bus>>
    BY DEF WriteHit, IsBusBusy, busVars
  <1>2. tsram \in [Cores -> [Indexes -> Line]] /\ i \in Indexes
    BY DEF MachineType, CacheTypeOK, Blocks
  <1> HIDE DEF i
  <1>3. /\ \A k \in Cores : \A j \in Indexes : k # c \/ j # i => tsram'[k][j] = tsram[k][j]
        /\ tsram'[c][i].tag = tsram[c][i].tag
    <2>1. tsram'[c][i] = [tsram[c][i] EXCEPT !.mesi = "modified"]
      BY <1>1, <1>2
    <2>2. [tsram[c][i] EXCEPT !.mesi = "modified"].tag = tsram[c][i].tag
      BY <1>2 DEF Line
    <2> QED BY <1>1, <1>2, <2>1, <2>2
  <1>4. OwnModified'
    <2> SUFFICES ASSUME NEW k \in Cores, NEW e \in Blocks,
                        HoldsIn(k, e, {"modified"})', ~Refilled(k, e.index)'
                 PROVE  e \in BlocksOf(Stores[k])
      BY DEF OwnModified
    <2>1. ~Refilled(k, e.index)
      BY <1>1 DEF Refilled, Target
    <2>2. CASE k = c /\ e.index = i
      <3>1. e.tag = b.tag
        BY <1>1, <1>3, <2>2 DEF HoldsIn, Holds, i
      <3> QED BY <2>2, <3>1, SameBlock DEF i
    <2>3. CASE k # c \/ e.index # i
      <3>1. tsram'[k][e.index] = tsram[k][e.index]
        BY <1>3, <2>3 DEF Blocks
      <3>2. HoldsIn(k, e, {"modified"})
        BY <3>1 DEF HoldsIn, Holds
      <3> QED BY <2>1, <3>2 DEF PrivateInv, OwnModified
    <2> QED BY <2>2, <2>3
  <1>5. OwnRequests'
    BY <1>1 DEF PrivateInv, OwnRequests, OwnRequest
  <1>6. EvictionsModified'
    <2> SUFFICES ASSUME NEW n \in 1..Len(list), list[n].command = "bus_flush"
                 PROVE  /\ list[n].origid \in Cores
                        /\ HoldsIn(list[n].origid, list[n].block, {"modified"})'
      BY <1>1 DEF EvictionsModified
    <2>1. PICK p \in BusPacket : p = list[n]
      BY DEF MachineType
    <2>2. p.origid \in Cores /\ HoldsIn(p.origid, p.block, {"modified"}) /\ p.origid # c
      BY <1>1, <2>1, OwnerNodes DEF PrivateInv, EvictionsModified
    <2>3. tsram'[p.origid][p.block.index] = tsram[p.origid][p.block.index]
      BY <1>3, <2>2, PacketParts
    <2> QED BY <1>1, <2>1, <2>2, <2>3 DEF HoldsIn, Holds
  <1> QED BY <1>4, <1>5, <1>6 DEF PrivateInv

\* A call of operate_bus keeps the invariant, and no eviction is stale when it gets the bus.
LEMMA BusOwn ==
  ASSUME WriterInv, PrivateInv, NoWriteSharing, ObserveBus
  PROVE  PrivateInv' /\ raced' = raced
  <1>1. MachineInv /\ MachineType /\ P!BusInv /\ TransferInStep
    BY DEF WriterInv, MachineInv
  <1>2. ASSUME BusIdle PROVE PrivateInv'
    <2>1. UNCHANGED <<tsram, list, is_bus_operating>> /\ ~is_bus_operating
      BY <1>2 DEF BusIdle, cacheVars
    <2> QED BY <2>1 DEF PrivateInv, OwnRequests, OwnRequest, OwnModified, Refilled,
                        EvictionsModified, HoldsIn, Holds
  <1>3. ASSUME BusDelay PROVE PrivateInv'
    <2>1. ~is_bus_operating /\ Pop /\ UNCHANGED tsram /\ is_bus_operating' = FALSE
      BY <1>1, <1>3 DEF BusDelay, cacheVars, MachineType
    <2> QED BY <1>1, <2>1, PopOwn
  <1>4. ASSUME BusGrant PROVE PrivateInv'
    <2>1. Pop /\ Head(list) = list[1] /\ 1 \in 1..Len(list) /\ CycleOf(Head(list), 0, TRUE)
      BY <1>1, <1>4, Popped DEF BusGrant
    <2>2. CycleOf(list[1], 0, TRUE)
      BY <2>1
    <2>3. ~is_bus_operating /\ list[1].origid \in Cores /\ list[1].command # "idle"
      BY <1>1, <1>4, <2>1, GrantOwns DEF WriterInv, RealCommands
    <2>4. is_bus_operating' = TRUE
      BY <1>1, <1>4, <2>2, GrantOwns DEF CycleOf, HoldBack, AwaitMemory, MoveWord
    <2> QED BY <1>1, <2>1, <2>2, <2>3, <2>4, PopOwn
  <1>5. ASSUME BusContinue PROVE PrivateInv'
    BY <1>5, ContinueOwn
  <1>6. PrivateInv'
    BY <1>2, <1>3, <1>4, <1>5 DEF ObserveBus, OperateBus
  <1>7. ASSUME StaleEviction PROVE FALSE
    <2>1. /\ list # <<>> /\ Head(list).command = "bus_flush"
          /\ \A k \in Cores : ~HoldsIn(k, Head(list).block, {"modified"})
      BY <1>7 DEF StaleEviction
    <2>2. Head(list) = list[1] /\ 1 \in 1..Len(list)
      BY <1>1, <2>1, EmptySeq DEF MachineType
    <2>3. list[1].origid \in Cores /\ HoldsIn(list[1].origid, list[1].block, {"modified"})
      BY <2>1, <2>2 DEF PrivateInv, EvictionsModified
    <2> QED BY <2>1, <2>2, <2>3
  <1>8. raced' = raced
    BY <1>7 DEF ObserveBus
  <1> QED BY <1>6, <1>8

\* A step that leaves bus and caches alone keeps the invariant.
LEMMA RestOwn ==
  ASSUME PrivateInv, UNCHANGED MachineVars
  PROVE  PrivateInv'
  <1>1. UNCHANGED <<tsram, list, is_bus_operating, current_data_on_bus>>
    BY DEF MachineVars, cacheVars, busVars
  <1> QED BY <1>1 DEF PrivateInv, OwnRequests, OwnRequest, OwnModified, Refilled, Target,
                      EvictionsModified, HoldsIn, Holds

\* An access of its own program: the core keeps the invariant, and stores to no block that
\* another core fetches.
LEMMA AccessOwn ==
  ASSUME WriterInv, PrivateInv, NoWriteSharing, NEW c \in Cores, NEW r \in Accesses(c),
         Access(c, r), ObserveAccess(c, r)
  PROVE  PrivateInv' /\ raced' = raced
  <1> DEFINE b == r.address.block
  <1>1. MachineType /\ P!BusInv
    BY DEF WriterInv, MachineInv
  <1>2. r \in AnyAccess /\ b \in Blocks /\ r.address.offset \in Offsets
    BY AccessType, AnyAccessParts
  <1>3. /\ r.op \in {"lw", "sw"} /\ r.address \in Loads[c] \cup Stores[c]
        /\ r.op = "sw" => r.address \in Stores[c]
    BY DEF Accesses
  <1>4. /\ b \in BlocksOf(Loads[c] \cup Stores[c])
        /\ r.op = "sw" => b \in BlocksOf(Stores[c])
    BY <1>3 DEF BlocksOf
  <1>5. ASSUME NEW word, WriteHit(c, r, word) PROVE PrivateInv'
    <2>1. r.op = "sw"
      BY <1>5 DEF WriteHit
    <2> QED BY <1>1, <1>2, <1>4, <1>5, <2>1, StoreOwn
  <1>6. PrivateInv'
    BY <1>1, <1>2, <1>4, <1>5, AccessCases, PushOwn, RestOwn
  <1>7. ASSUME LateWrite(c, r), r.op = "sw" PROVE FALSE
    <2>1. /\ is_bus_operating /\ current_data_on_bus.origid # c /\ current_data_on_bus.block = b
      BY <1>7 DEF LateWrite
    <2>2. current_data_on_bus.origid \in Cores
      BY <1>1, <2>1, OwnerFacts
    <2> QED BY <1>4, <1>7, <2>1, <2>2 DEF PrivateInv, OwnRequests, OwnRequest, NoWriteSharing
  <1>8. raced' = raced
    BY <1>7 DEF ObserveAccess, history
  <1> QED BY <1>6, <1>8

\* So does a core of QuadCore.tla.
LEMMA CoreOwn ==
  ASSUME WriterInv, ProgramType, PrivateInv, NoWriteSharing, NEW c \in Cores, ObserveCore(c)
  PROVE  PrivateInv' /\ raced' = raced
  <1>1. CASE NoAccess(c) /\ UNCHANGED history
    <2>1. UNCHANGED <<MachineVars, raced>>
      BY <1>1 DEF NoAccess, MachineVars, history
    <2> QED BY <2>1, RestOwn
  <1>2. ASSUME NEW r \in Upcoming(c), Access(c, r), ObserveAccess(c, r)
        PROVE  PrivateInv' /\ raced' = raced
    <2>1. r \in Accesses(c)
      BY DEF Upcoming, ProgramType
    <2> QED BY <1>2, <2>1, AccessOwn
  <1> QED BY <1>1, <1>2 DEF ObserveCore

\* At the start nothing is modified and nothing is asked for.
LEMMA PrivateStart ==
  ASSUME NEW content, Start(content)
  PROVE  PrivateInv
  <1>1. 1..Len(list) = {} /\ ~is_bus_operating
    BY DEF Start
  <1>2. \A c \in Cores : \A b \in Blocks : ~Holds(c, b)
    BY DEF Start, CacheInit, Holds, Blocks
  <1>3. OwnModified
    BY <1>2 DEF OwnModified, HoldsIn
  <1>4. OwnRequests /\ EvictionsModified
    BY <1>1 DEF OwnRequests, EvictionsModified
  <1> QED BY <1>3, <1>4 DEF PrivateInv

\* If no core accesses a block that another one stores to, no race ever happens: at all
\* times every copy that a core may read holds the values stored last, and so does main
\* memory, of every block that no cache has modified.
THEOREM CoherentWithoutWriteSharing ==
  ASSUME ErrCell = {}, NoWriteSharing
  PROVE  CoherenceSpec => []Coherent
  <1> DEFINE Inv == CoherenceInv /\ ProgramType /\ PrivateInv /\ raced = {}
  <1>1. CoherenceInit => Inv
    <2>1. CoherenceInit => PrivateInv /\ raced = {}
      BY PrivateStart DEF CoherenceInit, Init, NothingStored
    <2> QED BY <2>1, CoherenceStart
  <1>2. Inv /\ [CoherenceNext]_allVars => Inv'
    <2> SUFFICES ASSUME Inv, [CoherenceNext]_allVars PROVE Inv'
      OBVIOUS
    <2>1. CoherenceInv' /\ ProgramType'
      BY CoherenceStep
    <2>2. WriterInv /\ ProgramType
      BY DEF CoherenceInv
    <2>3. PrivateInv' /\ raced' = raced
      <3>1. CASE ObserveBus
        BY <2>2, <3>1, BusOwn
      <3>2. ASSUME NEW c \in Cores, ObserveCore(c) PROVE PrivateInv' /\ raced' = raced
        BY <2>2, <3>2, CoreOwn
      <3>3. CASE UNCHANGED allVars
        <4>1. UNCHANGED <<MachineVars, raced>>
          BY <3>3 DEF allVars, vars, history, MachineVars
        <4> QED BY <4>1, RestOwn
      <3> QED BY <3>1, <3>2, <3>3 DEF CoherenceNext
    <2> QED BY <2>1, <2>3
  <1>3. Inv => Coherent
    BY DataIsCoherent DEF CoherentUnlessRaced
  <1> QED BY <1>1, <1>2, <1>3, PTL DEF CoherenceSpec

=============================================================================
