------------------------------ MODULE QuadCore ------------------------------
(***************************************************************************)
(* The simulator's main loop (main.c): one call of operate_bus, then one   *)
(* call of operate_the_core for each core in ascending order.  A core is   *)
(* reduced to its memory stage, which repeats a load or store in every     *)
(* cycle until the cache reports success (mem, pipline.c).                 *)
(***************************************************************************)
EXTENDS Cache, Sequences

CONSTANTS Loads,    \* Loads[c], Stores[c]: the addresses that the program of
          Stores,   \*   core c reads and writes
          ErrCell   \* the addresses this build stores where
                    \*   core_operating_state[err_originator_on_bus] would be

ASSUME QuadCoreAssumption ==
    /\ Loads \in [Cores -> SUBSET Addresses]
    /\ Stores \in [Cores -> SUBSET Addresses]
    /\ ErrCell \subseteq Addresses

MainMemory == CORES_NUMBER     \* main_memory_on_bus
ErrOriginator == 65535         \* err_originator_on_bus
final_state == 3               \* the number of the status "final"
None == [op |-> "none"]

VARIABLES list, core_operating_state, is_bus_operating, current_data_on_bus,
          offset_of_address,
          flag_for_initial_shared,   \* the bus has not been held back yet
          request,                   \* the access in the memory stage of each core
          turn                       \* 0: operate_bus is next; c + 1: core c is

busVars == <<list, core_operating_state, is_bus_operating, current_data_on_bus,
             offset_of_address, flag_for_initial_shared>>
vars == <<memoryVars, cacheVars, busVars, request, turn>>

\* address_on_bus is kept as its block: operate_bus overwrites the offset before use.
Delay == [origid |-> ErrOriginator, command |-> "idle",
          block |-> CHOOSE b \in Blocks : TRUE, data |-> 0]

Accesses(c) == [op : {"lw"}, address : Loads[c]] \cup [op : {"sw"}, address : Stores[c]]

Start(content) ==
    /\ MemoryInit(content)
    /\ CacheInit
    /\ list = <<>>
    /\ core_operating_state = [c \in Cores |-> "idle"]
    /\ is_bus_operating = FALSE
    /\ current_data_on_bus = [Delay EXCEPT !.origid = 0]
    /\ offset_of_address = 0
    /\ flag_for_initial_shared = TRUE
    /\ request = [c \in Cores |-> None]
    /\ turn = 0

Init == Start([b \in Blocks |-> [o \in Offsets |-> 0]])

NextTurn == turn' = (turn + 1) % (CORES_NUMBER + 1)

-----------------------------------------------------------------------------
(* operate_bus.                                                            *)

Retired ==
    [c \in Cores |->
        IF c = current_data_on_bus.origid /\ core_operating_state[c] = "final"
        THEN "idle" ELSE core_operating_state[c]]

\* The status is looked up with the error originator, too: that reads, and when the
\* word equals final_state clears, whatever lies at this distance behind the array.
Content ==
    IF current_data_on_bus.origid # ErrOriginator THEN memory
    ELSE [b \in Blocks |-> [o \in Offsets |->
            IF [block |-> b, offset |-> o] \in ErrCell /\ memory[b][o] = final_state
            THEN 0 ELSE memory[b][o]]]

\* pop_from_arbitration_line.
Pop ==
    /\ list # <<>>
    /\ list' = Tail(list)
    /\ current_data_on_bus' = Head(list)

BusIdle ==
    /\ ~is_bus_operating
    /\ list = <<>>
    /\ current_data_on_bus' = [current_data_on_bus EXCEPT !.origid = ErrOriginator]
    /\ core_operating_state' = Retired
    /\ memory' = Content
    /\ UNCHANGED <<list, is_bus_operating, offset_of_address, flag_for_initial_shared,
                   is_memory_operation, main_memory_response_time, cacheVars>>

BusDelay ==
    /\ ~is_bus_operating
    /\ Pop
    /\ Head(list).origid = ErrOriginator
    /\ core_operating_state' = Retired
    /\ flag_for_initial_shared' = TRUE
    /\ memory' = Content
    /\ UNCHANGED <<is_bus_operating, offset_of_address,
                   is_memory_operation, main_memory_response_time, cacheVars>>

\* Mutant: the bus is held back in every cycle that finds a modified line.
HoldBackAlways(t, offset, flag) ==
    /\ Changed(t.origid, t.block)
    /\ flag_for_initial_shared' = flag
    /\ offset_of_address' = offset
    /\ core_operating_state' = [Retired EXCEPT ![t.origid] = "operate"]
    /\ is_bus_operating' = TRUE
    /\ memory' = Content
    /\ UNCHANGED <<is_memory_operation, main_memory_response_time, cacheVars>>

\* The cycle that finds a modified line is given away, once per transaction.
HoldBack(t, offset, flag) ==
    /\ flag /\ Changed(t.origid, t.block)
    /\ flag_for_initial_shared' = FALSE
    /\ offset_of_address' = offset
    /\ core_operating_state' = [Retired EXCEPT ![t.origid] = "operate"]
    /\ is_bus_operating' = TRUE
    /\ memory' = Content
    /\ UNCHANGED <<is_memory_operation, main_memory_response_time, cacheVars>>

\* The caches snoop, memory is not ready.
AwaitMemory(t, offset, flag) ==
    LET changed == Changed(t.origid, t.block) IN
    /\ ~(flag /\ changed)
    /\ ~Answers(changed)
    /\ TimerStep(changed)
    /\ tsram' = SnoopedTags(t, offset)
    /\ flag_for_initial_shared' = flag
    /\ offset_of_address' = offset
    /\ core_operating_state' = [Retired EXCEPT ![t.origid] = "operate"]
    /\ is_bus_operating' = TRUE
    /\ memory' = Content
    /\ UNCHANGED dsram

\* The caches snoop, memory supplies or takes the word, and the cache of the
\* originator takes it; the last word ends the transaction.
MoveWord(t, offset, flag) ==
    LET changed == Changed(t.origid, t.block)
        shared  == Sharers(t.origid, t.block) # {}
        snooped == SnoopedPacket(t, offset)
        word    == Supplied(snooped, Content, offset, MainMemory)
        last    == offset = BLOCK_SIZE - 1
    IN
    /\ ~(flag /\ changed)
    /\ Answers(changed)
    /\ TimerStep(changed)
    /\ memory' = Stored(snooped, Content, offset)
    /\ tsram' = AnsweredTags(SnoopedTags(t, offset), t.origid, word, offset, shared)
    /\ dsram' = AnsweredWords(t.origid, word, offset)
    /\ flag_for_initial_shared' = flag
    /\ offset_of_address' = IF last THEN offset ELSE offset + 1
    /\ core_operating_state' =
         [Retired EXCEPT ![t.origid] = IF last THEN "final" ELSE "operate"]
    /\ is_bus_operating' = ~last

CycleOf(t, offset, flag) ==
    HoldBack(t, offset, flag) \/ AwaitMemory(t, offset, flag) \/ MoveWord(t, offset, flag)

\* The oldest transaction is popped and gets its first cycle.
BusGrant ==
    /\ ~is_bus_operating
    /\ Pop
    /\ Head(list).origid \in Cores
    /\ CycleOf(Head(list), 0, TRUE)

BusContinue ==
    /\ is_bus_operating
    /\ CycleOf(current_data_on_bus, offset_of_address, flag_for_initial_shared)
    /\ UNCHANGED <<list, current_data_on_bus>>

OperateBus ==
    /\ turn = 0
    /\ BusIdle \/ BusDelay \/ BusGrant \/ BusContinue
    /\ NextTurn
    /\ UNCHANGED request

-----------------------------------------------------------------------------
(* The memory stage of core c with the access r.                           *)

IsBusBusy(c) == core_operating_state[c] # "idle"

\* Mutant: the core is not marked as waiting.
PushUnmarked(c, packets) ==
    /\ list' = list \o packets
    /\ UNCHANGED <<core_operating_state, is_bus_operating, current_data_on_bus,
                   offset_of_address, flag_for_initial_shared, memoryVars, cacheVars>>

Push(c, packets) ==
    /\ list' = list \o packets
    /\ core_operating_state' = [core_operating_state EXCEPT ![c] = "ready"]
    /\ UNCHANGED <<is_bus_operating, current_data_on_bus, offset_of_address,
                   flag_for_initial_shared, memoryVars, cacheVars>>

Stall(c, r) == request' = [request EXCEPT ![c] = r]
Succeed(c)  == request' = [request EXCEPT ![c] = None]

TurnedAway(c, r) ==
    /\ IsBusBusy(c)
    /\ Stall(c, r)
    /\ UNCHANGED <<busVars, memoryVars, cacheVars>>

ReadHit(c, r) ==
    /\ ~IsBusBusy(c)
    /\ r.op = "lw" /\ Holds(c, r.address.block)
    /\ Succeed(c)
    /\ UNCHANGED <<busVars, memoryVars, cacheVars>>

ReadMiss(c, r) ==
    /\ ~IsBusBusy(c)
    /\ r.op = "lw" /\ ~Holds(c, r.address.block)
    /\ Push(c, Eviction(c, r.address.block, r.address.offset) \o <<Fetch(c, "bus_read", r.address.block)>>)
    /\ Stall(c, r)

WriteHit(c, r, word) ==
    /\ ~IsBusBusy(c)
    /\ r.op = "sw" /\ HoldsIn(c, r.address.block, {"exclusive", "modified"})
    /\ dsram' = [dsram EXCEPT ![c][r.address.block.index][r.address.offset] = word]
    /\ tsram' = [tsram EXCEPT ![c][r.address.block.index].mesi = "modified"]
    /\ Succeed(c)
    /\ UNCHANGED <<busVars, memoryVars>>

WriteUpgrade(c, r) ==
    /\ ~IsBusBusy(c)
    /\ r.op = "sw" /\ HoldsIn(c, r.address.block, {"shared"})
    /\ Push(c, <<Fetch(c, "bus_read_exclusive", r.address.block), Delay>>)
    /\ Stall(c, r)

WriteMiss(c, r) ==
    /\ ~IsBusBusy(c)
    /\ r.op = "sw" /\ ~Holds(c, r.address.block)
    /\ Push(c, Eviction(c, r.address.block, r.address.offset) \o <<Fetch(c, "bus_read_exclusive", r.address.block)>>)
    /\ Stall(c, r)

\* The cache does not carry the access out.
Refused(c, r) == TurnedAway(c, r) \/ ReadMiss(c, r) \/ WriteUpgrade(c, r) \/ WriteMiss(c, r)

Access(c, r) == Refused(c, r) \/ ReadHit(c, r) \/ \E word \in Data : WriteHit(c, r, word)

\* A stalled access is repeated; otherwise the program brings up any access, or none.
Upcoming(c) == IF request[c] = None THEN Accesses(c) ELSE {request[c]}

MemStage(c) == \E r \in Upcoming(c) : Access(c, r)

NoAccess(c) ==
    /\ request[c] = None
    /\ UNCHANGED <<busVars, memoryVars, cacheVars, request>>

OperateCore(c) ==
    /\ turn = c + 1
    /\ MemStage(c) \/ NoAccess(c)
    /\ NextTurn

Next == OperateBus \/ \E c \in Cores : OperateCore(c)

\* The main loop runs until the cores have halted; no program has to access memory.
Spec == Init /\ [][Next]_vars /\ WF_vars(Next)

-----------------------------------------------------------------------------
(* Properties.                                                             *)

BusPacket == [origid : Cores \cup {ErrOriginator},
              command : {"idle", "bus_read", "bus_read_exclusive", "bus_flush"},
              block : Blocks, data : Data]

TypeOK ==
    /\ MemoryTypeOK
    /\ CacheTypeOK
    /\ list \in Seq(BusPacket)
    /\ core_operating_state \in [Cores -> {"idle", "ready", "operate", "final"}]
    /\ is_bus_operating \in BOOLEAN
    /\ current_data_on_bus \in BusPacket
    /\ offset_of_address \in Offsets
    /\ flag_for_initial_shared \in BOOLEAN
    /\ \A c \in Cores : request[c] \in Accesses(c) \cup {None}
    /\ turn \in 0..CORES_NUMBER

\* The timer of main memory and the word counter of the bus are kept apart, by
\* different modules, and have to count in step: memory ends its operation with the
\* word that ends the transaction, and no transaction starts on a running timer.
TransferInStep ==
    /\ is_memory_operation => is_bus_operating
    /\ is_memory_operation /\ main_memory_response_time > MEMORY_DELAY_TO_FIRST_BYTE
         => offset_of_address = main_memory_response_time - MEMORY_DELAY_TO_FIRST_BYTE
    /\ is_bus_operating /\ offset_of_address > 0 =>
         is_memory_operation /\ main_memory_response_time > MEMORY_DELAY_TO_FIRST_BYTE

\* A core may touch its cache: its last transaction is retired.
Usable(c) == core_operating_state[c] = "idle"

\* Single writer: while a core may write a block without asking the bus, no other
\* core may use a copy of it.
SingleWriter ==
    \A c, k \in Cores : \A b \in Blocks :
        c # k /\ Usable(c) /\ Usable(k) /\ HoldsIn(c, b, {"exclusive", "modified"})
            => ~Holds(k, b)

\* Every load and store succeeds in the end, so that no pipeline stalls for ever in its
\* memory stage and the program reaches its HALT.
EveryAccessSucceeds ==
    \A c \in Cores : request[c] # None ~> request[c] = None

\* When every core waits for its cache, one of them gets what it waits for.
SomeAccessSucceeds ==
    (\A c \in Cores : request[c] # None) ~> (\E c \in Cores : request[c] = None)

\* This fails only for cores that store to the same block.
Contended ==
    \E c, k \in Cores :
        /\ c # k /\ request[c].op = "sw" /\ request[k].op = "sw"
        /\ request[c].address.block = request[k].address.block

SomeAccessSucceedsUnlessContended ==
    (\A c \in Cores : request[c] # None) ~> (\E c \in Cores : request[c] = None) \/ Contended

\* A word that no cache has modified comes from main memory, and main memory needs
\* MEMORY_DELAY_TO_FIRST_BYTE cycles for the first one.
WordMoves == is_bus_operating /\ (offset_of_address' # offset_of_address \/ ~is_bus_operating')

SuppliedByMemory(p) ==
    /\ p.command \in {"bus_read", "bus_read_exclusive"}
    /\ \A k \in Cores \ {p.origid} : ~HoldsIn(k, p.block, {"modified"})

MemoryLatency ==
    [][WordMoves /\ SuppliedByMemory(current_data_on_bus)
         => is_memory_operation /\ main_memory_response_time >= MEMORY_DELAY_TO_FIRST_BYTE]_vars

\* Main memory changes in no other call of operate_bus than one that calls main memory,
\* which advances its timer.
MemoryWrittenByMemory ==
    [][memory' # memory => main_memory_response_time' # main_memory_response_time]_vars

\* The control of the bus is that of Bus.tla: packets lose their block and data, and
\* the cycles in which memory is awaited or the bus is held back are stuttering steps.
Control(p) == [origid |-> p.origid, command |-> p.command]

B == INSTANCE Bus WITH
        list <- [i \in DOMAIN list |-> Control(list[i])],
        current_data_on_bus <- Control(current_data_on_bus)

Arbitration == B!Spec

=============================================================================
