----------------------------- MODULE Simulator -----------------------------
(***************************************************************************)
(* The whole simulator: main (main.c) starts the cores on their programs   *)
(* and runs bus and cores in turn until every core has terminated.  The    *)
(* memory stage of each pipeline (Stages.tla) calls its cache, which       *)
(* QuadCore.tla describes.  Nothing is left to chance but the programs.    *)
(***************************************************************************)
EXTENDS Coherence

CONSTANTS Registers, WIDTH, \* see Instructions.tla
          Workloads,        \* the programs of the cores, functions of the core
          MemIn,            \* the lines of memin.txt
          LINE_COUNTER      \* where the counter of these lines wraps, 2^16 in the code

S == INSTANCE Stages

\* An instruction file without a line.
NoProgram == <<>>

\* See Instructions.tla.
ASSUME WordAssumption ==
    /\ WIDTH \in Nat \ {0} /\ S!BinaryNumbers
    /\ {0, 15} \subseteq Registers /\ 1 \notin Registers

\* The blocks are those of the word addresses 0..2^WIDTH - 1, and initialize_core reads no
\* more instructions than there is room for.
ASSUME SimulatorAssumption ==
    /\ Data = S!Words
    /\ IsFiniteSet(Indexes) /\ IsFiniteSet(Tags)
    /\ Indexes = 0..(Cardinality(Indexes) - 1) /\ Tags = 0..(Cardinality(Tags) - 1)
    /\ BLOCK_SIZE * Cardinality(Indexes) * Cardinality(Tags) = S!WORD
    /\ \A w \in Workloads : w = [c \in Cores |-> w[c]]
    /\ \A w \in Workloads : \A c \in Cores :
          /\ IsFiniteSet(DOMAIN w[c]) /\ Cardinality(DOMAIN w[c]) <= S!HALTED
          /\ w[c] \in [0..(Cardinality(DOMAIN w[c]) - 1) -> S!Instruction]

\* The file fits below the wrap of the counter: main memory may have more words.
ASSUME MemInAssumption ==
    /\ MemIn \in Seq(S!Words) /\ Len(MemIn) <= LINE_COUNTER
    /\ LINE_COUNTER \in Nat /\ LINE_COUNTER <= S!WORD

VARIABLE cores    \* the record of each core, see Stages.tla

simulatorVars == <<allVars, cores>>

-----------------------------------------------------------------------------
(* Addresses and the start.                                                *)

\* The fields of a word address: offset, index and tag, from the lowest bit.
AddressOf(a) ==
    [block |-> [tag |-> (a \div (BLOCK_SIZE * Cardinality(Indexes))) % Cardinality(Tags),
                index |-> (a \div BLOCK_SIZE) % Cardinality(Indexes)],
     offset |-> a % BLOCK_SIZE]

\* The lines that memory_initalize reads into word a, numbered from 0.
LinesAt(a) == {n \in 0..(Len(MemIn) - 1) : n % LINE_COUNTER = a}

WordAt(a) == IF LinesAt(a) = {} THEN 0 ELSE MemIn[Max(LinesAt(a)) + 1]

Loaded ==
    [b \in Blocks |-> [o \in Offsets |->
        WordAt(CHOOSE a \in S!Words : AddressOf(a) = [block |-> b, offset |-> o])]]

\* initialize_core: without instructions the core has terminated, and its cache is not
\* made known to the bus.
CoreOf(program) ==
    IF program = NoProgram THEN S!Terminated(S!Started(program)) ELSE S!Started(program)

\* Mutant: main initializes one core too few.
AllButTheLast(c) == c # CORES_NUMBER - 1 /\ cores[c].program # NoProgram

Registered(c) == cores[c].program # NoProgram

SimulatorInit ==
    /\ Start(Loaded)
    /\ NothingStored
    /\ cores \in {[c \in Cores |-> CoreOf(w[c])] : w \in Workloads}

-----------------------------------------------------------------------------
(* The main loop.                                                          *)

Finished == \A c \in Cores : cores[c].is_core_terminated

\* A transaction asks every cache, as the first one finds no copies; asking a cache that
\* is not registered ends the program.
BusTurn ==
    /\ ~Finished
    /\ ObserveBus
    /\ \A c \in Cores : is_bus_operating' => Registered(c)
    /\ UNCHANGED cores

AccessOf(k) == [op |-> S!Op(k, S!MEM), address |-> AddressOf(S!Address(k))]

\* A call of operate_the_core, given what the stage MEM leaves behind.
Cycle(c, stalled, memoryStage) ==
    /\ turn = c + 1
    /\ S!Runs(cores[c])
    /\ cores' = [cores EXCEPT ![c] = S!Cycled(@, stalled, memoryStage)]
    /\ NextTurn

CycleWithoutAccess(c) ==
    /\ ~S!InMem(cores[c])
    /\ NoAccess(c)
    /\ UNCHANGED history
    /\ Cycle(c, cores[c].is_mem_stall, S!MemStage(cores[c]))

\* Mutant: the pipeline moves on with the word that is there.
MovesOnWithoutData(c) ==
    /\ S!InMem(cores[c])
    /\ Refused(c, AccessOf(cores[c]))
    /\ UNCHANGED history
    /\ Cycle(c, cores[c].is_mem_stall, S!Holding(cores[c], S!Word(cores[c])))

CycleRefused(c) ==
    /\ S!InMem(cores[c])
    /\ Refused(c, AccessOf(cores[c]))
    /\ UNCHANGED history
    /\ Cycle(c, TRUE, S!Holding(cores[c], S!Word(cores[c])))

CycleLoads(c) ==
    LET address == AccessOf(cores[c]).address IN
    /\ S!InMem(cores[c])
    /\ ReadHit(c, AccessOf(cores[c]))
    /\ UNCHANGED history
    /\ Cycle(c, FALSE, S!Holding(cores[c], dsram[c][address.block.index][address.offset]))

CycleStores(c) ==
    /\ S!InMem(cores[c])
    /\ WriteHit(c, AccessOf(cores[c]), S!Word(cores[c]))
    /\ ObserveAccess(c, AccessOf(cores[c]))
    /\ Cycle(c, FALSE, S!Holding(cores[c], S!Word(cores[c])))

\* The pipeline is drained, or the core has terminated before.
CycleAtRest(c) ==
    /\ turn = c + 1
    /\ \/ S!Halts(cores[c]) /\ cores' = [cores EXCEPT ![c] = S!Terminated(@)]
       \/ cores[c].is_core_terminated /\ UNCHANGED cores
    /\ UNCHANGED <<busVars, memoryVars, cacheVars, request, history>>
    /\ NextTurn

\* When all cores have terminated, main returns.
SimulatorNext ==
    \/ BusTurn
    \/ \E c \in Cores : \/ CycleWithoutAccess(c) \/ CycleRefused(c)
                        \/ CycleLoads(c) \/ CycleStores(c) \/ CycleAtRest(c)

SimulatorSpec ==
    SimulatorInit /\ [][SimulatorNext]_simulatorVars /\ WF_simulatorVars(SimulatorNext)

-----------------------------------------------------------------------------
(* Properties.                                                             *)

\* The simulator comes to its end: every core reaches its halt and drains, however the
\* cores wait for each other and for the bus.
Finishes == <>Finished

\* What loads and stores of all cores see: of each word the value stored last.
SharedData == [a \in S!Words |-> latest[AddressOf(a).block][AddressOf(a).offset]]

M == INSTANCE Multiprocessor WITH
        programs <- [c \in Cores |-> cores[c].program],
        regs <- [c \in Cores |-> S!WrittenBack(cores[c])],
        pc <- [c \in Cores |-> S!PcOfIsa(cores[c])],
        next <- [c \in Cores |-> S!NextOfIsa(cores[c])],
        data <- SharedData

\* Whatever caches, bus and pipelines do, the programs run as if the cores took turns with
\* whole instructions on one memory, loaded from memin.txt.
SequentiallyConsistent == M!Spec

\* What it takes for that, besides that the caches do not race: programs for which the hazard
\* check knows enough, and no departure of a core.
PlainWorkloads == \A w \in Workloads : \A c \in Cores : S!Plain(w[c]) /\ S!Short(w[c])
NoDeparture == \A c \in Cores : ~S!LosesDecode(cores[c]) /\ ~S!MissesStore(cores[c])

\* Every core keeps to the addresses that are its own.
KeepsToAddresses == \A c \in Cores : S!InMem(cores[c]) => AccessOf(cores[c]) \in Accesses(c)

=============================================================================
