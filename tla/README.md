# A TLA+ model of QuadCoreProcessor

QuadCoreProcessor simulates, cycle by cycle, four pipelined cores with private
write-back caches that are kept coherent by a MESI protocol over one shared bus, and a main
memory behind it. This directory holds TLA+ modules that model the simulator from the bit
fields of its words to the programs that its cores run, the TLC configurations that check
them, and theorems that TLAPS proves. Every safety property of the bus arbiter and of the machine of
bus, caches and memory is proved for every number of cores, every block size, every delay and
every cache, and carried over to the whole simulator for all programs. The pipeline of a core is
proved to implement a machine that carries out one instruction after the other, up to two departures that
are named, and the whole program to be sequentially consistent, up to these and to the two races of the caches, which programs
without write sharing cannot meet; the
statistics that it reports are proved to add up to what was run (hits and misses in total over the cores; those of a single core
do not), and the bit fields to be correct for every word. Section 4 says from which assumptions.

## 1. The system

All paths are below `src/QuadCoreProcessor/`. The program is single-threaded. Its
concurrency is that of the hardware it simulates: in each iteration of the loop in `main`
(`main.c` 36-42) `operate_bus` runs once and then every core runs one cycle, in ascending
order, so that a transaction of several cycles interleaves with what the cores do to their
caches.

| Component | State | Operations | Interaction |
|---|---|---|---|
| bus arbiter (`bus.c`) | arbitration list, `core_operating_state`, `is_bus_operating`, `current_data_on_bus`, `offset_of_address`, static `flag_for_initial_shared` | `push_new_bus_operation`, `pop_from_arbitration_line`, `is_bus_busy`, `operate_bus` | caches push; `operate_bus` calls caches and memory back through function pointers |
| private caches (`cache.c`) | per core TSRAM (tag, MESI), DSRAM, hit and miss counters, two static flags | `read_from_cache`, `write_to_cache`, `operate_dirty_block`, and the callbacks `shared_block_check`, `check_existance_of_block`, `cache_data_answer` | called by the memory stage and by the bus |
| main memory (`main.c` 174-210) | `main_memory`, `is_memory_operation`, `main_memory_response_time` | `memory_initalize`, `bus_memory_exec_function` | called once per cycle of a transaction |
| main loop (`main.c` 24-54), `core.c` | cores, counters of cycles, instructions and stalls, files | `main`, `initialize_core`, `operate_the_core` | drives bus and cores |
| pipeline (`pipline.c`) | five stage registers, stall and halt flags, register file, program counter | one function per stage, `start_pip_phases` | its memory stage calls the cache and stalls until it succeeds |
| instructions (`helper.c`) | none | ALU and branch functions | called by decode and execute |
| bit fields (`helper.c`) | none | accessors of the fields of packed words | called by pipeline and cache |
| files and reports (`main.c`, `core.c`) | open files | opening, printing | pure input and output |

What is hard about it:

- *Atomicity by convention.* A transaction is one call of `operate_bus` per cycle. Between
  two of them a core may hit its cache and change a block that is being copied, and a
  request that waits in the list carries data and assumptions from when it was pushed.
- *State in two places.* The bus counts words, memory counts cycles; a line's tag changes
  with the first word of a block and its state with the last; the status of a core is written
  by the caches' pushes and by three places of `operate_bus`.
- *Order.* An eviction and the fetch behind it, an ownership request and the idle bus cycle
  behind it, are separate nodes of one list shared by all cores. Of the caches that have
  a block, only the first reacts to a packet in a cycle.
- *Stages that stop and start.* A memory stall, a data stall and a halt overlap in any way; the
  first freezes stages that have already run in its first cycle, and the counters read the
  flags that the cycle before has left.
- *Progress.* A stalled core tries again every cycle. Whether it ever succeeds depends on
  whether its block survives the next transaction.

There is no crash recovery, no message loss, no timeout and no real thread.

What makes each part correct: the arbiter serves every request once, in order, and never
mixes the words of two transactions; at most one cache may write a block; a load returns the
value stored last; memory holds what no cache has modified; memory's timer and the bus's
word counter agree; every access succeeds in the end; a pipeline carries out the instructions
of its program in order, each once, with the values of those before it; together, the programs
run as on a machine without caches and pipelines, to their end; the reported statistics add
up to what was run.

## 2. Modules

| Module | Models | EXTENDS |
|---|---|---|
| `Bus` | the arbiter alone: list, status, control of `operate_bus`. Also the abstract specification that `QuadCore` implements | |
| `BusProofs` | theorems about `Bus` | `Bus`, `TLAPS` |
| `Memory` | main memory and its timer | |
| `Cache` | TSRAM and DSRAM, and what each callback decides and writes | `Memory` |
| `QuadCore` | the main loop: `operate_bus` with all its callbacks, and the memory stages of the cores | `Cache` |
| `QuadCoreProofs` | theorems about `QuadCore`: types, the two counters, the implementation of `Bus`, a single writer | `QuadCore`, `TLAPS`, an instance of `BusProofs` |
| `Coherence` | `QuadCore` with two history variables: the value stored last, and which race has happened | `QuadCore` |
| `CoherenceProofs` | theorems about `Coherence` | `Coherence`, `QuadCoreProofs` |
| `Instructions` | what the instructions compute | |
| `Isa` | the machine a program sees: one instruction after the other, with a delay slot. Implemented by `Pipeline` | `Instructions` |
| `Stages` | the five stages of a core, as operators on the core's record | `Instructions` |
| `StagesProofs` | lemmas about `Stages`: what each stage and a whole cycle do and keep | `Stages`, `FiniteSetTheorems`, `TLAPS` |
| `Pipeline` | one core over any memory | `Stages`, an instance of `Isa` |
| `PipelineProofs` | theorems about `Pipeline`: types, the implementation of `Isa` | `Pipeline`, `StagesProofs` |
| `Multiprocessor` | the machine the programs see: cores taking turns with whole instructions on one memory. Implemented by `Simulator` | `Instructions`, instances of `Isa` |
| `Simulator` | the whole program: bus, caches, memory and the pipelines of all cores | `Coherence`, an instance of `Stages` |
| `SimulatorProofs` | theorems about `Simulator`: coherence, the implementation of `Multiprocessor` | `Simulator`, `CoherenceProofs`, an instance of `StagesProofs` |
| `Statistics` | the counters the simulator reports, on top of `Simulator` | `Simulator` |
| `StatisticsProofs` | theorems about `Statistics`: instructions, cycles, hits and misses | `Statistics`, `SimulatorProofs` |
| `BitFields` | the accessors of TSRAM words, addresses and instructions | |
| `BitFieldsProofs` | theorems about `BitFields` | `BitFields`, `TLAPS` |
| `MCBus`, `MCQuadCore`, `MCCoherence`, `MCPipeline`, `MCSimulator` | constants for TLC | |

Names are those of the source where there is one. An operator under a comment "Mutant" is a
variant of the definition after it with a plausible bug. Nothing uses it; put in place of that
definition it makes TLC report the property that guards against it (`mutants` in
`PROJECT.json`).

**Bus.** One action per way of asking (`RequestClean`, `RequestDirty`, `RequestUpgrade`: the
nodes that one call of `read_from_cache` or `write_to_cache` pushes) and one per outcome of a
call of `operate_bus` (`OperateIdle`, `OperateDelay`, `OperateGrant`, `OperateWord`,
`OperateFinish`). The retirement at the top of `operate_bus` (a status `final` becomes
`idle`) is part of the actions in which it can have an effect. A packet is its originator and
its command. Cycles in which nothing of this changes are stuttering steps.

**Memory, Cache.** These have no next-state relation of their own: memory and caches only
ever run inside a call from the bus or from a core. Their operators are the parts of
those calls. An address is a record of block (tag and index) and offset.
`Reacting`/`Sharers`/`Changed` reproduce that caches are asked in ascending order and that the
asking stops at the first hit, and that `changed` does not look at the tag.

**QuadCore.** `turn` says who runs next in the loop. `OperateBus` is one call:
`BusIdle`, `BusDelay`, or a cycle of a transaction that is granted or continued (`BusGrant`,
`BusContinue`), which is `HoldBack` (the cycle given away when a modified line is found),
`AwaitMemory` or `MoveWord`. All three are possible of a call that pops a transaction as far as the
code's conditions go; that no word moves in such a call is a lemma (`NoWordWhenGranted`). A core is its memory stage: `request[c]` is the access that `mem` repeats in each
cycle until it succeeds, and a program may bring up any access to `Loads[c]` or
`Stores[c]`, or none, in any cycle; this covers every program and every delay by the rest of
the pipeline. `ErrCell` stands for the memory behind the array `core_operating_state`: the
code reads it, and clears it if it holds 3, whenever the originator is
`err_originator_on_bus` (0xFFFF). Which variable lies there is up to the build; the constant
is empty in all runs but the one about this.

**Coherence.** `latest` is the value stored last to each word. `raced` records the two
situations in which the code loses a store (section 5), so that everything short of them can
be shown to be coherent.

**Stages.** A core is a record: its program, registers, program counter, five stage registers and
the stall and halt flags. `Cycled` is a call of `operate_the_core` but for what the cache
answers: hazard check, fetch, decode (which resolves branches), execute, write back and
`add_idle_slot`, in the code's order. As the only register that changes before write back is
register 1, which each stage overwrites with its immediate before it reads, all stages read the
same register file. A stage keeps the instruction it held when it is empty, because the hazard
check looks at it. Whether an operation has been set in decode is a Boolean (`decoded`);
calling one that was not ends the program, so that no step is possible (`Runs`).

**Pipeline.** One core over a memory that answers when it likes. One action per kind of call of
`operate_the_core`: no access in the memory stage, an access that is turned away, a load or a
store that succeeds, the termination of a drained core, and the cycles after it.

**Isa.** The same instruction functions without a pipeline. The refinement mapping reads the
machine's state off the stages: an instruction counts as carried out when it leaves MEM; the
register file is that with the pending write back applied; `pc` and `next` are the addresses of
the two oldest instructions before that, wherever they are. Both stand still at a halt.

**Simulator.** Here the arbitrary accesses of `QuadCore` come from pipelines. `BusTurn` is the call of
`operate_bus`, `CycleWithoutAccess`, `CycleRefused`, `CycleLoads`, `CycleStores` and
`CycleAtRest` are the calls of `operate_the_core`, each the conjunction of what `QuadCore` says of
the cache and what `Stages` says of the pipeline. `AddressOf` cuts a word address into its fields.
Memory starts with the lines of `memin.txt`, whose counter wraps (`Loaded`). A core whose
instruction file is empty has terminated from the start, and its cache is not registered with
the bus: the next transaction of any other core would call through a null pointer, so there
is no such step. When all cores have terminated `main` returns and nothing happens any more; that
this is the only way to stop is what `Finishes` says. A behaviour is determined by the programs,
which are the input.

**Multiprocessor.** Each step is a step of `Isa` of one core on the shared memory. The mapping reads
the cores off the stages as in `Pipeline`, and the shared memory off `latest` of `Coherence`,
the history of what was stored last: a load that returns anything else, from whichever cache,
is no step of `Multiprocessor`.

**Statistics.** What `operate_the_core`, `set_pip`, `read_from_cache` and `write_to_cache` count, with the
two flags `data_is_missing`, which are static and so shared by all caches. `carried_out` is a history
variable: what the pipelines did.

**BitFields.** A word is the set of the positions of its ones, so that masks are intervals and `&`
and `|` are set operations; an assignment to a `uint16_t` cuts the set. `EvictedAddress` is the
address that `operate_dirty_block` puts together.

## 3. Runs

Passing runs:

| Run | Instance | Properties | What it shows |
|---|---|---|---|
| `bus_arbiter` | 4 cores, blocks of 4 words (the code's constants); 183,205 states | `TypeOK`, `SingleOwner`, `NoLostRequest`, `EvictionThenFetch`, `DelayBehindUpgrade`, `OneTransactionPerCore`, `ListBounded`, `NoOvertaking`, `EveryRequestServed` | Whenever the cores ask, requests are served in order, one at a time and to the end |
| `quadcore_full` | 3 cores, blocks of 4, delay 16, one line, two blocks: two cores load and store both, one shares the first; 651,473 states | `TypeOK`, `TransferInStep`, `SingleWriter`, `Arbitration`, `SomeAccessSucceedsUnlessContended` | At most one core may write a block at any time; the two counters stay in step; the machine implements `Bus`, its fairness included; when all cores stall, one gets on, unless two of them store to the same block |
| `coherence` | 2 cores, blocks of 2, any access to two blocks of a line, 2 values; 2.6M states | `CoherentUnlessRaced` | Until one of the two races happens, every usable copy and memory hold the values stored last |
| `no_write_sharing` | 3 cores, one line, a private block each for two of them, a block that all load | `Coherent`, `EveryAccessSucceeds` | Without write sharing neither race can happen and no access starves |
| `pipeline` | all programs of 4 instructions out of 11 (producers and consumers of two registers, memory, branches, jal, idle), any latency; 237,123 states | `TypeOK`, `ImplementsIsa` | Up to the two departures of section 5, stalls, branches and halts leave no trace in what a program computes |
| `simulator` | 4 cores, blocks of 4, delay 16 (the code's constants), 2 lines, 2 tags, 16 words of 4 bits; seven kinds of workload, each shifted in time; 86,883 states | `SingleWriter`, `InstructionsCounted`, `CyclesExplained`, `LookupsCounted`, `Finishes`, `SequentiallyConsistent` | The whole program: every workload runs to its end with the results of a sequentially consistent machine, and the statistics agree with what was run |

Runs in which TLC finds the violation (section 5): `memory_latency`, `stale_eviction`,
`late_write`, `write_livelock`, `stray_write` (all with 2 cores, blocks of 4 words and the delay
of 16) and `lost_decode` (the programs of `pipeline`).

**Bounds, and why they are enough.** No state constraint bounds a counter: the list is bounded
by the protocol (`ListBounded`), the timer and the word counter by the code. The bounds are
sizes of the constants:

- *Cores.* The code's 4 where the state space allows. With 2 there is a requester and a
  responder; with 3 also a bystander whose copy is hidden or whose request waits between.
- *Block and delay.* 4 and 16 in the code. Control depends on the first word (tag), the last
  word (state), and on memory being awaited or not: 2 words and a delay of 2 keep all of them.
  `quadcore_full` and `simulator` have the real values.
- *Blocks.* Lines of the direct-mapped cache do not interact, so one index is enough; two tags
  evict each other. A third tag is used where cores own private blocks. `simulator` has two
  lines, as its programs work on several blocks.
- *Data.* Two values tell an old word from a new one; one value where no property looks at data.
- *Programs* of `pipeline`. An instruction can meet one at most three places ahead in the pipeline, so four
  instructions and the halts behind them show every pair; backward branches make loops of them.
  Words have 2 bits there and 4 in `simulator`, enough to tell the values apart.
- *Workloads* of `simulator`. Cores add to a shared word in turn, spinning until it is their number;
  work on private words; evict a block of the same line again and again while another core runs
  through all operations; store to one block and load another that a neighbour stores to; read what
  two others write; send messages with a flag; have no program. Each core starts 0 to 1 (the
  messages: 0 to 2) idle instructions late, in every combination, which moves the accesses of the
  cores against each other. One program goes on behind its halt, with an instruction that would have to
  wait for the one before the halt. The workloads are chosen not to run into the departures of section 5
  that change what a program computes or whether it ends; these have runs of their own. The counters are finite because the programs end.
- *Constraint.* `coherence` stops at the first race (`NoRaceYet`), `pipeline` at the first
  departure (`NoDeparture`); the properties say nothing of later states.

`simulator` alone has `CHECK_DEADLOCK FALSE`, because `main` returns; a program that stopped
earlier would violate `Finishes`.

**Fairness.** `Bus`: weak fairness of `OperateBus`, as `main` calls it in each iteration; no
core ever has to ask. `QuadCore`, `Coherence`, `Simulator` and `Statistics`: weak fairness of the whole
step, as the loop goes on while a core has not halted. The order of the loop (`turn`) does the rest. No
fairness says that a program accesses memory or that a given core wins. `Pipeline` is checked
for safety only, as are the refinements of `Isa` and `Multiprocessor`.

**Against the code.** The behaviour of `Simulator` for a workload is a single sequence of steps, so it can be
compared with the program. For seven workloads, one of each kind, the registers (modulo 16) and all counters of every core, cycles and
stalls included, were the same in the model and in the output files of the simulator built with gcc.

## 4. Proofs

What is assumed of the constants is what the modules that declare them state: `CORES_NUMBER \in
Nat \ {0}` and `CORES_NUMBER < 65535` (so that the error originator 65535 is no core),
`BLOCK_SIZE` and `MEMORY_DELAY_TO_FIRST_BYTE` in `Nat \ {0}`, at least one index, 0 among the tags and
the data, and for the instructions `WIDTH \in Nat \ {0}`, registers 0 and 15 and `BinaryNumbers`:
powers of two are positive numbers and every set of bits is that of a word. Nothing in the
provers' library says so of `2^n`, and TLC evaluates it in every run that has instructions. `Pipeline` has
programs of `SIZE_OF_PROGRAM \in 0..1024` instructions at most, which is what the code has room for.
The constants are otherwise arbitrary: four cores are one case, an unlimited memory another.

### The arbiter

`BusProofs`:

| Theorem | Statement |
|---|---|
| `TypeCorrect` | `Spec => []TypeOK` |
| `SingleOwnerHolds` | `Spec => []SingleOwner` |
| `NoLostRequestHolds` | `Spec => []NoLostRequest` |
| `EvictionThenFetchHolds` | `Spec => []EvictionThenFetch` |
| `DelayBehindUpgradeHolds` | `Spec => []DelayBehindUpgrade` |
| `OneTransactionPerCoreHolds` | `Spec => []OneTransactionPerCore` |
| `ListBoundedHolds` | `Spec => []ListBounded` |
| `NoOvertakingHolds` | `Spec => NoOvertaking` |

The inductive invariant is `BusInv`, the conjunction of the type invariant and five
properties, each of which TLC checks in `bus_arbiter`. Alone they are not inductive. When
an eviction is granted its core stops being `ready` with nodes still in the list: that nothing
but its fetch is left, and at the front, is `OneTransactionPerCore` and `EvictionThenFetch`.
That popping the fetch leaves a core without nodes, as `NoLostRequest` demands of it once it
is retired, needs `OneTransactionPerCore`. That a new request adds no second transaction needs
`NoLostRequest`. The two ways the list changes are stated once, as lemmas about sequences
(`PushFacts`, `PopFacts`); there is one lemma for the requests (`RequestInv`) and one for
each outcome of `operate_bus` (`TransferInv`, `IdleInv`, `DelayInv`, `GrantInv`).
`NoOvertaking` is an action property and follows step by step from the invariant
(`NoOvertakingStep`). `ListBounded` is a count: an injection takes each node of the list to
its core and its place, first or second, in the transaction.

### The machine

`QuadCoreProofs`, for every program (`Loads` and `Stores` are any sets of addresses) and any
content of `ErrCell`:

| Theorem | Statement |
|---|---|
| `TypeCorrect` | `Spec => []TypeOK` |
| `TransferInStepHolds` | `Spec => []TransferInStep` |
| `ImplementsArbiter` | `Spec => B!Init /\ [][B!Next]_(B!vars)`, where `B` is `Bus` under the refinement mapping: all of `Arbitration` but its fairness |
| `ArbiterHolds` | single owner, no lost request, the order within a transaction, one transaction per core and the bound of the list hold of the machine's bus |

The inductive invariant is `MachineInv`: the types, `TransferInStep`, the range of memory's timer, and
`BusInv` of the arbiter under the mapping. Neither half stands alone. That `operate_bus` does
what `Bus` says needs the two counters in step, because the machine asks memory and the arbiter
counts words; that the counters stay in step needs `SingleOwner`, because the originator decides
which of them moves. `NoWordWhenGranted` says that no word moves in the call that pops a
transaction, which the code's conditions leave open and the timer decides. `MinFacts` (a set of cores has a
smallest one) is what the asking in ascending order rests on; it is proved from the
well-foundedness of `<`.

The lemmas are about a *call*, `MachineStep`: a call of `operate_bus`, or one access of any core
to any address (`AnyAccess`). `Next` of `QuadCore` keeps an access until it succeeds, `Simulator` need
not: between two tries a write back may change the address (a `jal` with a reader of register 15
behind it, which the hazard check misses). Stated of calls the lemmas serve both.

### A single writer

`QuadCoreProofs`, in its last part: `SingleWriterHolds == Spec => []SingleWriter`. The inductive invariant
`WriterInv` adds to `MachineInv` that only the container is idle (`RealCommands`), that an eviction and the fetch behind it are
for the same line (`EvictionSameLine`), and `SettledSingleWriter`: `SingleWriter` of all lines but
that of the transaction under way, whatever their cores wait for. The exception is needed: tag and state of
that line change with different words, so that in between it seems to hold a block with the
rights of another.

### Coherence

`CoherenceProofs`:

| Theorem | Assuming | Statement |
|---|---|---|
| `CoherentHolds` | `ErrCell = {}` | `CoherenceSpec => []CoherentUnlessRaced` |
| `CoherentWithoutWriteSharing` | `ErrCell = {}`, `NoWriteSharing` | `CoherenceSpec => []Coherent` |

`ErrCell = {}` leaves out the stray write of section 5, which clears a word of memory behind the
protocol's back. `NoWriteSharing` says that no core accesses a block that another one stores to; the constants of the
run `no_write_sharing` satisfy it.

The inductive invariant `CoherenceInv` says, as long as there is no race, what is current *during* a transaction:

- Without one (`Lines`): every usable copy, and memory of every block that nobody has modified, hold `latest`.
- During an eviction (`Evicting`): somebody still has the block modified, and the words before
  `offset_of_address` are in memory.
- During a fetch (`Filling`): what is replaced has been evicted; the words before
  `offset_of_address` are current in the line and in memory; once memory counts, no other
  cache holds the block exclusively, and until it answers none has it modified.
- In the list (`Waiting`): a line that can still be written to is not one that is about to be filled without an eviction.

The conditions of `raced` are exactly the two steps that break it: a store to a word that has passed, and an eviction of a block that nobody has
modified. Without write sharing neither is possible (`PrivateInv`): a modified block is its own core's,
and an eviction in the list is of a block that is still modified. TLC checks `CoherenceInv` on
the constants of `coherence` and on 3 cores with blocks of one word, and `PrivateInv` on those of `no_write_sharing`;
these were the first checks of the invariants and are not among the runs.

### The whole simulator

`SimulatorProofs`, for all programs and every `memin.txt`:

| Theorem | Assuming | Statement |
|---|---|---|
| `SimulatorSingleWriter` | | `SimulatorSpec => []SingleWriter` |
| `SimulatorCoherent` | `ErrCell = {}` | `SimulatorSpec => []CoherentUnlessRaced` |

Addresses come out of the pipelines here, so what has to be proved is that pipelines ask for
addresses of the machine and store words: `SimulatorInv` adds to `WriterInv` the types of the
cores. `StagesProofs` proves that each stage and a whole cycle keep them (`CycledType`), from what
every instruction computes (`ComputedType`); `AddressFields` that cutting an address into fields gives
one of the machine; `LoadedType` that memory starts with words. `StagesProofs` is used through an
instance; the lemmas `Same...` say that its definitions are those of `Simulator`'s own instance
of `Stages`.

### The pipeline

`PipelineProofs`, for every latency of every access:

| Theorem | Assuming | Statement |
|---|---|---|
| `TypeCorrect` | | `Spec => []TypeOK` |
| `PipelineImplementsIsa` | `PlainPrograms` | `Spec /\ []NoDeparture => ImplementsIsa` |

Assumptions of the second, and what they leave out (the code does the opposite in each case, which is why they are
there; `Isa` would be wrong about it):

- `NoDeparture`: the core does not come to an instruction that leaves decode undecoded (`LosesDecode`), nor to a store
  that misses its value because the hazard check leaves its register out (`MissesStore`). Both are in section 5. It is a condition on the behaviour, not on the
  program, and is the constraint of the run `pipeline`.
- `Plain`, of each program. Nothing but an idle instruction computes into register 0 and none loads it: the hazard
  check takes register 0 for a constant, the write back does not. A halt in the program names no register,
  because its write back writes zero. If register 15 is read anywhere, each `jal` has 15 as its `rd`,
  which is where the hazard check looks.
- `Short`, of each program: fewer than 512 addresses. A `jal` that does not jump goes on at the address behind it, cut to 9
  bits (`helper.c` 65, 112).

All programs of the run `pipeline` are `Plain` and `Short`; `MCPipeline` has TLC evaluate it.

`TypeCorrect` needs `TypeInv`, because the bound of the program counter is not inductive. What stops the counter is
that a halt is decoded, so a stage has to hold the instruction of its address (`Fetched`), a halt must never wait for
a register (`HaltHasNoHazard`), and what is behind the last address is a halt. `Bounded` says how far the counter is ahead
of it meanwhile; the exception is a memory stall, which freezes FETCH one address further on.

`PipelineImplementsIsa` needs `SoundInv`, which is `TypeInv` and, of the stages (`Sound` in `StagesProofs`):

- `Shaped`: DECODE is empty only at the start and behind a halt; which stages each kind of stall has left as they were.
- `ControlInv`: each instruction behind decode has led to the two addresses behind it, wherever they are. So branches are
  right although they are resolved early, with the delay slot already fetched.
- `Undisturbed`: what the instructions in EXECUTE and MEM read is not on its way any more.
- `OutputInv`: what they are about to write was computed from the registers that those before them leave.
- `RegistersKept`: register 0 is zero, and an instruction that gives back what it has read (`sw`, a branch) changes nothing in
  write back. That is why `MissesStore` can leave these out.

The heart of it is `NothingOnItsWay`: if there is no hazard then nothing that DECODE reads is on its way. It makes
`Undisturbed` true when an instruction leaves DECODE; the others follow from it, since two register files that
agree on what an instruction uses give it the same result and the same successor (`AgreeMoved`, `AgreedFlow`).
`MappingFacts` reads the machine of `Isa` off the stages: it stands before the instruction in MEM or, if
there is none, before the one to get there next. A cycle is then one of two kinds (`StallEffect`, `MoveEffect`, together
`CycleEffect`). If MEM is stalled, empty or holds a halt, it is a stutter of `Isa`; else it is the step of
`Isa` that carries out the instruction in MEM (`SoundStep`).

### The whole program

`SimulatorProofs`, for all programs, every `memin.txt` and all sizes of caches and main memory:

| Theorem | Assuming | Statement |
|---|---|---|
| `SimulatorSequentiallyConsistent` | `ErrCell = {}`, `PlainWorkloads` | `SimulatorSpec /\ [](NoDeparture /\ raced = {}) => SequentiallyConsistent` |
| `SequentiallyConsistentWithoutWriteSharing` | the same, `NoWriteSharing` | `SimulatorSpec /\ [](NoDeparture /\ KeepsToAddresses) => SequentiallyConsistent` |

It joins what is proved of the caches with what is proved of the pipeline: the simulator implements
`Multiprocessor`, in which the cores take turns with whole instructions on one memory. What it assumes:

- `PlainWorkloads`: every program is `Plain` and `Short`, as above. The programs of the run `simulator` are; `MCSimulator` has
  TLC evaluate it.
- `NoDeparture` and `raced = {}`: no core comes to one of the two departures and the caches do not race. These are
  conditions on the behaviour, and departures are as in section 5. The first holds in all workloads of the run
  `simulator`; the second does not in those with stale evictions, where only TLC shows the property.
- Instead of `raced = {}`, the second theorem: that no core accesses a block that another one stores to. Addresses are
  computed as the program runs, so this has two parts. `Loads[c]` and `Stores[c]` are sets of
  addresses, any that are `NoWriteSharing`; `KeepsToAddresses` says that every access that comes to the stage MEM of
  core `c` is one of them. TLC has found both, with `NoDeparture` and `SequentiallyConsistent`, to hold of the programs
  `Private` of the run `simulator`, with the block of its own counter as the addresses of each core. Cores
  may share what they only load, and their blocks may share lines, so that there are evictions, and the bus.
- `ErrCell = {}`, as for coherence.
- Of the constants, that `Indexes` and `Tags` are the numbers that the words of main memory divide into
  (`SimulatorAssumption`), and that `memin.txt` is below the wrap of its counter (`MemInAssumption`).

The argument: what the cores share is `SharedData`, the value stored last at each word address; that two
addresses are never the same word is division with rest (`AddressesApart`). A load that hits returns its entry, because
without a race every usable copy is current (`LoadCalls`, from `DataIsCoherent`); a store that hits changes that
entry and no other (`StoreCalls`); everything else leaves `SharedData` alone (`CallsOfCores`). So each step of the simulator is a
call `Calls(c)` of one core on the shared memory, or none. `StagesProofs` has shown of such calls, for any memory, that they keep a core
in order and are a step of its machine or none (`CallInOrder`, the lemma behind `PipelineImplementsIsa`
too); `Ordered` says so of every core, and `MachineSteps` that the machines of the other cores stand still.

The second theorem follows from the first and from `NoRaceWithoutWriteSharing`: `PrivateInv`, as for coherence, is an
invariant of the simulator too, since all that the caches get from a pipeline is an access of its own (`BringsUp`,
`AccessOwn`).

### The statistics

`StatisticsProofs`, for all programs and every `memin.txt`. By the shape of `Statistics` its steps are steps of the simulator that
also count, so that the invariants of `SimulatorProofs` can be used of them (lemma `StatisticsStep`).

| Theorem | Assuming | Statement |
|---|---|---|
| `InstructionsCountedHolds` | `HaltingWorkloads` | `StatisticsSpec => []InstructionsCounted` |
| `CyclesExplainedHolds` | `HaltingWorkloads` | `StatisticsSpec => []CyclesExplained` |
| `LookupsCountedHolds` | | `StatisticsSpec => []LookupsCounted` |

`HaltingWorkloads` asks of every program that its halts name no register in any of their three fields, as the word
of zeros behind `halt` in an assembled program does not; `MCSimulator` has TLC evaluate it. A halt with a register waits for it,
and DECODE may then take it out of the pipeline later than the counters expect. Neither theorem needs the programs to be `Plain`, and both
hold whether or not a core comes to a departure of section 5.

*Instructions and cycles* are counted core by core. The two properties speak of a core that has ended; what they say on the way there is
`CoreCounted`:

- What a core has counted and not yet carried out is on its way (`UnderWay` in `StagesProofs`): the instructions in DECODE, EXECUTE
  and MEM; one more in FETCH while the core stalls; behind a decoded halt the halt itself and the one fetched with it, which are two
  whatever has become of them. `UnderWayStep` is that it grows with the counter and shrinks when an instruction leaves MEM, in every
  combination of the two stalls and the halt.
- Until a halt is decoded the cycles keep exact pace with what is counted (`Accounted`). While the stages drain after it,
  each cycle is one that empties a stage (`ToDrain`), or counts as a stall: the hazard check looks at the instruction that the halt has taken out of DECODE too.
  The third alternative of `Accounted` says when it cannot any more: all but the halt have left, and the halt names no register (`HaltAlone`).
- `Flowing` is what a stall leaves in FETCH, DECODE and MEM.

They are conditions on a core alone, proved in `StagesProofs` of any cycle over any memory (`Counting`), and joined here with what
`Observe` counts (`BalancedCycle`). That a core's counter stays in its bounds, so that no address is taken for that of an empty stage, is
`CycleInBounds`, with the 1024 words of instruction memory as the last address (`core.c` 15).

*Lookups* are counted over all cores, because the flags are shared. `LookupsCounted` is inductive with the types. An access that leaves MEM was a hit and
adds one to both sides or clears the flag; one that misses adds to the right side and sets it (`LooksUp`). It is a statement about sums of a function over the cores: that a sum grows by what one summand grows by (`SumGrows`) is proved
without an induction theorem, as those take operators. `AllNumbers` says that a set of numbers that has 0 and with each the next is all of
them, `AllSubsets` the same of the subsets of a finite set; `SumExists` builds the function that the fold of the community module chooses.

### The bit fields

`BitFieldsProofs` holds for all words of 32 bits, without assumptions:

| Theorem | Statement |
|---|---|
| `TagStored` | Storing a tag in a TSRAM word changes the tag and leaves the MESI state alone |
| `MesiStateStored` | Storing a state changes the state and leaves the tag alone |
| `AddressFieldsTellApart` | Two words of main memory never agree in offset, index and tag |
| `EvictionGoesToTheLinesBlock` | The address of an eviction has the line's tag and index and offset zero |
| `CommandFieldsTellApart` | Two instruction words never agree in all five fields |

They justify that the other modules keep these words as records. Set equalities are reduced to single bit
positions, where they are linear arithmetic; `ShiftBack` says when a shift to the right takes
back one to the left.

### Only model-checked

- Liveness (`EveryRequestServed`, `EveryAccessSucceeds`, `SomeAccessSucceedsUnlessContended`, `Finishes`)
  and the fairness that is part of `Arbitration`: out of the prover's reach.
- `SequentiallyConsistent` beyond the hypotheses of its theorems: in the workloads of `simulator` it holds to the
  end although cores write to each other's blocks and evictions race there (`raced`); which values a race loses
  depends on the program.

## 5. Where the code departs from its comments

1. **Memory answers without its delay** (`memory_latency`). A comment says that memory starts
   to return data after 16 cycles (`main.c` 184). `shared_block_check` (`cache.c` 204) reports
   any modified line at the index, and memory takes this as the sign that a cache supplies the
   data. A core that loads block B while another cache has A modified in the same line gets B
   from main memory in the next cycle.
2. **A stale eviction overwrites memory** (`stale_eviction`). The flush queued for a dirty
   block holds a single captured word; when it runs it relies on the line being modified still,
   to replace that word by each of the block's. If another core reads the block first, the line
   is shared by then, and the captured word goes to all words of the block in memory.
3. **A store hits a block that is being copied** (`late_write`). The supplier of a block stays
   `modified` until the last word, and its core may store to a word that has passed. Both caches
   end up `shared` with different contents, and memory has the old word. A program meets this when one core stores a
   message and then a flag in the same block while another waits for the flag: the store of the flag
   can be lost, and the receiver waits for ever (the simulator built with gcc then never ends).
4. **Two writers take the block from each other for ever** (`write_livelock`). After an
   ownership request for a shared block the code inserts an idle bus cycle so that the writer
   can use the block (comment, `cache.c` 100). After a write miss it does not, and the next
   transaction starts in the same call that retires the first.
5. **An idle bus clears a word** (`stray_write`). `operate_bus` uses the error originator 0xFFFF
   as an index of the array of 4 statuses (`bus.c` 123).
6. **An instruction leaves decode undecoded** (`lost_decode`). The data hazard is recomputed in
   each cycle of a memory stall. If the producer was in write back when the stall began, it is
   gone in the next cycle, and when the stall ends the dependent instruction moves to execute
   with a null pointer as its operation; the instruction behind it is fetched twice. `add r2`,
   `lw r3`, `nop`, `add r4, r2` is enough to crash the simulator.

`LosesDecode` in `Stages.tla` is this situation; the second departure, `MissesStore`, is a store
in decode whose register is on its way while another store is, or was last, in write back
(`pipline.c` 252): the hazard check leaves the register out, and the store writes the old value to
memory and back to the register. It is none if what is on its way is another store or a branch, which write
back the value they have read. No run is spent on it, nor on these, which a test of a
single instruction shows: `jal` never jumps (`helper.c` 112), a reader of register 15 behind it
is not stalled, immediates are not sign-extended (`helper.c` 208), register 0 can be written
(`pipline.c` 105), branch targets have 9 bits (`helper.c` 65). `Isa` follows the code in these.

Met in modelling the whole program, without runs of their own:

- From line 65536 on `memin.txt` overwrites the beginning of main memory (`main.c` 178).
- If a core has an empty instruction file, the first miss of any other core crashes the simulator
  (`core.c` 16). `Simulator` has the guard in `BusTurn`.
- The flags `data_is_missing` are static, one for the caches of all cores (`cache.c` 35, and 70 for stores), although a comment
  says of them that the previous operation was a miss (line 46). After a miss of one core the hit of another is left
  out, and the access that had missed counts twice. When two cores store once each, to blocks of their own, one can report neither a
  hit nor a miss and the other both: the simulator built with gcc does so with the words `00000000 10201000 00221001 11201000 14000000`
  on core 0, `10201004 00221001 11201004 14000000` on core 1, `00000000 14000000` on core 2 and `10201006 14000000` on core 3, all of
  memory being 0. What holds, and all that `LookupsCounted` says, is a bound on the totals.
- A halt usually drains through all stages, but leaves the pipeline at once when a memory stall begins
  in the cycle in which it is decoded: programs of equal length differ by a cycle (`CyclesExplained`).
- While a halted core drains, the hazard check goes on comparing the instruction that was in decode (`pipline.c` 230 does not
  look whether the stage is empty). If the one behind the halt reads what is on its way, up to two of the draining cycles are
  reported as decode stalls of an instruction that never runs. The proof of `CyclesExplained` showed it: an earlier form
  of the property left out this case, and the programs of the run had nothing behind their halts. The property now allows for it
  and would not tell it from a cycle in which a stage empties.

## 6. Not modelled

- *Files, traces and reports*: pure output. That `open_files` opens files of fixed names is not modelled.
- *Addresses above 20 bits as indexes of `main_memory`*: the code does not mask them; the
  model has only addresses of the machine.
- *A failing `malloc`* in `push_to_arbitration_line`: its result is ignored by the callers.
- *Program counters above 1023 and branch targets above 9 bits* in a run: instruction memory is a short
  program and the halts behind it.
- `get_address_block` and `get_address_offset`, which are never called, and the generated
  `QuadCoreProcessor.cpp`.

## 7. What could follow

All components with state or behaviour of their own are modelled (sections 2 and 3), and every safety property
that the runs check is proved (section 4). Two extensions suggest themselves:

- A condition on the text of programs that implies `KeepsToAddresses`: loads and stores that add a constant to
  register 0, say, which needs an invariant of the register files.
- An abstract MESI protocol, atomic on blocks, between `QuadCore` and `Multiprocessor`;
  the runs `coherence` and `simulator` cover what it would promise.
