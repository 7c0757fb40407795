----------------------------- MODULE Statistics -----------------------------
(***************************************************************************)
(* The statistics that the simulator reports for each core: the counters   *)
(* that operate_the_core, set_pip, read_from_cache and write_to_cache      *)
(* advance, and what print_statistics makes of them.  A history variable   *)
(* keeps what the pipelines really carried out.                            *)
(***************************************************************************)
EXTENDS Simulator

VARIABLES counters,         \* the counters of each core
          data_is_missing,  \* one flag for loads and one for stores, static in the code:
                            \*   the caches of all cores share them
          carried_out       \* per core: the instructions that have left the stage MEM, halts
                            \*   excepted, and the loads and stores among them

statisticsVars == <<simulatorVars, counters, data_is_missing, carried_out>>

\* Counters have 32 bits; initialize_core sets the cycles of a core with a program to -1.
CountersOf(c) ==
    [cycles |-> IF Registered(c) THEN -1 ELSE 0, instructions |-> 0,
     decode_stalls |-> 0, mem_stalls |-> 0,
     hits |-> [lw |-> 0, sw |-> 0], misses |-> [lw |-> 0, sw |-> 0]]

StatisticsInit ==
    /\ SimulatorInit
    /\ counters = [c \in Cores |-> CountersOf(c)]
    /\ data_is_missing = [lw |-> FALSE, sw |-> FALSE]
    /\ carried_out = [c \in Cores |-> [instructions |-> 0, lw |-> 0, sw |-> 0]]

-----------------------------------------------------------------------------
(* What a call of operate_the_core counts.                                 *)

One(condition) == IF condition THEN 1 ELSE 0

\* Mutant: an instruction is counted again in every cycle of a memory stall.
LegalInMemoryStall(k) == ~k.is_pip_halt /\ ~k.is_data_stall

\* The cycle before brought a new instruction.
PipelineIsLegal(k) == ~k.is_pip_halt /\ ~k.is_mem_stall /\ ~k.is_data_stall

\* Mutant: a cycle that stalls in both places counts twice.
CountedTwice(k, before, after) ==
    [k EXCEPT !.cycles = @ + 1,
              !.instructions = @ + One(PipelineIsLegal(before)),
              !.decode_stalls = @ + One(after.is_data_stall),
              !.mem_stalls = @ + One(after.is_mem_stall)]

Counted(k, before, after) ==
    [k EXCEPT !.cycles = @ + 1,
              !.instructions = @ + One(PipelineIsLegal(before)),
              !.decode_stalls = @ + One(after.is_data_stall /\ ~after.is_mem_stall),
              !.mem_stalls = @ + One(after.is_mem_stall)]

\* The cache has left k of the counters of core c; the cycle does the rest.
Observe(c, k) ==
    LET moves(ops) == One(/\ S!Active(S!MemStage(cores[c])) /\ ~cores'[c].is_mem_stall
                          /\ S!Op(cores[c], S!MEM) \in ops)
    IN  /\ counters' = [counters EXCEPT ![c] = Counted(k, cores[c], cores'[c])]
        /\ carried_out' = [carried_out EXCEPT ![c] =
             [instructions |-> @.instructions + moves(S!Arithmetic \cup S!Branches \cup S!Accesses),
              lw |-> @.lw + moves({"lw"}), sw |-> @.sw + moves({"sw"})]]

-----------------------------------------------------------------------------
(* What the cache counts: every miss, also of an access that missed before, *)
(* and a hit unless the flag says that it ends a miss.                     *)

Operation(c) == S!Op(cores[c], S!MEM)

\* Mutant: a hit that ends a miss of stores clears nothing.
FlagStaysForStores(c) ==
    /\ CycleLoads(c) \/ CycleStores(c)
    /\ Observe(c, IF data_is_missing[Operation(c)] THEN counters[c]
                  ELSE [counters[c] EXCEPT !.hits[Operation(c)] = @ + 1])
    /\ data_is_missing' = [data_is_missing EXCEPT !["lw"] = FALSE]

CountHit(c) ==
    /\ CycleLoads(c) \/ CycleStores(c)
    /\ Observe(c, IF data_is_missing[Operation(c)] THEN counters[c]
                  ELSE [counters[c] EXCEPT !.hits[Operation(c)] = @ + 1])
    /\ data_is_missing' = [data_is_missing EXCEPT ![Operation(c)] = FALSE]

CountMiss(c) ==
    /\ ~IsBusBusy(c)
    /\ CycleRefused(c)
    /\ Observe(c, [counters[c] EXCEPT !.misses[Operation(c)] = @ + 1])
    /\ data_is_missing' = [data_is_missing EXCEPT ![Operation(c)] = TRUE]

\* The cache is not asked, or turns the access away before it looks it up.
CountNoLookup(c) ==
    /\ CycleWithoutAccess(c) \/ (IsBusBusy(c) /\ CycleRefused(c))
    /\ Observe(c, counters[c])
    /\ UNCHANGED data_is_missing

StatisticsNext ==
    \/ \E c \in Cores : CountHit(c) \/ CountMiss(c) \/ CountNoLookup(c)
    \/ /\ BusTurn \/ \E c \in Cores : CycleAtRest(c)
       /\ UNCHANGED <<counters, data_is_missing, carried_out>>

StatisticsSpec ==
    StatisticsInit /\ [][StatisticsNext]_statisticsVars /\ WF_statisticsVars(StatisticsNext)

-----------------------------------------------------------------------------
(* Properties.                                                             *)

\* A core that has run its program to the halt.
Reports(c) == Registered(c) /\ cores[c].is_core_terminated

\* The reported instructions (print_statistics takes one off) are those carried out and the
\* halt, however often stalls made the core fetch an instruction again.
InstructionsCounted ==
    \A c \in Cores : Reports(c) => counters[c].instructions - 1 = carried_out[c].instructions + 1

\* Every reported cycle is accounted for: one for each instruction, one for each reported
\* stall, and two to four in which the stages fill and empty.  It is four as a rule, and three
\* when a memory stall that begins with the decoding of the halt takes it out of the pipeline
\* at once; but up to two of the cycles in which the stages empty are reported as stalls if an
\* instruction behind the halt, which never runs, reads what is still on its way.
CyclesExplained ==
    \A c \in Cores : Reports(c) =>
        \E n \in 2..4 :
            counters[c].cycles + 1 = counters[c].instructions - 1
                                       + counters[c].decode_stalls + counters[c].mem_stalls + n

\* No load or store goes uncounted: the flags suppress the count of a hit at most once
\* for each counted miss, although a miss of one core may suppress a hit of another.
LookupsCounted ==
    \A op \in {"lw", "sw"} :
        LET hits == SumFunction([c \in Cores |-> counters[c].hits[op]])
            misses == SumFunction([c \in Cores |-> counters[c].misses[op]])
            done == SumFunction([c \in Cores |-> carried_out[c][op]])
        IN  hits <= done /\ done + One(data_is_missing[op]) <= hits + misses

\* What it takes to count instructions and cycles: programs whose halts wait for no register.
HaltingWorkloads == \A w \in Workloads : \A c \in Cores : S!HaltsAtOnce(w[c])

=============================================================================
