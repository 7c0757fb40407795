------------------------------ MODULE Pipeline ------------------------------
(***************************************************************************)
(* One core, one action for each kind of call of operate_the_core          *)
(* (core.c).  An access to the cache may fail in any number of cycles;     *)
(* what it reads and writes is the core's own data.                        *)
(***************************************************************************)
EXTENDS Stages

CONSTANTS SIZE_OF_PROGRAM,  \* the most instructions that a program has
          Programs          \* the programs to start with

\* 1024 instructions are what the code has room for.
ASSUME PipelineAssumption ==
    /\ SIZE_OF_PROGRAM \in 0..1024
    /\ \A program \in Programs :
          \E n \in 0..SIZE_OF_PROGRAM : program \in [0..(n - 1) -> Instruction]

VARIABLES core,      \* the record described in Stages.tla
          data       \* what loads and stores see

vars == <<core, data>>

Init ==
    /\ core \in {Started(program) : program \in Programs}
    /\ data = [a \in Words |-> 0]

NoAccess ==
    /\ Runs(core)
    /\ ~InMem(core)
    /\ core' = Cycled(core, core.is_mem_stall, MemStage(core))
    /\ UNCHANGED data

\* The cache turns the access away.
AccessWaits ==
    /\ Runs(core)
    /\ InMem(core)
    /\ core' = Cycled(core, TRUE, Holding(core, Word(core)))
    /\ UNCHANGED data

LoadSucceeds ==
    /\ Runs(core)
    /\ InMem(core) /\ Op(core, MEM) = "lw"
    /\ core' = Cycled(core, FALSE, Holding(core, data[Address(core)]))
    /\ UNCHANGED data

StoreSucceeds ==
    /\ Runs(core)
    /\ InMem(core) /\ Op(core, MEM) = "sw"
    /\ core' = Cycled(core, FALSE, Holding(core, Word(core)))
    /\ data' = [data EXCEPT ![Address(core)] = Word(core)]

Terminate ==
    /\ Halts(core)
    /\ core' = Terminated(core)
    /\ UNCHANGED data

\* operate_the_core returns at once.
Rest == core.is_core_terminated /\ UNCHANGED vars

Next == NoAccess \/ AccessWaits \/ LoadSucceeds \/ StoreSucceeds \/ Terminate \/ Rest

Spec == Init /\ [][Next]_vars

-----------------------------------------------------------------------------
(* Properties.                                                             *)

\* No instruction is behind this address, and no target of a branch, which is a word cut to
\* 9 bits.
LastAddress ==
    LET targets == IF WORD < 512 THEN WORD ELSE 512
    IN  (IF targets > SIZE_OF_PROGRAM THEN targets ELSE SIZE_OF_PROGRAM) - 1

Stage == [pc : 0..(LastAddress + 2) \cup {MAX_INTEGER}, instruction : Instruction,
          output : Words, decoded : BOOLEAN]

\* The pc stops at most two instructions behind the first halt.
TypeOK ==
    /\ core \in [program : Programs,
                 regs : [Registers -> Words],
                 pc : 0..(LastAddress + 3),
                 pipe_stages : [Phases -> Stage],
                 is_data_stall : BOOLEAN, is_mem_stall : BOOLEAN, is_pip_halt : BOOLEAN,
                 is_core_terminated : BOOLEAN]
    /\ data \in [Words -> Words]

\* An instruction leaves decode after it has been decoded: no stage calls an operation
\* that was never set.
DecodedBeforeExecuted ==
    Active(core.pipe_stages[EXECUTE]) /\ Op(core, EXECUTE) \in Arithmetic
        => core.pipe_stages[EXECUTE].decoded

I == INSTANCE Isa WITH program <- core.program, regs <- WrittenBack(core),
                       pc <- PcOfIsa(core), next <- NextOfIsa(core)

\* Whatever it has to stall for, the pipeline implements the machine of Isa.tla: it carries
\* out the instructions in the order of the program, each once, with the values of those
\* before it.
ImplementsIsa == I!Spec

\* What it takes for that: programs for which the hazard check knows enough, and no departure
\* of the core.
PlainPrograms == \A program \in Programs : Plain(program) /\ Short(program)
NoDeparture == ~LosesDecode(core) /\ ~MissesStore(core)

=============================================================================
