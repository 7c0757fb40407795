------------------------------- MODULE Stages -------------------------------
(***************************************************************************)
(* The five stages of a core (pipline.c), as operators on the record of    *)
(* the core's state.  Pipeline.tla runs one such core over any memory,     *)
(* Simulator.tla several over the caches.  The record k of a core holds    *)
(*   program, regs and pc (pc_of_core),                                    *)
(*   pipe_stages: per phase the pc, the instruction, the output, and       *)
(*      whether decode has set the operation (if not, a null pointer),     *)
(*   is_data_stall, is_mem_stall, is_pip_halt, is_core_terminated.         *)
(***************************************************************************)
EXTENDS Instructions, FiniteSets

FETCH == 0
DECODE == 1
EXECUTE == 2
MEM == 3
WRITE_BACK == 4
Phases == FETCH..WRITE_BACK
MAX_INTEGER == 65535    \* the pc of an empty stage

\* A word of zeros is add with register 0.
Zero == [op |-> "add", rd |-> 0, rs |-> 0, rt |-> 0, imm |-> 0]
Empty == [pc |-> MAX_INTEGER, instruction |-> Zero, output |-> 0, decoded |-> FALSE]

\* initialize_core and initialize_pip.
Started(program) ==
    [program |-> program,
     regs |-> [r \in Registers |-> 0],
     pc |-> 0,
     pipe_stages |-> [p \in Phases |-> IF p = FETCH THEN [Empty EXCEPT !.pc = 0] ELSE Empty],
     is_data_stall |-> FALSE, is_mem_stall |-> FALSE, is_pip_halt |-> FALSE,
     is_core_terminated |-> FALSE]

Active(stage) == stage.pc # MAX_INTEGER
Op(k, p) == k.pipe_stages[p].instruction.op

-----------------------------------------------------------------------------
(* Hazards.                                                                *)

\* reg_compare_logic.  The register that a store reads as rd is left out when a store
\* is, or was last, in write back.
Reads(k, i) ==
    IF i.op \in Arithmetic \cup {"lw"} \/ (i.op = "sw" /\ Op(k, WRITE_BACK) = "sw")
    THEN {i.rs, i.rt} ELSE {i.rd, i.rs, i.rt}

Conflict(k, p) ==
    /\ Active(k.pipe_stages[p])
    /\ k.pipe_stages[p].instruction.rd
         \in Reads(k, k.pipe_stages[DECODE].instruction) \ {REG_ZERO, REG_IMM}

\* Mutant: an instruction in write back is taken to have written its register.
HazardsBeforeWriteBack(k) == Conflict(k, EXECUTE) \/ Conflict(k, MEM)

Hazards(k) == Conflict(k, EXECUTE) \/ Conflict(k, MEM) \/ Conflict(k, WRITE_BACK)

-----------------------------------------------------------------------------
(* The stages.  Registers change in write back only, the last to run, so   *)
(* that all stages of a cycle read the same file.                          *)

\* Mutant: a halted core goes on fetching.
FetchAfterHalt(k) ==
    IF k.is_mem_stall THEN [stage |-> k.pipe_stages[FETCH], pc |-> k.pc]
    ELSE [stage |-> [k.pipe_stages[FETCH] EXCEPT !.pc = k.pc,
                                                 !.instruction = InstructionAt(k.program, k.pc)],
          pc |-> IF Hazards(k) THEN k.pc ELSE k.pc + 1]

\* A data stall fetches the same instruction again; a memory stall fetches none.
Fetch(k) ==
    IF k.is_pip_halt \/ k.is_mem_stall THEN [stage |-> k.pipe_stages[FETCH], pc |-> k.pc]
    ELSE [stage |-> [k.pipe_stages[FETCH] EXCEPT !.pc = k.pc,
                                                 !.instruction = InstructionAt(k.program, k.pc)],
          pc |-> IF Hazards(k) THEN k.pc ELSE k.pc + 1]

Decodes(k) == ~k.is_mem_stall /\ ~Hazards(k) /\ Active(k.pipe_stages[DECODE])

\* decode resolves the branches; jal has overwritten its target with the pc behind the
\* delay slot when it jumps.
Decode(k) ==
    LET stage == k.pipe_stages[DECODE]
        i == stage.instruction
        pc == Fetch(k).pc
    IN  IF ~Decodes(k) THEN [stage |-> stage, pc |-> pc, halt |-> k.is_pip_halt]
        ELSE IF i.op = "halt" THEN [stage |-> stage, pc |-> pc, halt |-> TRUE]
        ELSE [stage |-> [stage EXCEPT !.decoded = TRUE,
                                      !.output = IF i.op = "jal" THEN pc % WORD
                                                 ELSE IF i.op \in Branches THEN Value(k.regs, i, i.rd)
                                                 ELSE @],
              pc |-> IF Taken(k.regs, i) THEN Target(k.regs, i)
                     ELSE IF i.op = "jal" THEN pc % 512 ELSE pc,
              halt |-> k.is_pip_halt]

Computes(k) == ~k.is_mem_stall /\ Active(k.pipe_stages[EXECUTE]) /\ Op(k, EXECUTE) \in Arithmetic

Execute(k) ==
    IF ~Computes(k) THEN k.pipe_stages[EXECUTE]
    ELSE [k.pipe_stages[EXECUTE] EXCEPT !.output = Result(k.regs, k.pipe_stages[EXECUTE].instruction)]

\* The stage MEM, and what its instruction means to the cache.
MemStage(k) == k.pipe_stages[MEM]
InMem(k) == Active(MemStage(k)) /\ Op(k, MEM) \in Accesses
Address(k) == AddressIn(k.regs, MemStage(k).instruction)

\* set_arguments_to_regs loads rd before the cache is asked: it is the word of a store.
Word(k) == Value(k.regs, MemStage(k).instruction, MemStage(k).instruction.rd)
Holding(k, word) == [MemStage(k) EXCEPT !.output = word]

Destination(i) == IF i.op = "jal" THEN NEXT_INSTRUCTION_ADDRESS_REGISTER ELSE i.rd

\* The registers once the instruction in write back has written its output.
WrittenBack(k) ==
    LET stage == k.pipe_stages[WRITE_BACK] IN
    IF Active(stage) THEN Written(k.regs, Destination(stage.instruction), stage.output) ELSE k.regs

\* add_idle_slot: an empty stage hands on its emptiness and nothing else.
HandedOn(from, to) == IF Active(from) THEN from ELSE [to EXCEPT !.pc = MAX_INTEGER]

\* Mutant: a halt does not empty FETCH.
OnlyDecodeVacated(stages, halt) == IF halt THEN [stages EXCEPT ![DECODE].pc = MAX_INTEGER] ELSE stages

Vacated(stages, halt) ==
    IF halt THEN [stages EXCEPT ![FETCH].pc = MAX_INTEGER, ![DECODE].pc = MAX_INTEGER] ELSE stages

\* The core after a call of operate_the_core in which the stage MEM left "memory" in its
\* place, and stalled or not.
Cycled(k, stalled, memory) ==
    LET hazards == Hazards(k)
        decode == Decode(k)
        now == [k.pipe_stages EXCEPT ![FETCH] = Fetch(k).stage, ![DECODE] = decode.stage,
                                     ![EXECUTE] = Execute(k), ![MEM] = memory]
        moved == IF stalled THEN [now EXCEPT ![WRITE_BACK].pc = MAX_INTEGER]
                 ELSE [p \in Phases |->
                         IF p = FETCH \/ (p = DECODE /\ hazards) THEN now[p]
                         ELSE IF p = EXECUTE /\ hazards THEN [now[p] EXCEPT !.pc = MAX_INTEGER]
                         ELSE HandedOn(now[p - 1], now[p])]
    IN  [k EXCEPT !.regs = WrittenBack(k), !.pc = decode.pc,
                  !.pipe_stages = Vacated(moved, decode.halt),
                  !.is_data_stall = hazards, !.is_mem_stall = stalled, !.is_pip_halt = decode.halt]

\* flush_the_pipe.
Drained(k) == k.is_pip_halt /\ \A p \in Phases : ~Active(k.pipe_stages[p])

Terminated(k) == [k EXCEPT !.is_core_terminated = TRUE]

\* The core has a cycle to run.  Calling an operation that decode has not set ends the
\* program.
Runs(k) ==
    /\ ~k.is_core_terminated
    /\ ~Drained(k)
    /\ Computes(k) => k.pipe_stages[EXECUTE].decoded

Halts(k) == ~k.is_core_terminated /\ Drained(k)

-----------------------------------------------------------------------------
(* What a program sees of the stages: the refinement mapping to Isa.tla.   *)

\* An instruction is carried out when it leaves MEM; pending are those behind it.  One in
\* FETCH is pending only while a memory stall keeps it from decode, and is fetched again
\* otherwise.
Pending(k, p) ==
    /\ Active(k.pipe_stages[p])
    /\ p = FETCH => k.is_mem_stall /\ ~k.is_data_stall

Older(k, p) == {q \in Phases \ {WRITE_BACK} : q > p /\ Pending(k, q)}

\* The stage of the n-th instruction that has not been carried out, from 0.
Oldest(k, n) ==
    {p \in Phases \ {WRITE_BACK} : Pending(k, p) /\ Cardinality(Older(k, p)) = n}

\* The address of that instruction, or the next to be fetched, at a halt SIZE_OF_INST.
HALTED == 1024
PendingAddress(k, n, fetched) ==
    LET a == IF Oldest(k, n) = {} THEN fetched
             ELSE k.pipe_stages[CHOOSE p \in Oldest(k, n) : TRUE].pc
    IN  IF InstructionAt(k.program, a).op = "halt" \/ (Oldest(k, n) = {} /\ k.is_pip_halt)
        THEN HALTED ELSE a

PcOfIsa(k) == PendingAddress(k, 0, k.pc)
NextOfIsa(k) ==
    IF PcOfIsa(k) = HALTED THEN HALTED
    ELSE PendingAddress(k, 1, IF Oldest(k, 0) = {} THEN k.pc + 1 ELSE k.pc)

-----------------------------------------------------------------------------
(* Two situations in which a core departs from that machine.               *)

\* During a memory stall the producer leaves write back, the hazard is gone, and the
\* instruction in decode moves on although decode has not run.
LosesDecode(k) ==
    k.is_mem_stall /\ Active(k.pipe_stages[DECODE]) /\ ~k.pipe_stages[DECODE].decoded /\ ~Hazards(k)

\* These write back the value that they have read from the same register.
GivesBack(i) == i.op = "sw" \/ i.op \in Branches \ {"jal"}

\* The value of a store is still on its way when the hazard check leaves it out.
MissesStore(k) ==
    /\ Active(k.pipe_stages[DECODE]) /\ Op(k, DECODE) = "sw" /\ Op(k, WRITE_BACK) = "sw"
    /\ \E p \in {EXECUTE, MEM, WRITE_BACK} :
          LET producer == k.pipe_stages[p].instruction IN
          /\ Active(k.pipe_stages[p]) /\ ~GivesBack(producer)
          /\ Destination(producer) = k.pipe_stages[DECODE].instruction.rd

-----------------------------------------------------------------------------
(* The programs with which a core does not depart from it otherwise.       *)

\* The registers whose values matter to an instruction.
Uses(i) ==
    (IF i.op \in Branches \cup {"sw"} THEN {i.rd, i.rs, i.rt} ELSE {i.rs, i.rt})
      \ {REG_ZERO, REG_IMM}

\* An idle instruction, whose result is zero.
Idle(i) == i.op = "add" /\ i.rs = REG_ZERO /\ i.rt = REG_ZERO

\* A program that keeps to what the hazard check knows of an instruction: register 0 is not
\* loaded or computed, but for its zero by an idle instruction; a halt names no register; and
\* where register 15 is read each jal has it as rd.
Plain(program) ==
    /\ \A a \in DOMAIN program :
         /\ program[a].op \in Arithmetic \cup {"lw"} =>
               program[a].rd # REG_ZERO \/ Idle(program[a])
         /\ program[a].op = "halt" => program[a].rd \in {REG_ZERO, REG_IMM}
    /\ \/ \A a \in DOMAIN program :
            program[a].op = "jal" => program[a].rd = NEXT_INSTRUCTION_ADDRESS_REGISTER
       \/ \A a \in DOMAIN program : NEXT_INSTRUCTION_ADDRESS_REGISTER \notin Uses(program[a])

\* A halt that waits for no register, so that decode finds it as soon as it runs.
HaltsAtOnce(program) ==
    \A a \in DOMAIN program : program[a].op = "halt" =>
        {program[a].rd, program[a].rs, program[a].rt} \subseteq {REG_ZERO, REG_IMM}

\* What a jal continues with is an address of 9 bits.
Short(program) == \A a \in DOMAIN program : a \in Nat /\ a + 1 < 512

=============================================================================
