---------------------------- MODULE StagesProofs ----------------------------
(***************************************************************************)
(* Lemmas about the stages of a core (Stages.tla) and what instructions    *)
(* compute, for words of any width and any set of registers.  Pipeline     *)
(* and Simulator rest on them.                                             *)
(***************************************************************************)
EXTENDS Stages, FiniteSetTheorems, TLAPS

-----------------------------------------------------------------------------
(* Words.                                                                  *)

\* Zero is a word, and the sum of two words is cut to one.
LEMMA WordFacts ==
  /\ WIDTH \in Nat \ {0} /\ WORD \in Nat \ {0}
  /\ 0 \in Words /\ Words \subseteq Nat
  /\ \A a \in Nat : a % WORD \in Words
  <1>1. WIDTH \in Nat \ {0} /\ WORD \in Nat \ {0}
    BY InstructionsAssumption, BinaryAssumption DEF BinaryNumbers, WORD
  <1> QED BY <1>1 DEF Words

\* The word of a set of bits is a word.
LEMMA OfBitsType ==
  ASSUME NEW bits \in SUBSET (0..(WIDTH - 1))
  PROVE  OfBits(bits) \in Words
  BY BinaryAssumption DEF BinaryNumbers, OfBits

\* Shifts are by less than the width, so by a factor above zero.
LEMMA ShiftType ==
  ASSUME NEW b \in Words
  PROVE  Shift(b) \in Nat \ {0}
  <1>1. b \in Nat /\ WIDTH \in Nat \ {0}
    BY WordFacts
  <1>2. b % WIDTH \in 0..WIDTH
    BY <1>1
  <1> QED BY <1>2, BinaryAssumption DEF BinaryNumbers, Shift

\* The arithmetic instructions compute words.
LEMMA ComputedType ==
  ASSUME NEW op \in Arithmetic, NEW a \in Words, NEW b \in Words
  PROVE  Computed(op, a, b) \in Words
  <1>1. WORD \in Nat \ {0} /\ a \in Nat /\ b \in Nat /\ a < WORD /\ b < WORD
    BY WordFacts DEF Words
  <1>2. \A n \in Nat : n % WORD \in Words
    BY WordFacts
  <1>3. (a + b) % WORD \in Words
    BY <1>1, <1>2
  <1>4. (WORD + a - b) % WORD \in Words
    <2>1. WORD + a - b \in Nat
      BY <1>1
    <2> QED BY <1>2, <2>1
  <1>5. OfBits(Bits(a) \cap Bits(b)) \in Words /\ OfBits(Bits(a) \cup Bits(b)) \in Words
        /\ OfBits((Bits(a) \cup Bits(b)) \ (Bits(a) \cap Bits(b))) \in Words
    <2>1. Bits(a) \in SUBSET (0..(WIDTH - 1)) /\ Bits(b) \in SUBSET (0..(WIDTH - 1))
      BY DEF Bits
    <2> QED BY <2>1, OfBitsType
  <1>6. PICK s \in Nat \ {0} : s = Shift(b)
    BY ShiftType
  <1>7. (a * b) % WORD \in Words /\ (a * s) % WORD \in Words
    <2>1. a * b \in Nat /\ a * s \in Nat
      BY <1>1
    <2> QED BY <1>2, <2>1
  <1>8. \A n \in Words : n \div s \in Words
    <2> SUFFICES ASSUME NEW n \in Words PROVE n \div s \in Words
      OBVIOUS
    <2>1. n \in Nat /\ n < WORD
      BY <1>1 DEF Words
    <2>2. n \div s \in 0..n
      BY <2>1
    <2> QED BY <1>1, <2>1, <2>2 DEF Words
  <1>9. \A n \in Words : WORD - 1 - n \in Words
    BY <1>1 DEF Words
  <1>10. WORD - 1 - ((WORD - 1 - a) \div s) \in Words
    BY <1>8, <1>9
  <1>11. op \in {"add", "sub", "and", "or", "xor", "mul", "sll", "sra", "srl"}
    BY DEF Arithmetic
  <1>12. CASE op = "add"
    BY <1>3, <1>12 DEF Computed
  <1>13. CASE op = "sub"
    BY <1>4, <1>13 DEF Computed
  <1>14. CASE op \in {"and", "or", "xor"}
    BY <1>5, <1>14 DEF Computed
  <1>15. CASE op \in {"mul", "sll"}
    BY <1>6, <1>7, <1>15 DEF Computed
  <1>16. CASE op = "srl"
    BY <1>6, <1>8, <1>16 DEF Computed
  <1>17. CASE op = "sra"
    BY <1>6, <1>8, <1>10, <1>17 DEF Computed
  <1> QED BY <1>11, <1>12, <1>13, <1>14, <1>15, <1>16, <1>17

-----------------------------------------------------------------------------
(* The types of a core.                                                    *)

\* Programs of any length.
AnyProgram == UNION {[0..(n - 1) -> Instruction] : n \in Nat}

StageType == [pc : Nat, instruction : Instruction, output : Words, decoded : BOOLEAN]

CoreType == [program : AnyProgram,
             regs : [Registers -> Words],
             pc : Nat,
             pipe_stages : [Phases -> StageType],
             is_data_stall : BOOLEAN, is_mem_stall : BOOLEAN, is_pip_halt : BOOLEAN,
             is_core_terminated : BOOLEAN]

\* The phases of an instruction.
LEMMA PhaseFacts ==
  /\ Phases = {FETCH, DECODE, EXECUTE, MEM, WRITE_BACK}
  /\ \A p \in Phases : p # FETCH => p - 1 \in Phases
  /\ FETCH # DECODE /\ FETCH # EXECUTE /\ FETCH # MEM /\ FETCH # WRITE_BACK
  /\ DECODE # EXECUTE /\ DECODE # MEM /\ DECODE # WRITE_BACK
  /\ EXECUTE # MEM /\ EXECUTE # WRITE_BACK /\ MEM # WRITE_BACK
  BY DEF Phases, FETCH, DECODE, EXECUTE, MEM, WRITE_BACK

\* A program is followed by halts, and an empty stage holds an instruction.
LEMMA InstructionTypes ==
  /\ Halt \in Instruction /\ Zero \in Instruction
  /\ \A program \in AnyProgram : \A n : InstructionAt(program, n) \in Instruction
  <1>1. 0 \in Operands /\ 0 \in Words
    BY WordFacts, InstructionsAssumption DEF Operands
  <1>2. Halt \in Instruction /\ Zero \in Instruction
    BY <1>1 DEF Halt, Zero, Instruction, Arithmetic
  <1>3. ASSUME NEW program \in AnyProgram, NEW n PROVE InstructionAt(program, n) \in Instruction
    <2>1. PICK m \in Nat : program \in [0..(m - 1) -> Instruction]
      BY DEF AnyProgram
    <2>2. CASE n \in DOMAIN program
      BY <2>1, <2>2 DEF InstructionAt
    <2>3. CASE n \notin DOMAIN program
      BY <1>2, <2>3 DEF InstructionAt
    <2> QED BY <2>2, <2>3
  <1> QED BY <1>2, <1>3

\* What an instruction reads, computes and writes.
LEMMA RegisterTypes ==
  ASSUME NEW regs \in [Registers -> Words], NEW i \in Instruction
  PROVE  /\ \A r \in Operands : Value(regs, i, r) \in Words
         /\ \A r \in Operands : \A v \in Words : Written(regs, r, v) \in [Registers -> Words]
         /\ i.op \in Arithmetic => Result(regs, i) \in Words
         /\ AddressIn(regs, i) \in Words
         /\ Target(regs, i) \in Nat /\ Target(regs, i) <= Value(regs, i, i.rd)
         /\ Target(regs, i) < 512
  <1>1. i.rd \in Operands /\ i.rs \in Operands /\ i.rt \in Operands /\ i.imm \in Words
    BY DEF Instruction
  <1>2. \A r \in Operands : Value(regs, i, r) \in Words
    BY <1>1 DEF Operands, Value
  <1>3. \A r \in Operands : \A v \in Words : Written(regs, r, v) \in [Registers -> Words]
    BY DEF Operands, Written
  <1>4. i.op \in Arithmetic => Result(regs, i) \in Words
    BY <1>1, <1>2, ComputedType DEF Result
  <1>5. AddressIn(regs, i) \in Words
    <2> DEFINE a == Value(regs, i, i.rs)
               b == Value(regs, i, i.rt)
    <2>1. a \in Words /\ b \in Words
      BY <1>1, <1>2
    <2>2. AddressIn(regs, i) = (a + b) % WORD
      BY DEF AddressIn
    <2> HIDE DEF a, b
    <2>3. a \in Nat /\ b \in Nat
      BY <2>1, WordFacts
    <2>4. a + b \in Nat
      BY <2>3
    <2> QED BY <2>2, <2>4, WordFacts
  <1>6. /\ Target(regs, i) \in Nat /\ Target(regs, i) <= Value(regs, i, i.rd)
        /\ Target(regs, i) < 512
    <2>1. Value(regs, i, i.rd) \in Nat
      BY <1>1, <1>2, WordFacts
    <2> QED BY <2>1 DEF Target
  <1> QED BY <1>2, <1>3, <1>4, <1>5, <1>6

\* The parts of a core.
LEMMA CoreParts ==
  ASSUME NEW k \in CoreType
  PROVE  /\ k.program \in AnyProgram /\ k.regs \in [Registers -> Words] /\ k.pc \in Nat
         /\ k.pipe_stages \in [Phases -> StageType]
         /\ k.is_data_stall \in BOOLEAN /\ k.is_mem_stall \in BOOLEAN
         /\ k.is_pip_halt \in BOOLEAN /\ k.is_core_terminated \in BOOLEAN
         /\ \A p \in Phases : /\ k.pipe_stages[p] \in StageType
                              /\ k.pipe_stages[p].instruction \in Instruction
                              /\ k.pipe_stages[p].output \in Words
                              /\ k.pipe_stages[p].pc \in Nat
  BY DEF CoreType, StageType

\* FETCH takes the instruction at the program counter, and counts.
LEMMA FetchType ==
  ASSUME NEW k \in CoreType
  PROVE  /\ Fetch(k).stage \in StageType
         /\ Fetch(k).pc \in Nat /\ Fetch(k).pc \in {k.pc, k.pc + 1}
  <1>1. k.pipe_stages[FETCH] \in StageType /\ k.pc \in Nat
    BY CoreParts, PhaseFacts
  <1>2. InstructionAt(k.program, k.pc) \in Instruction
    BY CoreParts, InstructionTypes
  <1>3. [k.pipe_stages[FETCH] EXCEPT !.pc = k.pc,
                                     !.instruction = InstructionAt(k.program, k.pc)] \in StageType
    BY <1>1, <1>2 DEF StageType
  <1> QED BY <1>1, <1>3 DEF Fetch

\* DECODE sets the operation, and the program counter at a branch.
LEMMA DecodeType ==
  ASSUME NEW k \in CoreType
  PROVE  /\ Decode(k).stage \in StageType
         /\ Decode(k).pc \in Nat
         /\ Decode(k).halt \in BOOLEAN
  <1> DEFINE stage == k.pipe_stages[DECODE]
             i == stage.instruction
             pc == Fetch(k).pc
             output == IF i.op = "jal" THEN pc % WORD
                       ELSE IF i.op \in Branches THEN Value(k.regs, i, i.rd)
                       ELSE stage.output
  <1>1. stage \in StageType /\ i \in Instruction /\ stage.output \in Words
    BY CoreParts, PhaseFacts
  <1>2. i.rd \in Operands /\ k.regs \in [Registers -> Words]
    BY <1>1, CoreParts DEF Instruction
  <1>3. pc \in Nat
    BY FetchType
  <1>4. output \in Words
    BY <1>1, <1>2, <1>3, WordFacts, RegisterTypes
  <1>5. k.is_pip_halt \in BOOLEAN
    BY CoreParts
  <1>6. CASE ~Decodes(k) \/ i.op = "halt"
    BY <1>1, <1>3, <1>5, <1>6 DEF Decode
  <1>7. CASE Decodes(k) /\ i.op # "halt"
    <2>1. Decode(k) = [stage |-> [stage EXCEPT !.decoded = TRUE, !.output = output],
                       pc |-> IF Taken(k.regs, i) THEN Target(k.regs, i)
                              ELSE IF i.op = "jal" THEN pc % 512 ELSE pc,
                       halt |-> k.is_pip_halt]
      BY <1>7 DEF Decode
    <2>2. Target(k.regs, i) \in Nat /\ pc % 512 \in Nat
      BY <1>1, <1>2, <1>3, RegisterTypes
    <2> HIDE DEF output, pc, i, stage
    <2>3. [stage EXCEPT !.decoded = TRUE, !.output = output] \in StageType
      BY <1>1, <1>4 DEF StageType
    <2> QED BY <1>3, <1>5, <2>1, <2>2, <2>3
  <1> QED BY <1>6, <1>7

\* EXECUTE sets the output.
LEMMA ExecuteType ==
  ASSUME NEW k \in CoreType
  PROVE  Execute(k) \in StageType
  <1>1. /\ k.pipe_stages[EXECUTE] \in StageType /\ k.regs \in [Registers -> Words]
        /\ k.pipe_stages[EXECUTE].instruction \in Instruction
    BY CoreParts, PhaseFacts
  <1>2. CASE ~Computes(k)
    BY <1>1, <1>2 DEF Execute
  <1>3. CASE Computes(k)
    <2> DEFINE result == Result(k.regs, k.pipe_stages[EXECUTE].instruction)
    <2>1. result \in Words
      BY <1>1, <1>3, RegisterTypes DEF Computes, Op
    <2>2. Execute(k) = [k.pipe_stages[EXECUTE] EXCEPT !.output = result]
      BY <1>3 DEF Execute
    <2> HIDE DEF result
    <2> QED BY <1>1, <2>1, <2>2 DEF StageType
  <1> QED BY <1>2, <1>3

\* WRITE_BACK writes a register.
LEMMA WrittenBackType ==
  ASSUME NEW k \in CoreType
  PROVE  WrittenBack(k) \in [Registers -> Words]
  <1> DEFINE stage == k.pipe_stages[WRITE_BACK]
  <1>1. /\ stage.instruction \in Instruction /\ stage.output \in Words
        /\ k.regs \in [Registers -> Words]
    BY CoreParts, PhaseFacts
  <1>2. Destination(stage.instruction) \in Operands
    BY <1>1, InstructionsAssumption
    DEF Destination, Instruction, Operands, NEXT_INSTRUCTION_ADDRESS_REGISTER
  <1> QED BY <1>1, <1>2, RegisterTypes DEF WrittenBack

\* What MEM works on, and what it leaves behind.
LEMMA MemTypes ==
  ASSUME NEW k \in CoreType
  PROVE  /\ MemStage(k) \in StageType /\ Address(k) \in Words /\ Word(k) \in Words
         /\ \A word \in Words : Holding(k, word) \in StageType
  <1>1. /\ MemStage(k) \in StageType /\ MemStage(k).instruction \in Instruction
        /\ k.regs \in [Registers -> Words]
    BY CoreParts, PhaseFacts DEF MemStage
  <1>2. MemStage(k).instruction.rd \in Operands
    BY <1>1 DEF Instruction
  <1>3. Address(k) \in Words /\ Word(k) \in Words
    BY <1>1, <1>2, RegisterTypes DEF Address, Word
  <1>4. \A word \in Words : Holding(k, word) \in StageType
    BY <1>1 DEF Holding, StageType
  <1> QED BY <1>1, <1>3, <1>4

\* A stage becomes empty, or is handed what is in front of it.
LEMMA StageTypes ==
  /\ \A stage \in StageType : [stage EXCEPT !.pc = MAX_INTEGER] \in StageType
  /\ \A from, to \in StageType : HandedOn(from, to) \in StageType
  BY DEF StageType, HandedOn, MAX_INTEGER

\* Halted or not, vacating stages leaves stages.
LEMMA VacatedType ==
  ASSUME NEW stages \in [Phases -> StageType], NEW halt \in BOOLEAN
  PROVE  Vacated(stages, halt) \in [Phases -> StageType]
  <1> DEFINE fetch == [stages[FETCH] EXCEPT !.pc = MAX_INTEGER]
             decode == [stages[DECODE] EXCEPT !.pc = MAX_INTEGER]
  <1>1. fetch \in StageType /\ decode \in StageType
    BY StageTypes, PhaseFacts
  <1>2. Vacated(stages, halt)
          = IF halt THEN [[stages EXCEPT ![FETCH] = fetch] EXCEPT ![DECODE] = decode] ELSE stages
    BY PhaseFacts DEF Vacated
  <1> HIDE DEF fetch, decode
  <1> QED BY <1>1, <1>2

\* A call of operate_the_core leaves a core.
LEMMA CycledType ==
  ASSUME NEW k \in CoreType, NEW stalled \in BOOLEAN, NEW memory \in StageType
  PROVE  Cycled(k, stalled, memory) \in CoreType
  <1> DEFINE hazards == Hazards(k)
             decode == Decode(k)
             now == [k.pipe_stages EXCEPT ![FETCH] = Fetch(k).stage, ![DECODE] = decode.stage,
                                          ![EXECUTE] = Execute(k), ![MEM] = memory]
             waiting == [now EXCEPT ![WRITE_BACK].pc = MAX_INTEGER]
             handed == [p \in Phases |->
                          IF p = FETCH \/ (p = DECODE /\ hazards) THEN now[p]
                          ELSE IF p = EXECUTE /\ hazards THEN [now[p] EXCEPT !.pc = MAX_INTEGER]
                          ELSE HandedOn(now[p - 1], now[p])]
             moved == IF stalled THEN waiting ELSE handed
  <1>1. /\ decode.stage \in StageType /\ decode.pc \in Nat /\ decode.halt \in BOOLEAN
        /\ Fetch(k).stage \in StageType /\ Execute(k) \in StageType
        /\ k.pipe_stages \in [Phases -> StageType] /\ hazards \in BOOLEAN
    BY CoreParts, FetchType, DecodeType, ExecuteType DEF Hazards, Conflict
  <1>2. now \in [Phases -> StageType]
    BY <1>1
  <1>3. waiting \in [Phases -> StageType]
    BY <1>2, StageTypes, PhaseFacts
  <1>4. handed \in [Phases -> StageType]
    <2> SUFFICES ASSUME NEW p \in Phases
                 PROVE  handed[p] \in StageType
      OBVIOUS
    <2>1. now[p] \in StageType /\ [now[p] EXCEPT !.pc = MAX_INTEGER] \in StageType
      BY <1>2, StageTypes
    <2>2. p # FETCH => HandedOn(now[p - 1], now[p]) \in StageType
      BY <1>2, PhaseFacts, StageTypes
    <2> HIDE DEF now, hazards
    <2> QED BY <2>1, <2>2
  <1>5. moved \in [Phases -> StageType]
    BY <1>3, <1>4
  <1>6. Cycled(k, stalled, memory)
          = [k EXCEPT !.regs = WrittenBack(k), !.pc = decode.pc,
                      !.pipe_stages = Vacated(moved, decode.halt),
                      !.is_data_stall = hazards, !.is_mem_stall = stalled,
                      !.is_pip_halt = decode.halt]
    BY DEF Cycled
  <1> HIDE DEF moved, handed, waiting, now, decode, hazards
  <1>7. Vacated(moved, decode.halt) \in [Phases -> StageType]
    BY <1>1, <1>5, VacatedType
  <1>8. WrittenBack(k) \in [Registers -> Words]
    BY WrittenBackType
  <1> QED BY <1>1, <1>6, <1>7, <1>8 DEF CoreType

\* initialize_core makes a core, and termination leaves one.
LEMMA StartedType ==
  /\ \A program \in AnyProgram : Started(program) \in CoreType
  /\ \A k \in CoreType : Terminated(k) \in CoreType
  <1>0. 0 \in Words /\ Zero \in Instruction
    BY WordFacts, InstructionTypes
  <1>1. Empty \in StageType /\ [Empty EXCEPT !.pc = 0] \in StageType
    <2>1. MAX_INTEGER \in Nat
      BY DEF MAX_INTEGER
    <2>2. Empty \in StageType
      BY <1>0, <2>1, Zenon DEF Empty, StageType
    <2>3. 0 \in Nat
      OBVIOUS
    <2> QED BY <2>2, <2>3, SMT DEF StageType
  <1>2. \A program \in AnyProgram : Started(program) \in CoreType
    BY <1>1, WordFacts DEF Started, CoreType
  <1>3. \A k \in CoreType : Terminated(k) \in CoreType
    BY DEF Terminated, CoreType
  <1> QED BY <1>2, <1>3

-----------------------------------------------------------------------------
(* A cycle, stage by stage.                                                *)

\* FETCH takes the next instruction unless a halt or a memory stall forbids it; a data stall
\* keeps the program counter.
LEMMA FetchFacts ==
  ASSUME NEW k \in CoreType
  PROVE  /\ Fetch(k).stage.decoded = k.pipe_stages[FETCH].decoded
         /\ Fetch(k).stage.output = k.pipe_stages[FETCH].output
         /\ k.is_pip_halt \/ k.is_mem_stall =>
              Fetch(k).stage = k.pipe_stages[FETCH] /\ Fetch(k).pc = k.pc
         /\ ~k.is_pip_halt /\ ~k.is_mem_stall =>
              /\ Fetch(k).stage.pc = k.pc
              /\ Fetch(k).stage.instruction = InstructionAt(k.program, k.pc)
              /\ Fetch(k).pc = IF Hazards(k) THEN k.pc ELSE k.pc + 1
  <1>1. k.pipe_stages[FETCH] \in StageType
    BY CoreParts, PhaseFacts
  <1> QED BY <1>1 DEF Fetch, StageType

\* DECODE keeps its instruction, and changes something only when it runs.
LEMMA DecodeFacts ==
  ASSUME NEW k \in CoreType
  PROVE  LET stage == k.pipe_stages[DECODE]
             i == stage.instruction
             pc == Fetch(k).pc
             d == Decode(k)
         IN  /\ d.stage.pc = stage.pc /\ d.stage.instruction = i
             /\ ~Decodes(k) => d.stage = stage /\ d.pc = pc /\ d.halt = k.is_pip_halt
             /\ Decodes(k) /\ i.op = "halt" => d.stage = stage /\ d.pc = pc /\ d.halt = TRUE
             /\ Decodes(k) /\ i.op # "halt" =>
                  /\ d.halt = k.is_pip_halt /\ d.stage.decoded = TRUE
                  /\ d.stage.output = IF i.op = "jal" THEN pc % WORD
                                      ELSE IF i.op \in Branches THEN Value(k.regs, i, i.rd)
                                      ELSE stage.output
                  /\ d.pc = IF Taken(k.regs, i) THEN Target(k.regs, i)
                            ELSE IF i.op = "jal" THEN pc % 512 ELSE pc
  <1> DEFINE stage == k.pipe_stages[DECODE]
             i == stage.instruction
             pc == Fetch(k).pc
             output == IF i.op = "jal" THEN pc % WORD
                       ELSE IF i.op \in Branches THEN Value(k.regs, i, i.rd)
                       ELSE stage.output
  <1>1. stage \in StageType
    BY CoreParts, PhaseFacts
  <1>2. CASE ~Decodes(k) \/ i.op = "halt"
    BY <1>1, <1>2 DEF Decode
  <1>3. CASE Decodes(k) /\ i.op # "halt"
    <2>1. Decode(k) = [stage |-> [stage EXCEPT !.decoded = TRUE, !.output = output],
                       pc |-> IF Taken(k.regs, i) THEN Target(k.regs, i)
                              ELSE IF i.op = "jal" THEN pc % 512 ELSE pc,
                       halt |-> k.is_pip_halt]
      BY <1>3 DEF Decode
    <2>2. /\ [stage EXCEPT !.decoded = TRUE, !.output = output].pc = stage.pc
          /\ [stage EXCEPT !.decoded = TRUE, !.output = output].instruction = i
          /\ [stage EXCEPT !.decoded = TRUE, !.output = output].decoded = TRUE
          /\ [stage EXCEPT !.decoded = TRUE, !.output = output].output = output
      <3> HIDE DEF output
      <3> QED BY <1>1 DEF StageType
    <2> DEFINE decoded == [stage EXCEPT !.decoded = TRUE, !.output = output]
               target == IF Taken(k.regs, i) THEN Target(k.regs, i)
                         ELSE IF i.op = "jal" THEN pc % 512 ELSE pc
    <2>3. Decode(k) = [stage |-> decoded, pc |-> target, halt |-> k.is_pip_halt]
      BY <2>1
    <2>4. Decode(k).stage = decoded /\ Decode(k).pc = target /\ Decode(k).halt = k.is_pip_halt
      <3> HIDE DEF decoded, target
      <3> QED BY <2>3
    <2>5. decoded.pc = stage.pc /\ decoded.instruction = i /\ decoded.decoded = TRUE /\ decoded.output = output
      BY <2>2
    <2> HIDE DEF decoded
    <2> QED BY <1>3, <2>4, <2>5
  <1> QED BY <1>2, <1>3

\* EXECUTE keeps its instruction and sets the output of an arithmetic one.
LEMMA ExecuteFacts ==
  ASSUME NEW k \in CoreType
  PROVE  LET stage == k.pipe_stages[EXECUTE]
         IN  /\ Execute(k).pc = stage.pc /\ Execute(k).instruction = stage.instruction
             /\ Execute(k).decoded = stage.decoded
             /\ Execute(k).output = IF Computes(k) THEN Result(k.regs, stage.instruction)
                                    ELSE stage.output
  <1> DEFINE stage == k.pipe_stages[EXECUTE]
  <1>1. stage \in StageType
    BY CoreParts, PhaseFacts
  <1> QED BY <1>1 DEF Execute, StageType

\* An empty stage has its old instruction; what is handed on is the stage before, or nothing.
LEMMA HandedOnFacts ==
  ASSUME NEW from \in StageType, NEW to \in StageType
  PROVE  /\ HandedOn(from, to).pc = from.pc
         /\ Active(from) => HandedOn(from, to) = from
         /\ ~Active(from) => HandedOn(from, to) = [to EXCEPT !.pc = MAX_INTEGER]
         /\ [to EXCEPT !.pc = MAX_INTEGER].pc = MAX_INTEGER
         /\ [to EXCEPT !.pc = MAX_INTEGER].instruction = to.instruction
         /\ [to EXCEPT !.pc = MAX_INTEGER].output = to.output
         /\ [to EXCEPT !.pc = MAX_INTEGER].decoded = to.decoded
  BY DEF StageType, HandedOn, Active

\* A halt empties FETCH and DECODE.
LEMMA VacatedFacts ==
  ASSUME NEW stages \in [Phases -> StageType], NEW halt \in BOOLEAN
  PROVE  /\ \A p \in {FETCH, DECODE} : Vacated(stages, halt)[p]
              = IF halt THEN [stages[p] EXCEPT !.pc = MAX_INTEGER] ELSE stages[p]
         /\ \A p \in {EXECUTE, MEM, WRITE_BACK} : Vacated(stages, halt)[p] = stages[p]
  BY PhaseFacts DEF Vacated

\* The types of what a cycle works with.
LEMMA CycleTypes ==
  ASSUME NEW k \in CoreType
  PROVE  /\ \A p \in Phases : k.pipe_stages[p] \in StageType
         /\ k.pipe_stages[FETCH] \in StageType /\ k.pipe_stages[DECODE] \in StageType
         /\ k.pipe_stages[EXECUTE] \in StageType /\ k.pipe_stages[MEM] \in StageType
         /\ k.pipe_stages[WRITE_BACK] \in StageType
         /\ Fetch(k).stage \in StageType /\ Decode(k).stage \in StageType
         /\ Execute(k) \in StageType /\ MemStage(k) = k.pipe_stages[MEM]
         /\ Fetch(k).pc \in Nat /\ Decode(k).pc \in Nat /\ Decode(k).halt \in BOOLEAN
         /\ Hazards(k) \in BOOLEAN
  BY CoreParts, FetchType, DecodeType, ExecuteType, PhaseFacts DEF Hazards, Conflict, MemStage

\* An empty stage keeps its instruction.
LEMMA EmptiedFacts ==
  ASSUME NEW stage \in StageType
  PROVE  /\ [stage EXCEPT !.pc = MAX_INTEGER].pc = MAX_INTEGER
         /\ [stage EXCEPT !.pc = MAX_INTEGER].instruction = stage.instruction
         /\ [stage EXCEPT !.pc = MAX_INTEGER].output = stage.output
         /\ [stage EXCEPT !.pc = MAX_INTEGER].decoded = stage.decoded
         /\ ~Active([stage EXCEPT !.pc = MAX_INTEGER])
  BY DEF StageType, Active

\* The stage MEM keeps its instruction in a cycle, whatever it loads.
InPlace(k, memory) ==
    /\ memory \in StageType
    /\ memory.pc = k.pipe_stages[MEM].pc /\ memory.instruction = k.pipe_stages[MEM].instruction

\* A call of operate_the_core makes n of the core k.
Cycle(k, stalled, memory, n) ==
    /\ stalled \in BOOLEAN /\ InPlace(k, memory)
    /\ n = Cycled(k, stalled, memory)

\* What every cycle does: registers, program counter, flags, and FETCH.
CycleEffect(k, n) ==
    /\ n.program = k.program /\ n.regs = WrittenBack(k) /\ n.pc = Decode(k).pc
    /\ n.is_data_stall = Hazards(k)
    /\ n.is_pip_halt = Decode(k).halt /\ n.is_core_terminated = k.is_core_terminated
    /\ Decode(k).halt => ~Active(n.pipe_stages[FETCH]) /\ ~Active(n.pipe_stages[DECODE])
    /\ ~Decode(k).halt => n.pipe_stages[FETCH] = Fetch(k).stage
    /\ n.pipe_stages[FETCH].output = k.pipe_stages[FETCH].output
    /\ n.pipe_stages[FETCH].decoded = k.pipe_stages[FETCH].decoded

\* A memory stall leaves the stages behind it where they are and empties WRITE_BACK.
StallEffect(k, memory, n) ==
    /\ n.is_mem_stall = TRUE
    /\ n.pipe_stages[DECODE].instruction = k.pipe_stages[DECODE].instruction
    /\ ~Decode(k).halt => n.pipe_stages[DECODE] = Decode(k).stage
    /\ n.pipe_stages[EXECUTE] = Execute(k)
    /\ n.pipe_stages[MEM] = memory
    /\ n.pipe_stages[WRITE_BACK].instruction = k.pipe_stages[WRITE_BACK].instruction
    /\ ~Active(n.pipe_stages[WRITE_BACK])

\* Without one each stage is handed what is in front of it, but a data stall holds back what
\* is in DECODE.
MoveEffect(k, memory, n) ==
    /\ n.is_mem_stall = FALSE
    /\ ~Decode(k).halt /\ Hazards(k) => n.pipe_stages[DECODE] = Decode(k).stage
    /\ ~Decode(k).halt /\ ~Hazards(k) /\ Active(Fetch(k).stage)
         => n.pipe_stages[DECODE] = Fetch(k).stage
    /\ ~Decode(k).halt /\ ~Hazards(k) /\ ~Active(Fetch(k).stage)
         => ~Active(n.pipe_stages[DECODE])
    /\ Hazards(k) \/ ~Active(Decode(k).stage) => ~Active(n.pipe_stages[EXECUTE])
    /\ ~Hazards(k) /\ Active(Decode(k).stage) => n.pipe_stages[EXECUTE] = Decode(k).stage
    /\ Active(Execute(k)) => n.pipe_stages[MEM] = Execute(k)
    /\ ~Active(Execute(k)) => ~Active(n.pipe_stages[MEM])
    /\ Active(memory) => n.pipe_stages[WRITE_BACK] = memory
    /\ ~Active(memory) => ~Active(n.pipe_stages[WRITE_BACK])

\* The core after a cycle.
LEMMA CycledFacts ==
  ASSUME NEW k \in CoreType, NEW stalled, NEW memory, NEW n, Cycle(k, stalled, memory, n)
  PROVE  /\ n \in CoreType /\ CycleEffect(k, n)
         /\ stalled => StallEffect(k, memory, n)
         /\ ~stalled => MoveEffect(k, memory, n)
  <1> DEFINE hazards == Hazards(k)
             decode == Decode(k)
             now == [k.pipe_stages EXCEPT ![FETCH] = Fetch(k).stage, ![DECODE] = decode.stage,
                                          ![EXECUTE] = Execute(k), ![MEM] = memory]
             waiting == [now EXCEPT ![WRITE_BACK].pc = MAX_INTEGER]
             handed == [p \in Phases |->
                          IF p = FETCH \/ (p = DECODE /\ hazards) THEN now[p]
                          ELSE IF p = EXECUTE /\ hazards THEN [now[p] EXCEPT !.pc = MAX_INTEGER]
                          ELSE HandedOn(now[p - 1], now[p])]
             moved == IF stalled THEN waiting ELSE handed
  <1>0. stalled \in BOOLEAN /\ memory \in StageType /\ n = Cycled(k, stalled, memory)
    BY Zenon DEF Cycle, InPlace
  <1>1. /\ decode.stage \in StageType /\ decode.pc \in Nat /\ decode.halt \in BOOLEAN
        /\ Fetch(k).stage \in StageType /\ Execute(k) \in StageType
        /\ k.pipe_stages \in [Phases -> StageType] /\ hazards \in BOOLEAN
    BY CoreParts, FetchType, DecodeType, ExecuteType DEF Hazards, Conflict
  <1>2. now \in [Phases -> StageType]
    BY <1>0, <1>1
  <1>3. waiting \in [Phases -> StageType]
    BY <1>2, StageTypes, PhaseFacts
  <1>4. handed \in [Phases -> StageType]
    <2> SUFFICES ASSUME NEW p \in Phases
                 PROVE  handed[p] \in StageType
      OBVIOUS
    <2>1. now[p] \in StageType /\ [now[p] EXCEPT !.pc = MAX_INTEGER] \in StageType
      BY <1>2, StageTypes
    <2>2. p # FETCH => HandedOn(now[p - 1], now[p]) \in StageType
      BY <1>2, PhaseFacts, StageTypes
    <2> HIDE DEF now, hazards
    <2> QED BY <2>1, <2>2
  <1>5. moved \in [Phases -> StageType]
    BY <1>3, <1>4
  <1>6. /\ now[FETCH] = Fetch(k).stage /\ now[DECODE] = decode.stage
        /\ now[EXECUTE] = Execute(k) /\ now[MEM] = memory
        /\ now[WRITE_BACK] = k.pipe_stages[WRITE_BACK]
    BY <1>0, <1>1, PhaseFacts
  <1>7. /\ DECODE - 1 = FETCH /\ EXECUTE - 1 = DECODE /\ MEM - 1 = EXECUTE
        /\ WRITE_BACK - 1 = MEM
    BY DEF FETCH, DECODE, EXECUTE, MEM, WRITE_BACK
  <1>8. stalled => /\ moved[FETCH] = now[FETCH] /\ moved[DECODE] = now[DECODE]
                   /\ moved[EXECUTE] = now[EXECUTE] /\ moved[MEM] = now[MEM]
                   /\ moved[WRITE_BACK] = [now[WRITE_BACK] EXCEPT !.pc = MAX_INTEGER]
    <2> HIDE DEF now
    <2> QED BY <1>2, PhaseFacts
  <1>9. ~stalled =>
          /\ moved[FETCH] = now[FETCH]
          /\ moved[DECODE] = IF hazards THEN now[DECODE] ELSE HandedOn(now[FETCH], now[DECODE])
          /\ moved[EXECUTE] = IF hazards THEN [now[EXECUTE] EXCEPT !.pc = MAX_INTEGER]
                              ELSE HandedOn(now[DECODE], now[EXECUTE])
          /\ moved[MEM] = HandedOn(now[EXECUTE], now[MEM])
          /\ moved[WRITE_BACK] = HandedOn(now[MEM], now[WRITE_BACK])
    <2> HIDE DEF now, hazards
    <2>1. FETCH \in Phases /\ DECODE \in Phases /\ EXECUTE \in Phases /\ MEM \in Phases
          /\ WRITE_BACK \in Phases
      BY PhaseFacts
    <2> QED BY <1>7, <2>1, PhaseFacts
  <1>10. n
          = [k EXCEPT !.regs = WrittenBack(k), !.pc = decode.pc,
                      !.pipe_stages = Vacated(moved, decode.halt),
                      !.is_data_stall = hazards, !.is_mem_stall = stalled,
                      !.is_pip_halt = decode.halt]
    BY <1>0 DEF Cycled
  <1> HIDE DEF moved, handed, waiting, now
  <1>11. /\ n.program = k.program /\ n.regs = WrittenBack(k) /\ n.pc = decode.pc
         /\ n.is_data_stall = hazards /\ n.is_mem_stall = stalled
         /\ n.is_pip_halt = decode.halt /\ n.is_core_terminated = k.is_core_terminated
         /\ n.pipe_stages = Vacated(moved, decode.halt)
    <2> HIDE DEF decode, hazards
    <2> QED BY <1>10 DEF CoreType
  <1>12. /\ \A p \in {FETCH, DECODE} : n.pipe_stages[p]
              = IF decode.halt THEN [moved[p] EXCEPT !.pc = MAX_INTEGER] ELSE moved[p]
         /\ \A p \in {EXECUTE, MEM, WRITE_BACK} : n.pipe_stages[p] = moved[p]
    <2> HIDE DEF decode
    <2> QED BY <1>1, <1>5, <1>11, VacatedFacts
  <1>13. moved[FETCH] \in StageType /\ moved[DECODE] \in StageType
    BY <1>5, PhaseFacts
  <1>14. moved[FETCH] = Fetch(k).stage
    BY <1>6, <1>8, <1>9
  <1>15. decode.halt => ~Active(n.pipe_stages[FETCH]) /\ ~Active(n.pipe_stages[DECODE])
    <2> HIDE DEF decode
    <2> QED BY <1>12, <1>13, EmptiedFacts
  <1>16. /\ n.pipe_stages[FETCH].output = k.pipe_stages[FETCH].output
         /\ n.pipe_stages[FETCH].decoded = k.pipe_stages[FETCH].decoded
    <2> HIDE DEF decode, moved
    <2>1. n.pipe_stages[FETCH] \in {moved[FETCH], [moved[FETCH] EXCEPT !.pc = MAX_INTEGER]}
      BY <1>12
    <2>2. /\ n.pipe_stages[FETCH].output = moved[FETCH].output
          /\ n.pipe_stages[FETCH].decoded = moved[FETCH].decoded
      BY <1>13, <2>1, EmptiedFacts, Zenon
    <2> QED BY <1>14, <2>2, FetchFacts, Zenon
  <1>17. ~decode.halt => n.pipe_stages[FETCH] = Fetch(k).stage
    BY <1>12, <1>14
  <1>18. ASSUME stalled
         PROVE  StallEffect(k, memory, n)
    <2>1. decode.stage.instruction = k.pipe_stages[DECODE].instruction
      BY DecodeFacts
    <2> HIDE DEF decode
    <2>2. moved[DECODE] = decode.stage
      BY <1>6, <1>8, <1>18
    <2>3. n.pipe_stages[DECODE].instruction = k.pipe_stages[DECODE].instruction
      BY <1>12, <1>13, <2>1, <2>2, EmptiedFacts
    <2>4. n.pipe_stages[WRITE_BACK] = [k.pipe_stages[WRITE_BACK] EXCEPT !.pc = MAX_INTEGER]
      BY <1>6, <1>8, <1>12, <1>18
    <2>5. /\ n.pipe_stages[WRITE_BACK].instruction = k.pipe_stages[WRITE_BACK].instruction
          /\ ~Active(n.pipe_stages[WRITE_BACK])
      BY <2>4, EmptiedFacts, CycleTypes
    <2>6. n.pipe_stages[EXECUTE] = Execute(k) /\ n.pipe_stages[MEM] = memory
      BY <1>6, <1>8, <1>12, <1>18
    <2>7. ~decode.halt => n.pipe_stages[DECODE] = decode.stage
      BY <1>12, <2>2
    <2>8. n.is_mem_stall = TRUE
      BY <1>11, <1>18
    <2> QED BY <2>3, <2>5, <2>6, <2>7, <2>8 DEF StallEffect, decode
  <1>19. ASSUME ~stalled
         PROVE  MoveEffect(k, memory, n)
    <2>1. /\ ~decode.halt => n.pipe_stages[DECODE]
                           = IF hazards THEN decode.stage
                             ELSE HandedOn(Fetch(k).stage, decode.stage)
          /\ n.pipe_stages[EXECUTE] = IF hazards THEN [Execute(k) EXCEPT !.pc = MAX_INTEGER]
                                     ELSE HandedOn(decode.stage, Execute(k))
          /\ n.pipe_stages[MEM] = HandedOn(Execute(k), memory)
          /\ n.pipe_stages[WRITE_BACK] = HandedOn(memory, k.pipe_stages[WRITE_BACK])
      <3> HIDE DEF decode, hazards
      <3> QED BY <1>6, <1>9, <1>12, <1>19
    <2>2. n.is_mem_stall = FALSE
      BY <1>0, <1>11, <1>19
    <2>3. \A from, to \in StageType :
            /\ Active(from) => HandedOn(from, to) = from
            /\ ~Active(from) => ~Active(HandedOn(from, to))
      BY EmptiedFacts, HandedOnFacts
    <2>4. ~Active([Execute(k) EXCEPT !.pc = MAX_INTEGER])
      BY EmptiedFacts, CycleTypes
    <2>5. /\ Fetch(k).stage \in StageType /\ decode.stage \in StageType
          /\ Execute(k) \in StageType /\ k.pipe_stages[WRITE_BACK] \in StageType
      BY CycleTypes
    <2>6. /\ ~decode.halt /\ hazards => n.pipe_stages[DECODE] = decode.stage
          /\ ~decode.halt /\ ~hazards /\ Active(Fetch(k).stage)
               => n.pipe_stages[DECODE] = Fetch(k).stage
          /\ ~decode.halt /\ ~hazards /\ ~Active(Fetch(k).stage)
               => ~Active(n.pipe_stages[DECODE])
      <3> HIDE DEF decode, hazards
      <3> QED BY <2>1, <2>3, <2>5
    <2>7. /\ hazards \/ ~Active(decode.stage) => ~Active(n.pipe_stages[EXECUTE])
          /\ ~hazards /\ Active(decode.stage) => n.pipe_stages[EXECUTE] = decode.stage
      <3> HIDE DEF decode, hazards
      <3> QED BY <2>1, <2>3, <2>4, <2>5
    <2>8. /\ Active(Execute(k)) => n.pipe_stages[MEM] = Execute(k)
          /\ ~Active(Execute(k)) => ~Active(n.pipe_stages[MEM])
          /\ Active(memory) => n.pipe_stages[WRITE_BACK] = memory
          /\ ~Active(memory) => ~Active(n.pipe_stages[WRITE_BACK])
      BY <1>0, <2>1, <2>3, <2>5
    <2> QED BY <2>2, <2>6, <2>7, <2>8 DEF MoveEffect
  <1>20. n \in CoreType
    BY <1>0, CycledType
  <1>21. CycleEffect(k, n)
    BY <1>11, <1>15, <1>16, <1>17, Zenon DEF CycleEffect
  <1> QED BY <1>18, <1>19, <1>20, <1>21, Zenon

\* Whatever hazard a memory stall does not find at its beginning it does not find later.
LEMMA StalledHazards ==
  ASSUME NEW k \in CoreType, NEW memory, NEW n, InPlace(k, memory), StallEffect(k, memory, n),
         Hazards(n)
  PROVE  Hazards(k)
  <1>3. \A i : Reads(n, i) = Reads(k, i)
    BY DEF Reads, Op, StallEffect
  <1>4. ~Conflict(n, WRITE_BACK)
    BY DEF Conflict, StallEffect
  <1>5. \A p \in {EXECUTE, MEM} : Conflict(n, p) => Conflict(k, p)
    BY <1>3, ExecuteFacts DEF Conflict, Active, InPlace, StallEffect
  <1> QED BY <1>4, <1>5 DEF Hazards

-----------------------------------------------------------------------------
(* How far the program counter runs.                                       *)

\* What the stages hold: the instruction of their address; FETCH too, when a memory stall
\* keeps it.  A halt has emptied FETCH and DECODE.  A memory stall that began without a
\* hazard goes on without one.
Fetched(k) ==
    /\ \A p \in {DECODE, EXECUTE, MEM, WRITE_BACK} : Active(k.pipe_stages[p]) =>
         k.pipe_stages[p].instruction = InstructionAt(k.program, k.pipe_stages[p].pc)
    /\ k.is_mem_stall /\ ~k.is_pip_halt =>
         k.pipe_stages[FETCH].instruction = InstructionAt(k.program, k.pipe_stages[FETCH].pc)
    /\ k.is_pip_halt => ~Active(k.pipe_stages[FETCH]) /\ ~Active(k.pipe_stages[DECODE])
    /\ k.is_mem_stall /\ ~k.is_data_stall => ~Hazards(k)

\* No instruction and no target is behind address last.
Reaches(program, last) ==
    /\ last \in Nat /\ last + 4 < MAX_INTEGER
    /\ \A n \in DOMAIN program : n <= last
    /\ last >= 511 \/ last >= WORD - 1

\* A core that has not halted is at most one instruction behind the first halt, unless that
\* is about to be decoded.
Bounded(k, last) ==
    /\ k.pc <= last + 3
    /\ \A p \in Phases : Active(k.pipe_stages[p]) => k.pipe_stages[p].pc <= last + 2
    /\ ~k.is_pip_halt =>
         \/ k.pc <= last + 1
         \/ /\ k.pc = last + 2
            /\ \/ k.is_mem_stall /\ ~k.is_data_stall /\ k.pipe_stages[FETCH].pc = last + 1
               \/ ~k.is_mem_stall /\ k.pipe_stages[DECODE].pc = last + 1

\* A halt waits for no register.
LEMMA HaltHasNoHazard ==
  ASSUME NEW k \in CoreType, k.pipe_stages[DECODE].instruction = Halt
  PROVE  ~Hazards(k)
  <1>1. Reads(k, Halt) \ {REG_ZERO, REG_IMM} = {}
    BY DEF Reads, Halt, REG_ZERO, REG_IMM, Arithmetic
  <1> QED BY <1>1 DEF Hazards, Conflict

\* A cycle keeps to what the stages hold.
LEMMA FetchedStep ==
  ASSUME NEW k \in CoreType, Fetched(k), NEW memory, InPlace(k, memory),
         NEW n, CycleEffect(k, n), StallEffect(k, memory, n) \/ MoveEffect(k, memory, n)
  PROVE  Fetched(n)
  <1> DEFINE Holds(stage) == Active(stage)
                               => stage.instruction = InstructionAt(k.program, stage.pc)
  <1>1. Holds(memory) /\ Holds(Execute(k)) /\ Holds(Decode(k).stage)
    <2>1. Holds(k.pipe_stages[DECODE]) /\ Holds(k.pipe_stages[EXECUTE]) /\ Holds(k.pipe_stages[MEM])
      BY DEF Fetched
    <2> QED BY <2>1, ExecuteFacts, DecodeFacts DEF Active, InPlace
  <1>2. /\ Holds(Fetch(k).stage)
        /\ ~k.is_pip_halt => Fetch(k).stage.instruction
                               = InstructionAt(k.program, Fetch(k).stage.pc)
    <2>1. k.is_pip_halt => Fetch(k).stage = k.pipe_stages[FETCH] /\ ~Active(k.pipe_stages[FETCH])
      BY FetchFacts DEF Fetched
    <2>2. CASE ~k.is_pip_halt /\ ~k.is_mem_stall
      BY <2>2, FetchFacts
    <2>3. CASE ~k.is_pip_halt /\ k.is_mem_stall
      BY <2>3, FetchFacts DEF Fetched
    <2> QED BY <2>1, <2>2, <2>3, CoreParts
  <1>3. n.program = k.program /\ n.is_data_stall = Hazards(k) /\ n.is_pip_halt = Decode(k).halt
    BY DEF CycleEffect
  <1>4. Holds(n.pipe_stages[DECODE]) /\ Holds(n.pipe_stages[EXECUTE])
        /\ Holds(n.pipe_stages[MEM]) /\ Holds(n.pipe_stages[WRITE_BACK])
    <2>1. CASE StallEffect(k, memory, n)
      BY <1>1, <2>1 DEF StallEffect, CycleEffect
    <2>2. CASE MoveEffect(k, memory, n)
      BY <1>1, <1>2, <2>2 DEF MoveEffect, CycleEffect
    <2> QED BY <2>1, <2>2
  <1>5. Decode(k).halt =>
          ~Active(n.pipe_stages[FETCH]) /\ ~Active(n.pipe_stages[DECODE])
    BY DEF CycleEffect
  <1>6. ~Decode(k).halt => n.pipe_stages[FETCH].instruction
                             = InstructionAt(k.program, n.pipe_stages[FETCH].pc)
    <2> SUFFICES ASSUME ~Decode(k).halt
                 PROVE  n.pipe_stages[FETCH].instruction
                          = InstructionAt(k.program, n.pipe_stages[FETCH].pc)
      OBVIOUS
    <2>1. ~k.is_pip_halt
      BY DecodeFacts
    <2>2. n.pipe_stages[FETCH] = Fetch(k).stage
      BY DEF CycleEffect
    <2> QED BY <1>2, <2>1, <2>2
  <1>7. n.is_mem_stall /\ ~Hazards(k) => ~Hazards(n)
    <2>1. n.is_mem_stall => StallEffect(k, memory, n)
      BY DEF MoveEffect
    <2> QED BY <2>1, StalledHazards
  <1> QED BY <1>3, <1>4, <1>5, <1>6, <1>7 DEF Fetched

\* Branches stay within the program or go on behind the delay slot.
LEMMA DecodedPc ==
  ASSUME NEW k \in CoreType, NEW last, Reaches(k.program, last)
  PROVE  Decode(k).pc <= last \/ Decode(k).pc <= Fetch(k).pc
  <1> DEFINE i == k.pipe_stages[DECODE].instruction
             target == Target(k.regs, i)
  <1>1. last \in Nat /\ (last >= 511 \/ last >= WORD - 1)
    BY Zenon DEF Reaches
  <1>2. Fetch(k).pc \in Nat
    BY CycleTypes
  <1>3. target \in Nat /\ target <= last
    <2>1. k.regs \in [Registers -> Words] /\ i \in Instruction
      BY CoreParts, PhaseFacts
    <2>2. /\ target \in Nat /\ target < 512
          /\ target <= Value(k.regs, i, i.rd)
      BY <2>1, RegisterTypes
    <2>3. Value(k.regs, i, i.rd) \in Words
      BY <2>1, RegisterTypes DEF Instruction
    <2> HIDE DEF target
    <2> QED BY <1>1, <2>2, <2>3, WordFacts DEF Words
  <1>4. Decode(k).pc \in {Fetch(k).pc, target, Fetch(k).pc % 512}
    BY DecodeFacts
  <1> HIDE DEF target
  <1>5. Fetch(k).pc % 512 <= Fetch(k).pc
    BY <1>2
  <1> QED BY <1>2, <1>3, <1>4, <1>5

\* Addresses behind the last one hold halts.
LEMMA HaltBehindLast ==
  ASSUME NEW program \in AnyProgram, NEW last, Reaches(program, last), NEW a \in Nat, a > last
  PROVE  InstructionAt(program, a) = Halt
  <1>1. PICK m \in Nat : DOMAIN program = 0..(m - 1)
    BY DEF AnyProgram
  <1>2. \A x \in DOMAIN program : x <= last
    BY Zenon DEF Reaches
  <1>3. last \in Nat
    BY Zenon DEF Reaches
  <1>4. a \notin DOMAIN program
    BY <1>1, <1>2, <1>3
  <1> QED BY <1>4 DEF InstructionAt

\* A cycle keeps the program counter within bounds.
LEMMA BoundedStep ==
  ASSUME NEW k \in CoreType, NEW last, Reaches(k.program, last), Fetched(k), Bounded(k, last),
         NEW memory, InPlace(k, memory),
         NEW n \in CoreType, CycleEffect(k, n), StallEffect(k, memory, n) \/ MoveEffect(k, memory, n)
  PROVE  Bounded(n, last)
  <1> DEFINE Within(a) == a = MAX_INTEGER \/ a <= last + 2
  <1>1. /\ last \in Nat /\ last + 3 < MAX_INTEGER /\ MAX_INTEGER \in Nat
        /\ k.pc \in Nat /\ Fetch(k).pc \in Nat /\ Decode(k).pc \in Nat
        /\ \A p \in Phases : k.pipe_stages[p].pc \in Nat /\ Within(k.pipe_stages[p].pc)
        /\ k.pc <= last + 3
        /\ ~k.is_pip_halt => k.pc <= last + 2
    <2>0. last \in Nat /\ last + 4 < MAX_INTEGER
      BY Zenon DEF Reaches
    <2>1. last \in Nat /\ last + 3 < MAX_INTEGER
      BY <2>0 DEF MAX_INTEGER
    <2>2. MAX_INTEGER \in Nat
      BY DEF MAX_INTEGER
    <2>3. k.pc \in Nat /\ Fetch(k).pc \in Nat /\ Decode(k).pc \in Nat
          /\ \A p \in Phases : k.pipe_stages[p].pc \in Nat
      BY CoreParts, CycleTypes
    <2> QED BY <2>1, <2>2, <2>3 DEF Bounded, Active
  <1>2. n.pc = Decode(k).pc /\ n.is_pip_halt = Decode(k).halt
        /\ (k.is_pip_halt => Decode(k).halt)
    BY DecodeFacts DEF CycleEffect
  <1>3. Decode(k).pc <= last \/ Decode(k).pc <= Fetch(k).pc
    BY DecodedPc
  <1>4. /\ k.is_pip_halt \/ k.is_mem_stall => Fetch(k).pc = k.pc
        /\ ~k.is_pip_halt /\ ~k.is_mem_stall =>
             /\ Fetch(k).stage.pc = k.pc
             /\ Fetch(k).pc = IF Hazards(k) THEN k.pc ELSE k.pc + 1
    BY FetchFacts
  <1>5. Within(Fetch(k).stage.pc)
    <2>1. CASE k.is_pip_halt \/ k.is_mem_stall
      BY <1>1, <2>1, FetchFacts, PhaseFacts
    <2>2. CASE ~k.is_pip_halt /\ ~k.is_mem_stall
      BY <1>1, <1>4, <2>2
    <2> QED BY <2>1, <2>2
  <1>6. \A p \in Phases : Active(n.pipe_stages[p]) => Within(n.pipe_stages[p].pc)
    <2>1. /\ Within(Decode(k).stage.pc) /\ Within(Execute(k).pc) /\ Within(memory.pc)
      BY <1>1, DecodeFacts, ExecuteFacts, PhaseFacts DEF InPlace
    <2> HIDE DEF Within
    <2>2. Active(n.pipe_stages[FETCH]) => Within(n.pipe_stages[FETCH].pc)
      BY <1>5 DEF CycleEffect
    <2>3. Active(n.pipe_stages[DECODE]) => Within(n.pipe_stages[DECODE].pc)
      BY <1>5, <2>1 DEF CycleEffect, StallEffect, MoveEffect
    <2>4. Active(n.pipe_stages[EXECUTE]) => Within(n.pipe_stages[EXECUTE].pc)
      BY <2>1 DEF StallEffect, MoveEffect
    <2>5. Active(n.pipe_stages[MEM]) => Within(n.pipe_stages[MEM].pc)
      BY <2>1 DEF StallEffect, MoveEffect
    <2>6. Active(n.pipe_stages[WRITE_BACK]) => Within(n.pipe_stages[WRITE_BACK].pc)
      BY <2>1 DEF StallEffect, MoveEffect
    <2> QED BY <2>2, <2>3, <2>4, <2>5, <2>6, PhaseFacts
  <1>7. n.pc <= last + 3
    <2>1. CASE k.is_pip_halt
      BY <1>1, <1>2, <1>3, <1>4, <2>1
    <2>2. CASE ~k.is_pip_halt
      BY <1>1, <1>2, <1>3, <1>4, <2>2
    <2> QED BY <2>1, <2>2
  <1>8. ASSUME ~n.is_pip_halt, ~(n.pc <= last + 1)
        PROVE  /\ n.pc = last + 2
               /\ \/ n.is_mem_stall /\ ~n.is_data_stall /\ n.pipe_stages[FETCH].pc = last + 1
                  \/ ~n.is_mem_stall /\ n.pipe_stages[DECODE].pc = last + 1
    <2>1. ~k.is_pip_halt /\ ~Decode(k).halt
      BY <1>2, <1>8
    <2>2. n.is_data_stall = Hazards(k) /\ n.pipe_stages[FETCH] = Fetch(k).stage
          /\ (n.is_mem_stall => StallEffect(k, memory, n))
          /\ (~n.is_mem_stall => MoveEffect(k, memory, n))
      BY <2>1 DEF CycleEffect, StallEffect, MoveEffect
    <2>3. Decode(k).pc <= Fetch(k).pc /\ Fetch(k).pc > last + 1
      BY <1>1, <1>2, <1>3, <1>8
    <2>4. k.pipe_stages[DECODE].pc = last + 1 =>
            /\ Active(k.pipe_stages[DECODE]) /\ k.pipe_stages[DECODE].instruction = Halt
      <3> SUFFICES ASSUME k.pipe_stages[DECODE].pc = last + 1
                   PROVE  /\ Active(k.pipe_stages[DECODE])
                          /\ k.pipe_stages[DECODE].instruction = Halt
        OBVIOUS
      <3>1. Active(k.pipe_stages[DECODE])
        BY <1>1 DEF Active
      <3>2. k.pipe_stages[DECODE].instruction = InstructionAt(k.program, last + 1)
        BY <3>1 DEF Fetched
      <3>3. k.program \in AnyProgram
        BY CoreParts
      <3>4. InstructionAt(k.program, last + 1) = Halt
        BY <1>1, <3>3, HaltBehindLast
      <3> QED BY <3>1, <3>2, <3>4
    <2>5. CASE k.is_mem_stall
      <3>1. Fetch(k).pc = k.pc /\ Fetch(k).stage = k.pipe_stages[FETCH]
        BY <2>5, FetchFacts
      <3>2. /\ k.pc = last + 2 /\ ~k.is_data_stall /\ k.pipe_stages[FETCH].pc = last + 1
        BY <1>1, <2>1, <2>3, <2>5, <3>1 DEF Bounded
      <3>3. ~Hazards(k)
        BY <2>5, <3>2 DEF Fetched
      <3>4. Decode(k).pc = Fetch(k).pc
        BY <2>5, DecodeFacts DEF Decodes
      <3>5. CASE n.is_mem_stall
        BY <1>2, <2>2, <3>1, <3>2, <3>3, <3>4, <3>5
      <3>6. CASE ~n.is_mem_stall
        <4>1. Active(Fetch(k).stage)
          BY <1>1, <3>1, <3>2 DEF Active
        <4>2. n.pipe_stages[DECODE] = Fetch(k).stage
          BY <2>1, <2>2, <3>3, <3>6, <4>1 DEF MoveEffect
        <4> QED BY <1>2, <3>1, <3>2, <3>4, <3>6, <4>2
      <3> QED BY <3>5, <3>6
    <2>6. CASE ~k.is_mem_stall
      <3>1. k.pipe_stages[DECODE].pc # last + 1
        <4> SUFFICES ASSUME k.pipe_stages[DECODE].pc = last + 1 PROVE FALSE
          OBVIOUS
        <4>1. ~Hazards(k)
          BY <2>4, HaltHasNoHazard
        <4>2. Decodes(k) /\ k.pipe_stages[DECODE].instruction.op = "halt"
          BY <2>4, <2>6, <4>1 DEF Decodes, Halt
        <4>3. Decode(k).halt
          BY <4>2, DecodeFacts
        <4> QED BY <2>1, <4>3
      <3>2. k.pc <= last + 1
        BY <2>1, <2>6, <3>1 DEF Bounded
      <3>3. ~Hazards(k) /\ k.pc = last + 1 /\ Fetch(k).stage.pc = last + 1 /\ Fetch(k).pc = last + 2
        BY <1>1, <1>4, <2>1, <2>3, <2>6, <3>2
      <3>4. n.pc = last + 2
        BY <1>1, <1>2, <1>8, <2>3, <3>3
      <3>5. CASE n.is_mem_stall
        BY <2>2, <3>3, <3>4, <3>5
      <3>6. CASE ~n.is_mem_stall
        <4>1. Active(Fetch(k).stage)
          BY <1>1, <3>3 DEF Active
        <4>2. n.pipe_stages[DECODE] = Fetch(k).stage
          BY <2>1, <2>2, <3>3, <3>6, <4>1 DEF MoveEffect
        <4> QED BY <3>3, <3>4, <3>6, <4>2
      <3> QED BY <3>5, <3>6
    <2> QED BY <2>5, <2>6
  <1>9. \A p \in Phases : Active(n.pipe_stages[p]) => n.pipe_stages[p].pc <= last + 2
    BY <1>6 DEF Active
  <1> QED BY <1>7, <1>8, <1>9 DEF Bounded

\* A core starts in FETCH of its first instruction, with empty stages.
LEMMA StartedFacts ==
  ASSUME NEW program
  PROVE  LET k == Started(program)
         IN  /\ k.program = program /\ k.pc = 0 /\ k.regs = [r \in Registers |-> 0]
             /\ ~k.is_mem_stall /\ ~k.is_data_stall /\ ~k.is_pip_halt /\ ~k.is_core_terminated
             /\ k.pipe_stages[FETCH].pc = 0
             /\ k.pipe_stages[FETCH].output = 0 /\ ~k.pipe_stages[FETCH].decoded
             /\ \A p \in {DECODE, EXECUTE, MEM, WRITE_BACK} : ~Active(k.pipe_stages[p])
  <1> DEFINE k == Started(program)
  <1>1. /\ k.program = program /\ k.pc = 0 /\ k.regs = [r \in Registers |-> 0]
        /\ k.is_mem_stall = FALSE /\ k.is_data_stall = FALSE /\ k.is_pip_halt = FALSE
        /\ k.is_core_terminated = FALSE
        /\ k.pipe_stages = [p \in Phases |-> IF p = FETCH THEN [Empty EXCEPT !.pc = 0] ELSE Empty]
    BY DEF Started
  <1>2. k.pipe_stages[FETCH] = [Empty EXCEPT !.pc = 0]
    BY <1>1, PhaseFacts
  <1>3. \A p \in {DECODE, EXECUTE, MEM, WRITE_BACK} : k.pipe_stages[p] = Empty
    BY <1>1, PhaseFacts
  <1>4. /\ [Empty EXCEPT !.pc = 0].pc = 0 /\ [Empty EXCEPT !.pc = 0].output = 0
        /\ [Empty EXCEPT !.pc = 0].decoded = FALSE
        /\ ~Active(Empty)
    BY DEF Empty, Active
  <1> HIDE DEF k
  <1>5. /\ k.pipe_stages[FETCH].pc = 0
        /\ k.pipe_stages[FETCH].output = 0 /\ ~k.pipe_stages[FETCH].decoded
        /\ \A p \in {DECODE, EXECUTE, MEM, WRITE_BACK} : ~Active(k.pipe_stages[p])
    BY <1>2, <1>3, <1>4, Zenon
  <1> QED BY <1>1, <1>5, Zenon DEF k

\* Types and bounds hold of a core that starts, and of one that has terminated.
LEMMA StartedBounded ==
  ASSUME NEW program \in AnyProgram, NEW last, Reaches(program, last)
  PROVE  Fetched(Started(program)) /\ Bounded(Started(program), last)
  <1> DEFINE k == Started(program)
  <1>1. /\ k.pc = 0 /\ ~k.is_mem_stall /\ ~k.is_pip_halt /\ k.pipe_stages[FETCH].pc = 0
        /\ \A p \in {DECODE, EXECUTE, MEM, WRITE_BACK} : ~Active(k.pipe_stages[p])
    BY StartedFacts
  <1>2. last \in Nat
    BY Zenon DEF Reaches
  <1> HIDE DEF k
  <1>3. Fetched(k)
    BY <1>1 DEF Fetched
  <1>4. Bounded(k, last)
    BY <1>1, <1>2, PhaseFacts DEF Bounded
  <1> QED BY <1>3, <1>4 DEF k

\* Termination changes nothing else.
LEMMA TerminatedFacts ==
  ASSUME NEW k \in CoreType
  PROVE  LET n == Terminated(k)
         IN  /\ n.program = k.program /\ n.regs = k.regs /\ n.pc = k.pc
             /\ n.pipe_stages = k.pipe_stages
             /\ n.is_data_stall = k.is_data_stall /\ n.is_mem_stall = k.is_mem_stall
             /\ n.is_pip_halt = k.is_pip_halt
  BY DEF Terminated, CoreType

-----------------------------------------------------------------------------
(* Which registers an instruction reads, and when they are there.          *)

\* Two register files that an instruction cannot tell apart.
Agree(regs, others, i) == \A r \in Uses(i) \cup {REG_ZERO} : regs[r] = others[r]

\* Where an instruction at address a leads to, once the one behind it is fetched from a.
Succ(regs, i, a) == IF Taken(regs, i) THEN Target(regs, i) ELSE a + 1

\* Only that matters to it.
LEMMA AgreeFacts ==
  ASSUME NEW i \in Instruction, NEW regs, NEW others, Agree(regs, others, i)
  PROVE  /\ Value(regs, i, i.rs) = Value(others, i, i.rs)
         /\ Value(regs, i, i.rt) = Value(others, i, i.rt)
         /\ i.op \in Branches \cup {"sw"} => Value(regs, i, i.rd) = Value(others, i, i.rd)
         /\ Result(regs, i) = Result(others, i)
         /\ AddressIn(regs, i) = AddressIn(others, i)
         /\ \A a : Succ(regs, i, a) = Succ(others, i, a)
  <1>1. /\ Value(regs, i, i.rs) = Value(others, i, i.rs)
        /\ Value(regs, i, i.rt) = Value(others, i, i.rt)
        /\ i.op \in Branches \cup {"sw"} => Value(regs, i, i.rd) = Value(others, i, i.rd)
    BY DEF Agree, Uses, Value
  <1>2. Result(regs, i) = Result(others, i)
    BY <1>1, Zenon DEF Result
  <1>3. AddressIn(regs, i) = AddressIn(others, i)
    BY <1>1, Zenon DEF AddressIn
  <1>4. Taken(regs, i) <=> Taken(others, i)
    BY <1>1, Zenon DEF Taken
  <1>5. Taken(regs, i) => Target(regs, i) = Target(others, i)
    <2>1. Taken(regs, i) => i.op \in Branches
      BY DEF Taken, Branches
    <2> QED BY <1>1, <2>1, Zenon DEF Target
  <1>6. \A a : Succ(regs, i, a) = Succ(others, i, a)
    BY <1>4, <1>5 DEF Succ
  <1> QED BY <1>1, <1>2, <1>3, <1>6

\* The instruction in stage q may change a register that i reads.
Overwrites(k, q, i) ==
    /\ Active(k.pipe_stages[q]) /\ ~GivesBack(k.pipe_stages[q].instruction)
    /\ Destination(k.pipe_stages[q].instruction) \in Uses(i)

\* Register 0 is 0, before and after the pending write back, which changes none when it gives
\* back what its instruction has read.
RegistersKept(k) ==
    /\ k.regs[REG_ZERO] = 0 /\ WrittenBack(k)[REG_ZERO] = 0
    /\ Active(k.pipe_stages[WRITE_BACK]) /\ GivesBack(k.pipe_stages[WRITE_BACK].instruction) =>
         WrittenBack(k) = k.regs

\* An instruction reads the same before and after the write back that does not concern it.
LEMMA AgreeWrittenBack ==
  ASSUME NEW k \in CoreType, RegistersKept(k), NEW i \in Instruction, ~Overwrites(k, WRITE_BACK, i)
  PROVE  Agree(k.regs, WrittenBack(k), i)
  <1> SUFFICES ASSUME NEW r \in Uses(i)
               PROVE  k.regs[r] = WrittenBack(k)[r]
    BY DEF Agree, RegistersKept
  <1>1. k.regs \in [Registers -> Words] /\ r \in Registers
    BY CoreParts DEF Uses, Instruction, Operands
  <1>2. CASE Active(k.pipe_stages[WRITE_BACK]) /\ GivesBack(k.pipe_stages[WRITE_BACK].instruction)
    BY <1>2 DEF RegistersKept
  <1>3. CASE ~(Active(k.pipe_stages[WRITE_BACK]) /\ GivesBack(k.pipe_stages[WRITE_BACK].instruction))
    BY <1>1, <1>3 DEF WrittenBack, Written, Overwrites
  <1> QED BY <1>2, <1>3

\* The instruction in a stage is one of the program or a halt behind it.
LEMMA StageInstruction ==
  ASSUME NEW k \in CoreType, Fetched(k), NEW p \in {DECODE, EXECUTE, MEM, WRITE_BACK},
         Active(k.pipe_stages[p])
  PROVE  \/ k.pipe_stages[p].instruction = Halt
         \/ \E a \in DOMAIN k.program : k.pipe_stages[p].instruction = k.program[a]
  BY DEF Fetched, InstructionAt

\* Without a hazard nothing that DECODE reads is on its way, up to the stores that the
\* hazard check misses.
LEMMA NothingOnItsWay ==
  ASSUME NEW k \in CoreType, Fetched(k), Plain(k.program), ~MissesStore(k),
         Active(k.pipe_stages[DECODE]), ~Hazards(k), NEW q \in {EXECUTE, MEM, WRITE_BACK}
  PROVE  ~Overwrites(k, q, k.pipe_stages[DECODE].instruction)
  <1> DEFINE i == k.pipe_stages[DECODE].instruction
             j == k.pipe_stages[q].instruction
  <1> SUFFICES ASSUME Active(k.pipe_stages[q]), ~GivesBack(j), Destination(j) \in Uses(i)
               PROVE  FALSE
    BY DEF Overwrites
  <1>1. ~Conflict(k, q)
    BY DEF Hazards
  <1>2. j.rd \notin Reads(k, i) \ {REG_ZERO, REG_IMM}
    BY <1>1 DEF Conflict
  <1>3. i = Halt \/ \E a \in DOMAIN k.program : i = k.program[a]
    BY StageInstruction
  <1>4. j = Halt \/ \E a \in DOMAIN k.program : j = k.program[a]
    BY StageInstruction
  <1>5. i # Halt
    BY DEF Halt, Uses, REG_ZERO, REG_IMM
  <1>6. Destination(j) = j.rd
    <2> SUFFICES ASSUME j.op = "jal" PROVE j.rd = NEXT_INSTRUCTION_ADDRESS_REGISTER
      BY DEF Destination
    <2>1. j # Halt
      BY DEF Halt
    <2> QED BY <1>3, <1>4, <1>5, <2>1 DEF Plain, Destination
  <1>7. j.rd \in Uses(i) \ Reads(k, i)
    BY <1>2, <1>6 DEF Uses
  <1>8. i.op = "sw" /\ Op(k, WRITE_BACK) = "sw" /\ j.rd = i.rd
    BY <1>7 DEF Uses, Reads, Arithmetic, Branches
  <1> QED BY <1>6, <1>8 DEF MissesStore, Op

-----------------------------------------------------------------------------
(* The shape of a pipeline.                                                *)

\* In a memory stall that began without a hazard DECODE has run and FETCH has fetched the
\* instruction behind it.
Frozen(k) == ~k.is_pip_halt /\ k.is_mem_stall /\ ~k.is_data_stall

Shaped(k) ==
    /\ k.pipe_stages[FETCH].output = 0 /\ ~k.pipe_stages[FETCH].decoded
    /\ ~k.is_pip_halt /\ ~Active(k.pipe_stages[DECODE]) =>
         /\ ~k.is_mem_stall
         /\ \A p \in {EXECUTE, MEM, WRITE_BACK} : ~Active(k.pipe_stages[p])
    /\ k.is_mem_stall => InMem(k) /\ ~Active(k.pipe_stages[WRITE_BACK])
    /\ Frozen(k) =>
         /\ k.pipe_stages[DECODE].decoded /\ k.pipe_stages[DECODE].instruction.op # "halt"
         /\ Active(k.pipe_stages[FETCH])
    /\ ~Frozen(k) /\ Active(k.pipe_stages[DECODE]) =>
         ~k.pipe_stages[DECODE].decoded /\ k.pipe_stages[DECODE].output = 0
    /\ \A p \in {EXECUTE, MEM} :
         Active(k.pipe_stages[p]) /\ k.pipe_stages[p].instruction.op = "halt" => k.is_pip_halt
    /\ Active(k.pipe_stages[MEM]) /\ k.pipe_stages[MEM].instruction.op = "halt"
         => ~Active(k.pipe_stages[EXECUTE])

\* The addresses in use are not that of an empty stage.
Addressed(k) == k.pc # MAX_INTEGER /\ k.pc + 1 # MAX_INTEGER

\* A cycle of a core that does not depart from the machine of Isa.tla.
Step(k, memory, n) ==
    /\ k \in CoreType /\ n \in CoreType /\ InPlace(k, memory)
    /\ Fetched(k) /\ Addressed(k) /\ ~LosesDecode(k)
    /\ CycleEffect(k, n)
    /\ \/ StallEffect(k, memory, n) /\ InMem(k)
       \/ MoveEffect(k, memory, n)

\* A core that has not halted and has something in MEM has something in DECODE; whether
\* DECODE runs depends on the stalls alone.
LEMMA DecodeRuns ==
  ASSUME NEW k \in CoreType, Shaped(k), Fetched(k), ~LosesDecode(k)
  PROVE  /\ k.is_mem_stall /\ ~k.is_pip_halt /\ ~Hazards(k) => Frozen(k)
         /\ Frozen(k) => ~Hazards(k) /\ Active(k.pipe_stages[DECODE]) /\ ~Decodes(k)
         /\ k.is_pip_halt => ~Active(k.pipe_stages[DECODE]) /\ ~Decodes(k)
         /\ Active(k.pipe_stages[DECODE]) /\ ~Hazards(k) /\ ~Frozen(k) => Decodes(k) /\ ~k.is_mem_stall
         /\ Hazards(k) /\ ~k.is_pip_halt => Active(k.pipe_stages[DECODE])
         /\ InMem(k) /\ ~k.is_pip_halt => Active(k.pipe_stages[DECODE])
         /\ Hazards(k) => ~Decodes(k)
  <1>1. /\ k.is_mem_stall \in BOOLEAN /\ k.is_data_stall \in BOOLEAN /\ k.is_pip_halt \in BOOLEAN
    BY CoreParts
  <1>2. k.is_mem_stall /\ ~k.is_pip_halt /\ ~Hazards(k) => Frozen(k)
    BY <1>1 DEF Shaped, LosesDecode, Frozen
  <1>3. Frozen(k) => ~Hazards(k) /\ Active(k.pipe_stages[DECODE]) /\ ~Decodes(k)
    BY DEF Frozen, Fetched, Shaped, Decodes
  <1>4. k.is_pip_halt => ~Active(k.pipe_stages[DECODE]) /\ ~Decodes(k)
    BY DEF Fetched, Decodes
  <1>5. Hazards(k) /\ ~k.is_pip_halt => Active(k.pipe_stages[DECODE])
    BY DEF Hazards, Conflict, Shaped
  <1>6. InMem(k) /\ ~k.is_pip_halt => Active(k.pipe_stages[DECODE])
    BY DEF InMem, MemStage, Shaped
  <1> QED BY <1>2, <1>3, <1>4, <1>5, <1>6 DEF Decodes

\* A cycle keeps the shape.
LEMMA ShapedStep ==
  ASSUME NEW k, Shaped(k), NEW memory, NEW n, Step(k, memory, n)
  PROVE  Shaped(n)
  <1>1. /\ k \in CoreType /\ n \in CoreType /\ InPlace(k, memory) /\ Fetched(k)
        /\ ~LosesDecode(k) /\ CycleEffect(k, n)
    BY Zenon DEF Step
  <1>2. /\ n.is_data_stall = Hazards(k) /\ n.is_pip_halt = Decode(k).halt
        /\ Decode(k).halt => ~Active(n.pipe_stages[FETCH]) /\ ~Active(n.pipe_stages[DECODE])
        /\ ~Decode(k).halt => n.pipe_stages[FETCH] = Fetch(k).stage
    BY <1>1 DEF CycleEffect
  <1>3. n.pipe_stages[FETCH].output = 0 /\ ~n.pipe_stages[FETCH].decoded
    BY <1>1, Zenon DEF CycleEffect, Shaped
  <1>4. Active(memory) = Active(k.pipe_stages[MEM])
        /\ memory.instruction = k.pipe_stages[MEM].instruction
    BY <1>1 DEF InPlace, Active
  <1>5. /\ Fetch(k).stage.output = 0 /\ ~Fetch(k).stage.decoded
        /\ ~k.is_pip_halt => Active(Fetch(k).stage) \/ (k.is_mem_stall /\ ~Frozen(k))
    <2>1. Fetch(k).stage.output = 0 /\ ~Fetch(k).stage.decoded
      BY <1>1, FetchFacts, Zenon DEF Shaped
    <2>2. k.pc # MAX_INTEGER
      BY Zenon DEF Step, Addressed
    <2>3. ~k.is_pip_halt /\ ~k.is_mem_stall => Active(Fetch(k).stage)
      BY <1>1, <2>2, FetchFacts DEF Active
    <2>4. Frozen(k) => Active(Fetch(k).stage)
      BY <1>1, FetchFacts DEF Shaped, Frozen
    <2> QED BY <2>1, <2>3, <2>4
  <1>6. /\ k.is_pip_halt => Decode(k).halt
        /\ Decode(k).stage.pc = k.pipe_stages[DECODE].pc
        /\ Decode(k).stage.instruction = k.pipe_stages[DECODE].instruction
        /\ Active(Decode(k).stage) = Active(k.pipe_stages[DECODE])
        /\ ~Decodes(k) => Decode(k).stage = k.pipe_stages[DECODE]
        /\ Decodes(k) /\ ~Decode(k).halt => Decode(k).stage.decoded
        /\ Decodes(k) /\ k.pipe_stages[DECODE].instruction.op = "halt" => Decode(k).halt
        /\ Decode(k).halt => \/ k.is_pip_halt
                             \/ Decodes(k) /\ k.pipe_stages[DECODE].instruction.op = "halt"
    BY <1>1, DecodeFacts DEF Active
  <1>7. Execute(k).pc = k.pipe_stages[EXECUTE].pc
        /\ Execute(k).instruction = k.pipe_stages[EXECUTE].instruction
        /\ Active(Execute(k)) = Active(k.pipe_stages[EXECUTE])
    BY <1>1, ExecuteFacts DEF Active
  <1>8. CASE StallEffect(k, memory, n) /\ InMem(k)
    <2>1. n.is_mem_stall /\ ~Active(n.pipe_stages[WRITE_BACK])
      BY <1>8 DEF StallEffect
    <2>2. InMem(n)
      BY <1>4, <1>8 DEF StallEffect, InMem, MemStage, Op
    <2>3. ~Decode(k).halt => n.pipe_stages[DECODE] = Decode(k).stage
      BY <1>8 DEF StallEffect
    <2>4. ~Decode(k).halt => Active(n.pipe_stages[DECODE])
      BY <1>1, <1>6, <1>8, <2>3, DecodeRuns
    <2>5. Frozen(n) =>
            /\ n.pipe_stages[DECODE].decoded /\ n.pipe_stages[DECODE].instruction.op # "halt"
            /\ Active(n.pipe_stages[FETCH])
      <3> SUFFICES ASSUME ~Decode(k).halt, ~Hazards(k)
                   PROVE  /\ Decode(k).stage.decoded
                          /\ k.pipe_stages[DECODE].instruction.op # "halt"
                          /\ Active(Fetch(k).stage)
        BY <1>2, <1>6, <2>3 DEF Frozen
      <3>1. ~k.is_pip_halt
        BY <1>6
      <3>2. Active(k.pipe_stages[DECODE])
        BY <1>1, <1>8, <3>1, DecodeRuns
      <3>3. CASE Frozen(k)
        BY <1>1, <1>5, <1>6, <3>1, <3>3, DecodeRuns DEF Shaped
      <3>4. CASE ~Frozen(k)
        BY <1>1, <1>5, <1>6, <3>1, <3>2, <3>4, DecodeRuns
      <3> QED BY <3>3, <3>4
    <2>6. ~Frozen(n) /\ Active(n.pipe_stages[DECODE]) =>
            ~n.pipe_stages[DECODE].decoded /\ n.pipe_stages[DECODE].output = 0
      <3> SUFFICES ASSUME ~Frozen(n), Active(n.pipe_stages[DECODE])
                   PROVE  ~n.pipe_stages[DECODE].decoded /\ n.pipe_stages[DECODE].output = 0
        OBVIOUS
      <3>1. ~Decode(k).halt
        BY <1>2
      <3>2. Hazards(k)
        BY <1>2, <2>1, <3>1 DEF Frozen
      <3>3. n.pipe_stages[DECODE] = k.pipe_stages[DECODE] /\ ~Frozen(k)
        BY <1>1, <1>6, <2>3, <3>1, <3>2, DecodeRuns
      <3>4. Active(k.pipe_stages[DECODE])
        BY <3>3
      <3> QED BY <3>3, <3>4 DEF Shaped
    <2>7. n.pipe_stages[EXECUTE] = Execute(k) /\ n.pipe_stages[MEM] = memory
      BY <1>8 DEF StallEffect
    <2>8. \A p \in {EXECUTE, MEM} : Active(n.pipe_stages[p])
            /\ n.pipe_stages[p].instruction.op = "halt" => n.is_pip_halt
      BY <1>2, <1>4, <1>6, <1>7, <2>7 DEF Shaped
    <2>9. Active(n.pipe_stages[MEM]) /\ n.pipe_stages[MEM].instruction.op = "halt"
            => ~Active(n.pipe_stages[EXECUTE])
      BY <1>4, <1>7, <2>7 DEF Shaped
    <2> QED BY <1>2, <1>3, <2>1, <2>2, <2>4, <2>5, <2>6, <2>8, <2>9 DEF Shaped
  <1>9. CASE MoveEffect(k, memory, n)
    <2>1. n.is_mem_stall = FALSE /\ ~Frozen(n)
      BY <1>9 DEF MoveEffect, Frozen
    <2>2. ASSUME ~Decode(k).halt PROVE Active(n.pipe_stages[DECODE])
      <3>1. CASE Hazards(k)
        BY <1>1, <1>6, <1>9, <2>2, <3>1, DecodeRuns DEF MoveEffect
      <3>2. CASE ~Hazards(k)
        <4>1. Active(Fetch(k).stage)
          BY <1>1, <1>5, <1>6, <2>2, <3>2, DecodeRuns
        <4> QED BY <1>9, <2>2, <3>2, <4>1 DEF MoveEffect
      <3> QED BY <3>1, <3>2
    <2>3. Active(n.pipe_stages[DECODE]) =>
            ~n.pipe_stages[DECODE].decoded /\ n.pipe_stages[DECODE].output = 0
      <3> SUFFICES ASSUME Active(n.pipe_stages[DECODE])
                   PROVE  ~n.pipe_stages[DECODE].decoded /\ n.pipe_stages[DECODE].output = 0
        OBVIOUS
      <3>1. ~Decode(k).halt
        BY <1>2
      <3>2. CASE Hazards(k)
        <4>1. n.pipe_stages[DECODE] = k.pipe_stages[DECODE] /\ ~Frozen(k)
          BY <1>1, <1>6, <1>9, <3>1, <3>2, DecodeRuns DEF MoveEffect
        <4>2. Active(k.pipe_stages[DECODE])
          BY <4>1
        <4> QED BY <4>1, <4>2 DEF Shaped
      <3>3. CASE ~Hazards(k)
        <4>1. n.pipe_stages[DECODE] = Fetch(k).stage
          BY <1>9, <3>1, <3>3 DEF MoveEffect
        <4> QED BY <1>5, <4>1, Zenon
      <3> QED BY <3>2, <3>3
    <2>4. ASSUME Active(n.pipe_stages[EXECUTE]), n.pipe_stages[EXECUTE].instruction.op = "halt"
          PROVE  n.is_pip_halt
      <3>1. ~Hazards(k) /\ Active(k.pipe_stages[DECODE]) /\ n.pipe_stages[EXECUTE] = Decode(k).stage
        BY <1>6, <1>9, <2>4 DEF MoveEffect
      <3>2. k.pipe_stages[DECODE].instruction.op = "halt"
        BY <1>6, <2>4, <3>1
      <3>3. ~Frozen(k)
        BY <3>2 DEF Shaped
      <3> QED BY <1>1, <1>2, <1>6, <3>1, <3>2, <3>3, DecodeRuns
    <2>5. ASSUME Active(n.pipe_stages[MEM]), n.pipe_stages[MEM].instruction.op = "halt"
          PROVE  n.is_pip_halt /\ ~Active(n.pipe_stages[EXECUTE])
      <3>1. Active(k.pipe_stages[EXECUTE]) /\ k.pipe_stages[EXECUTE].instruction.op = "halt"
        BY <1>7, <1>9, <2>5 DEF MoveEffect
      <3>2. k.is_pip_halt
        BY <3>1 DEF Shaped
      <3>3. ~Active(k.pipe_stages[DECODE])
        BY <3>2 DEF Fetched, Step
      <3> QED BY <1>2, <1>6, <1>9, <3>2, <3>3 DEF MoveEffect
    <2> QED BY <1>2, <1>3, <2>1, <2>2, <2>3, <2>4, <2>5 DEF Shaped
  <1> QED BY <1>8, <1>9 DEF Step

-----------------------------------------------------------------------------
(* The order of the instructions.                                          *)

\* An address, or HALTED where a halt is.
At(program, a) == IF InstructionAt(program, a).op = "halt" THEN HALTED ELSE a

\* The addresses of the next two instructions to leave DECODE.
Decoding(k) ==
    IF k.is_pip_halt THEN HALTED
    ELSE At(k.program, IF Active(k.pipe_stages[DECODE]) THEN k.pipe_stages[DECODE].pc ELSE k.pc)
Fetching(k) ==
    IF k.is_pip_halt THEN HALTED
    ELSE At(k.program, IF ~Active(k.pipe_stages[DECODE]) THEN k.pc + 1
                       ELSE IF Frozen(k) THEN k.pipe_stages[FETCH].pc ELSE k.pc)

\* Those of the next two to leave EXECUTE.
Executing(k) ==
    IF Active(k.pipe_stages[EXECUTE]) THEN At(k.program, k.pipe_stages[EXECUTE].pc)
    ELSE Decoding(k)
BehindExecuting(k) == IF Active(k.pipe_stages[EXECUTE]) THEN Decoding(k) ELSE Fetching(k)

\* An active stage holds the instruction of its address.
LEMMA AtStage ==
  ASSUME NEW k \in CoreType, Fetched(k), NEW p \in {DECODE, EXECUTE, MEM, WRITE_BACK},
         Active(k.pipe_stages[p])
  PROVE  At(k.program, k.pipe_stages[p].pc)
           = IF k.pipe_stages[p].instruction.op = "halt" THEN HALTED ELSE k.pipe_stages[p].pc
  BY DEF Fetched, At

\* What DECODE decides on a halt, in terms of stages.
LEMMA DecodeHalts ==
  ASSUME NEW k \in CoreType, Fetched(k)
  PROVE  /\ k.is_pip_halt => Decode(k).halt
         /\ Decode(k).halt => \/ k.is_pip_halt
                              \/ /\ Decodes(k) /\ ~Hazards(k) /\ ~k.is_pip_halt
                                 /\ Active(k.pipe_stages[DECODE])
                                 /\ k.pipe_stages[DECODE].instruction.op = "halt"
                                 /\ Decoding(k) = HALTED
         /\ Decode(k).stage.pc = k.pipe_stages[DECODE].pc
         /\ Active(Decode(k).stage) <=> Active(k.pipe_stages[DECODE])
         /\ Decode(k).stage.instruction = k.pipe_stages[DECODE].instruction
         /\ ~Decodes(k) => Decode(k).pc = Fetch(k).pc
  <1>1. /\ k.is_pip_halt => Decode(k).halt
        /\ Decode(k).halt => \/ k.is_pip_halt
                             \/ Decodes(k) /\ k.pipe_stages[DECODE].instruction.op = "halt"
        /\ Decode(k).stage.pc = k.pipe_stages[DECODE].pc
        /\ Active(Decode(k).stage) <=> Active(k.pipe_stages[DECODE])
        /\ Decode(k).stage.instruction = k.pipe_stages[DECODE].instruction
        /\ ~Decodes(k) => Decode(k).pc = Fetch(k).pc
    BY DecodeFacts DEF Decodes, Fetched, Active
  <1>2. Decodes(k) => ~Hazards(k) /\ Active(k.pipe_stages[DECODE]) /\ ~k.is_pip_halt
    BY DEF Decodes, Fetched
  <1>3. Decodes(k) /\ k.pipe_stages[DECODE].instruction.op = "halt" => Decoding(k) = HALTED
    BY <1>2, AtStage DEF Decoding
  <1> QED BY <1>1, <1>2, <1>3

\* In a memory stall no instruction leaves a stage.
LEMMA StalledFlow ==
  ASSUME NEW k, Shaped(k), NEW memory, NEW n, Step(k, memory, n), StallEffect(k, memory, n),
         InMem(k)
  PROVE  /\ Decoding(n) = Decoding(k)
         /\ Decoding(k) # HALTED => Fetching(n) = Fetching(k)
         /\ Executing(n) = Executing(k)
         /\ Executing(k) # HALTED => BehindExecuting(n) = BehindExecuting(k)
  <1>1. /\ k \in CoreType /\ Fetched(k) /\ ~LosesDecode(k)
        /\ CycleEffect(k, n)
    BY Zenon DEF Step
  <1>2. /\ n.program = k.program /\ n.pc = Decode(k).pc
        /\ n.is_data_stall = Hazards(k) /\ n.is_pip_halt = Decode(k).halt /\ n.is_mem_stall = TRUE
        /\ ~Decode(k).halt => /\ n.pipe_stages[FETCH] = Fetch(k).stage
                              /\ n.pipe_stages[DECODE] = Decode(k).stage
    BY <1>1 DEF CycleEffect, StallEffect
  <1>3. /\ n.pipe_stages[EXECUTE].pc = k.pipe_stages[EXECUTE].pc
        /\ Active(n.pipe_stages[EXECUTE]) <=> Active(k.pipe_stages[EXECUTE])
    BY <1>1, ExecuteFacts DEF StallEffect, Active
  <1>4. Decoding(n) = Decoding(k) /\ (Decoding(k) # HALTED => Fetching(n) = Fetching(k))
    <2>1. CASE Decode(k).halt
      BY <1>1, <1>2, <2>1, DecodeHalts DEF Decoding
    <2>2. CASE ~Decode(k).halt
      <3>1. ~k.is_pip_halt /\ ~n.is_pip_halt
        BY <1>1, <1>2, <2>2, DecodeHalts
      <3>2. /\ n.pipe_stages[DECODE].pc = k.pipe_stages[DECODE].pc
            /\ Active(k.pipe_stages[DECODE]) /\ Active(n.pipe_stages[DECODE])
        BY <1>1, <1>2, <2>2, <3>1, DecodeHalts, DecodeRuns
      <3>3. Decoding(n) = Decoding(k)
        BY <1>2, <3>1, <3>2 DEF Decoding
      <3>4. CASE Hazards(k)
        <4>1. ~Frozen(k) /\ ~Frozen(n)
          BY <1>1, <1>2, <3>4, DecodeRuns DEF Frozen
        <4>2. n.pc = k.pc
          BY <1>1, <1>2, <3>4, DecodeRuns, DecodeHalts, FetchFacts
        <4> QED BY <1>2, <3>1, <3>2, <3>3, <4>1, <4>2 DEF Fetching
      <3>5. CASE ~Hazards(k)
        <4>1. Frozen(n)
          BY <1>2, <3>1, <3>5 DEF Frozen
        <4>2. Frozen(k) => n.pipe_stages[FETCH].pc = k.pipe_stages[FETCH].pc
          BY <1>1, <1>2, <2>2, FetchFacts DEF Frozen
        <4>3. ~Frozen(k) => n.pipe_stages[FETCH].pc = k.pc
          BY <1>1, <1>2, <2>2, <3>1, <3>2, <3>5, DecodeRuns, FetchFacts
        <4> QED BY <1>2, <3>1, <3>2, <3>3, <4>1, <4>2, <4>3 DEF Fetching
      <3> QED BY <3>4, <3>5
    <2> QED BY <2>1, <2>2
  <1> QED BY <1>2, <1>3, <1>4 DEF Executing, BehindExecuting

\* Without one what is in DECODE is the next to leave EXECUTE.
LEMMA MovedFlow ==
  ASSUME NEW k, Shaped(k), NEW memory, NEW n, Step(k, memory, n), MoveEffect(k, memory, n)
  PROVE  /\ Executing(n) = Decoding(k)
         /\ Decoding(k) # HALTED => BehindExecuting(n) = Fetching(k)
  <1>1. /\ k \in CoreType /\ Fetched(k) /\ ~LosesDecode(k)
        /\ CycleEffect(k, n) /\ k.pc # MAX_INTEGER
    BY Zenon DEF Step, Addressed
  <1>2. /\ n.program = k.program /\ n.pc = Decode(k).pc
        /\ n.is_data_stall = Hazards(k) /\ n.is_pip_halt = Decode(k).halt
        /\ n.is_mem_stall = FALSE /\ ~Frozen(n)
    BY <1>1 DEF CycleEffect, MoveEffect, Frozen
  <1>3. CASE k.is_pip_halt
    <2>1. ~Active(n.pipe_stages[EXECUTE]) /\ n.is_pip_halt
      BY <1>1, <1>2, <1>3, DecodeHalts DEF MoveEffect, Fetched
    <2> QED BY <1>3, <2>1 DEF Executing, Decoding
  <1>4. CASE Decode(k).halt /\ ~k.is_pip_halt
    <2>1. ~Hazards(k) /\ Active(k.pipe_stages[DECODE]) /\ Decoding(k) = HALTED
      BY <1>1, <1>4, DecodeHalts
    <2>2. Active(n.pipe_stages[EXECUTE]) /\ n.pipe_stages[EXECUTE].pc = k.pipe_stages[DECODE].pc
      BY <1>1, <2>1, DecodeHalts DEF MoveEffect
    <2> QED BY <1>2, <1>4, <2>1, <2>2 DEF Executing, Decoding
  <1>5. CASE ~Decode(k).halt /\ Hazards(k)
    <2>1. ~k.is_pip_halt /\ ~n.is_pip_halt
      BY <1>1, <1>2, <1>5, DecodeHalts
    <2>2. /\ ~Active(n.pipe_stages[EXECUTE])
          /\ n.pipe_stages[DECODE].pc = k.pipe_stages[DECODE].pc
          /\ Active(k.pipe_stages[DECODE]) /\ Active(n.pipe_stages[DECODE]) /\ ~Frozen(k)
      BY <1>1, <1>5, <2>1, DecodeHalts, DecodeRuns DEF MoveEffect
    <2>3. n.pc = k.pc
      BY <1>1, <1>2, <1>5, <2>1, DecodeRuns, DecodeHalts, FetchFacts
    <2> QED BY <1>2, <2>1, <2>2, <2>3 DEF Executing, Decoding, BehindExecuting, Fetching
  <1>6. CASE ~Decode(k).halt /\ ~Hazards(k)
    <2>1. ~k.is_pip_halt /\ ~n.is_pip_halt
      BY <1>1, <1>2, <1>6, DecodeHalts
    <2>2. /\ Frozen(k) => Fetch(k).stage.pc = k.pipe_stages[FETCH].pc /\ Active(Fetch(k).stage)
          /\ ~Frozen(k) => /\ Fetch(k).stage.pc = k.pc /\ Active(Fetch(k).stage)
                           /\ Fetch(k).pc = k.pc + 1
      <3>1. Frozen(k) => Fetch(k).stage = k.pipe_stages[FETCH] /\ Active(k.pipe_stages[FETCH])
        BY <1>1, FetchFacts DEF Frozen, Shaped
      <3>2. ~Frozen(k) => ~k.is_mem_stall
        BY <1>1, <1>6, <2>1, DecodeRuns
      <3> QED BY <1>1, <1>6, <2>1, <3>1, <3>2, FetchFacts DEF Active
    <2>3. n.pipe_stages[DECODE] = Fetch(k).stage /\ Active(n.pipe_stages[DECODE])
      BY <1>6, <2>2 DEF MoveEffect
    <2>4. CASE Active(k.pipe_stages[DECODE])
      <3>1. Active(n.pipe_stages[EXECUTE]) /\ n.pipe_stages[EXECUTE].pc = k.pipe_stages[DECODE].pc
        BY <1>1, <1>6, <2>4, DecodeHalts DEF MoveEffect
      <3> QED BY <1>2, <2>1, <2>2, <2>3, <2>4, <3>1
          DEF Executing, Decoding, BehindExecuting, Fetching
    <2>5. CASE ~Active(k.pipe_stages[DECODE])
      <3>1. ~Active(n.pipe_stages[EXECUTE]) /\ ~Frozen(k)
        BY <1>1, <2>5, DecodeHalts, DecodeRuns DEF MoveEffect
      <3>2. n.pc = k.pc + 1
        BY <1>1, <1>2, <2>2, <2>5, <3>1, DecodeHalts DEF Decodes
      <3> QED BY <1>2, <2>1, <2>2, <2>3, <2>5, <3>1, <3>2
          DEF Executing, Decoding, BehindExecuting, Fetching
    <2> QED BY <2>4, <2>5
  <1> QED BY <1>3, <1>4, <1>5, <1>6

-----------------------------------------------------------------------------
(* The values of the instructions on their way.                            *)

\* What is next behind address a, when the instruction before a is i.
Follows(program, regs, i, a, b) == a # HALTED => b = At(program, Succ(regs, i, a))

\* A stage holds what its instruction is about to write; a is the address behind it.
OutputOf(regs, stage, a) ==
    LET i == stage.instruction IN
    /\ i.op \in Arithmetic => stage.output = Result(regs, i)
    /\ i.op \in Branches \ {"jal"} => stage.output = Value(regs, i, i.rd)
    /\ i.op = "jal" /\ a # HALTED => stage.output = (a + 1) % WORD
    /\ i.op = "halt" => stage.output = 0

\* Each instruction behind DECODE has led to the two behind it.
ControlInv(k) ==
    LET regs == WrittenBack(k) IN
    /\ Active(k.pipe_stages[EXECUTE]) =>
         Follows(k.program, regs, k.pipe_stages[EXECUTE].instruction, Decoding(k), Fetching(k))
    /\ Active(k.pipe_stages[MEM]) =>
         Follows(k.program, regs, k.pipe_stages[MEM].instruction, Executing(k), BehindExecuting(k))
    /\ Frozen(k) =>
         Follows(k.program, regs, k.pipe_stages[DECODE].instruction,
                 At(k.program, k.pipe_stages[FETCH].pc), At(k.program, k.pc))

\* What they read is not on its way.
Undisturbed(k) ==
    /\ Active(k.pipe_stages[MEM]) =>
         ~Overwrites(k, WRITE_BACK, k.pipe_stages[MEM].instruction)
    /\ Active(k.pipe_stages[EXECUTE]) =>
         /\ ~Overwrites(k, MEM, k.pipe_stages[EXECUTE].instruction)
         /\ ~Overwrites(k, WRITE_BACK, k.pipe_stages[EXECUTE].instruction)

\* They have computed what they are about to write, from the registers that those before
\* them have left.
OutputInv(k) ==
    LET regs == WrittenBack(k) IN
    /\ Active(k.pipe_stages[MEM]) => OutputOf(regs, k.pipe_stages[MEM], Executing(k))
    /\ Active(k.pipe_stages[EXECUTE]) =>
         \/ k.pipe_stages[EXECUTE].instruction.op \in Arithmetic /\ ~k.is_mem_stall
         \/ OutputOf(regs, k.pipe_stages[EXECUTE], Decoding(k))
    /\ Frozen(k) =>
         \/ k.pipe_stages[DECODE].instruction.op \in Arithmetic
         \/ OutputOf(regs, k.pipe_stages[DECODE], At(k.program, k.pipe_stages[FETCH].pc))

\* The stage MEM keeps its output, or holds the word that is stored.
Outcome(k, memory) ==
    Active(k.pipe_stages[MEM]) =>
        /\ k.pipe_stages[MEM].instruction.op \notin Accesses => memory = k.pipe_stages[MEM]
        /\ k.pipe_stages[MEM].instruction.op = "sw" => memory.output = Word(k)

\* Where an instruction leads to, register files that agree do not tell apart.
LEMMA AgreedFlow ==
  ASSUME NEW i \in Instruction, NEW regs, NEW others, Agree(regs, others, i),
         NEW program, NEW a, NEW b, Follows(program, regs, i, a, b)
  PROVE  Follows(program, others, i, a, b)
  <1>1. Succ(regs, i, a) = Succ(others, i, a)
    BY AgreeFacts
  <1> QED BY <1>1 DEF Follows

\* Nor what it is about to write.
LEMMA AgreedOutput ==
  ASSUME NEW stage, stage.instruction \in Instruction, NEW regs, NEW others,
         Agree(regs, others, stage.instruction), NEW a, OutputOf(regs, stage, a)
  PROVE  OutputOf(others, stage, a)
  <1> DEFINE i == stage.instruction
  <1>1. /\ i.op \in Branches \cup {"sw"} => Value(regs, i, i.rd) = Value(others, i, i.rd)
        /\ Result(regs, i) = Result(others, i)
    BY AgreeFacts
  <1> QED BY <1>1, Zenon DEF OutputOf

\* An address that is not HALTED is itself, and in the program.
LEMMA AtFacts ==
  ASSUME NEW program, NEW a, At(program, a) # HALTED
  PROVE  At(program, a) = a /\ a \in DOMAIN program
  BY DEF At, InstructionAt, Halt

\* The registers after the write back that a cycle leaves pending.
LEMMA WrittenBackStep ==
  ASSUME NEW k, NEW memory, NEW n, Step(k, memory, n)
  PROVE  /\ n.regs = WrittenBack(k)
         /\ StallEffect(k, memory, n) => WrittenBack(n) = WrittenBack(k)
         /\ MoveEffect(k, memory, n) /\ ~Active(k.pipe_stages[MEM]) => WrittenBack(n) = WrittenBack(k)
         /\ MoveEffect(k, memory, n) /\ Active(k.pipe_stages[MEM]) =>
              WrittenBack(n) = Written(WrittenBack(k), Destination(k.pipe_stages[MEM].instruction), memory.output)
  <1>1. /\ n.regs = WrittenBack(k)
        /\ Active(memory) <=> Active(k.pipe_stages[MEM])
        /\ memory.instruction = k.pipe_stages[MEM].instruction
    BY DEF Step, CycleEffect, InPlace, Active
  <1>2. ~Active(n.pipe_stages[WRITE_BACK]) => WrittenBack(n) = n.regs
    BY DEF WrittenBack
  <1>3. Active(n.pipe_stages[WRITE_BACK]) => WrittenBack(n)
          = Written(n.regs, Destination(n.pipe_stages[WRITE_BACK].instruction), n.pipe_stages[WRITE_BACK].output)
    BY DEF WrittenBack
  <1>4. StallEffect(k, memory, n) => ~Active(n.pipe_stages[WRITE_BACK])
    BY DEF StallEffect
  <1>5. MoveEffect(k, memory, n) /\ ~Active(memory) => ~Active(n.pipe_stages[WRITE_BACK])
    BY DEF MoveEffect
  <1>6. MoveEffect(k, memory, n) /\ Active(memory) =>
           n.pipe_stages[WRITE_BACK] = memory /\ Active(n.pipe_stages[WRITE_BACK])
    BY DEF MoveEffect
  <1> QED BY <1>1, <1>2, <1>3, <1>4, <1>5, <1>6

\* Register 0 stays 0: what writes it writes zero.
LEMMA RegistersStep ==
  ASSUME NEW k, NEW memory, NEW n, Step(k, memory, n), Plain(k.program), RegistersKept(k),
         Undisturbed(k), OutputInv(k), Outcome(k, memory)
  PROVE  RegistersKept(n)
  <1> DEFINE i == k.pipe_stages[MEM].instruction
             regs == WrittenBack(k)
  <1>1. /\ k \in CoreType /\ Fetched(k)
        /\ StallEffect(k, memory, n) \/ MoveEffect(k, memory, n)
    BY Zenon DEF Step
  <1>2. /\ n.regs = regs
        /\ \/ WrittenBack(n) = regs
           \/ /\ Active(k.pipe_stages[MEM])
              /\ WrittenBack(n) = Written(regs, Destination(i), memory.output)
    BY <1>1, WrittenBackStep
  <1>3. regs[REG_ZERO] = 0 /\ k.regs[REG_ZERO] = 0
    BY DEF RegistersKept
  <1>4. regs \in [Registers -> Words] /\ i \in Instruction /\ REG_ZERO \in Registers
    BY <1>1, WrittenBackType, CoreParts, PhaseFacts, InstructionsAssumption DEF REG_ZERO
  <1>5. ASSUME Active(k.pipe_stages[MEM]), Destination(i) = REG_ZERO
        PROVE  memory.output = 0
    <2>1. i.rd = REG_ZERO /\ i.op # "jal"
      BY <1>5 DEF Destination, REG_ZERO, NEXT_INSTRUCTION_ADDRESS_REGISTER
    <2>2. i = Halt \/ \E a \in DOMAIN k.program : i = k.program[a]
      BY <1>1, <1>5, StageInstruction
    <2>3. i.op \in Arithmetic \cup {"lw"} => Idle(i)
      BY <2>1, <2>2 DEF Plain, Halt, Arithmetic
    <2>4. Idle(i) \/ i.op = "halt" \/ i.op \in Branches \ {"jal"} \/ i.op = "sw"
      BY <1>4, <2>1, <2>3 DEF Instruction, Accesses
    <2>5. OutputOf(regs, k.pipe_stages[MEM], Executing(k))
      BY <1>5 DEF OutputInv
    <2>6. REG_ZERO # REG_IMM
      BY DEF REG_ZERO, REG_IMM
    <2>7. CASE i.op = "halt"
      <3>1. memory = k.pipe_stages[MEM]
        BY <1>5, <2>7 DEF Outcome, Accesses
      <3> QED BY <2>5, <2>7, <3>1 DEF OutputOf
    <2>8. CASE i.op \in Branches \ {"jal"}
      <3>1. memory = k.pipe_stages[MEM]
        BY <1>5, <2>8 DEF Outcome, Accesses, Branches
      <3> QED BY <1>3, <2>1, <2>5, <2>6, <2>8, <3>1 DEF OutputOf, Value
    <2>9. CASE i.op = "sw"
      BY <1>3, <1>5, <2>1, <2>6, <2>9 DEF Outcome, Word, Value, MemStage
    <2>10. CASE Idle(i)
      <3>1. memory = k.pipe_stages[MEM]
        BY <1>5, <2>10 DEF Outcome, Accesses, Idle
      <3>2. Value(regs, i, i.rs) = 0 /\ Value(regs, i, i.rt) = 0
        BY <1>3, <2>6, <2>10 DEF Value, Idle
      <3>3. memory.output = Result(regs, i)
        BY <2>5, <2>10, <3>1 DEF OutputOf, Idle, Arithmetic
      <3>4. Result(regs, i) = (0 + 0) % WORD
        BY <2>10, <3>2 DEF Result, Computed, Idle
      <3> QED BY <3>3, <3>4, WordFacts
    <2> QED BY <2>4, <2>7, <2>8, <2>9, <2>10
  <1>6. ASSUME Active(k.pipe_stages[MEM]), WrittenBack(n) = Written(regs, Destination(i), memory.output)
        PROVE  WrittenBack(n)[REG_ZERO] = 0
    BY <1>3, <1>4, <1>5, <1>6 DEF Written
  <1>7. ASSUME Active(n.pipe_stages[WRITE_BACK]), GivesBack(n.pipe_stages[WRITE_BACK].instruction)
        PROVE  WrittenBack(n) = n.regs
    <2>1. Active(k.pipe_stages[MEM]) /\ GivesBack(i)
      BY <1>1, <1>7 DEF Step, StallEffect, MoveEffect, InPlace, Active
    <2>2. Destination(i) = i.rd /\ i.op # "jal"
      BY <2>1 DEF GivesBack, Destination
    <2>3. Agree(k.regs, regs, i)
      BY <1>1, <1>4, <2>1, AgreeWrittenBack DEF Undisturbed
    <2>4. memory.output = Value(regs, i, i.rd)
      <3>1. CASE i.op = "sw"
        <4>1. Word(k) = Value(regs, i, i.rd)
          BY <1>4, <2>3, <3>1, AgreeFacts DEF Word, MemStage
        <4> QED BY <2>1, <3>1, <4>1 DEF Outcome
      <3>2. CASE i.op \in Branches \ {"jal"}
        <4>1. memory = k.pipe_stages[MEM]
          BY <2>1, <3>2 DEF Outcome, Accesses, Branches
        <4> QED BY <2>1, <3>2, <4>1 DEF OutputInv, OutputOf
      <3> QED BY <2>1, <3>1, <3>2 DEF GivesBack
    <2>5. Written(regs, i.rd, Value(regs, i, i.rd)) = regs
      BY <1>4 DEF Written, Value
    <2> QED BY <1>2, <2>2, <2>4, <2>5
  <1> QED BY <1>2, <1>3, <1>6, <1>7 DEF RegistersKept

\* An instruction that does not read what leaves MEM reads the same in the next cycle.
LEMMA AgreeMoved ==
  ASSUME NEW k, NEW memory, NEW n, Step(k, memory, n), MoveEffect(k, memory, n), RegistersKept(n),
         NEW i \in Instruction, ~Overwrites(k, MEM, i)
  PROVE  Agree(WrittenBack(k), WrittenBack(n), i)
  <1>1. n \in CoreType /\ n.regs = WrittenBack(k) /\ InPlace(k, memory)
    BY WrittenBackStep, Zenon DEF Step
  <1>2. ~Overwrites(n, WRITE_BACK, i)
    BY <1>1 DEF Overwrites, MoveEffect, InPlace, Active
  <1> QED BY <1>1, <1>2, AgreeWrittenBack

\* A core in which all is in order.
Sound(k) == Shaped(k) /\ Undisturbed(k) /\ ControlInv(k) /\ OutputInv(k) /\ RegistersKept(k)

\* A cycle of a core whose program keeps to what the hazard check knows.
PlainStep(k, memory, n) ==
    /\ Step(k, memory, n) /\ Outcome(k, memory)
    /\ Plain(k.program) /\ Short(k.program) /\ ~MissesStore(k)

\* When DECODE runs it has its registers, and leads FETCH to where its instruction leads.
LEMMA DecodeLeads ==
  ASSUME NEW k \in CoreType, Fetched(k), Plain(k.program), Short(k.program), ~MissesStore(k),
         RegistersKept(k), Decodes(k), k.pipe_stages[DECODE].instruction.op # "halt"
  PROVE  LET stage == k.pipe_stages[DECODE]
             i == stage.instruction
         IN  /\ Agree(k.regs, WrittenBack(k), i)
             /\ Follows(k.program, k.regs, i, At(k.program, k.pc), At(k.program, Decode(k).pc))
             /\ i.op \in Arithmetic \/ OutputOf(k.regs, Decode(k).stage, At(k.program, k.pc))
             /\ Fetch(k).stage.pc = k.pc /\ ~Decode(k).halt
  <1> DEFINE i == k.pipe_stages[DECODE].instruction
  <1>1. /\ ~k.is_mem_stall /\ ~Hazards(k) /\ Active(k.pipe_stages[DECODE]) /\ ~k.is_pip_halt
    BY DEF Decodes, Fetched
  <1>2. i \in Instruction /\ k.pc \in Nat
    BY CoreParts, PhaseFacts
  <1>3. Agree(k.regs, WrittenBack(k), i)
    BY <1>1, <1>2, NothingOnItsWay, AgreeWrittenBack
  <1>4. Fetch(k).stage.pc = k.pc /\ Fetch(k).pc = k.pc + 1
    BY <1>1, FetchFacts
  <1>5. /\ Decode(k).halt = k.is_pip_halt
        /\ Decode(k).stage.instruction = i
        /\ Decode(k).stage.output = IF i.op = "jal" THEN (k.pc + 1) % WORD
                                    ELSE IF i.op \in Branches THEN Value(k.regs, i, i.rd)
                                    ELSE k.pipe_stages[DECODE].output
        /\ Decode(k).pc = IF Taken(k.regs, i) THEN Target(k.regs, i)
                          ELSE IF i.op = "jal" THEN (k.pc + 1) % 512 ELSE k.pc + 1
    BY <1>4, DecodeFacts, ZenonT(40)
  <1>6. At(k.program, k.pc) # HALTED => At(k.program, k.pc) = k.pc /\ (k.pc + 1) % 512 = k.pc + 1
    <2> SUFFICES ASSUME At(k.program, k.pc) # HALTED
                 PROVE  At(k.program, k.pc) = k.pc /\ (k.pc + 1) % 512 = k.pc + 1
      OBVIOUS
    <2>1. At(k.program, k.pc) = k.pc /\ k.pc \in DOMAIN k.program
      BY AtFacts, Zenon
    <2>2. k.pc + 1 < 512
      BY <2>1 DEF Short
    <2> QED BY <1>2, <2>1, <2>2
  <1>7. Follows(k.program, k.regs, i, At(k.program, k.pc), At(k.program, Decode(k).pc))
    <2>1. At(k.program, k.pc) # HALTED => Decode(k).pc = Succ(k.regs, i, At(k.program, k.pc))
      BY <1>5, <1>6 DEF Succ
    <2> QED BY <2>1 DEF Follows
  <1>8. ASSUME i.op \notin Arithmetic PROVE OutputOf(k.regs, Decode(k).stage, At(k.program, k.pc))
    <2>1. i.op = "jal" => i.op \in Branches
      BY DEF Branches
    <2> QED BY <1>5, <1>6, <1>8, <2>1 DEF OutputOf
  <1> QED BY <1>1, <1>3, <1>4, <1>5, <1>7, <1>8, Zenon

\* What DECODE hands on leads to what FETCH hands on and to what is fetched next, and
\* reads no register that is on its way.
LEMMA HandedOnFlow ==
  ASSUME NEW k, Sound(k), NEW memory, NEW n, PlainStep(k, memory, n), RegistersKept(n),
         MoveEffect(k, memory, n), Active(n.pipe_stages[EXECUTE])
  PROVE  LET i == n.pipe_stages[EXECUTE].instruction
         IN  /\ Follows(n.program, WrittenBack(n), i, Decoding(n), Fetching(n))
             /\ i.op \in Arithmetic \/ OutputOf(WrittenBack(n), n.pipe_stages[EXECUTE], Decoding(n))
             /\ ~Overwrites(n, MEM, i) /\ ~Overwrites(n, WRITE_BACK, i)
  <1> DEFINE i == k.pipe_stages[DECODE].instruction
  <1>1. /\ k \in CoreType /\ n \in CoreType /\ Fetched(k) /\ ~LosesDecode(k) /\ Shaped(k)
        /\ Step(k, memory, n) /\ CycleEffect(k, n) /\ InPlace(k, memory)
        /\ Plain(k.program) /\ Short(k.program) /\ ~MissesStore(k)
        /\ ControlInv(k) /\ OutputInv(k) /\ RegistersKept(k)
    BY Zenon DEF Sound, PlainStep, Step
  <1>2. /\ n.program = k.program /\ n.pc = Decode(k).pc /\ n.is_pip_halt = Decode(k).halt
        /\ n.is_mem_stall = FALSE /\ ~Frozen(n)
    BY <1>1 DEF CycleEffect, MoveEffect, Frozen
  <1>3. /\ ~Hazards(k) /\ Active(k.pipe_stages[DECODE])
        /\ n.pipe_stages[EXECUTE] = Decode(k).stage
        /\ Decode(k).stage.instruction = i /\ i \in Instruction
    <2>1. i \in Instruction
      BY <1>1, CoreParts, PhaseFacts
    <2>2. Decode(k).stage.instruction = i /\ (Active(Decode(k).stage) <=> Active(k.pipe_stages[DECODE]))
      BY <1>1, DecodeHalts
    <2> QED BY <2>1, <2>2 DEF MoveEffect
  <1>4. \A q \in {EXECUTE, MEM, WRITE_BACK} : ~Overwrites(k, q, i)
    BY <1>1, <1>3, NothingOnItsWay
  <1>5. ~Overwrites(n, MEM, i) /\ ~Overwrites(n, WRITE_BACK, i)
    <2>1. Active(n.pipe_stages[MEM]) => Active(k.pipe_stages[EXECUTE])
            /\ n.pipe_stages[MEM].instruction = k.pipe_stages[EXECUTE].instruction
      BY <1>1, ExecuteFacts DEF MoveEffect, Active
    <2>2. Active(n.pipe_stages[WRITE_BACK]) => Active(k.pipe_stages[MEM])
            /\ n.pipe_stages[WRITE_BACK].instruction = k.pipe_stages[MEM].instruction
      BY <1>1 DEF MoveEffect, InPlace, Active
    <2> QED BY <1>4, <2>1, <2>2 DEF Overwrites
  <1>6. Agree(WrittenBack(k), WrittenBack(n), i)
    BY <1>1, <1>3, <1>4, AgreeMoved
  <1>7. CASE i.op = "halt"
    <2>1. ~Frozen(k)
      BY <1>1, <1>7 DEF Shaped
    <2>2. Decodes(k)
      BY <1>1, <1>3, <2>1, DecodeRuns
    <2>3. Decode(k).halt = TRUE /\ Decode(k).stage = k.pipe_stages[DECODE]
      BY <1>1, <1>7, <2>2, DecodeFacts
    <2>4. k.pipe_stages[DECODE].output = 0
      BY <1>1, <1>3, <2>1 DEF Shaped
    <2>5. Decoding(n) = HALTED
      BY <1>2, <2>3 DEF Decoding
    <2>6. OutputOf(WrittenBack(n), n.pipe_stages[EXECUTE], Decoding(n))
      BY <1>3, <1>7, <2>3, <2>4 DEF OutputOf, Arithmetic, Branches
    <2> QED BY <1>3, <1>5, <2>5, <2>6 DEF Follows
  <1>8. CASE i.op # "halt"
    <2>1. ~k.is_pip_halt
      BY <1>1, <1>3, DecodeRuns
    <2> DEFINE a == At(k.program, Fetch(k).stage.pc)
               b == At(k.program, Decode(k).pc)
    <2>2. /\ ~Decode(k).halt
          /\ Follows(k.program, WrittenBack(k), i, a, b)
          /\ i.op \in Arithmetic \/ OutputOf(WrittenBack(k), Decode(k).stage, a)
          /\ Active(Fetch(k).stage)
      <3>1. CASE Frozen(k)
        <4>1. ~Decodes(k) /\ k.is_mem_stall
          BY <1>1, <3>1, DecodeRuns DEF Frozen
        <4>2. Fetch(k).stage = k.pipe_stages[FETCH] /\ Fetch(k).pc = k.pc
          BY <1>1, <4>1, FetchFacts
        <4>3. /\ Decode(k).stage = k.pipe_stages[DECODE] /\ Decode(k).pc = k.pc
              /\ Decode(k).halt = k.is_pip_halt
          BY <1>1, <4>1, <4>2, DecodeFacts
        <4>4. Follows(k.program, WrittenBack(k), i, a, b)
          BY <1>1, <3>1, <4>2, <4>3 DEF ControlInv
        <4>5. i.op \in Arithmetic \/ OutputOf(WrittenBack(k), Decode(k).stage, a)
          BY <1>1, <3>1, <4>2, <4>3 DEF OutputInv
        <4>6. Active(Fetch(k).stage)
          BY <1>1, <3>1, <4>2 DEF Shaped
        <4> QED BY <2>1, <4>3, <4>4, <4>5, <4>6
      <3>2. CASE ~Frozen(k)
        <4>1. Decodes(k)
          BY <1>1, <1>3, <3>2, DecodeRuns
        <4>2. /\ Agree(k.regs, WrittenBack(k), i)
              /\ Follows(k.program, k.regs, i, At(k.program, k.pc), b)
              /\ i.op \in Arithmetic \/ OutputOf(k.regs, Decode(k).stage, At(k.program, k.pc))
              /\ Fetch(k).stage.pc = k.pc /\ ~Decode(k).halt
          BY <1>1, <1>8, <4>1, DecodeLeads
        <4>3. Follows(k.program, WrittenBack(k), i, a, b)
          BY <1>3, <4>2, AgreedFlow
        <4>4. i.op \in Arithmetic \/ OutputOf(WrittenBack(k), Decode(k).stage, a)
          BY <1>3, <4>2, AgreedOutput
        <4>5. Active(Fetch(k).stage)
          BY <4>2, Zenon DEF Active, PlainStep, Step, Addressed
        <4> QED BY <4>2, <4>3, <4>4, <4>5
      <3> QED BY <3>1, <3>2
    <2>3. n.pipe_stages[DECODE] = Fetch(k).stage
      BY <1>3, <2>2 DEF MoveEffect
    <2>4. Decoding(n) = a /\ Fetching(n) = b
      BY <1>2, <2>2, <2>3 DEF Decoding, Fetching
    <2>5. Follows(k.program, WrittenBack(n), i, a, b)
      BY <1>3, <1>6, <2>2, AgreedFlow
    <2>6. i.op \in Arithmetic \/ OutputOf(WrittenBack(n), Decode(k).stage, a)
      BY <1>3, <1>6, <2>2, AgreedOutput
    <2> QED BY <1>2, <1>3, <1>5, <2>4, <2>5, <2>6
  <1> QED BY <1>7, <1>8

\* In a memory stall all remains in order.
LEMMA SoundStalled ==
  ASSUME NEW k, Sound(k), NEW memory, NEW n, PlainStep(k, memory, n),
         StallEffect(k, memory, n), InMem(k)
  PROVE  Sound(n)
  <1> DEFINE regs == WrittenBack(k)
  <1>1. /\ k \in CoreType /\ n \in CoreType /\ Fetched(k) /\ ~LosesDecode(k) /\ Shaped(k)
        /\ Step(k, memory, n) /\ CycleEffect(k, n) /\ InPlace(k, memory) /\ Outcome(k, memory)
        /\ Plain(k.program) /\ Short(k.program) /\ ~MissesStore(k)
        /\ Undisturbed(k) /\ ControlInv(k) /\ OutputInv(k) /\ RegistersKept(k)
    BY Zenon DEF Sound, PlainStep, Step
  <1>2. Shaped(n) /\ RegistersKept(n)
    BY <1>1, ShapedStep, RegistersStep
  <1>3. /\ n.program = k.program /\ n.pc = Decode(k).pc /\ n.is_pip_halt = Decode(k).halt
        /\ n.is_mem_stall = TRUE /\ n.is_data_stall = Hazards(k)
        /\ WrittenBack(n) = regs
    BY <1>1, WrittenBackStep DEF CycleEffect, StallEffect
  <1>4. /\ Decoding(n) = Decoding(k)
        /\ Decoding(k) # HALTED => Fetching(n) = Fetching(k)
        /\ Executing(n) = Executing(k)
        /\ Executing(k) # HALTED => BehindExecuting(n) = BehindExecuting(k)
    BY <1>1, StalledFlow
  <1>5. /\ n.pipe_stages[EXECUTE] = Execute(k)
        /\ Execute(k).instruction = k.pipe_stages[EXECUTE].instruction
        /\ Active(Execute(k)) <=> Active(k.pipe_stages[EXECUTE])
        /\ Execute(k).output = IF Computes(k)
                               THEN Result(k.regs, k.pipe_stages[EXECUTE].instruction)
                               ELSE k.pipe_stages[EXECUTE].output
    BY <1>1, ExecuteFacts DEF StallEffect, Active
  <1>6. /\ n.pipe_stages[MEM].instruction = k.pipe_stages[MEM].instruction
        /\ Active(n.pipe_stages[MEM]) <=> Active(k.pipe_stages[MEM])
        /\ k.pipe_stages[MEM].instruction.op \in Accesses
        /\ ~Active(n.pipe_stages[WRITE_BACK])
    BY <1>1 DEF StallEffect, InPlace, Active, InMem, MemStage, Op
  <1>7. ASSUME Frozen(n)
        PROVE  LET i == k.pipe_stages[DECODE].instruction
                   a == At(k.program, n.pipe_stages[FETCH].pc)
               IN  /\ n.pipe_stages[DECODE].instruction = i
                   /\ Follows(k.program, regs, i, a, At(k.program, n.pc))
                   /\ i.op \in Arithmetic \/ OutputOf(regs, n.pipe_stages[DECODE], a)
    <2> DEFINE i == k.pipe_stages[DECODE].instruction
    <2>1. ~Decode(k).halt /\ ~Hazards(k)
      BY <1>3, <1>7 DEF Frozen
    <2>2. n.pipe_stages[FETCH] = Fetch(k).stage /\ n.pipe_stages[DECODE] = Decode(k).stage
      BY <1>1, <2>1 DEF CycleEffect, StallEffect
    <2>3. ~k.is_pip_halt /\ Decode(k).stage.instruction = i
      BY <1>1, <2>1, DecodeHalts
    <2>4. CASE Frozen(k)
      <3>1. ~Decodes(k) /\ k.is_mem_stall
        BY <1>1, <2>4, DecodeRuns DEF Frozen
      <3>2. Fetch(k).stage = k.pipe_stages[FETCH] /\ Fetch(k).pc = k.pc
        BY <1>1, <3>1, FetchFacts
      <3>3. Decode(k).stage = k.pipe_stages[DECODE] /\ Decode(k).pc = k.pc
        BY <1>1, <3>1, <3>2, DecodeFacts
      <3> QED BY <1>1, <1>3, <2>2, <2>4, <3>2, <3>3 DEF ControlInv, OutputInv
    <2>5. CASE ~Frozen(k)
      <3>1. Active(k.pipe_stages[DECODE])
        BY <1>1, <2>3, DecodeRuns
      <3>2. Decodes(k)
        BY <1>1, <2>1, <2>5, <3>1, DecodeRuns
      <3>3. i.op # "halt" /\ i \in Instruction
        BY <1>1, <2>1, <3>2, DecodeFacts, CoreParts, PhaseFacts
      <3>4. /\ Agree(k.regs, regs, i)
            /\ Follows(k.program, k.regs, i, At(k.program, k.pc), At(k.program, Decode(k).pc))
            /\ i.op \in Arithmetic \/ OutputOf(k.regs, Decode(k).stage, At(k.program, k.pc))
            /\ Fetch(k).stage.pc = k.pc
        BY <1>1, <3>2, <3>3, DecodeLeads
      <3>5. Follows(k.program, regs, i, At(k.program, k.pc), At(k.program, Decode(k).pc))
        BY <3>3, <3>4, AgreedFlow
      <3>6. i.op \in Arithmetic \/ OutputOf(regs, Decode(k).stage, At(k.program, k.pc))
        BY <2>3, <3>3, <3>4, AgreedOutput
      <3> QED BY <1>3, <2>2, <2>3, <3>4, <3>5, <3>6
    <2> QED BY <2>4, <2>5
  <1>8. Undisturbed(n)
    <2>1. \A i : ~Overwrites(n, WRITE_BACK, i)
      BY <1>6 DEF Overwrites
    <2>2. \A i : Overwrites(n, MEM, i) => Overwrites(k, MEM, i)
      BY <1>6 DEF Overwrites
    <2> QED BY <1>1, <1>5, <2>1, <2>2 DEF Undisturbed
  <1>9. ControlInv(n)
    <2>1. ASSUME Active(n.pipe_stages[EXECUTE])
          PROVE  Follows(n.program, WrittenBack(n), n.pipe_stages[EXECUTE].instruction, Decoding(n), Fetching(n))
      BY <1>1, <1>3, <1>4, <1>5, <2>1 DEF ControlInv, Follows
    <2>2. ASSUME Active(n.pipe_stages[MEM])
          PROVE  Follows(n.program, WrittenBack(n), n.pipe_stages[MEM].instruction, Executing(n), BehindExecuting(n))
      BY <1>1, <1>3, <1>4, <1>6, <2>2 DEF ControlInv, Follows
    <2> QED BY <1>3, <1>7, <2>1, <2>2 DEF ControlInv
  <1>10. OutputInv(n)
    <2>1. OutputOf(regs, n.pipe_stages[MEM], Executing(n))
      BY <1>6 DEF OutputOf, Accesses, Arithmetic, Branches
    <2>2. ASSUME Active(n.pipe_stages[EXECUTE])
          PROVE  OutputOf(regs, n.pipe_stages[EXECUTE], Decoding(n))
      <3> DEFINE i == k.pipe_stages[EXECUTE].instruction
      <3>1. Active(k.pipe_stages[EXECUTE]) /\ i \in Instruction
        BY <1>1, <1>5, <2>2, CoreParts, PhaseFacts
      <3>2. CASE Computes(k)
        <4>1. i.op \in Arithmetic
          BY <3>2 DEF Computes, Op
        <4>2. Agree(k.regs, regs, i)
          BY <1>1, <3>1, AgreeWrittenBack DEF Undisturbed
        <4>3. Result(k.regs, i) = Result(regs, i)
          BY <3>1, <4>2, AgreeFacts
        <4> QED BY <1>5, <3>2, <4>1, <4>3 DEF OutputOf, Arithmetic, Branches
      <3>3. CASE ~Computes(k)
        <4>1. ~(i.op \in Arithmetic /\ ~k.is_mem_stall)
          BY <3>1, <3>3 DEF Computes, Op
        <4>2. OutputOf(regs, k.pipe_stages[EXECUTE], Decoding(k))
          BY <1>1, <3>1, <4>1 DEF OutputInv
        <4> QED BY <1>4, <1>5, <3>3, <4>2 DEF OutputOf
      <3> QED BY <3>2, <3>3
    <2> QED BY <1>3, <1>7, <2>1, <2>2 DEF OutputInv
  <1> QED BY <1>2, <1>8, <1>9, <1>10 DEF Sound

\* When the instructions move on all remains in order.
LEMMA SoundMoved ==
  ASSUME NEW k, Sound(k), NEW memory, NEW n, PlainStep(k, memory, n), MoveEffect(k, memory, n)
  PROVE  Sound(n)
  <1> DEFINE regs == WrittenBack(k)
             i == k.pipe_stages[EXECUTE].instruction
  <1>1. /\ k \in CoreType /\ n \in CoreType /\ Fetched(k) /\ Shaped(k)
        /\ Step(k, memory, n) /\ CycleEffect(k, n) /\ InPlace(k, memory) /\ Outcome(k, memory)
        /\ Plain(k.program)
        /\ Undisturbed(k) /\ ControlInv(k) /\ OutputInv(k) /\ RegistersKept(k)
    BY Zenon DEF Sound, PlainStep, Step
  <1>2. Shaped(n) /\ RegistersKept(n)
    BY <1>1, ShapedStep, RegistersStep
  <1>3. n.program = k.program /\ ~Frozen(n)
    BY <1>1 DEF CycleEffect, MoveEffect, Frozen
  <1>4. Executing(n) = Decoding(k) /\ (Decoding(k) # HALTED => BehindExecuting(n) = Fetching(k))
    BY <1>1, MovedFlow
  <1>5. ASSUME Active(n.pipe_stages[EXECUTE])
        PROVE  LET j == n.pipe_stages[EXECUTE].instruction
               IN  /\ Follows(n.program, WrittenBack(n), j, Decoding(n), Fetching(n))
                   /\ j.op \in Arithmetic \/ OutputOf(WrittenBack(n), n.pipe_stages[EXECUTE], Decoding(n))
                   /\ ~Overwrites(n, MEM, j) /\ ~Overwrites(n, WRITE_BACK, j)
    BY <1>2, <1>5, HandedOnFlow
  <1>6. ASSUME Active(n.pipe_stages[MEM])
        PROVE  /\ n.pipe_stages[MEM].instruction = i
               /\ ~Overwrites(n, WRITE_BACK, i)
               /\ Follows(n.program, WrittenBack(n), i, Executing(n), BehindExecuting(n))
               /\ OutputOf(WrittenBack(n), n.pipe_stages[MEM], Executing(n))
    <2>1. /\ n.pipe_stages[MEM] = Execute(k) /\ Active(k.pipe_stages[EXECUTE])
          /\ Execute(k).instruction = i
          /\ Execute(k).output = IF Computes(k) THEN Result(k.regs, i)
                                 ELSE k.pipe_stages[EXECUTE].output
      BY <1>1, <1>6, ExecuteFacts DEF MoveEffect, Active
    <2>2. i \in Instruction
      BY <1>1, CoreParts, PhaseFacts
    <2>3. ~Overwrites(k, MEM, i) /\ ~Overwrites(k, WRITE_BACK, i)
      BY <1>1, <2>1 DEF Undisturbed
    <2>4. ~Overwrites(n, WRITE_BACK, i)
      BY <1>1, <2>3 DEF Overwrites, MoveEffect, InPlace, Active
    <2>5. Agree(regs, WrittenBack(n), i) /\ Agree(k.regs, regs, i)
      BY <1>1, <1>2, <2>2, <2>3, AgreeMoved, AgreeWrittenBack
    <2>6. Follows(k.program, regs, i, Executing(n), BehindExecuting(n))
      BY <1>1, <1>4, <2>1 DEF ControlInv, Follows
    <2>7. Follows(n.program, WrittenBack(n), i, Executing(n), BehindExecuting(n))
      BY <1>3, <2>2, <2>5, <2>6, AgreedFlow
    <2>8. OutputOf(regs, Execute(k), Executing(n))
      <3>1. CASE Computes(k)
        <4>1. i.op \in Arithmetic
          BY <3>1 DEF Computes, Op
        <4>2. Result(k.regs, i) = Result(regs, i)
          BY <2>2, <2>5, AgreeFacts
        <4> QED BY <2>1, <3>1, <4>1, <4>2 DEF OutputOf, Arithmetic, Branches
      <3>2. CASE ~Computes(k)
        <4>1. ~(i.op \in Arithmetic /\ ~k.is_mem_stall)
          BY <2>1, <3>2 DEF Computes, Op
        <4>2. OutputOf(regs, k.pipe_stages[EXECUTE], Decoding(k))
          BY <1>1, <2>1, <4>1 DEF OutputInv
        <4> QED BY <1>4, <2>1, <3>2, <4>2 DEF OutputOf
      <3> QED BY <3>1, <3>2
    <2>9. OutputOf(WrittenBack(n), Execute(k), Executing(n))
      BY <2>1, <2>2, <2>5, <2>8, AgreedOutput
    <2> QED BY <2>1, <2>4, <2>7, <2>9
  <1>7. Undisturbed(n)
    BY <1>5, <1>6 DEF Undisturbed
  <1>8. ControlInv(n)
    BY <1>3, <1>5, <1>6 DEF ControlInv
  <1>9. OutputInv(n)
    <2>1. n.is_mem_stall = FALSE
      BY DEF MoveEffect
    <2> QED BY <1>3, <1>5, <1>6, <2>1 DEF OutputInv
  <1> QED BY <1>2, <1>7, <1>8, <1>9 DEF Sound

-----------------------------------------------------------------------------
(* The refinement mapping.                                                 *)

\* The sets that the mapping counts are finite.
LEMMA OlderFacts ==
  ASSUME NEW k, NEW p
  PROVE  /\ Cardinality(Older(k, p)) = 0 <=> Older(k, p) = {}
         /\ Cardinality(Older(k, p)) = 1 <=> \E q : Older(k, p) = {q}
  <1>1. IsFiniteSet(FETCH..WRITE_BACK)
    <2>1. \A a, b \in Int : IsFiniteSet(a..b)
      BY FS_Interval
    <2>2. FETCH \in Int /\ WRITE_BACK \in Int
      BY DEF FETCH, WRITE_BACK
    <2> QED BY <2>1, <2>2
  <1>2. Older(k, p) \subseteq FETCH..WRITE_BACK
    BY DEF Older, Phases
  <1>3. IsFiniteSet(Older(k, p))
    BY <1>1, <1>2, FS_Subset
  <1> QED BY <1>3, FS_EmptySet, FS_Singleton

\* An instruction in FETCH is pending only behind one in DECODE and one in MEM.
LEMMA PendingFetch ==
  ASSUME NEW k \in CoreType, Fetched(k), Shaped(k), Pending(k, FETCH)
  PROVE  Frozen(k) /\ Active(k.pipe_stages[DECODE]) /\ Active(k.pipe_stages[MEM])
  BY DEF Pending, Fetched, Frozen, Shaped, InMem, MemStage

\* Which stage holds the oldest instruction, and which the one behind it.
LEMMA OldestFacts ==
  ASSUME NEW k \in CoreType, Fetched(k), Shaped(k)
  PROVE  LET mem == Active(k.pipe_stages[MEM])
             execute == Active(k.pipe_stages[EXECUTE])
             decode == Active(k.pipe_stages[DECODE])
         IN  /\ Oldest(k, 0) = IF mem THEN {MEM} ELSE IF execute THEN {EXECUTE}
                               ELSE IF decode THEN {DECODE} ELSE {}
             /\ Oldest(k, 1) = IF mem /\ execute THEN {EXECUTE}
                               ELSE IF (mem \/ execute) /\ decode THEN {DECODE} ELSE {}
  <1> DEFINE mem == Active(k.pipe_stages[MEM])
             execute == Active(k.pipe_stages[EXECUTE])
             decode == Active(k.pipe_stages[DECODE])
             fetch == Pending(k, FETCH)
             Elder(p) == IF p = MEM THEN {}
                         ELSE IF p = EXECUTE THEN {q \in {MEM} : mem}
                         ELSE IF p = DECODE THEN {q \in {MEM} : mem} \cup {q \in {EXECUTE} : execute}
                         ELSE {q \in {MEM} : mem} \cup {q \in {EXECUTE} : execute}
                                \cup {q \in {DECODE} : decode}
             Single(S) == \E q : S = {q}
             Stages4 == {FETCH, DECODE, EXECUTE, MEM}
  <1>1. /\ Pending(k, MEM) <=> mem
        /\ Pending(k, EXECUTE) <=> execute
        /\ Pending(k, DECODE) <=> decode
    BY PhaseFacts DEF Pending
  <1>2. fetch => mem /\ decode
    BY PendingFetch
  <1>3. Phases \ {WRITE_BACK} = {FETCH, DECODE, EXECUTE, MEM}
    BY PhaseFacts
  <1>4. ASSUME NEW p \in {FETCH, DECODE, EXECUTE, MEM} PROVE Older(k, p) = Elder(p)
    <2>1. Older(k, p) = {q \in {FETCH, DECODE, EXECUTE, MEM} : q > p /\ Pending(k, q)}
      BY <1>3 DEF Older
    <2> HIDE DEF mem, execute, decode
    <2> QED BY <1>1, <2>1 DEF FETCH, DECODE, EXECUTE, MEM
  <1>5. \A p : /\ Cardinality(Older(k, p)) = 0 <=> Older(k, p) = {}
               /\ Cardinality(Older(k, p)) = 1 <=> Single(Older(k, p))
    BY OlderFacts
  <1>6. \A p \in Stages4 :
          /\ p \in Oldest(k, 0) <=> Pending(k, p) /\ Elder(p) = {}
          /\ p \in Oldest(k, 1) <=> Pending(k, p) /\ Single(Elder(p))
    <2> HIDE DEF Elder, Single
    <2>1. \A n : \A p \in Stages4 :
            p \in Oldest(k, n) <=> Pending(k, p) /\ Cardinality(Older(k, p)) = n
      BY <1>3 DEF Oldest
    <2> QED BY <1>4, <1>5, <2>1
  <1>7. /\ Elder(MEM) = {} /\ ~Single(Elder(MEM))
        /\ Elder(EXECUTE) = {} <=> ~mem
        /\ Single(Elder(EXECUTE)) <=> mem
        /\ Elder(DECODE) = {} <=> ~mem /\ ~execute
        /\ Single(Elder(DECODE)) <=> (mem /\ ~execute) \/ (~mem /\ execute)
        /\ Elder(FETCH) = {} => ~mem
        /\ Single(Elder(FETCH)) => ~mem \/ ~decode
    <2> HIDE DEF mem, execute, decode
    <2> QED BY PhaseFacts
  <1>8. \A n : Oldest(k, n) \subseteq Stages4
    BY <1>3 DEF Oldest
  <1> HIDE DEF mem, execute, decode, fetch, Elder, Single
  <1>9. /\ MEM \in Oldest(k, 0) <=> mem
        /\ EXECUTE \in Oldest(k, 0) <=> ~mem /\ execute
        /\ DECODE \in Oldest(k, 0) <=> ~mem /\ ~execute /\ decode
        /\ FETCH \notin Oldest(k, 0)
    BY <1>1, <1>2, <1>6, <1>7 DEF fetch
  <1>10. /\ MEM \notin Oldest(k, 1)
         /\ EXECUTE \in Oldest(k, 1) <=> mem /\ execute
         /\ DECODE \in Oldest(k, 1) <=> ((mem /\ ~execute) \/ (~mem /\ execute)) /\ decode
         /\ FETCH \notin Oldest(k, 1)
    BY <1>1, <1>2, <1>6, <1>7 DEF fetch
  <1>11. Oldest(k, 0) = IF mem THEN {MEM} ELSE IF execute THEN {EXECUTE}
                        ELSE IF decode THEN {DECODE} ELSE {}
    BY <1>8, <1>9
  <1>12. Oldest(k, 1) = IF mem /\ execute THEN {EXECUTE}
                        ELSE IF (mem \/ execute) /\ decode THEN {DECODE} ELSE {}
    BY <1>8, <1>10
  <1> QED BY <1>11, <1>12 DEF mem, execute, decode

\* An address of the mapping, once it is known which stage holds it.
LEMMA PendingAddressFacts ==
  ASSUME NEW k, NEW n, NEW fetched
  PROVE  /\ \A p : Oldest(k, n) = {p} =>
                PendingAddress(k, n, fetched) = At(k.program, k.pipe_stages[p].pc)
         /\ Oldest(k, n) = {} =>
                PendingAddress(k, n, fetched) = IF k.is_pip_halt THEN HALTED ELSE At(k.program, fetched)
  <1>1. ASSUME NEW p, Oldest(k, n) = {p}
        PROVE  PendingAddress(k, n, fetched) = At(k.program, k.pipe_stages[p].pc)
    <2>1. (CHOOSE q \in Oldest(k, n) : TRUE) = p /\ Oldest(k, n) # {}
      BY <1>1
    <2> QED BY <2>1 DEF PendingAddress, At
  <1>2. ASSUME Oldest(k, n) = {}
        PROVE  PendingAddress(k, n, fetched) = IF k.is_pip_halt THEN HALTED ELSE At(k.program, fetched)
    BY <1>2 DEF PendingAddress, At
  <1> QED BY <1>1, <1>2

\* The machine of Isa.tla stands before the instruction in MEM, or else before the one that
\* leaves EXECUTE next.
LEMMA MappingFacts ==
  ASSUME NEW k \in CoreType, Fetched(k), Shaped(k)
  PROVE  /\ PcOfIsa(k) = IF Active(k.pipe_stages[MEM]) THEN At(k.program, k.pipe_stages[MEM].pc)
                         ELSE Executing(k)
         /\ NextOfIsa(k) = IF PcOfIsa(k) = HALTED THEN HALTED
                           ELSE IF Active(k.pipe_stages[MEM]) THEN Executing(k)
                           ELSE BehindExecuting(k)
  <1> DEFINE mem == Active(k.pipe_stages[MEM])
             execute == Active(k.pipe_stages[EXECUTE])
             decode == Active(k.pipe_stages[DECODE])
             fetched == IF Oldest(k, 0) = {} THEN k.pc + 1 ELSE k.pc
  <1>1. /\ Oldest(k, 0) = IF mem THEN {MEM} ELSE IF execute THEN {EXECUTE}
                          ELSE IF decode THEN {DECODE} ELSE {}
        /\ Oldest(k, 1) = IF mem /\ execute THEN {EXECUTE}
                          ELSE IF (mem \/ execute) /\ decode THEN {DECODE} ELSE {}
    BY OldestFacts
  <1>2. /\ ~k.is_pip_halt /\ ~decode => ~mem /\ ~execute
        /\ k.is_pip_halt => ~decode
        /\ Frozen(k) => mem
    BY DEF Shaped, Fetched, Frozen, InMem, MemStage
  <1>3. PcOfIsa(k) = IF mem THEN At(k.program, k.pipe_stages[MEM].pc) ELSE Executing(k)
    <2>1. CASE mem
      BY <1>1, <2>1, PendingAddressFacts DEF PcOfIsa
    <2>2. CASE ~mem /\ execute
      <3>1. Oldest(k, 0) = {EXECUTE}
        BY <1>1, <2>2
      <3> QED BY <2>2, <3>1, PendingAddressFacts DEF PcOfIsa, Executing
    <2>3. CASE ~mem /\ ~execute /\ decode
      <3>1. Oldest(k, 0) = {DECODE}
        BY <1>1, <2>3
      <3> QED BY <1>2, <2>3, <3>1, PendingAddressFacts DEF PcOfIsa, Executing, Decoding
    <2>4. CASE ~mem /\ ~execute /\ ~decode
      <3>1. Oldest(k, 0) = {}
        BY <1>1, <2>4
      <3> QED BY <2>4, <3>1, PendingAddressFacts DEF PcOfIsa, Executing, Decoding
    <2> QED BY <2>1, <2>2, <2>3, <2>4
  <1>4. ASSUME PcOfIsa(k) # HALTED
        PROVE  NextOfIsa(k) = IF mem THEN Executing(k) ELSE BehindExecuting(k)
    <2>1. NextOfIsa(k) = PendingAddress(k, 1, fetched)
      BY <1>4 DEF NextOfIsa
    <2>2. CASE mem /\ execute
      <3>1. Oldest(k, 1) = {EXECUTE}
        BY <1>1, <2>2
      <3>2. NextOfIsa(k) = At(k.program, k.pipe_stages[EXECUTE].pc)
        BY <2>1, <3>1, PendingAddressFacts
      <3> QED BY <2>2, <3>2 DEF Executing
    <2>3. CASE ((mem /\ ~execute) \/ (~mem /\ execute)) /\ decode
      <3>1. Oldest(k, 1) = {DECODE}
        BY <1>1, <2>3
      <3>2. NextOfIsa(k) = At(k.program, k.pipe_stages[DECODE].pc)
        BY <2>1, <3>1, PendingAddressFacts
      <3>3. NextOfIsa(k) = Decoding(k)
        BY <1>2, <2>3, <3>2 DEF Decoding
      <3> QED BY <2>3, <3>3 DEF Executing, BehindExecuting
    <2>4. CASE ((mem /\ ~execute) \/ (~mem /\ execute)) /\ ~decode
      <3>1. Oldest(k, 1) = {} /\ k.is_pip_halt
        BY <1>1, <1>2, <2>4
      <3>2. NextOfIsa(k) = HALTED
        BY <2>1, <3>1, PendingAddressFacts
      <3> QED BY <2>4, <3>1, <3>2 DEF Executing, BehindExecuting, Decoding
    <2>5. CASE ~mem /\ ~execute
      <3>1. Oldest(k, 1) = {} /\ fetched = IF decode THEN k.pc ELSE k.pc + 1
        BY <1>1, <2>5
      <3>2. NextOfIsa(k) = IF k.is_pip_halt THEN HALTED ELSE At(k.program, fetched)
        BY <2>1, <3>1, PendingAddressFacts
      <3> QED BY <1>2, <2>5, <3>1, <3>2 DEF BehindExecuting, Fetching
    <2> HIDE DEF mem, execute, decode, fetched
    <2>6. \/ mem /\ execute
          \/ ((mem /\ ~execute) \/ (~mem /\ execute)) /\ decode
          \/ ((mem /\ ~execute) \/ (~mem /\ execute)) /\ ~decode
          \/ ~mem /\ ~execute
      OBVIOUS
    <2> QED BY <2>2, <2>3, <2>4, <2>5, <2>6
  <1> QED BY <1>3, <1>4 DEF NextOfIsa

\* A memory stall is no step of that machine.
LEMMA StalledMapping ==
  ASSUME NEW k, Sound(k), NEW memory, NEW n, PlainStep(k, memory, n),
         StallEffect(k, memory, n), InMem(k)
  PROVE  WrittenBack(n) = WrittenBack(k) /\ PcOfIsa(n) = PcOfIsa(k) /\ NextOfIsa(n) = NextOfIsa(k)
  <1>1. /\ k \in CoreType /\ n \in CoreType /\ Fetched(k) /\ Shaped(k) /\ Step(k, memory, n)
        /\ CycleEffect(k, n) /\ InPlace(k, memory)
    BY Zenon DEF Sound, PlainStep, Step
  <1>2. Fetched(n) /\ Shaped(n)
    BY <1>1, FetchedStep, ShapedStep
  <1>3. WrittenBack(n) = WrittenBack(k)
    BY <1>1, WrittenBackStep
  <1>4. /\ Executing(n) = Executing(k)
        /\ Executing(k) # HALTED => BehindExecuting(n) = BehindExecuting(k)
    BY <1>1, StalledFlow
  <1>5. /\ Active(n.pipe_stages[MEM]) <=> Active(k.pipe_stages[MEM])
        /\ n.pipe_stages[MEM].pc = k.pipe_stages[MEM].pc /\ n.program = k.program
    BY <1>1 DEF StallEffect, CycleEffect, InPlace, Active
  <1>6. Active(k.pipe_stages[MEM])
    BY DEF InMem, MemStage
  <1>7. PcOfIsa(n) = PcOfIsa(k)
    BY <1>1, <1>2, <1>5, <1>6, MappingFacts
  <1> QED BY <1>1, <1>2, <1>3, <1>4, <1>5, <1>6, <1>7, MappingFacts

\* What leaves MEM is the instruction that the machine carries out; when nothing does, or a
\* halt, it stands still.
LEMMA MovedMapping ==
  ASSUME NEW k, Sound(k), NEW memory, NEW n, PlainStep(k, memory, n), MoveEffect(k, memory, n)
  PROVE  LET i == k.pipe_stages[MEM].instruction
             mem == Active(k.pipe_stages[MEM])
         IN  /\ ~mem \/ i.op = "halt" => PcOfIsa(n) = PcOfIsa(k) /\ NextOfIsa(n) = NextOfIsa(k)
             /\ mem /\ i.op # "halt" =>
                  /\ PcOfIsa(k) # HALTED /\ InstructionAt(k.program, PcOfIsa(k)) = i
                  /\ NextOfIsa(k) = Executing(k)
                  /\ PcOfIsa(n) = NextOfIsa(k)
                  /\ NextOfIsa(n) = IF NextOfIsa(k) = HALTED THEN HALTED
                                    ELSE At(k.program, Succ(WrittenBack(k), i, NextOfIsa(k)))
  <1> DEFINE i == k.pipe_stages[MEM].instruction
             mem == Active(k.pipe_stages[MEM])
             execute == Active(k.pipe_stages[EXECUTE])
  <1>1. /\ k \in CoreType /\ n \in CoreType /\ Fetched(k) /\ Shaped(k) /\ Step(k, memory, n)
        /\ CycleEffect(k, n) /\ InPlace(k, memory) /\ ControlInv(k) /\ Short(k.program)
    BY Zenon DEF Sound, PlainStep, Step
  <1>2. Fetched(n) /\ Shaped(n)
    BY <1>1, FetchedStep, ShapedStep
  <1>3. Executing(n) = Decoding(k) /\ (Decoding(k) # HALTED => BehindExecuting(n) = Fetching(k))
    BY <1>1, MovedFlow
  <1>4. /\ Active(n.pipe_stages[MEM]) <=> execute
        /\ execute => n.pipe_stages[MEM].pc = k.pipe_stages[EXECUTE].pc
        /\ n.program = k.program
    BY <1>1, ExecuteFacts DEF MoveEffect, CycleEffect, Active
  <1>5. PcOfIsa(n) = Executing(k)
    BY <1>1, <1>2, <1>3, <1>4, MappingFacts DEF Executing
  <1>6. NextOfIsa(n) = IF Executing(k) = HALTED THEN HALTED ELSE BehindExecuting(k)
    <2>1. CASE execute
      BY <1>1, <1>2, <1>3, <1>4, <1>5, <2>1, MappingFacts DEF BehindExecuting
    <2>2. CASE ~execute
      <3>1. Executing(k) = Decoding(k) /\ BehindExecuting(k) = Fetching(k)
        BY <2>2 DEF Executing, BehindExecuting
      <3> QED BY <1>1, <1>2, <1>3, <1>4, <1>5, <2>2, <3>1, MappingFacts
    <2> QED BY <2>1, <2>2
  <1>7. CASE ~mem
    BY <1>1, <1>5, <1>6, <1>7, MappingFacts
  <1>8. CASE mem /\ i.op = "halt"
    <2>1. PcOfIsa(k) = HALTED /\ NextOfIsa(k) = HALTED
      BY <1>1, <1>8, AtStage, MappingFacts
    <2>2. k.is_pip_halt /\ ~execute
      BY <1>1, <1>8 DEF Shaped
    <2>3. Executing(k) = HALTED
      BY <2>2 DEF Executing, Decoding
    <2> QED BY <1>5, <1>6, <1>8, <2>1, <2>3
  <1>9. CASE mem /\ i.op # "halt"
    <2> DEFINE a == k.pipe_stages[MEM].pc
    <2>1. InstructionAt(k.program, a) = i /\ a \in DOMAIN k.program
      BY <1>1, <1>9 DEF Fetched, InstructionAt, Halt
    <2>2. a # HALTED
      BY <1>1, <2>1 DEF Short, HALTED
    <2>3. PcOfIsa(k) = a
      BY <1>1, <1>9, <2>1, MappingFacts DEF At
    <2>4. NextOfIsa(k) = Executing(k)
      BY <1>1, <1>9, <2>2, <2>3, MappingFacts
    <2>5. Follows(k.program, WrittenBack(k), i, Executing(k), BehindExecuting(k))
      BY <1>1, <1>9 DEF ControlInv
    <2> QED BY <1>5, <1>6, <1>9, <2>1, <2>2, <2>3, <2>4, <2>5 DEF Follows
  <1> QED BY <1>7, <1>8, <1>9

\* A register that is written with its value keeps it.
LEMMA WrittenSame ==
  ASSUME NEW regs \in [Registers -> Words], NEW i \in Instruction
  PROVE  Written(regs, i.rd, Value(regs, i, i.rd)) = regs
  BY DEF Written, Value, Instruction, Operands

\* The registers it leaves behind.
LEMMA MovedRegisters ==
  ASSUME NEW k, Sound(k), NEW memory, NEW n, PlainStep(k, memory, n), MoveEffect(k, memory, n)
  PROVE  LET i == k.pipe_stages[MEM].instruction
             regs == WrittenBack(k)
             mem == Active(k.pipe_stages[MEM])
         IN  /\ ~mem \/ i.op \in {"halt", "sw"} \cup (Branches \ {"jal"}) => WrittenBack(n) = regs
             /\ mem /\ i.op \in Arithmetic => WrittenBack(n) = Written(regs, i.rd, Result(regs, i))
             /\ mem /\ i.op = "lw" => WrittenBack(n) = Written(regs, i.rd, memory.output)
             /\ mem /\ i.op = "jal" =>
                  \E a \in IF Executing(k) = HALTED THEN Words ELSE {(Executing(k) + 1) % WORD} :
                     WrittenBack(n) = [regs EXCEPT ![NEXT_INSTRUCTION_ADDRESS_REGISTER] = a]
             /\ mem => /\ AddressIn(regs, i) = Address(k)
                       /\ i.op = "sw" => Value(regs, i, i.rd) = Word(k)
  <1> DEFINE i == k.pipe_stages[MEM].instruction
             regs == WrittenBack(k)
             mem == Active(k.pipe_stages[MEM])
  <1>1. /\ k \in CoreType /\ n \in CoreType /\ Fetched(k) /\ Step(k, memory, n)
        /\ InPlace(k, memory) /\ Outcome(k, memory) /\ Plain(k.program)
        /\ Undisturbed(k) /\ OutputInv(k) /\ RegistersKept(k)
    BY Zenon DEF Sound, PlainStep, Step
  <1>2. CASE ~mem
    BY <1>1, <1>2, WrittenBackStep
  <1>3. CASE mem
    <2>1. WrittenBack(n) = Written(regs, Destination(i), memory.output)
      BY <1>1, <1>3, WrittenBackStep
    <2>2. regs \in [Registers -> Words] /\ i \in Instruction /\ memory.output \in Words
      BY <1>1, WrittenBackType, CoreParts, PhaseFacts DEF InPlace, StageType
    <2>3. OutputOf(regs, k.pipe_stages[MEM], Executing(k))
      BY <1>1, <1>3 DEF OutputInv
    <2>4. Agree(k.regs, regs, i)
      BY <1>1, <1>3, <2>2, AgreeWrittenBack DEF Undisturbed
    <2>5. AddressIn(regs, i) = Address(k)
      BY <2>2, <2>4, AgreeFacts DEF Address, MemStage
    <2>6. i.op = "sw" => Value(regs, i, i.rd) = Word(k)
      BY <2>2, <2>4, AgreeFacts DEF Word, MemStage
    <2>7. i.op \notin Accesses => memory.output = k.pipe_stages[MEM].output
      BY <1>1, <1>3 DEF Outcome
    <2>8. i.op # "jal" => Destination(i) = i.rd
      BY DEF Destination
    <2>9. ASSUME i.op \in Arithmetic PROVE WrittenBack(n) = Written(regs, i.rd, Result(regs, i))
      BY <2>1, <2>3, <2>7, <2>8, <2>9 DEF OutputOf, Arithmetic, Accesses
    <2>10. ASSUME i.op = "lw" PROVE WrittenBack(n) = Written(regs, i.rd, memory.output)
      BY <2>1, <2>8, <2>10
    <2>11. ASSUME i.op = "sw" PROVE WrittenBack(n) = regs
      BY <1>1, <1>3, <2>1, <2>2, <2>6, <2>8, <2>11, WrittenSame DEF Outcome
    <2>12. ASSUME i.op \in Branches \ {"jal"} PROVE WrittenBack(n) = regs
      BY <2>1, <2>2, <2>3, <2>7, <2>8, <2>12, WrittenSame DEF OutputOf, Branches, Accesses
    <2>13. ASSUME i.op = "halt" PROVE WrittenBack(n) = regs
      <3>1. memory.output = 0
        BY <2>3, <2>7, <2>13 DEF OutputOf, Accesses
      <3>2. i = Halt \/ \E a \in DOMAIN k.program : i = k.program[a]
        BY <1>1, <1>3, StageInstruction
      <3>3. i.rd \in {REG_ZERO, REG_IMM}
        BY <1>1, <2>13, <3>2 DEF Plain, Halt, REG_ZERO
      <3>4. i.rd = REG_ZERO => Value(regs, i, i.rd) = 0
        BY <1>1 DEF RegistersKept, Value, REG_ZERO, REG_IMM
      <3>5. i.rd = REG_IMM => Written(regs, i.rd, memory.output) = regs
        BY DEF Written
      <3> QED BY <2>1, <2>2, <2>8, <2>13, <3>1, <3>3, <3>4, <3>5, WrittenSame
    <2>14. ASSUME i.op = "jal"
           PROVE  \E a \in IF Executing(k) = HALTED THEN Words ELSE {(Executing(k) + 1) % WORD} :
                     WrittenBack(n) = [regs EXCEPT ![NEXT_INSTRUCTION_ADDRESS_REGISTER] = a]
      <3>1. memory.output \in IF Executing(k) = HALTED THEN Words ELSE {(Executing(k) + 1) % WORD}
        BY <2>2, <2>3, <2>7, <2>14 DEF OutputOf, Accesses
      <3>2. Written(regs, Destination(i), memory.output)
              = [regs EXCEPT ![NEXT_INSTRUCTION_ADDRESS_REGISTER] = memory.output]
        BY <2>14 DEF Written, Destination, NEXT_INSTRUCTION_ADDRESS_REGISTER, REG_IMM
      <3> QED BY <2>1, <3>1, <3>2
    <2> QED BY <1>3, <2>5, <2>6, <2>9, <2>10, <2>11, <2>12, <2>13, <2>14
  <1> QED BY <1>2, <1>3


-----------------------------------------------------------------------------
(* A core over a memory.                                                   *)

\* A call of operate_the_core on the core k makes n of it, and "after" of what loads and
\* stores see: without an access, turned away, with a load or a store that succeeds, at the
\* end, or behind it.
CallOf(k, n, data, after) ==
    \/ ~InMem(k) /\ n = Cycled(k, k.is_mem_stall, MemStage(k)) /\ after = data
    \/ InMem(k) /\ n = Cycled(k, TRUE, Holding(k, Word(k))) /\ after = data
    \/ /\ InMem(k) /\ Op(k, MEM) = "lw"
       /\ n = Cycled(k, FALSE, Holding(k, data[Address(k)])) /\ after = data
    \/ /\ InMem(k) /\ Op(k, MEM) = "sw"
       /\ n = Cycled(k, FALSE, Holding(k, Word(k)))
       /\ after = [data EXCEPT ![Address(k)] = Word(k)]
    \/ Halts(k) /\ n = Terminated(k) /\ after = data
    \/ n = k /\ after = data

\* A core whose stages and counter keep to their types and to the addresses up to last.
InBounds(k, last) ==
    k \in CoreType /\ Reaches(k.program, last) /\ Fetched(k) /\ Bounded(k, last)

\* What MEM leaves behind is an instruction in its place.
LEMMA MemOutcomes ==
  ASSUME NEW k \in CoreType
  PROVE  /\ InPlace(k, MemStage(k)) /\ MemStage(k) = k.pipe_stages[MEM]
         /\ Address(k) \in Words /\ Word(k) \in Words
         /\ \A word \in Words : InPlace(k, Holding(k, word))
         /\ \A word : Holding(k, word).output = word
               /\ Holding(k, word).pc = k.pipe_stages[MEM].pc
               /\ Holding(k, word).instruction = k.pipe_stages[MEM].instruction
  <1>1. /\ MemStage(k) \in StageType /\ Address(k) \in Words /\ Word(k) \in Words
        /\ \A word \in Words : Holding(k, word) \in StageType
    BY MemTypes
  <1>2. MemStage(k) = k.pipe_stages[MEM]
    BY DEF MemStage
  <1>3. \A word : Holding(k, word).output = word
          /\ Holding(k, word).pc = k.pipe_stages[MEM].pc
          /\ Holding(k, word).instruction = k.pipe_stages[MEM].instruction
    BY <1>1, <1>2 DEF Holding, StageType
  <1> QED BY <1>1, <1>2, <1>3 DEF InPlace

\* A cycle keeps a core in bounds.
LEMMA CycleInBounds ==
  ASSUME NEW k, NEW last, InBounds(k, last), NEW stalled, NEW memory, NEW n,
         Cycle(k, stalled, memory, n)
  PROVE  InBounds(n, last) /\ n.program = k.program
  <1>1. k \in CoreType /\ Reaches(k.program, last) /\ Fetched(k) /\ Bounded(k, last)
    BY Zenon DEF InBounds
  <1>2. stalled \in BOOLEAN /\ InPlace(k, memory)
    BY Zenon DEF Cycle
  <1>3. /\ n \in CoreType /\ CycleEffect(k, n)
        /\ StallEffect(k, memory, n) \/ MoveEffect(k, memory, n)
    BY <1>1, <1>2, CycledFacts, Zenon
  <1>4. Fetched(n)
    BY <1>1, <1>2, <1>3, FetchedStep
  <1>5. Bounded(n, last)
    BY <1>1, <1>2, <1>3, BoundedStep
  <1>6. n.program = k.program
    BY <1>3 DEF CycleEffect
  <1> QED BY <1>1, <1>3, <1>4, <1>5, <1>6 DEF InBounds

\* So does its end.
LEMMA TerminatedInBounds ==
  ASSUME NEW k, NEW last, InBounds(k, last), NEW n, n = Terminated(k)
  PROVE  InBounds(n, last) /\ n.program = k.program
  <1>1. k \in CoreType /\ Reaches(k.program, last) /\ Fetched(k) /\ Bounded(k, last)
    BY Zenon DEF InBounds
  <1>2. n \in CoreType
    BY <1>1, StartedType
  <1>3. /\ n.program = k.program /\ n.pc = k.pc /\ n.pipe_stages = k.pipe_stages
        /\ n.is_data_stall = k.is_data_stall /\ n.is_mem_stall = k.is_mem_stall
        /\ n.is_pip_halt = k.is_pip_halt
    BY <1>1, TerminatedFacts
  <1>4. Fetched(n) /\ Bounded(n, last)
    BY <1>1, <1>3 DEF Fetched, Bounded, Hazards, Conflict, Reads, Op
  <1> QED BY <1>1, <1>2, <1>3, <1>4, Zenon DEF InBounds

\* A core stays in bounds, and the data words.
LEMMA CallInBounds ==
  ASSUME NEW k, NEW last, InBounds(k, last), NEW data \in [Words -> Words],
         NEW n, NEW after, CallOf(k, n, data, after)
  PROVE  InBounds(n, last) /\ n.program = k.program /\ after \in [Words -> Words]
  <1>1. k \in CoreType
    BY Zenon DEF InBounds
  <1>2. /\ Address(k) \in Words /\ Word(k) \in Words /\ data[Address(k)] \in Words
        /\ InPlace(k, MemStage(k)) /\ \A word \in Words : InPlace(k, Holding(k, word))
        /\ k.is_mem_stall \in BOOLEAN
    BY <1>1, MemOutcomes, CoreParts
  <1>3. after \in [Words -> Words]
    BY <1>2 DEF CallOf
  <1>4. \/ \E stalled, memory : Cycle(k, stalled, memory, n)
        \/ n = Terminated(k)
        \/ n = k
    BY <1>2 DEF CallOf, Cycle
  <1> QED BY <1>3, <1>4, CycleInBounds, TerminatedInBounds

-----------------------------------------------------------------------------
(* The machine of Isa.tla, read off two cores.                             *)

\* The machine stands still.
Stands(k, n) ==
    /\ n.program = k.program /\ WrittenBack(n) = WrittenBack(k)
    /\ PcOfIsa(n) = PcOfIsa(k) /\ NextOfIsa(n) = NextOfIsa(k)

\* What the instruction i leaves of registers and data, when "next" is behind it.
Effect(i, next, regs, left, data, after) ==
    \/ i.op \in Arithmetic /\ left = Written(regs, i.rd, Result(regs, i)) /\ after = data
    \/ i.op \in Branches \ {"jal"} /\ left = regs /\ after = data
    \/ /\ i.op = "jal" /\ after = data
       /\ \E a \in IF next = HALTED THEN Words ELSE {(next + 1) % WORD} :
             left = [regs EXCEPT ![NEXT_INSTRUCTION_ADDRESS_REGISTER] = a]
    \/ i.op = "lw" /\ left = Written(regs, i.rd, data[AddressIn(regs, i)]) /\ after = data
    \/ /\ i.op = "sw" /\ left = regs
       /\ after = [data EXCEPT ![AddressIn(regs, i)] = Value(regs, i, i.rd)]

\* The machine carries out the instruction before which it stands.
CarriesOut(k, n, data, after) ==
    LET pc == PcOfIsa(k)
        next == NextOfIsa(k)
        i == InstructionAt(k.program, pc)
        regs == WrittenBack(k)
    IN  /\ pc # HALTED /\ n.program = k.program
        /\ PcOfIsa(n) = next
        /\ NextOfIsa(n) = IF next = HALTED THEN HALTED ELSE At(k.program, Succ(regs, i, next))
        /\ Effect(i, next, regs, WrittenBack(n), data, after)

\* When the stages move on, the instruction in MEM is carried out, if there is one.
LEMMA MovedStep ==
  ASSUME NEW k, NEW memory, NEW n, Sound(k), PlainStep(k, memory, n), MoveEffect(k, memory, n),
         NEW data, NEW after,
         InMem(k) /\ Op(k, MEM) = "lw" => memory.output = data[Address(k)],
         after = IF InMem(k) /\ Op(k, MEM) = "sw"
                 THEN [data EXCEPT ![Address(k)] = Word(k)] ELSE data
  PROVE  (Stands(k, n) /\ after = data) \/ CarriesOut(k, n, data, after)
  <1> DEFINE i == k.pipe_stages[MEM].instruction
             mem == Active(k.pipe_stages[MEM])
             regs == WrittenBack(k)
             left == WrittenBack(n)
             pc == PcOfIsa(k)
             next == NextOfIsa(k)
  <1>1. k \in CoreType /\ n.program = k.program /\ i \in Instruction
    <2>1. k \in CoreType /\ CycleEffect(k, n)
      BY Zenon DEF PlainStep, Step
    <2> QED BY <2>1, CoreParts, PhaseFacts DEF CycleEffect
  <1>2. /\ ~mem \/ i.op = "halt" => PcOfIsa(n) = pc /\ NextOfIsa(n) = next
        /\ mem /\ i.op # "halt" =>
             /\ pc # HALTED /\ InstructionAt(k.program, pc) = i
             /\ next = Executing(k)
             /\ PcOfIsa(n) = next
             /\ NextOfIsa(n) = IF next = HALTED THEN HALTED
                               ELSE At(k.program, Succ(regs, i, next))
    BY <1>1, MovedMapping
  <1>3. /\ ~mem \/ i.op \in {"halt", "sw"} \cup (Branches \ {"jal"}) => left = regs
        /\ mem /\ i.op \in Arithmetic => left = Written(regs, i.rd, Result(regs, i))
        /\ mem /\ i.op = "lw" => left = Written(regs, i.rd, memory.output)
        /\ mem /\ i.op = "jal" =>
             \E a \in IF Executing(k) = HALTED THEN Words ELSE {(Executing(k) + 1) % WORD} :
                left = [regs EXCEPT ![NEXT_INSTRUCTION_ADDRESS_REGISTER] = a]
        /\ mem => /\ AddressIn(regs, i) = Address(k)
                  /\ i.op = "sw" => Value(regs, i, i.rd) = Word(k)
    BY <1>1, MovedRegisters
  <1>4. /\ InMem(k) <=> mem /\ i.op \in Accesses
        /\ Op(k, MEM) = i.op
    BY DEF InMem, MemStage, Op
  <1> HIDE DEF pc, next, regs, left, mem
  <1>5. CASE ~mem \/ i.op = "halt"
    <2>1. ~InMem(k)
      BY <1>4, <1>5 DEF Accesses
    <2>2. Stands(k, n)
      BY <1>1, <1>2, <1>3, <1>5 DEF Stands, pc, next, regs, left
    <2> QED BY <2>1, <2>2
  <1>6. CASE mem /\ i.op # "halt"
    <2> DEFINE effect == Effect(i, next, regs, left, data, after)
    <2>1. ASSUME i.op \in Arithmetic PROVE effect
      BY <1>3, <1>4, <1>6, <2>1 DEF Arithmetic, Effect
    <2>2. ASSUME i.op \in Branches \ {"jal"} PROVE effect
      BY <1>3, <1>4, <1>6, <2>2 DEF Branches, Effect
    <2>3. ASSUME i.op = "jal" PROVE effect
      <3>1. \E a \in IF next = HALTED THEN Words ELSE {(next + 1) % WORD} :
               left = [regs EXCEPT ![NEXT_INSTRUCTION_ADDRESS_REGISTER] = a]
        BY <1>2, <1>3, <1>6, <2>3
      <3> QED BY <1>4, <2>3, <3>1 DEF Effect
    <2>4. ASSUME i.op = "lw" PROVE effect
      BY <1>3, <1>4, <1>6, <2>4 DEF Accesses, Effect
    <2>5. ASSUME i.op = "sw" PROVE effect
      BY <1>3, <1>4, <1>6, <2>5 DEF Accesses, Effect
    <2>6. i.op \in Arithmetic \cup Branches \cup {"lw", "sw"}
      BY <1>1, <1>6 DEF Instruction, Accesses
    <2>7. effect
      BY <2>1, <2>2, <2>3, <2>4, <2>5, <2>6
    <2>8. /\ pc # HALTED /\ PcOfIsa(n) = next /\ InstructionAt(k.program, pc) = i
          /\ NextOfIsa(n) = IF next = HALTED THEN HALTED
                            ELSE At(k.program, Succ(regs, i, next))
      BY <1>2, <1>6
    <2>9. CarriesOut(k, n, data, after)
      BY <1>1, <2>7, <2>8, Zenon DEF CarriesOut, pc, next, regs, left
    <2> QED BY <2>9
  <1> QED BY <1>5, <1>6

-----------------------------------------------------------------------------
(* A core implements that machine.                                         *)

\* The core is in bounds, and its stages agree with the machine.
InOrder(k, last) == InBounds(k, last) /\ Sound(k)

\* Nothing keeps the core from implementing the machine.
Keeps(k) == Plain(k.program) /\ Short(k.program) /\ ~LosesDecode(k) /\ ~MissesStore(k)

\* The addresses of a core in bounds are not that of an empty stage.
LEMMA BoundedAddresses ==
  ASSUME NEW k, NEW last, InBounds(k, last)
  PROVE  Addressed(k)
  <1>1. /\ k.pc \in Nat /\ k.pc <= last + 3
        /\ last \in Nat /\ last + 4 < MAX_INTEGER /\ MAX_INTEGER \in Nat
    BY CoreParts DEF InBounds, Bounded, Reaches, MAX_INTEGER
  <1> QED BY <1>1 DEF Addressed

\* A cycle keeps the core in order.  During a memory stall the machine stands still; at its
\* end, or without one, it carries out the instruction in MEM.
LEMMA CycleInOrder ==
  ASSUME NEW k, NEW last, InOrder(k, last), Keeps(k), NEW data, NEW after, NEW n,
         NEW stalled, NEW memory, Cycle(k, stalled, memory, n), Outcome(k, memory),
         stalled => InMem(k) /\ after = data,
         ~stalled =>
           /\ InMem(k) /\ Op(k, MEM) = "lw" => memory.output = data[Address(k)]
           /\ after = IF InMem(k) /\ Op(k, MEM) = "sw"
                      THEN [data EXCEPT ![Address(k)] = Word(k)] ELSE data
  PROVE  Sound(n) /\ ((Stands(k, n) /\ after = data) \/ CarriesOut(k, n, data, after))
  <1>1. k \in CoreType /\ Fetched(k) /\ Sound(k) /\ Addressed(k) /\ stalled \in BOOLEAN
        /\ InPlace(k, memory)
    BY BoundedAddresses, Zenon DEF InOrder, InBounds, Cycle
  <1>2. /\ n \in CoreType /\ CycleEffect(k, n)
        /\ stalled => StallEffect(k, memory, n)
        /\ ~stalled => MoveEffect(k, memory, n)
    BY <1>1, CycledFacts, Zenon
  <1>3. PlainStep(k, memory, n)
    BY <1>1, <1>2, Zenon DEF PlainStep, Step, Keeps
  <1>4. CASE stalled
    <2>1. Sound(n)
      BY <1>1, <1>2, <1>3, <1>4, SoundStalled
    <2>2. /\ WrittenBack(n) = WrittenBack(k)
          /\ PcOfIsa(n) = PcOfIsa(k) /\ NextOfIsa(n) = NextOfIsa(k)
      BY <1>1, <1>2, <1>3, <1>4, StalledMapping
    <2>3. n.program = k.program
      BY <1>2, Zenon DEF CycleEffect
    <2> QED BY <1>4, <2>1, <2>2, <2>3 DEF Stands
  <1>5. CASE ~stalled
    <2>1. Sound(n)
      BY <1>1, <1>2, <1>3, <1>5, SoundMoved
    <2>2. (Stands(k, n) /\ after = data) \/ CarriesOut(k, n, data, after)
      BY <1>1, <1>2, <1>3, <1>5, MovedStep
    <2> QED BY <2>1, <2>2
  <1> QED BY <1>1, <1>4, <1>5

\* A core that differs in nothing but its flag is_core_terminated is in order, too, when its
\* stages are empty.
LEMMA SoundDrained ==
  ASSUME NEW k \in CoreType, Fetched(k), Shaped(k), RegistersKept(k), k.is_pip_halt,
         \A p \in Phases : ~Active(k.pipe_stages[p]), NEW n, n = Terminated(k)
  PROVE  Sound(n) /\ Stands(k, n)
  <1>1. n \in CoreType
    BY StartedType
  <1>2. /\ n.program = k.program /\ n.regs = k.regs /\ n.pipe_stages = k.pipe_stages
        /\ n.is_data_stall = k.is_data_stall /\ n.is_mem_stall = k.is_mem_stall
        /\ n.is_pip_halt = k.is_pip_halt
    BY TerminatedFacts
  <1>3. \A p \in {FETCH, DECODE, EXECUTE, MEM, WRITE_BACK} :
           ~Active(k.pipe_stages[p]) /\ ~Active(n.pipe_stages[p])
    BY <1>2, PhaseFacts
  <1>4. ~k.is_mem_stall
    BY <1>3, PhaseFacts DEF Shaped, InMem, MemStage
  <1>5. Shaped(n) /\ ~Frozen(n)
    BY <1>2, <1>3, <1>4 DEF Shaped, Frozen
  <1>6. WrittenBack(n) = n.regs /\ WrittenBack(k) = k.regs
    BY <1>2, <1>3, PhaseFacts DEF WrittenBack
  <1>7. Sound(n)
    BY <1>2, <1>3, <1>5, <1>6 DEF Sound, Undisturbed, ControlInv, OutputInv, RegistersKept
  <1>8. Fetched(n)
    BY <1>2, <1>3, <1>4 DEF Fetched
  <1>9. Executing(k) = HALTED /\ Executing(n) = HALTED
    BY <1>2, <1>3, PhaseFacts DEF Executing, Decoding
  <1>10. PcOfIsa(k) = HALTED /\ PcOfIsa(n) = HALTED
    BY <1>1, <1>3, <1>5, <1>8, <1>9, PhaseFacts, MappingFacts
  <1> QED BY <1>2, <1>6, <1>7, <1>10 DEF Stands, NextOfIsa

\* Each call keeps the core in order and is a step of the machine, or none.
LEMMA CallInOrder ==
  ASSUME NEW k, NEW last, InOrder(k, last), Keeps(k), NEW data \in [Words -> Words],
         NEW n, NEW after, CallOf(k, n, data, after)
  PROVE  /\ InOrder(n, last)
         /\ (Stands(k, n) /\ after = data) \/ CarriesOut(k, n, data, after)
  <1> DEFINE goal == Sound(n) /\ ((Stands(k, n) /\ after = data) \/ CarriesOut(k, n, data, after))
  <1>1. /\ k \in CoreType /\ InBounds(k, last) /\ Sound(k) /\ Fetched(k)
        /\ Shaped(k) /\ RegistersKept(k)
    BY Zenon DEF InOrder, InBounds, Sound
  <1>2. InBounds(n, last)
    BY <1>1, CallInBounds
  <1>3. /\ InPlace(k, MemStage(k)) /\ MemStage(k) = k.pipe_stages[MEM]
        /\ Word(k) \in Words /\ data[Address(k)] \in Words
        /\ \A word \in Words : InPlace(k, Holding(k, word))
        /\ \A word : Holding(k, word).output = word
    BY <1>1, MemOutcomes
  <1>4. ASSUME ~InMem(k), n = Cycled(k, k.is_mem_stall, MemStage(k)), after = data
        PROVE  goal
    <2>1. k.is_mem_stall = FALSE
      BY <1>1, <1>4, CoreParts DEF Shaped
    <2>2. Cycle(k, FALSE, MemStage(k), n)
      BY <1>3, <1>4, <2>1 DEF Cycle
    <2>3. Outcome(k, MemStage(k))
      BY <1>3, <1>4 DEF Outcome, InMem, Op, Accesses
    <2> QED BY <1>4, <2>2, <2>3, CycleInOrder
  <1>5. ASSUME InMem(k), n = Cycled(k, TRUE, Holding(k, Word(k))), after = data
        PROVE  goal
    <2>1. Cycle(k, TRUE, Holding(k, Word(k)), n)
      BY <1>3, <1>5 DEF Cycle
    <2>2. Outcome(k, Holding(k, Word(k)))
      BY <1>3, <1>5 DEF Outcome, InMem, Op
    <2> QED BY <1>5, <2>1, <2>2, CycleInOrder
  <1>6. ASSUME InMem(k), Op(k, MEM) = "lw", after = data,
               n = Cycled(k, FALSE, Holding(k, data[Address(k)]))
        PROVE  goal
    <2>1. Cycle(k, FALSE, Holding(k, data[Address(k)]), n)
      BY <1>3, <1>6 DEF Cycle
    <2>2. Outcome(k, Holding(k, data[Address(k)]))
      BY <1>3, <1>6 DEF Outcome, InMem, Op
    <2>3. Holding(k, data[Address(k)]).output = data[Address(k)]
      BY <1>3
    <2> QED BY <1>6, <2>1, <2>2, <2>3, CycleInOrder
  <1>7. ASSUME InMem(k), Op(k, MEM) = "sw", n = Cycled(k, FALSE, Holding(k, Word(k))),
               after = [data EXCEPT ![Address(k)] = Word(k)]
        PROVE  goal
    <2>1. Cycle(k, FALSE, Holding(k, Word(k)), n)
      BY <1>3, <1>7 DEF Cycle
    <2>2. Outcome(k, Holding(k, Word(k)))
      BY <1>3, <1>7 DEF Outcome, InMem, Op
    <2> QED BY <1>7, <2>1, <2>2, CycleInOrder
  <1>8. ASSUME Halts(k), n = Terminated(k), after = data
        PROVE  goal
    BY <1>1, <1>8, SoundDrained DEF Halts, Drained
  <1>9. ASSUME n = k, after = data
        PROVE  goal
    BY <1>1, <1>9 DEF Stands
  <1>10. goal
    BY <1>4, <1>5, <1>6, <1>7, <1>8, <1>9, Zenon DEF CallOf
  <1> QED BY <1>2, <1>10 DEF InOrder

\* A core that starts, or has terminated before it starts, is in order, and the machine stands
\* before the first instruction.
LEMMA StartInOrder ==
  ASSUME NEW program \in AnyProgram, NEW last, Reaches(program, last),
         NEW k, k \in {Started(program), Terminated(Started(program))}
  PROVE  /\ InOrder(k, last) /\ k.program = program
         /\ WrittenBack(k) = [r \in Registers |-> 0]
         /\ PcOfIsa(k) = At(program, 0)
         /\ NextOfIsa(k) = IF PcOfIsa(k) = HALTED THEN HALTED ELSE At(program, 1)
  <1> DEFINE s == Started(program)
  <1>1. /\ s.program = program /\ s.pc = 0 /\ s.regs = [r \in Registers |-> 0]
        /\ ~s.is_mem_stall /\ ~s.is_data_stall /\ ~s.is_pip_halt
        /\ s.pipe_stages[FETCH].output = 0 /\ ~s.pipe_stages[FETCH].decoded
        /\ \A p \in {DECODE, EXECUTE, MEM, WRITE_BACK} : ~Active(s.pipe_stages[p])
    BY StartedFacts
  <1>2. s \in CoreType /\ Terminated(s) \in CoreType /\ Fetched(s) /\ Bounded(s, last)
    BY StartedType, StartedBounded
  <1> HIDE DEF s
  <1>3. /\ k \in CoreType /\ k.program = s.program /\ k.pc = s.pc /\ k.regs = s.regs
        /\ k.pipe_stages = s.pipe_stages
        /\ k.is_data_stall = s.is_data_stall /\ k.is_mem_stall = s.is_mem_stall
        /\ k.is_pip_halt = s.is_pip_halt
    BY <1>2, TerminatedFacts DEF s
  <1>4. Fetched(k) /\ Bounded(k, last)
    BY <1>2, <1>3 DEF Fetched, Bounded, Hazards, Conflict, Reads, Op
  <1>5. Shaped(k) /\ ~Frozen(k)
    BY <1>1, <1>3 DEF Shaped, Frozen
  <1>6. WrittenBack(k) = [r \in Registers |-> 0]
    BY <1>1, <1>3 DEF WrittenBack
  <1>7. RegistersKept(k)
    BY <1>1, <1>3, <1>6, InstructionsAssumption DEF RegistersKept, REG_ZERO
  <1>8. Sound(k)
    BY <1>1, <1>3, <1>5, <1>7 DEF Sound, Undisturbed, ControlInv, OutputInv
  <1>9. Executing(k) = At(program, 0) /\ BehindExecuting(k) = At(program, 1)
    BY <1>1, <1>3 DEF Executing, BehindExecuting, Decoding, Fetching
  <1>10. /\ PcOfIsa(k) = At(program, 0)
         /\ NextOfIsa(k) = IF PcOfIsa(k) = HALTED THEN HALTED ELSE At(program, 1)
    BY <1>1, <1>3, <1>4, <1>5, <1>9, MappingFacts
  <1> QED BY <1>1, <1>3, <1>4, <1>6, <1>8, <1>10 DEF InOrder, InBounds

-----------------------------------------------------------------------------
(* How many instructions are on their way.                                 *)

One(condition) == IF condition THEN 1 ELSE 0

\* A stage holds an instruction that is not a halt, or a halt.
Works(stage) == Active(stage) /\ stage.instruction.op # "halt"
Ends(stage) == Active(stage) /\ stage.instruction.op = "halt"

\* The last cycle has stalled, or brought a new instruction.
Stalled(k) == k.is_mem_stall \/ k.is_data_stall
Legal(k) == ~k.is_pip_halt /\ ~k.is_mem_stall /\ ~k.is_data_stall

\* The instructions that are counted and have not left MEM: those in the stages, one in FETCH
\* that a stall keeps from DECODE, and at the end the halt and the one fetched behind it.
UnderWay(k) ==
    One(Works(k.pipe_stages[EXECUTE])) + One(Works(k.pipe_stages[MEM]))
      + (IF k.is_pip_halt THEN 2 ELSE One(Active(k.pipe_stages[DECODE])) + One(Stalled(k)))

\* A stall keeps something in FETCH, a memory stall an access in MEM and no halt in DECODE.
Flowing(k) ==
    /\ ~k.is_pip_halt /\ Stalled(k) => Active(k.pipe_stages[FETCH])
    /\ ~k.is_pip_halt /\ k.is_mem_stall => ~Ends(k.pipe_stages[DECODE])
    /\ k.is_mem_stall => InMem(k)

\* A core whose instructions can be counted.
Countable(k) ==
    /\ k \in CoreType /\ Fetched(k) /\ Addressed(k) /\ HaltsAtOnce(k.program)
    /\ Flowing(k)

\* A cycle of such a core.
Counting(k, stalled, memory, n) ==
    Countable(k) /\ Cycle(k, stalled, memory, n) /\ (stalled => InMem(k))

\* One for a condition.
LEMMA OneFacts ==
  ASSUME NEW condition \in BOOLEAN
  PROVE  /\ One(condition) \in {0, 1}
         /\ condition => One(condition) = 1
         /\ ~condition => One(condition) = 0
  BY DEF One

\* A halt in a stage names no register.
LEMMA HaltInStage ==
  ASSUME NEW k, Countable(k), NEW p \in {DECODE, EXECUTE, MEM, WRITE_BACK},
         Ends(k.pipe_stages[p])
  PROVE  {k.pipe_stages[p].instruction.rd, k.pipe_stages[p].instruction.rs,
          k.pipe_stages[p].instruction.rt} \subseteq {REG_ZERO, REG_IMM}
  <1>1. k.pipe_stages[p].instruction = InstructionAt(k.program, k.pipe_stages[p].pc)
        /\ k.pipe_stages[p].instruction.op = "halt"
    BY Zenon DEF Countable, Fetched, Ends
  <1>2. Halt.rd = REG_ZERO /\ Halt.rs = REG_ZERO /\ Halt.rt = REG_ZERO
    BY DEF Halt, REG_ZERO
  <1>3. HaltsAtOnce(k.program)
    BY DEF Countable
  <1> QED BY <1>1, <1>2, <1>3 DEF InstructionAt, HaltsAtOnce

\* No hazard comes of an instruction without registers.
LEMMA NoRegisters ==
  ASSUME NEW k, {k.pipe_stages[DECODE].instruction.rd, k.pipe_stages[DECODE].instruction.rs,
                 k.pipe_stages[DECODE].instruction.rt} \subseteq {REG_ZERO, REG_IMM}
  PROVE  ~Hazards(k)
  <1>1. Reads(k, k.pipe_stages[DECODE].instruction) \ {REG_ZERO, REG_IMM} = {}
    BY DEF Reads
  <1> QED BY <1>1 DEF Hazards, Conflict

\* Hence a core that has something to decode and does not stall decodes a halt.
LEMMA HaltDecoded ==
  ASSUME NEW k, Countable(k), Ends(k.pipe_stages[DECODE])
  PROVE  /\ ~Hazards(k)
         /\ ~k.is_mem_stall => Decodes(k) /\ Decode(k).halt
  <1>1. ~Hazards(k)
    BY HaltInStage, NoRegisters
  <1>2. ~k.is_mem_stall => Decodes(k)
    BY <1>1 DEF Decodes, Ends
  <1>3. k \in CoreType
    BY DEF Countable
  <1> QED BY <1>1, <1>2, <1>3, DecodeFacts DEF Ends

\* What a cycle of a core makes of its stages, in the words of this section.
LEMMA CountingFacts ==
  ASSUME NEW k, NEW stalled, NEW memory, NEW n, Counting(k, stalled, memory, n)
  PROVE  /\ k \in CoreType /\ n \in CoreType /\ InPlace(k, memory) /\ stalled \in BOOLEAN
         /\ CycleEffect(k, n) /\ Fetched(n)
         /\ stalled => StallEffect(k, memory, n)
         /\ ~stalled => MoveEffect(k, memory, n)
         /\ n.is_mem_stall = stalled
         /\ n.is_mem_stall => stalled /\ StallEffect(k, memory, n)
         /\ ~n.is_mem_stall => ~stalled /\ MoveEffect(k, memory, n)
         /\ n.is_pip_halt <=> Decode(k).halt
         /\ k.is_mem_stall \in BOOLEAN /\ k.is_data_stall \in BOOLEAN /\ k.is_pip_halt \in BOOLEAN
         /\ Decode(k).halt \in BOOLEAN /\ Hazards(k) \in BOOLEAN
         /\ k.is_pip_halt => Decode(k).halt
         /\ n.is_data_stall = Hazards(k)
         /\ n.program = k.program
  <1>1. /\ k \in CoreType /\ Fetched(k) /\ Cycle(k, stalled, memory, n)
        /\ InPlace(k, memory) /\ stalled \in BOOLEAN
    BY Zenon DEF Counting, Countable, Cycle
  <1>2. /\ n \in CoreType /\ CycleEffect(k, n)
        /\ stalled => StallEffect(k, memory, n)
        /\ ~stalled => MoveEffect(k, memory, n)
    BY <1>1, CycledFacts, Zenon
  <1>3. Fetched(n)
    BY <1>1, <1>2, FetchedStep
  <1>4. n.is_mem_stall = stalled
    BY <1>1, <1>2 DEF StallEffect, MoveEffect
  <1>5. /\ k.is_mem_stall \in BOOLEAN /\ k.is_data_stall \in BOOLEAN /\ k.is_pip_halt \in BOOLEAN
        /\ Decode(k).halt \in BOOLEAN /\ Hazards(k) \in BOOLEAN
    BY <1>1, CoreParts, CycleTypes
  <1>6. k.is_pip_halt => Decode(k).halt
    BY <1>1, DecodeFacts
  <1>7. n.is_pip_halt = Decode(k).halt /\ n.is_data_stall = Hazards(k) /\ n.program = k.program
    BY <1>2 DEF CycleEffect
  <1>8. /\ n.is_mem_stall => stalled /\ StallEffect(k, memory, n)
        /\ ~n.is_mem_stall => ~stalled /\ MoveEffect(k, memory, n)
        /\ n.is_pip_halt <=> Decode(k).halt
    BY <1>1, <1>2, <1>4, <1>5, <1>7
  <1> QED BY <1>1, <1>2, <1>3, <1>4, <1>5, <1>6, <1>7, <1>8

\* A cycle keeps that.
LEMMA FlowingStep ==
  ASSUME NEW k, NEW stalled, NEW memory, NEW n, Counting(k, stalled, memory, n)
  PROVE  Flowing(n)
  <1>1. /\ k \in CoreType /\ Countable(k) /\ Flowing(k) /\ Addressed(k) /\ Fetched(k)
        /\ (stalled => InMem(k))
    BY Zenon DEF Counting, Countable
  <1>2. ASSUME ~n.is_pip_halt, Stalled(n)
        PROVE  Active(n.pipe_stages[FETCH])
    <2>1. ~Decode(k).halt /\ ~k.is_pip_halt /\ n.pipe_stages[FETCH] = Fetch(k).stage
      BY <1>2, CountingFacts DEF CycleEffect
    <2>2. CASE k.is_mem_stall
      BY <1>1, <2>1, <2>2, FetchFacts DEF Flowing, Stalled
    <2>3. CASE ~k.is_mem_stall
      BY <1>1, <2>1, <2>3, FetchFacts DEF Addressed, Active
    <2> QED BY <2>2, <2>3
  <1>3. ASSUME ~n.is_pip_halt, n.is_mem_stall, Ends(n.pipe_stages[DECODE])
        PROVE  FALSE
    <2>0. StallEffect(k, memory, n) /\ ~Decode(k).halt /\ ~k.is_pip_halt
      BY <1>3, CountingFacts, Zenon
    <2>1. n.pipe_stages[DECODE] = Decode(k).stage
      BY <2>0 DEF StallEffect
    <2>2. Ends(k.pipe_stages[DECODE])
      BY <1>1, <1>3, <2>1, DecodeFacts DEF Ends, Active
    <2> QED BY <1>1, <2>0, <2>2, HaltDecoded DEF Flowing
  <1>4. ASSUME n.is_mem_stall
        PROVE  InMem(n)
    <2>0. StallEffect(k, memory, n) /\ InMem(k) /\ InPlace(k, memory)
      BY <1>1, <1>4, CountingFacts, Zenon
    <2>1. n.pipe_stages[MEM] = memory
      BY <2>0 DEF StallEffect
    <2> QED BY <2>0, <2>1 DEF InMem, MemStage, InPlace, Op, Active
  <1> QED BY <1>2, <1>3, <1>4 DEF Flowing

\* Where a cycle takes the contents of the stages.
LEMMA StagesMoved ==
  ASSUME NEW k, NEW stalled, NEW memory, NEW n, Counting(k, stalled, memory, n)
  PROVE  /\ stalled =>
              /\ Active(n.pipe_stages[EXECUTE]) <=> Active(k.pipe_stages[EXECUTE])
              /\ Ends(n.pipe_stages[EXECUTE]) <=> Ends(k.pipe_stages[EXECUTE])
              /\ Active(n.pipe_stages[MEM]) <=> Active(k.pipe_stages[MEM])
              /\ Ends(n.pipe_stages[MEM]) <=> Ends(k.pipe_stages[MEM])
              /\ ~Active(n.pipe_stages[WRITE_BACK])
         /\ ~stalled =>
              /\ Active(n.pipe_stages[EXECUTE]) <=> Active(k.pipe_stages[DECODE]) /\ ~Hazards(k)
              /\ Ends(n.pipe_stages[EXECUTE]) <=> Ends(k.pipe_stages[DECODE]) /\ ~Hazards(k)
              /\ Active(n.pipe_stages[MEM]) <=> Active(k.pipe_stages[EXECUTE])
              /\ Ends(n.pipe_stages[MEM]) <=> Ends(k.pipe_stages[EXECUTE])
              /\ Active(n.pipe_stages[WRITE_BACK]) <=> Active(k.pipe_stages[MEM])
              /\ Ends(n.pipe_stages[WRITE_BACK]) <=> Ends(k.pipe_stages[MEM])
  <1>1. k \in CoreType /\ InPlace(k, memory)
    BY CountingFacts
  <1>2. /\ Active(Execute(k)) <=> Active(k.pipe_stages[EXECUTE])
        /\ Ends(Execute(k)) <=> Ends(k.pipe_stages[EXECUTE])
    BY <1>1, ExecuteFacts DEF Active, Ends
  <1>3. /\ Active(Decode(k).stage) <=> Active(k.pipe_stages[DECODE])
        /\ Ends(Decode(k).stage) <=> Ends(k.pipe_stages[DECODE])
    BY <1>1, DecodeFacts DEF Active, Ends
  <1>4. /\ Active(memory) <=> Active(k.pipe_stages[MEM])
        /\ Ends(memory) <=> Ends(k.pipe_stages[MEM])
    BY <1>1 DEF InPlace, Active, Ends
  <1>5. CASE stalled
    <2>1. StallEffect(k, memory, n)
      BY <1>5, CountingFacts
    <2> QED BY <1>2, <1>4, <1>5, <2>1 DEF StallEffect
  <1>6. CASE ~stalled
    <2>1. MoveEffect(k, memory, n)
      BY <1>6, CountingFacts
    <2> QED BY <1>2, <1>3, <1>4, <1>6, <2>1 DEF MoveEffect, Ends
  <1> QED BY <1>5, <1>6

\* What it leaves in DECODE, until a halt is decoded.
LEMMA DecodeMoved ==
  ASSUME NEW k, NEW stalled, NEW memory, NEW n, Counting(k, stalled, memory, n)
  PROVE  /\ n.is_pip_halt => ~Active(n.pipe_stages[DECODE])
         /\ ~n.is_pip_halt /\ (stalled \/ Hazards(k)) =>
              (Active(n.pipe_stages[DECODE]) <=> Active(k.pipe_stages[DECODE]))
         /\ ~n.is_pip_halt /\ ~stalled /\ ~Hazards(k) => Active(n.pipe_stages[DECODE])
         /\ n.is_pip_halt /\ ~k.is_pip_halt =>
              Ends(k.pipe_stages[DECODE]) /\ ~k.is_mem_stall /\ ~Hazards(k)
         /\ k.is_pip_halt => ~Active(k.pipe_stages[DECODE])
         /\ ~n.is_pip_halt /\ ~Hazards(k) => ~Ends(k.pipe_stages[DECODE])
  <1>1. k \in CoreType /\ Countable(k) /\ Flowing(k) /\ Addressed(k) /\ Fetched(k)
    BY Zenon DEF Counting, Countable
  <1>2. Active(Decode(k).stage) <=> Active(k.pipe_stages[DECODE])
    BY <1>1, DecodeFacts DEF Active
  <1>3. n.is_pip_halt => ~Active(n.pipe_stages[DECODE])
    BY CountingFacts DEF Fetched
  <1>4. ASSUME ~n.is_pip_halt, stalled \/ Hazards(k)
        PROVE  Active(n.pipe_stages[DECODE]) <=> Active(k.pipe_stages[DECODE])
    <2>1. ~Decode(k).halt
      BY <1>4, CountingFacts
    <2>2. StallEffect(k, memory, n) \/ (MoveEffect(k, memory, n) /\ Hazards(k))
      BY <1>4, CountingFacts
    <2> QED BY <1>2, <2>1, <2>2 DEF StallEffect, MoveEffect
  <1>5. ASSUME ~n.is_pip_halt, ~stalled, ~Hazards(k)
        PROVE  Active(n.pipe_stages[DECODE])
    <2>1. ~Decode(k).halt /\ ~k.is_pip_halt /\ MoveEffect(k, memory, n)
      BY <1>5, CountingFacts
    <2>2. Active(Fetch(k).stage)
      <3>1. CASE k.is_mem_stall
        BY <1>1, <2>1, <3>1, FetchFacts DEF Flowing, Stalled
      <3>2. CASE ~k.is_mem_stall
        BY <1>1, <2>1, <3>2, FetchFacts DEF Addressed, Active
      <3> QED BY <3>1, <3>2
    <2> QED BY <1>5, <2>1, <2>2 DEF MoveEffect
  <1>6. ASSUME n.is_pip_halt, ~k.is_pip_halt
        PROVE  Ends(k.pipe_stages[DECODE]) /\ ~k.is_mem_stall /\ ~Hazards(k)
    <2>1. Decode(k).halt
      BY <1>6, CountingFacts
    <2>2. Decodes(k) /\ k.pipe_stages[DECODE].instruction.op = "halt"
      BY <1>1, <1>6, <2>1, DecodeFacts
    <2> QED BY <2>2 DEF Decodes, Ends
  <1>7. k.is_pip_halt => ~Active(k.pipe_stages[DECODE])
    BY <1>1 DEF Fetched
  <1>8. ASSUME ~n.is_pip_halt, Ends(k.pipe_stages[DECODE])
        PROVE  FALSE
    <2>1. ~Decode(k).halt /\ ~k.is_pip_halt
      BY <1>8, CountingFacts
    <2> QED BY <1>1, <1>8, <2>1, HaltDecoded DEF Flowing
  <1> QED BY <1>3, <1>4, <1>5, <1>6, <1>7, <1>8

\* An instruction is on its way from the cycle that counts it until it leaves MEM.
LEMMA UnderWayStep ==
  ASSUME NEW k, NEW stalled, NEW memory, NEW n, Counting(k, stalled, memory, n)
  PROVE  UnderWay(n) + One(Works(k.pipe_stages[MEM]) /\ ~stalled) = UnderWay(k) + One(Legal(k))
  <1> DEFINE inDecode == One(Active(k.pipe_stages[DECODE]))
             inExecute == One(Works(k.pipe_stages[EXECUTE]))
             inMem == One(Works(k.pipe_stages[MEM]))
  <1>1. inDecode \in Nat /\ inExecute \in Nat /\ inMem \in Nat
    BY DEF One
  <1>2. \A stage : Works(stage) <=> Active(stage) /\ ~Ends(stage)
    BY DEF Works, Ends
  <1>3. /\ k.is_mem_stall \in BOOLEAN /\ k.is_data_stall \in BOOLEAN /\ k.is_pip_halt \in BOOLEAN
        /\ stalled \in BOOLEAN /\ n.is_mem_stall = stalled /\ n.is_data_stall = Hazards(k)
        /\ Hazards(k) \in BOOLEAN /\ (k.is_pip_halt => n.is_pip_halt)
    BY CountingFacts
  <1>4. UnderWay(k) + One(Legal(k)) = inExecute + inMem + IF k.is_pip_halt THEN 2 ELSE inDecode + 1
    BY <1>1, <1>3 DEF UnderWay, Legal, Stalled, One
  <1>5. CASE stalled
    <2>1. /\ One(Works(n.pipe_stages[EXECUTE])) = inExecute
          /\ One(Works(n.pipe_stages[MEM])) = inMem
      BY <1>2, <1>5, StagesMoved DEF One
    <2>2. n.is_pip_halt /\ ~k.is_pip_halt => inDecode = 1
      BY DecodeMoved DEF Ends, One
    <2>3. ~n.is_pip_halt => One(Active(n.pipe_stages[DECODE])) = inDecode /\ One(Stalled(n)) = 1
      BY <1>3, <1>5, DecodeMoved DEF One, Stalled
    <2>4. UnderWay(n) = inExecute + inMem
                          + IF n.is_pip_halt THEN 2
                            ELSE One(Active(n.pipe_stages[DECODE])) + One(Stalled(n))
      BY <2>1 DEF UnderWay
    <2>5. One(Works(k.pipe_stages[MEM]) /\ ~stalled) = 0
      BY <1>5 DEF One
    <2> HIDE DEF inDecode, inExecute, inMem
    <2> QED BY <1>1, <1>3, <1>4, <2>2, <2>3, <2>4, <2>5
  <1>6. CASE ~stalled
    <2>1. One(Works(n.pipe_stages[MEM])) = inExecute
      BY <1>2, <1>6, StagesMoved DEF One
    <2>2. One(Works(k.pipe_stages[MEM]) /\ ~stalled) = inMem
      BY <1>6 DEF One
    <2>3. CASE n.is_pip_halt
      <3>1. One(Works(n.pipe_stages[EXECUTE])) = 0
        BY <1>2, <1>6, <2>3, StagesMoved, DecodeMoved DEF One, Ends
      <3>2. ~k.is_pip_halt => inDecode = 1
        BY <2>3, DecodeMoved DEF Ends, One
      <3>3. UnderWay(n) = 0 + inExecute + 2
        BY <2>1, <2>3, <3>1 DEF UnderWay
      <3> HIDE DEF inDecode, inExecute, inMem
      <3> QED BY <1>1, <1>3, <1>4, <2>2, <3>2, <3>3
    <2>4. CASE ~n.is_pip_halt
      <3>1. One(Works(n.pipe_stages[EXECUTE])) = IF Hazards(k) THEN 0 ELSE inDecode
        BY <1>2, <1>6, <2>4, StagesMoved, DecodeMoved DEF One
      <3>2. One(Active(n.pipe_stages[DECODE])) = IF Hazards(k) THEN inDecode ELSE 1
        BY <1>6, <2>4, DecodeMoved DEF One
      <3>3. One(Stalled(n)) = IF Hazards(k) THEN 1 ELSE 0
        BY <1>3, <1>6 DEF One, Stalled
      <3>4. UnderWay(n) = One(Works(n.pipe_stages[EXECUTE])) + inExecute
                            + (One(Active(n.pipe_stages[DECODE])) + One(Stalled(n)))
        BY <2>1, <2>4 DEF UnderWay
      <3> HIDE DEF inDecode, inExecute, inMem
      <3>5. UnderWay(n) = inDecode + inExecute + 1
        BY <1>1, <3>1, <3>2, <3>3, <3>4
      <3>6. ~k.is_pip_halt
        BY <1>3, <2>4
      <3> QED BY <1>1, <1>4, <2>2, <3>5, <3>6
    <2> QED BY <2>3, <2>4
  <1> QED BY <1>3, <1>5, <1>6

\* The cycles that the stages of a halted core still take to empty, stalls apart.
ToDrain(k) ==
    IF Active(k.pipe_stages[EXECUTE]) THEN 3
    ELSE IF Active(k.pipe_stages[MEM]) THEN 2 ELSE One(Active(k.pipe_stages[WRITE_BACK]))

\* The halt is on its way, and the last to be.
HaltIsLast(k) ==
    \/ Ends(k.pipe_stages[EXECUTE])
    \/ ~Active(k.pipe_stages[EXECUTE]) /\ Ends(k.pipe_stages[MEM])
    \/ /\ ~Active(k.pipe_stages[EXECUTE]) /\ ~Active(k.pipe_stages[MEM])
       /\ Ends(k.pipe_stages[WRITE_BACK])

NamesNone(i) == {i.rd, i.rs, i.rt} \subseteq {REG_ZERO, REG_IMM}

\* The cycles of a core, and what is counted of instructions and stalls.  While a halted core
\* drains, the hazard check may still stall it for the instruction that the halt has taken out
\* of DECODE, unless that is the halt itself, but not when all but the halt have left.
Accounted(k, cycles, counted) ==
    /\ ~k.is_pip_halt => cycles + One(Stalled(k)) = counted
    /\ k.is_pip_halt =>
         /\ cycles + ToDrain(k) <= counted + 3
         /\ \/ /\ NamesNone(k.pipe_stages[DECODE].instruction)
               /\ cycles + ToDrain(k) >= counted + 1
            \/ HaltIsLast(k) /\ cycles >= counted
            \/ cycles >= counted + 1

\* An emptied DECODE keeps its instruction.
LEMMA VacatedInstruction ==
  ASSUME NEW k, NEW stalled, NEW memory, NEW n, Counting(k, stalled, memory, n), k.is_pip_halt
  PROVE  n.pipe_stages[DECODE].instruction = k.pipe_stages[DECODE].instruction
  <1>1. /\ k \in CoreType /\ Fetched(k) /\ n = Cycled(k, stalled, memory)
        /\ stalled \in BOOLEAN /\ memory \in StageType
    BY Zenon DEF Counting, Countable, Cycle, InPlace
  <1> DEFINE hazards == Hazards(k)
             decode == Decode(k)
             now == [k.pipe_stages EXCEPT ![FETCH] = Fetch(k).stage, ![DECODE] = decode.stage,
                                          ![EXECUTE] = Execute(k), ![MEM] = memory]
             waiting == [now EXCEPT ![WRITE_BACK].pc = MAX_INTEGER]
             handed == [p \in Phases |->
                          IF p = FETCH \/ (p = DECODE /\ hazards) THEN now[p]
                          ELSE IF p = EXECUTE /\ hazards THEN [now[p] EXCEPT !.pc = MAX_INTEGER]
                          ELSE HandedOn(now[p - 1], now[p])]
             moved == IF stalled THEN waiting ELSE handed
  <1>2. /\ decode.stage \in StageType /\ decode.halt = TRUE
        /\ decode.stage.instruction = k.pipe_stages[DECODE].instruction
        /\ Fetch(k).stage \in StageType /\ Execute(k) \in StageType
        /\ ~Active(Fetch(k).stage)
        /\ k.pipe_stages \in [Phases -> StageType]
    <2>1. ~Active(k.pipe_stages[FETCH]) /\ Fetch(k).stage = k.pipe_stages[FETCH]
      BY <1>1, FetchFacts DEF Fetched
    <2>2. decode.halt = TRUE
      BY <1>1, DecodeFacts, CycleTypes
    <2>3. decode.stage.instruction = k.pipe_stages[DECODE].instruction
      BY <1>1, DecodeFacts
    <2> QED BY <1>1, <2>1, <2>2, <2>3, CycleTypes, CoreParts
  <1>3. now \in [Phases -> StageType] /\ now[DECODE] = decode.stage /\ now[FETCH] = Fetch(k).stage
    BY <1>1, <1>2, PhaseFacts
  <1>4. n.pipe_stages = Vacated(moved, decode.halt)
    <2> HIDE DEF moved, decode
    <2>1. n = [k EXCEPT !.regs = WrittenBack(k), !.pc = decode.pc,
                        !.pipe_stages = Vacated(moved, decode.halt),
                        !.is_data_stall = hazards, !.is_mem_stall = stalled,
                        !.is_pip_halt = decode.halt]
      BY <1>1 DEF Cycled, moved, decode
    <2> QED BY <1>1, <2>1 DEF CoreType
  <1> HIDE DEF now
  <1>5. waiting[DECODE] = now[DECODE]
    BY <1>3, PhaseFacts
  <1>6. handed[DECODE] \in {now[DECODE], [now[DECODE] EXCEPT !.pc = MAX_INTEGER]}
    <2>1. handed[DECODE] = IF hazards THEN now[DECODE] ELSE HandedOn(now[FETCH], now[DECODE])
      <3> HIDE DEF hazards
      <3>1. DECODE - 1 = FETCH /\ DECODE # FETCH /\ DECODE # EXECUTE /\ DECODE \in Phases
        BY DEF DECODE, FETCH, EXECUTE, Phases, WRITE_BACK
      <3> QED BY <3>1
    <2>2. HandedOn(now[FETCH], now[DECODE]) = [now[DECODE] EXCEPT !.pc = MAX_INTEGER]
      BY <1>2, <1>3 DEF HandedOn
    <2> HIDE DEF handed, hazards
    <2> QED BY <2>1, <2>2
  <1>7. n.pipe_stages[DECODE] = [moved[DECODE] EXCEPT !.pc = MAX_INTEGER]
    <2>1. Vacated(moved, decode.halt)
            = [moved EXCEPT ![FETCH].pc = MAX_INTEGER, ![DECODE].pc = MAX_INTEGER]
      <3> HIDE DEF moved, decode
      <3> QED BY <1>2 DEF Vacated, decode
    <2>2. DOMAIN moved = Phases
      BY <1>3
    <2> HIDE DEF moved, decode
    <2> QED BY <1>4, <2>1, <2>2, PhaseFacts
  <1>8. moved[DECODE] \in {now[DECODE], [now[DECODE] EXCEPT !.pc = MAX_INTEGER]}
    <2> HIDE DEF waiting, handed
    <2> QED BY <1>5, <1>6
  <1> HIDE DEF moved, decode
  <1>9. now[DECODE] \in StageType
    BY <1>2, <1>3
  <1>10. moved[DECODE] \in StageType /\ moved[DECODE].instruction = now[DECODE].instruction
    BY <1>8, <1>9, EmptiedFacts, StageTypes
  <1> QED BY <1>2, <1>3, <1>7, <1>10, EmptiedFacts

\* A cycle, until a halt is decoded: what is counted keeps pace with the cycles.
LEMMA AccountedFlow ==
  ASSUME NEW k, NEW stalled, NEW memory, NEW n, Counting(k, stalled, memory, n),
         NEW cycles \in Nat, NEW counted \in Nat, Accounted(k, cycles, counted), ~k.is_pip_halt
  PROVE  Accounted(n, cycles + 1, counted + One(Legal(k)) + One(Stalled(n)))
  <1>1. cycles + 1 = counted + One(Legal(k))
    <2>1. cycles + One(Stalled(k)) = counted
      BY DEF Accounted
    <2>2. /\ Stalled(k) => One(Stalled(k)) = 1 /\ One(Legal(k)) = 0
          /\ ~Stalled(k) => One(Stalled(k)) = 0 /\ One(Legal(k)) = 1
      BY DEF Stalled, Legal, One
    <2> QED BY <2>1, <2>2
  <1>2. One(Stalled(n)) \in Nat /\ One(Legal(k)) \in Nat
    BY DEF One
  <1> DEFINE after == counted + One(Legal(k)) + One(Stalled(n))
  <1>3. after = cycles + 1 + One(Stalled(n)) /\ after \in Nat
    BY <1>1, <1>2
  <1> HIDE DEF after
  <1>4. CASE ~n.is_pip_halt
    BY <1>3, <1>4 DEF Accounted, after
  <1>5. CASE n.is_pip_halt
    <2>1. /\ Ends(k.pipe_stages[DECODE]) /\ ~Hazards(k)
          /\ n.is_mem_stall = stalled /\ n.is_data_stall = Hazards(k)
          /\ stalled \in BOOLEAN
      BY <1>5, DecodeMoved, CountingFacts
    <2>2. CASE stalled
      <3>1. One(Stalled(n)) = 1
        BY <2>1, <2>2 DEF Stalled, One
      <3>2. NamesNone(n.pipe_stages[DECODE].instruction)
        <4>1. n.pipe_stages[DECODE].instruction = k.pipe_stages[DECODE].instruction
          BY <2>2, CountingFacts DEF StallEffect
        <4>2. Countable(k)
          BY DEF Counting
        <4> QED BY <2>1, <4>1, <4>2, HaltInStage DEF NamesNone
      <3>3. Active(n.pipe_stages[MEM])
        <4>1. Active(k.pipe_stages[MEM])
          BY <2>2 DEF Counting, InMem, MemStage
        <4> QED BY <2>2, <4>1, StagesMoved
      <3>4. ToDrain(n) \in {2, 3}
        BY <3>3 DEF ToDrain
      <3> QED BY <1>3, <1>5, <3>1, <3>2, <3>4 DEF Accounted, after
    <2>3. CASE ~stalled
      <3>1. One(Stalled(n)) = 0
        BY <2>1, <2>3 DEF Stalled, One
      <3>2. Ends(n.pipe_stages[EXECUTE]) /\ Active(n.pipe_stages[EXECUTE])
        BY <2>1, <2>3, StagesMoved DEF Ends
      <3>3. HaltIsLast(n) /\ ToDrain(n) = 3
        BY <3>2 DEF HaltIsLast, ToDrain
      <3> QED BY <1>3, <1>5, <3>1, <3>3 DEF Accounted, after
    <2> QED BY <2>2, <2>3
  <1> QED BY <1>4, <1>5

\* A halt in WRITE_BACK, and nothing behind it, is no hazard.
LEMMA HaltAlone ==
  ASSUME NEW k, Countable(k), ~Active(k.pipe_stages[EXECUTE]), ~Active(k.pipe_stages[MEM]),
         Ends(k.pipe_stages[WRITE_BACK])
  PROVE  ~Hazards(k)
  <1>1. k.pipe_stages[WRITE_BACK].instruction.rd \in {REG_ZERO, REG_IMM}
    BY HaltInStage
  <1> QED BY <1>1 DEF Hazards, Conflict

\* A cycle that drains a halted core.
LEMMA AccountedDrain ==
  ASSUME NEW k, NEW stalled, NEW memory, NEW n, Counting(k, stalled, memory, n),
         NEW cycles \in Nat, NEW counted \in Nat, Accounted(k, cycles, counted),
         k.is_pip_halt, ~Drained(k)
  PROVE  Accounted(n, cycles + 1, counted + One(Legal(k)) + One(Stalled(n)))
  <1> DEFINE after == counted + One(Legal(k)) + One(Stalled(n))
  <1>1. One(Legal(k)) = 0 /\ One(Stalled(n)) \in {0, 1}
    BY DEF One, Legal
  <1>2. after = counted + One(Stalled(n)) /\ after \in Nat
    BY <1>1
  <1> HIDE DEF after
  <1>3. /\ Countable(k) /\ stalled \in BOOLEAN /\ n.is_pip_halt
        /\ n.is_mem_stall = stalled /\ n.is_data_stall = Hazards(k)
    BY CountingFacts DEF Counting
  <1>4. /\ cycles + ToDrain(k) <= counted + 3
        /\ \/ /\ NamesNone(k.pipe_stages[DECODE].instruction)
              /\ cycles + ToDrain(k) >= counted + 1
           \/ HaltIsLast(k) /\ cycles >= counted
           \/ cycles >= counted + 1
    BY DEF Accounted
  <1>5. n.pipe_stages[DECODE].instruction = k.pipe_stages[DECODE].instruction
    BY VacatedInstruction
  <1>6. ~Active(k.pipe_stages[FETCH]) /\ ~Active(k.pipe_stages[DECODE])
    BY <1>3 DEF Countable, Fetched
  <1>7. ToDrain(k) \in 0..3
    BY DEF ToDrain, One
  <1>8. CASE stalled
    <2>1. One(Stalled(n)) = 1
      BY <1>3, <1>8 DEF Stalled, One
    <2>2. Active(k.pipe_stages[MEM]) /\ ~Ends(k.pipe_stages[MEM])
      BY <1>8 DEF Counting, InMem, MemStage, Op, Ends, Accesses
    <2>3. ToDrain(n) = ToDrain(k)
      BY <1>8, <2>2, StagesMoved DEF ToDrain
    <2>4. HaltIsLast(k) => HaltIsLast(n)
      BY <1>8, <2>2, StagesMoved DEF HaltIsLast
    <2> QED BY <1>2, <1>3, <1>4, <1>5, <1>7, <2>1, <2>3, <2>4 DEF Accounted, after
  <1>9. CASE ~stalled
    <2>1. Stalled(n) <=> Hazards(k)
      BY <1>3, <1>9 DEF Stalled
    <2>2. /\ ~Active(n.pipe_stages[EXECUTE])
          /\ Active(n.pipe_stages[MEM]) <=> Active(k.pipe_stages[EXECUTE])
          /\ Ends(n.pipe_stages[MEM]) <=> Ends(k.pipe_stages[EXECUTE])
          /\ Active(n.pipe_stages[WRITE_BACK]) <=> Active(k.pipe_stages[MEM])
          /\ Ends(n.pipe_stages[WRITE_BACK]) <=> Ends(k.pipe_stages[MEM])
      BY <1>6, <1>9, StagesMoved
    <2>3. ToDrain(n) + 1 = ToDrain(k) /\ ToDrain(n) \in 0..3
      <3>1. \/ Active(k.pipe_stages[EXECUTE]) \/ Active(k.pipe_stages[MEM])
            \/ Active(k.pipe_stages[WRITE_BACK])
        BY <1>6, PhaseFacts DEF Drained
      <3> QED BY <2>2, <3>1 DEF ToDrain, One
    <2>4. NamesNone(k.pipe_stages[DECODE].instruction) => One(Stalled(n)) = 0
      BY <2>1, NoRegisters DEF NamesNone, One
    <2>5. HaltIsLast(k) => HaltIsLast(n) \/ One(Stalled(n)) = 0
      <3>1. Ends(k.pipe_stages[EXECUTE]) => HaltIsLast(n)
        BY <2>2 DEF HaltIsLast
      <3>2. ~Active(k.pipe_stages[EXECUTE]) /\ Ends(k.pipe_stages[MEM]) => HaltIsLast(n)
        BY <2>2 DEF HaltIsLast
      <3>3. /\ ~Active(k.pipe_stages[EXECUTE]) /\ ~Active(k.pipe_stages[MEM])
            /\ Ends(k.pipe_stages[WRITE_BACK])
            => One(Stalled(n)) = 0
        BY <1>3, <2>1, HaltAlone DEF One
      <3> QED BY <3>1, <3>2, <3>3 DEF HaltIsLast
    <2>6. cycles + 1 + ToDrain(n) <= after + 3
      BY <1>1, <1>2, <1>4, <2>3
    <2>7. \/ /\ NamesNone(n.pipe_stages[DECODE].instruction)
             /\ cycles + 1 + ToDrain(n) >= after + 1
          \/ HaltIsLast(n) /\ cycles + 1 >= after
          \/ cycles + 1 >= after + 1
      <3>1. CASE /\ NamesNone(k.pipe_stages[DECODE].instruction)
                 /\ cycles + ToDrain(k) >= counted + 1
        BY <1>1, <1>2, <1>5, <2>3, <2>4, <3>1
      <3>2. CASE HaltIsLast(k) /\ cycles >= counted
        BY <1>1, <1>2, <2>5, <3>2
      <3>3. CASE cycles >= counted + 1
        BY <1>1, <1>2, <3>3
      <3> QED BY <1>4, <3>1, <3>2, <3>3
    <2> QED BY <1>3, <2>6, <2>7 DEF Accounted, after
  <1> QED BY <1>3, <1>8, <1>9

\* A core that has drained has taken between one and three cycles more than are counted.
LEMMA AccountedDrained ==
  ASSUME NEW k, Drained(k), NEW cycles \in Nat, NEW counted \in Nat, Accounted(k, cycles, counted)
  PROVE  cycles >= counted + 1 /\ cycles <= counted + 3 /\ UnderWay(k) = 2
  <1>1. /\ k.is_pip_halt /\ ~Active(k.pipe_stages[EXECUTE]) /\ ~Active(k.pipe_stages[MEM])
        /\ ~Active(k.pipe_stages[WRITE_BACK])
    BY PhaseFacts DEF Drained
  <1>2. ToDrain(k) = 0 /\ ~HaltIsLast(k)
    BY <1>1 DEF ToDrain, HaltIsLast, One, Ends
  <1>3. UnderWay(k) = 2
    BY <1>1 DEF UnderWay, Works, One
  <1> QED BY <1>1, <1>2, <1>3 DEF Accounted

\* Nothing is on its way when a core starts.
LEMMA StartedCountable ==
  ASSUME NEW program \in AnyProgram, NEW last, Reaches(program, last),
         NEW k, k \in {Started(program), Terminated(Started(program))}
  PROVE  /\ k \in CoreType /\ k.program = program /\ InBounds(k, last) /\ Flowing(k)
         /\ UnderWay(k) = 0 /\ Accounted(k, 0, 0)
  <1> DEFINE s == Started(program)
  <1>1. /\ s.program = program /\ ~s.is_mem_stall /\ ~s.is_data_stall /\ ~s.is_pip_halt
        /\ \A p \in {DECODE, EXECUTE, MEM, WRITE_BACK} : ~Active(s.pipe_stages[p])
    BY StartedFacts
  <1>2. s \in CoreType /\ Fetched(s) /\ Bounded(s, last)
    BY StartedType, StartedBounded
  <1> HIDE DEF s
  <1>3. InBounds(s, last)
    BY <1>1, <1>2 DEF InBounds
  <1>4. InBounds(k, last) /\ k.program = s.program
    BY <1>3, TerminatedInBounds DEF s
  <1>5. /\ k.pipe_stages = s.pipe_stages /\ k.is_data_stall = s.is_data_stall
        /\ k.is_mem_stall = s.is_mem_stall /\ k.is_pip_halt = s.is_pip_halt
    BY <1>2, TerminatedFacts DEF s
  <1>6. Flowing(k) /\ UnderWay(k) = 0 /\ Accounted(k, 0, 0)
    BY <1>1, <1>5 DEF Flowing, UnderWay, Accounted, Stalled, Works, One
  <1> QED BY <1>1, <1>4, <1>6 DEF InBounds

\* The end of a core leaves what is on its way.
LEMMA TerminatedCountable ==
  ASSUME NEW k \in CoreType, NEW n, n = Terminated(k), Flowing(k), NEW cycles, NEW counted
  PROVE  /\ Flowing(n) /\ UnderWay(n) = UnderWay(k) /\ (Drained(k) => Drained(n))
         /\ Accounted(k, cycles, counted) => Accounted(n, cycles, counted)
  <1>1. /\ n.pipe_stages = k.pipe_stages /\ n.is_data_stall = k.is_data_stall
        /\ n.is_mem_stall = k.is_mem_stall /\ n.is_pip_halt = k.is_pip_halt
    BY TerminatedFacts
  <1>2. Flowing(n)
    BY <1>1 DEF Flowing, Stalled, InMem, MemStage, Op
  <1>3. UnderWay(n) = UnderWay(k)
    BY <1>1 DEF UnderWay, Stalled
  <1>4. Drained(k) => Drained(n)
    BY <1>1 DEF Drained
  <1>5. Accounted(k, cycles, counted) => Accounted(n, cycles, counted)
    BY <1>1 DEF Accounted, Stalled, ToDrain, HaltIsLast
  <1> QED BY <1>2, <1>3, <1>4, <1>5

\* The number of instructions on their way.
LEMMA UnderWayType ==
  ASSUME NEW k
  PROVE  UnderWay(k) \in Nat
  BY DEF UnderWay, One

=============================================================================
